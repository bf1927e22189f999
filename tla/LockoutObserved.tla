-------------------------- MODULE LockoutObserved --------------------------
(***************************************************************************)
(* Lockout with a history variable: the ages of the last MaxFails failures *)
(* of each address, which is all that a ban may depend on.                 *)
(***************************************************************************)
EXTENDS Lockout

VARIABLE failed    \* failed[ip][k]: age of the k-th latest failure since a success

vars == <<lockoutVars, failed>>

(* No such failure, or one that has left the window. *)
Forgotten == FailWindow + 1

None == [k \in 1 .. MaxFails |-> Forgotten]

Init == LockoutInit /\ failed = [ip \in IPs |-> None]

(* One more failure, now. *)
Later(ages) == [k \in 1 .. MaxFails |-> IF k = 1 THEN 0 ELSE ages[k - 1]]

Older(ages) == [k \in 1 .. MaxFails |-> IF ages[k] = Forgotten THEN Forgotten ELSE ages[k] + 1]

Note(ip, ages) == failed' = [failed EXCEPT ![ip] = ages]

Elapse == Clock /\ failed' = [ip \in IPs |-> Older(failed[ip])]

Next ==
    \/ \E r \in Requests :
         \/ AuthFails(r) /\ Note(caller[r], Later(failed[caller[r]]))
         \/ AuthSucceeds(r) /\ Note(caller[r], None)
         \/ \E ip \in IPs : Admit(r, ip) /\ UNCHANGED failed
    \/ Elapse

Spec == Init /\ [][Next]_vars

(* Only time is assumed to go on. *)
FairSpec == Spec /\ WF_vars(Elapse)

(* The address has failed MaxFails times within the window and not         *)
(* succeeded between; MaxFails may be 0.                                   *)
Earned(ages) == \A k \in 1 .. MaxFails : ages[k] <= FailWindow

(* Fail: a ban is imposed, or prolonged, only at a moment when the address *)
(* has failed MaxFails times within the window without a success between,  *)
(* whatever the requests that were in flight meanwhile.                    *)
BanIsEarned ==
    [][\A ip \in IPs : lock'[ip].ban > lock[ip].ban => Earned(failed'[ip])]_vars
=============================================================================
