-------------------------- MODULE RequestLifecycle --------------------------
(***************************************************************************)
(* What a proxy promises each client: a request that was taken gets one    *)
(* answer, begun once and completed once, and it does get it.              *)
(***************************************************************************)
CONSTANT Requests

VARIABLE phase     \* phase[r]: "free", "open", "committed" or "closed"

Init == phase = [r \in Requests |-> "free"]

Move(r, from, to) == phase[r] = from /\ phase' = [phase EXCEPT ![r] = to]

Open(r)   == Move(r, "free", "open")
Commit(r) == Move(r, "open", "committed")
Close(r)  == Move(r, "open", "closed") \/ Move(r, "committed", "closed")
Free(r)   == Move(r, "closed", "free")

Next == \E r \in Requests : Open(r) \/ Commit(r) \/ Close(r) \/ Free(r)

(* At most one answer... *)
Safety == Init /\ [][Next]_phase

(* ...and a request that is open, committed or not, is closed sooner or later. *)
Spec == Safety /\ \A r \in Requests : WF_phase(Close(r))
=============================================================================
