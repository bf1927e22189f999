-------------------------- MODULE BreakerRecovery --------------------------
(***************************************************************************)
(* The tracker inside an environment whose upstreams fail and come back,   *)
(* to ask whether a model that works again is ever trusted again.  The     *)
(* outcome of every attempt is the upstream's condition when it ends.      *)
(***************************************************************************)
EXTENDS Breaker

VARIABLE up        \* up[m]: attempts on m currently succeed

vars == <<breakerVars, up>>

Init == BreakerInit /\ up = [m \in Models |-> TRUE]

(* Routing sends an attempt to a model the breaker lets through. *)
Attempt(m) == ~IsBroken(m) /\ Record(m, up[m]) /\ UNCHANGED up

(* A single-mode route, a route whose models are all broken, or an attempt *)
(* already in flight records an outcome although the model is broken.      *)
LateAttempt(m) == IsBroken(m) /\ Record(m, up[m]) /\ UNCHANGED up

Fail(m)    == up[m] /\ up' = [up EXCEPT ![m] = FALSE] /\ UNCHANGED breakerVars
Restore(m) == ~up[m] /\ up' = [up EXCEPT ![m] = TRUE] /\ UNCHANGED breakerVars

Clock == Tick /\ UNCHANGED up

Next ==
    \/ \E m \in Models : Attempt(m) \/ LateAttempt(m) \/ Fail(m) \/ Restore(m)
    \/ Clock

(* Time passes, and clients keep asking for each model while the breaker   *)
(* lets it through: strong fairness, because the periods in which it does  *)
(* may each be short.  Nothing is assumed of late attempts, failures and   *)
(* repairs.                                                                *)
Fairness == WF_vars(Clock) /\ \A m \in Models : SF_vars(Attempt(m))

Spec == Init /\ [][Next]_vars /\ Fairness

(* Record and IsBroken: once a model's upstream is up for good the breaker *)
(* closes for good and its reason is erased, however often the failures    *)
(* left in the window re-open it on the way.                               *)
Recovers ==
    \A m \in Models : <>[]up[m] => <>[](~IsBroken(m) /\ ~reason[m])

(* And the breaker protects: once a model's upstream is down for good the  *)
(* model keeps being taken out of rotation.                                *)
DeadModelIsolated ==
    \A m \in Models : <>[]~up[m] => []<>IsBroken(m)
=============================================================================
