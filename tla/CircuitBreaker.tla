--------------------------- MODULE CircuitBreaker ---------------------------
(***************************************************************************)
(* What a circuit breaker promises its callers, without windows or clocks: *)
(* each model is closed, open or half-open.  An open breaker can only      *)
(* lapse to half-open (its cooldown is over) and only a half-open one can  *)
(* be closed again.  Any attempt may open it or keep it open.              *)
(***************************************************************************)
CONSTANT Models

VARIABLE state

States == {"closed", "open", "halfopen"}

Init == state = [m \in Models |-> "closed"]

(* An attempt ends and the breaker opens, or is kept open. *)
Trip(m) == state' = [state EXCEPT ![m] = "open"]

(* The cooldown of the models in S ends. *)
Lapse(S) ==
    /\ \A m \in S : state[m] = "open"
    /\ state' = [m \in Models |-> IF m \in S THEN "halfopen" ELSE state[m]]

(* A successful attempt on a model past its cooldown closes its breaker. *)
Close(m) ==
    /\ state[m] = "halfopen"
    /\ state' = [state EXCEPT ![m] = "closed"]

Next ==
    \/ \E m \in Models : Trip(m) \/ Close(m)
    \/ \E S \in SUBSET Models : Lapse(S)

Spec == Init /\ [][Next]_state
=============================================================================
