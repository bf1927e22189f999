------------------------- MODULE BreakerRefinement -------------------------
(***************************************************************************)
(* health.Tracker implements CircuitBreaker.  A model is open while        *)
(* IsBroken reports it, half-open while the break is over but its reason   *)
(* has not been erased by a success, and closed otherwise.                 *)
(***************************************************************************)
EXTENDS Breaker

StateOf(m) == IF IsBroken(m) THEN "open"
              ELSE IF reason[m] THEN "halfopen" ELSE "closed"

CB == INSTANCE CircuitBreaker WITH state <- [m \in Models |-> StateOf(m)]

(* Every step of the tracker is a step of the abstract breaker: no call to *)
(* Record takes a model from open to closed without the half-open stage,   *)
(* whatever the order in which results come in.                            *)
ImplementsCircuitBreaker == CB!Spec
=============================================================================
