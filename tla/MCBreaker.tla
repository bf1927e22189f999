----------------------------- MODULE MCBreaker -----------------------------
(* Model checking of Breaker, of its refinement of CircuitBreaker and of   *)
(* its recovery.  The tracker keeps nothing that two models share, so two  *)
(* models are enough to see every interplay (Tick moves both deadlines); a *)
(* window of four with a minimum of two lets failures sit in the window    *)
(* behind successes.  BreakerRecovery restricts no order of outcomes: an   *)
(* upstream may fail or come back between any two attempts.                *)
EXTENDS BreakerRefinement, BreakerRecovery
=============================================================================
