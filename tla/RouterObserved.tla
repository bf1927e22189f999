--------------------------- MODULE RouterObserved ---------------------------
(***************************************************************************)
(* Router with a history variable: for each call, the models that have     *)
(* been broken, or unbroken, at every moment since it began.  A decision   *)
(* is made of looks at different moments, so it can only be judged by what *)
(* held throughout.                                                        *)
(***************************************************************************)
EXTENDS Router

VARIABLE steady    \* steady[r]: [up, down], sets of models

BrokenModels == {m \in Models : IsBroken(m)}

observedVars == <<RouterVars, steady>>

ObservedInit ==
    /\ RouterInit /\ BreakerInit
    /\ steady = [r \in Requests |-> [up |-> Models, down |-> {}]]

(* The sets start over while a request is outside Resolve. *)
Observe ==
    steady' = [r \in Requests |->
        IF call[r].pc = "idle" \/ call'[r].pc = "idle"
          THEN [up |-> Models \ BrokenModels', down |-> BrokenModels']
          ELSE IF call[r].pc = "scan"
          THEN [up |-> steady[r].up \ BrokenModels', down |-> steady[r].down \cap BrokenModels']
          ELSE steady[r]]

ObservedNext == RouterNext /\ Observe

ObservedSpec == ObservedInit /\ [][ObservedNext]_observedVars

(* The fairness of Router.  Observe never stands in the way of a step. *)
ObservedFairSpec == ObservedSpec /\ RouterFairness

(* skipBroken and the round-robin scan: a model broken during the whole    *)
(* call is handed out only if no model of the route was usable during the  *)
(* whole call, and in fallback mode no model that was usable throughout is *)
(* left out, however results and ticks interleave with the looks.          *)
DecisionRespectsHealth ==
    \A r \in Requests :
        LET rt   == call[r].route
            out  == RangeOf(call[r].cands)
            good == steady[r].up \cap RangeOf(ModelsOf(rt))
        IN  call[r].pc = "resolved" /\ ModeOf(rt) # "single" =>
              /\ good # {} => out \cap steady[r].down = {}
              /\ ModeOf(rt) = "fallback" => good \subseteq out
=============================================================================
