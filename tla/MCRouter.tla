------------------------------ MODULE MCRouter ------------------------------
(* Instances of RouterObserved: constants and route tables. *)
EXTENDS RouterObserved

CONSTANTS m1, m2

Route(mode, models) ==
    [mode |-> mode, models |-> models, via |-> "", noVia |-> FALSE, viaReq |-> FALSE]

(* The two modes that scan.  The spelling Fallback is one Resolve accepts. *)
(* Refusals and single mode keep nothing back: see MCProxy.                *)
ScannedRoutes ==
    [solid |-> Route("Fallback", <<m1, m2>>),
     robin |-> Route("round", <<m1, m2>>)]
=============================================================================
