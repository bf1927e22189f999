------------------------------ MODULE MCProxy ------------------------------
(* Instances of Proxy: constants and route tables. *)
EXTENDS Proxy

CONSTANTS m1, m2, saver

Route(mode, models) ==
    [mode |-> mode, models |-> models, via |-> "", noVia |-> FALSE, viaReq |-> FALSE]

(* One request at a time over every kind of route, token and header. *)
AllRoutes ==
    [one    |-> Route("single", <<m2>>),
     solid  |-> Route("fallback", <<m1, m2>>),
     robin  |-> Route("round", <<m1, m2>>),
     saved  |-> [Route("fallback", <<m1, m2>>) EXCEPT !.via = saver],
     strict |-> [Route("fallback", <<m1, m2>>) EXCEPT !.via = saver, !.viaReq = TRUE]]

(* One fallback route. *)
SolidOnly == [solid |-> Route("fallback", <<m1, m2>>)]

(* Behind a model whose provider was removed and one that may fail. *)
SolidThree == [solid |-> Route("fallback", <<"gone", m1, m2>>)]
=============================================================================
