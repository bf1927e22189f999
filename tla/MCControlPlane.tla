--------------------------- MODULE MCControlPlane ---------------------------
(***************************************************************************)
(* The instance of ControlPlaneObserved that TLC checks: two eco processes *)
(* beginning two commands between them, on a first run, a small setup, one *)
(* with two of everything, and one whose configuration does not parse.     *)
(***************************************************************************)
EXTENDS ControlPlaneObserved, TLC

CONSTANTS a, b, p1, p2, r1, r2, s1, s2, anyone, changed

MCTyped == {{p1}, {p2}}

Provider(keyed, listed) == [keyed |-> keyed, listed |-> listed]

Small == [Default EXCEPT
    !.providers = p1 :> Provider(TRUE, TRUE), !.routes = r1 :> {p1},
    !.active = r1, !.savers = {s1}, !.saverDefault = s1,
    !.access = {<<"allow", anyone>>}]

Two == [Default EXCEPT
    !.providers = p1 :> Provider(TRUE, TRUE) @@ p2 :> Provider(FALSE, TRUE),
    !.routes = r1 :> {p1} @@ r2 :> {p2}, !.active = r1,
    !.savers = {s1, s2}, !.saverDefault = s1]

Holding(config, secrets, prices) ==
    [config |-> config, secrets |-> secrets, prices |-> prices]

MCSeeds == {Holding(Empty, Empty, Empty), Holding(Small, {p1}, {p1}),
            Holding(Two, {p1}, Garbled), Holding(Garbled, Garbled, Empty)}

MCSymmetry == Permutations(Procs)
=============================================================================
