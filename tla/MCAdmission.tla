---------------------------- MODULE MCAdmission ----------------------------
(* Instances of Admission: constants given as functions of the tokens. *)
EXTENDS Admission, TLC

CONSTANTS c1, c2

Both(x, y) == c1 :> x @@ c2 :> y

OneToken(x) == c1 :> x

(* One token with a small rate under a global one. *)
SmallBurst == OneToken(1)

(* Two slots, for three requests. *)
TwoSlots == OneToken(2)

None1 == OneToken(0)
None2 == Both(0, 0)

(* A capped token and one that only the global cap holds. *)
SpendCaps == Both(1, 0)
=============================================================================
