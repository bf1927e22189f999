------------------------------- MODULE MCStore -------------------------------
(* An instance of Store: a day of two seconds and four times, before, on the  *)
(* stroke of a day, within its first second, and later.                      *)
EXTENDS Store, TLC

Moments == {150, 200, 250, 350}

Terms == {Never, 100}

Symmetry == Permutations(Admins) \cup Permutations(Ids) \cup Permutations(Secrets)
=============================================================================
