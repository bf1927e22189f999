------------------------------ MODULE SlotPool ------------------------------
(***************************************************************************)
(* What the concurrency cap promises: each token has a pool of slots, a    *)
(* request holds at most one, and never do more requests hold one than the *)
(* token allows.                                                           *)
(***************************************************************************)
EXTENDS Integers, FiniteSets

CONSTANTS
    Requests, Creds,
    Cap            \* Cap[c]: slots of token c; zero or less for no limit

VARIABLE holders   \* holders[c]: the requests holding a slot of c

Init == holders = [c \in Creds |-> {}]

Take(r, c) ==
    /\ \A d \in Creds : r \notin holders[d]
    /\ Cap[c] <= 0 \/ Cardinality(holders[c]) < Cap[c]
    /\ holders' = [holders EXCEPT ![c] = @ \cup {r}]

GiveBack(r, c) ==
    /\ r \in holders[c]
    /\ holders' = [holders EXCEPT ![c] = @ \ {r}]

Next == \E r \in Requests, c \in Creds : Take(r, c) \/ GiveBack(r, c)

Spec == Init /\ [][Next]_holders
=============================================================================
