----------------------------- MODULE Credentials -----------------------------
(***************************************************************************)
(* What bearer tokens promise: a secret is good from its issue until it is *)
(* withdrawn, and never again; who was told that a secret is withdrawn can *)
(* rely on it; and a client is let in only with a secret that was good     *)
(* when it asked and still is within its term.                             *)
(***************************************************************************)
CONSTANTS Secrets, Clients

VARIABLES live,         \* the secrets that are good
          spent,        \* those that were good or never will be
          told,         \* those announced to be withdrawn
          hopeful,      \* clients that asked with a good secret
          admitted      \* clients that were let in

credVars == <<live, spent, told, hopeful, admitted>>

Init == /\ live = {} /\ spent = {} /\ told = {}
        /\ hopeful = {} /\ admitted = {}

Fresh(s) == s \in Secrets \ (live \cup spent)

Issue(s) ==
    /\ Fresh(s)
    /\ live' = live \cup {s}
    /\ UNCHANGED <<spent, told, hopeful, admitted>>

\* A secret that is lost before its issue, or issued past its term.
Discard(s) ==
    /\ Fresh(s)
    /\ spent' = spent \cup {s}
    /\ UNCHANGED <<live, told, hopeful, admitted>>

Replace(old, new) ==
    /\ old \in live /\ Fresh(new)
    /\ live' = (live \ {old}) \cup {new} /\ spent' = spent \cup {old}
    /\ UNCHANGED <<told, hopeful, admitted>>

Withdraw(S) ==
    /\ S \subseteq live
    /\ live' = live \ S /\ spent' = spent \cup S
    /\ hopeful' \subseteq hopeful
    /\ UNCHANGED <<told, admitted>>

Announce(S) ==
    /\ S \subseteq spent
    /\ told' = told \cup S
    /\ UNCHANGED <<live, spent, hopeful, admitted>>

Ask(c, s) ==
    /\ c \notin admitted
    /\ hopeful' = IF s \in live THEN hopeful \cup {c} ELSE hopeful \ {c}
    /\ UNCHANGED <<live, spent, told, admitted>>

Admit(c) ==
    /\ c \in hopeful
    /\ hopeful' = hopeful \ {c} /\ admitted' = admitted \cup {c}
    /\ UNCHANGED <<live, spent, told>>

Refuse(c) ==
    /\ hopeful' = hopeful \ {c}
    /\ UNCHANGED <<live, spent, told, admitted>>

Leave(c) ==
    /\ admitted' = admitted \ {c}
    /\ UNCHANGED <<live, spent, told, hopeful>>

Next ==
    \/ \E s \in Secrets : Issue(s) \/ Discard(s)
    \/ \E old, new \in Secrets : Replace(old, new)
    \/ \E S \in SUBSET Secrets : Withdraw(S) \/ Announce(S)
    \/ \E c \in Clients : (\E s \in Secrets : Ask(c, s)) \/ Admit(c) \/ Refuse(c) \/ Leave(c)

Spec == Init /\ [][Next]_credVars
=============================================================================
