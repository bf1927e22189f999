------------------------------ MODULE Lockout ------------------------------
(***************************************************************************)
(* The failed-authentication lockout of internal/server/ratelimit.go and   *)
(* its three calls in handleAPI: IsBanned, then the token lookup, then     *)
(* Fail or Success.  Each call takes l.mu by itself, so the three calls of *)
(* concurrent requests from one address interleave freely.                 *)
(*                                                                         *)
(* Time, as in Breaker, is counted from the present: age is now - first    *)
(* (no more than FailWindow + 1, beyond which nothing changes), ban is the *)
(* time left before bannedUntil.                                           *)
(***************************************************************************)
EXTENDS Integers, Sequences, FiniteSets

CONSTANTS
    Requests,      \* the goroutines that serve requests
    IPs,           \* client addresses
    MaxFails,      \* "N/W -> B" of security.auth_fail_lockout: N,
    FailWindow,    \* W
    BanFor         \* and B, in ticks

ASSUME LockoutAssumption ==
    MaxFails \in Nat /\ FailWindow \in Nat /\ BanFor \in Nat /\ "" \notin IPs

VARIABLES
    lock,          \* lock[ip]: the failState of ip; count 0 stands for no entry
    caller         \* caller[r]: "" or the address whose request r passed IsBanned

lockoutVars == <<lock, caller>>

NoEntry == [count |-> 0, age |-> 0, ban |-> 0]

LockoutInit ==
    /\ lock = [ip \in IPs |-> NoEntry]
    /\ caller = [r \in Requests |-> ""]

(* The definitions named Bug... are seeded faults, as in Breaker. *)
BugNeverBanned(ip) == FALSE

IsBanned(ip) == lock[ip].ban > 0

BugWindowIgnored(s) == s.count = 0

(* No entry yet, or its window is over: counting starts anew. *)
StartsAnew(s) == s.count = 0 \/ s.age > FailWindow

BugBanAccumulates(s) ==
    IF StartsAnew(s) THEN [count |-> 1, age |-> 0, ban |-> 0]
    ELSE [s EXCEPT !.count = @ + 1, !.ban = IF s.count + 1 >= MaxFails THEN @ + BanFor ELSE @]

(* The entry after one more failure.  A new entry is not compared with     *)
(* maxFails and has no bannedUntil.                                        *)
AfterFail(s) ==
    IF StartsAnew(s) THEN [count |-> 1, age |-> 0, ban |-> 0]
    ELSE [s EXCEPT !.count = @ + 1, !.ban = IF s.count + 1 >= MaxFails THEN BanFor ELSE @]

Fail(ip)    == lock' = [lock EXCEPT ![ip] = AfterFail(@)]
Success(ip) == lock' = [lock EXCEPT ![ip] = NoEntry]

LockTick ==
    lock' = [ip \in IPs |->
        IF lock[ip].count = 0 THEN NoEntry
        ELSE [lock[ip] EXCEPT !.age = IF @ > FailWindow THEN @ ELSE @ + 1,
                              !.ban = IF @ > 0 THEN @ - 1 ELSE 0]]

-----------------------------------------------------------------------------
(* The calls of handleAPI. *)

Admit(r, ip) ==
    /\ caller[r] = "" /\ ~IsBanned(ip)
    /\ caller' = [caller EXCEPT ![r] = ip]
    /\ UNCHANGED lock

AuthFails(r) ==
    /\ caller[r] # ""
    /\ Fail(caller[r])
    /\ caller' = [caller EXCEPT ![r] = ""]

AuthSucceeds(r) ==
    /\ caller[r] # ""
    /\ Success(caller[r])
    /\ caller' = [caller EXCEPT ![r] = ""]

Clock == LockTick /\ UNCHANGED caller

LockoutNext ==
    \/ \E r \in Requests : AuthFails(r) \/ AuthSucceeds(r) \/ (\E ip \in IPs : Admit(r, ip))
    \/ Clock

LockoutSpec == LockoutInit /\ [][LockoutNext]_lockoutVars

-----------------------------------------------------------------------------
(* Properties *)

(* However many requests fail at once, a ban is never longer than BanFor:   *)
(* a late failure restarts it, bans do not add up.                         *)
LockoutTypeOK ==
    /\ lock \in [IPs -> [count : Nat, age : 0 .. FailWindow + 1, ban : 0 .. BanFor]]
    /\ caller \in [Requests -> IPs \cup {""}]

(* IsBanned before, Fail after the lookup: requests that were let in       *)
(* before a ban may fail after it and push its end away, but only those,   *)
(* so a ban does not go on for ever however persistently the address is    *)
(* used.                                                                   *)
BanIsTemporary == \A ip \in IPs : IsBanned(ip) ~> ~IsBanned(ip)
=============================================================================
