----------------------------- MODULE Admission -----------------------------
(***************************************************************************)
(* handleAPI of internal/server/server.go: the gates a request passes, in  *)
(* the order of the code, before it is served: address, lockout, token,    *)
(* rate, daily spend, concurrency.  Every gate takes its own lock or asks  *)
(* the database by itself, so each is a step and requests interleave       *)
(* between any two of them.  Serving (handleProxy, see Proxy, or           *)
(* handleModels) is one stage here, which ends with or without an activity *)
(* row that carries a cost.                                                *)
(***************************************************************************)
EXTENDS Integers, FiniteSets, FiniteSetsExt

CONSTANTS
    Requests,      \* the goroutines that serve requests
    IPs,           \* client addresses
    Allow, Deny,   \* AccessControl's lists: sets of networks, sets of addresses
    MaxFails, FailWindow, BanFor,    \* see Lockout
    Creds,         \* the tokens, each with the plaintext it was issued with
    NoCred,        \* a request without a valid token
    Burst,         \* Burst[c]: bucket size of c's rate, 0 if it does not parse
    GlobalBurst,   \* bucket size of the global rate, 0 if there is none
    DailyCap,      \* DailyCap[c]: daily spend cap of c, 0 for none
    GlobalCap,     \* security.global_daily_cap
    MaxConc,       \* MaxConc[c]: concurrency cap of c, zero or less for none
    MaxCost,       \* the most one request is estimated to cost
    DBFails        \* whether queries on the activity table may fail

ASSUME AdmissionAssumption ==
    /\ IsFiniteSet(Requests) /\ IsFiniteSet(Creds) /\ NoCred \notin Creds
    /\ Allow \cup Deny \subseteq SUBSET IPs
    /\ MaxFails \in Nat /\ FailWindow \in Nat /\ BanFor \in Nat
    /\ Burst \in [Creds -> Nat] /\ GlobalBurst \in Nat
    /\ DailyCap \in [Creds -> Nat] /\ GlobalCap \in Nat
    /\ MaxConc \in [Creds -> Int]
    /\ MaxCost \in Nat /\ DBFails \in BOOLEAN

ASSUME AddressAssumption == "" \notin IPs

VARIABLES
    adm,           \* adm[r]: the progress of the request in slot r
    lock,          \* the lockout's entries, as in Lockout
    live,          \* live[c]: c's plaintext verifies, unrevoked and unexpired
    bucket,        \* bucket[c]: whole tokens left in c's limiter
    globalBucket,
    inflight,      \* Concurrency.inflight
    spent          \* spent[c]: cost_estimate of c summed over today's rows

vars == <<adm, lock, live, bucket, globalBucket, inflight, spent>>

(* pc: the gate the request is at.  dead: its token was no longer valid    *)
(* when it arrived.  today: it began to be served after the last midnight. *)
NoAdm == [pc |-> "idle", ip |-> "", cred |-> NoCred, dead |-> FALSE, today |-> TRUE]

(* The lockout as its own module sees it: a request is its caller between  *)
(* IsBanned and Fail or Success.                                           *)
L == INSTANCE Lockout WITH
       caller <- [r \in Requests |->
                    IF adm[r].pc \in {"lookup", "fail", "forgive"} THEN adm[r].ip ELSE ""]

Init ==
    /\ adm = [r \in Requests |-> NoAdm]
    /\ lock = [ip \in IPs |-> L!NoEntry]
    /\ live = [c \in Creds |-> TRUE]
    /\ bucket = [c \in Creds |-> Burst[c]]
    /\ globalBucket = GlobalBurst
    /\ inflight = [c \in Creds |-> 0]
    /\ spent = [c \in Creds |-> 0]

At(r, pc) == adm[r].pc = pc

GoTo(r, pc) == adm' = [adm EXCEPT ![r].pc = pc]

-----------------------------------------------------------------------------
(* The gates. *)

(* No network on the allow list lets everybody in; the deny list always    *)
(* counts.                                                                 *)
Allowed(ip) ==
    /\ \A net \in Deny : ip \notin net
    /\ Allow = {} \/ \E net \in Allow : ip \in net

Arrive(r, ip, cred) ==
    /\ At(r, "idle")
    /\ adm' = [adm EXCEPT ![r] = [NoAdm EXCEPT
                 !.pc   = IF Allowed(ip) THEN "ban" ELSE "done",
                 !.ip   = ip, !.cred = cred,
                 !.dead = cred = NoCred \/ ~live[cred]]]
    /\ UNCHANGED <<lock, live, bucket, globalBucket, inflight, spent>>

BugSkipsBan(r) ==
    /\ At(r, "ban")
    /\ GoTo(r, "lookup")
    /\ UNCHANGED <<lock, live, bucket, globalBucket, inflight, spent>>

CheckBan(r) ==
    /\ At(r, "ban")
    /\ GoTo(r, IF L!IsBanned(adm[r].ip) THEN "done" ELSE "lookup")
    /\ UNCHANGED <<lock, live, bucket, globalBucket, inflight, spent>>

BugTrustsArrival(r) == adm[r].cred # NoCred

(* FindTokenByPlaintext reads the unrevoked tokens at this moment. *)
Verifies(r) == adm[r].cred # NoCred /\ live[adm[r].cred]

Lookup(r) ==
    /\ At(r, "lookup")
    /\ GoTo(r, IF Verifies(r) THEN "forgive" ELSE "fail")
    /\ UNCHANGED <<lock, live, bucket, globalBucket, inflight, spent>>

AuthFailed(r) ==
    /\ At(r, "fail")
    /\ L!Fail(adm[r].ip)
    /\ GoTo(r, "done")
    /\ UNCHANGED <<live, bucket, globalBucket, inflight, spent>>

Forgive(r) ==
    /\ At(r, "forgive")
    /\ L!Success(adm[r].ip)
    /\ GoTo(r, "rate")
    /\ UNCHANGED <<live, bucket, globalBucket, inflight, spent>>

(* RateLimiter.Allow, under rl.mu.  The global bucket is asked first, and  *)
(* its token stays spent when the token's own bucket then refuses.         *)
GlobalAllows == GlobalBurst = 0 \/ globalBucket > 0
BugNeverEmpty(c) == TRUE
OwnAllows(c) == Burst[c] = 0 \/ bucket[c] > 0

RateCheck(r) ==
    LET c == adm[r].cred IN
    /\ At(r, "rate")
    /\ globalBucket' = IF GlobalBurst > 0 /\ GlobalAllows THEN globalBucket - 1 ELSE globalBucket
    /\ bucket' = IF GlobalAllows /\ Burst[c] > 0 /\ OwnAllows(c)
                   THEN [bucket EXCEPT ![c] = @ - 1] ELSE bucket
    /\ GoTo(r, IF GlobalAllows /\ OwnAllows(c) THEN "spend" ELSE "done")
    /\ UNCHANGED <<lock, live, inflight, spent>>

BugOverCap(sum, cap) == cap > 0 /\ sum > cap

OverCap(sum, cap) == cap > 0 /\ sum >= cap

QueryFails == IF DBFails THEN BOOLEAN ELSE {FALSE}

(* checkSpend, first query: the token's own rows.  A query that fails lets *)
(* the request through.                                                    *)
SpendCheck(r, failed) ==
    /\ At(r, "spend") /\ failed \in QueryFails
    /\ GoTo(r, IF ~failed /\ OverCap(spent[adm[r].cred], DailyCap[adm[r].cred])
                 THEN "done" ELSE "spendAll")
    /\ UNCHANGED <<lock, live, bucket, globalBucket, inflight, spent>>

TotalSpent == MapThenSumSet(LAMBDA c : spent[c], Creds)

(* checkSpend, second query: the rows of all tokens. *)
SpendCheckAll(r, failed) ==
    /\ At(r, "spendAll") /\ failed \in QueryFails
    /\ GoTo(r, IF ~failed /\ OverCap(TotalSpent, GlobalCap) THEN "done" ELSE "acquire")
    /\ UNCHANGED <<lock, live, bucket, globalBucket, inflight, spent>>

BugAtCapAllowed(c) == MaxConc[c] <= 0 \/ inflight[c] <= MaxConc[c]

HasSlot(c) == MaxConc[c] <= 0 \/ inflight[c] < MaxConc[c]

Acquire(r) ==
    LET c == adm[r].cred IN
    /\ At(r, "acquire")
    /\ GoTo(r, IF HasSlot(c) THEN "serve" ELSE "done")
    /\ inflight' = IF MaxConc[c] > 0 /\ HasSlot(c) THEN [inflight EXCEPT ![c] = @ + 1] ELSE inflight
    /\ UNCHANGED <<lock, live, bucket, globalBucket, spent>>

(* The request ends with an activity row: its cost counts for the day in   *)
(* which handleProxy began, which is the row's timestamp.                  *)
ServeLogged(r, cost, failed) ==
    LET c == adm[r].cred IN
    /\ At(r, "serve") /\ failed \in QueryFails
    /\ GoTo(r, "release")
    /\ spent' = IF adm[r].today /\ ~failed THEN [spent EXCEPT ![c] = @ + cost] ELSE spent
    /\ UNCHANGED <<lock, live, bucket, globalBucket, inflight>>

(* The model list, a refusal of handleProxy, or a panic: no row. *)
ServeUnlogged(r) ==
    /\ At(r, "serve")
    /\ GoTo(r, "release")
    /\ UNCHANGED <<lock, live, bucket, globalBucket, inflight, spent>>

BugReleasesNothing(c) == inflight[c]

Freed(c) == IF MaxConc[c] > 0 /\ inflight[c] > 0 THEN inflight[c] - 1 ELSE inflight[c]

(* The deferred Release. *)
Release(r) ==
    LET c == adm[r].cred IN
    /\ At(r, "release")
    /\ GoTo(r, "done")
    /\ inflight' = [inflight EXCEPT ![c] = Freed(c)]
    /\ UNCHANGED <<lock, live, bucket, globalBucket, spent>>

Reuse(r) ==
    /\ At(r, "done")
    /\ adm' = [adm EXCEPT ![r] = NoAdm]
    /\ UNCHANGED <<lock, live, bucket, globalBucket, inflight, spent>>

-----------------------------------------------------------------------------
(* The rest of the world. *)

(* eco token revoke or rotate, or the token's expiry. *)
Invalidate(c) ==
    /\ live[c]
    /\ live' = [live EXCEPT ![c] = FALSE]
    /\ UNCHANGED <<adm, lock, bucket, globalBucket, inflight, spent>>

Refill(level, burst) == IF level < burst THEN level + 1 ELSE level

Tick ==
    /\ L!LockTick
    /\ bucket' = [c \in Creds |-> Refill(bucket[c], Burst[c])]
    /\ globalBucket' = Refill(globalBucket, GlobalBurst)
    /\ UNCHANGED <<adm, live, inflight, spent>>

(* UTC midnight: DailySpend starts from nothing, and rows of requests that *)
(* are being served will carry yesterday's date.                           *)
Midnight ==
    /\ spent' = [c \in Creds |-> 0]
    /\ adm' = [r \in Requests |-> [adm[r] EXCEPT !.today = @ /\ ~At(r, "serve")]]
    /\ UNCHANGED <<lock, live, bucket, globalBucket, inflight>>

Handler(r) ==
    \/ CheckBan(r) \/ Lookup(r) \/ AuthFailed(r) \/ Forgive(r)
    \/ RateCheck(r)
    \/ \E failed \in BOOLEAN : SpendCheck(r, failed) \/ SpendCheckAll(r, failed)
    \/ Acquire(r)
    \/ \E cost \in 0 .. MaxCost, failed \in BOOLEAN : ServeLogged(r, cost, failed)
    \/ ServeUnlogged(r)
    \/ Release(r)

Next ==
    \/ \E r \in Requests :
         \/ \E ip \in IPs, cred \in Creds \cup {NoCred} : Arrive(r, ip, cred)
         \/ Handler(r)
         \/ Reuse(r)
    \/ \E c \in Creds : Invalidate(c)
    \/ Tick
    \/ Midnight

Spec == Init /\ [][Next]_vars

(* A goroutine that serves a request goes on: its locks are held for a few *)
(* instructions, its queries return, and serving ends (Proxy, AnswersOnce).*)
FairSpec == Spec /\ \A r \in Requests : WF_vars(Handler(r))

-----------------------------------------------------------------------------
(* Properties *)

Gates == {"idle", "ban", "lookup", "fail", "forgive", "rate", "spend", "spendAll",
          "acquire", "serve", "release", "done"}

AdmissionTypeOK ==
    /\ adm \in [Requests -> [pc : Gates, ip : IPs \cup {""}, cred : Creds \cup {NoCred},
                             dead : BOOLEAN, today : BOOLEAN]]
    /\ lock \in [IPs -> [count : Nat, age : 0 .. FailWindow + 1, ban : 0 .. BanFor]]
    /\ live \in [Creds -> BOOLEAN]
    /\ \A c \in Creds : bucket[c] \in 0 .. Burst[c]
    /\ globalBucket \in 0 .. GlobalBurst
    /\ inflight \in [Creds -> Nat]
    /\ spent \in [Creds -> Nat]

(* The gates keep the lockout's calls in its order: what handleAPI does to *)
(* the entries is a behaviour of Lockout, whose properties it inherits.    *)
UsesLockout == L!LockoutSpec

(* A request past Acquire has not yet run its deferred Release. *)
Holders(c) == {r \in Requests : adm[r].cred = c /\ adm[r].pc \in {"serve", "release"}}

(* Acquire and Release over every way a request can end: the counter of a  *)
(* capped token is exactly the number of its requests in service, so no    *)
(* slot leaks and none is given back twice; an uncapped one stays at zero. *)
InflightExact ==
    \A c \in Creds :
        inflight[c] = IF MaxConc[c] > 0 THEN Cardinality(Holders(c)) ELSE 0

(* "concurrency caps": a token never has more requests in service than its *)
(* cap, though the check comes several gates after the token was read.     *)
CapRespected ==
    \A c \in Creds : MaxConc[c] > 0 => Cardinality(Holders(c)) <= MaxConc[c]

SP == INSTANCE SlotPool WITH Cap <- MaxConc, holders <- [c \in Creds |-> Holders(c)]

(* Seen through its slots only, the admission of requests is the pool.     *)
ImplementsSlotPool == SP!Spec

(* A token at its cap is not stuck there: a slot comes free. *)
SlotComesFree ==
    \A c \in Creds :
        (MaxConc[c] > 0 /\ inflight[c] = MaxConc[c]) ~> inflight[c] < MaxConc[c]

(* authenticate asks the database each time and nothing caches its answer: *)
(* a token that was revoked, rotated or expired before a request arrived   *)
(* does not get that request served.                                       *)
DeadTokenNotServed ==
    \A r \in Requests : adm[r].pc = "serve" => ~adm[r].dead

(* Requests that passed the check of their token's cap and may still spend,*)
(* and the same for the global cap.                                        *)
Pending(c) == {r \in Requests : adm[r].cred = c /\ adm[r].pc \in {"spendAll", "acquire", "serve"}}
PendingAll == {r \in Requests : adm[r].pc \in {"acquire", "serve"}}

(* checkSpend is a check long before the act, the row written at the end:  *)
(* the cap can be overrun, but by no more than one request per goroutine   *)
(* in the server, whatever their interleaving, across midnights too.  The  *)
(* concurrency cap does not tighten the bound, since it is tested later.   *)
OvershootBounded ==
    ~DBFails =>
        /\ \A c \in Creds : DailyCap[c] > 0 =>
              spent[c] < DailyCap[c] + MaxCost * Cardinality(Requests)
        /\ GlobalCap > 0 => TotalSpent < GlobalCap + MaxCost * Cardinality(Requests)
=============================================================================
