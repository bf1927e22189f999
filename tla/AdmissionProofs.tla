-------------------------- MODULE AdmissionProofs --------------------------
(***************************************************************************)
(* Proofs about Admission, for every set of requests, tokens and addresses *)
(* and all settings.                                                       *)
(***************************************************************************)
EXTENDS Admission, FiniteSetTheorems, NaturalsInduction, WellFoundedInduction, TLAPS

AdmRecs == [pc : Gates, ip : IPs \cup {""}, cred : Creds \cup {NoCred},
            dead : BOOLEAN, today : BOOLEAN]

Entries == [count : Nat, age : 0 .. FailWindow + 1, ban : 0 .. BanFor]

(* The gates behind the lookup of the token: a request there has one. *)
Authenticated == {"forgive", "rate", "spend", "spendAll", "acquire", "serve", "release"}

HasToken == \A r \in Requests : adm[r].pc \in Authenticated => adm[r].cred \in Creds

(* AdmissionTypeOK bounds the buckets; their domain has to be kept too. *)
BucketDomain == bucket = [c \in Creds |-> bucket[c]]

TypeInv == AdmissionTypeOK /\ HasToken /\ BucketDomain

-----------------------------------------------------------------------------
(* What moving one request to another gate changes. *)
LEMMA GoToEffect ==
    ASSUME TypeInv, NEW r \in Requests, NEW p \in Gates, GoTo(r, p)
    PROVE  /\ adm' \in [Requests -> AdmRecs]
           /\ \A q \in Requests : /\ adm'[q].cred = adm[q].cred
                                  /\ adm'[q].dead = adm[q].dead
                                  /\ adm'[q].pc = IF q = r THEN p ELSE adm[q].pc
           /\ (p \in Authenticated => adm[r].cred \in Creds) => HasToken'
<1>1. adm \in [Requests -> AdmRecs]
  BY DEF TypeInv, AdmissionTypeOK, AdmRecs
<1>2. adm' = [adm EXCEPT ![r] = [adm[r] EXCEPT !.pc = p]]
  BY DEF GoTo
<1> DEFINE c == adm[r]
           d == [c EXCEPT !.pc = p]
<1>3. c \in AdmRecs
  BY <1>1
<1> HIDE DEF c
<1>4. d \in AdmRecs /\ d.cred = c.cred /\ d.dead = c.dead /\ d.pc = p
  BY <1>3 DEF AdmRecs
<1>5. adm' = [adm EXCEPT ![r] = d]
  BY <1>2 DEF c
<1> HIDE DEF d
<1>6. adm' \in [Requests -> AdmRecs]
  BY <1>1, <1>4, <1>5
<1>7. \A q \in Requests : adm'[q] = IF q = r THEN d ELSE adm[q]
  BY <1>1, <1>5
<1>8. \A q \in Requests : /\ adm'[q].cred = adm[q].cred
                          /\ adm'[q].dead = adm[q].dead
                          /\ adm'[q].pc = IF q = r THEN p ELSE adm[q].pc
  BY <1>4, <1>7 DEF c
<1>9. ASSUME p \in Authenticated => adm[r].cred \in Creds PROVE HasToken'
  BY <1>8, <1>9 DEF HasToken, TypeInv
<1> QED BY <1>6, <1>8, <1>9

(* The lockout's calls keep its entries well-typed. *)
LEMMA LockTypes ==
    ASSUME lock \in [IPs -> Entries],
           \/ \E ip : L!Fail(ip) \/ L!Success(ip)
           \/ L!LockTick
    PROVE  lock' \in [IPs -> Entries]
<1>0. FailWindow \in Nat /\ BanFor \in Nat
  BY AdmissionAssumption
<1>1. L!NoEntry \in Entries
  BY <1>0 DEF L!NoEntry, Entries
<1>2. ASSUME NEW e \in Entries PROVE L!AfterFail(e) \in Entries
  <2>1. [count |-> 1, age |-> 0, ban |-> 0] \in Entries
    BY <1>0 DEF Entries
  <2>2. ASSUME NEW b \in 0 .. BanFor PROVE [e EXCEPT !.count = e.count + 1, !.ban = b] \in Entries
    <3> DEFINE n == e.count + 1
    <3>1. e.count \in Nat
      BY DEF Entries
    <3>2. n \in Nat
      BY <3>1
    <3> HIDE DEF n
    <3>3. [e EXCEPT !.count = n, !.ban = b] \in Entries
      BY <3>2 DEF Entries
    <3> QED BY <3>3 DEF n
  <2>3. e.ban \in 0 .. BanFor /\ BanFor \in 0 .. BanFor
    BY <1>0 DEF Entries
  <2>4. CASE L!StartsAnew(e)
    BY <2>1, <2>4 DEF L!AfterFail
  <2>5. CASE ~L!StartsAnew(e) /\ e.count + 1 >= MaxFails
    <3>1. L!AfterFail(e) = [e EXCEPT !.count = e.count + 1, !.ban = BanFor]
      BY <2>5 DEF L!AfterFail
    <3> QED BY <2>2, <2>3, <3>1
  <2>6. CASE ~L!StartsAnew(e) /\ ~(e.count + 1 >= MaxFails)
    <3>1. L!AfterFail(e) = [e EXCEPT !.count = e.count + 1, !.ban = e.ban]
      BY <2>6 DEF L!AfterFail
    <3> QED BY <2>2, <2>3, <3>1
  <2> QED BY <2>4, <2>5, <2>6
<1>3. ASSUME NEW ip, L!Fail(ip) PROVE lock' \in [IPs -> Entries]
  <2>1. lock' = [lock EXCEPT ![ip] = L!AfterFail(lock[ip])]
    BY <1>3 DEF L!Fail
  <2>2. ip \in IPs => L!AfterFail(lock[ip]) \in Entries
    BY <1>2
  <2> QED BY <2>1, <2>2
<1>4. ASSUME NEW ip, L!Success(ip) PROVE lock' \in [IPs -> Entries]
  BY <1>1, <1>4 DEF L!Success
<1>5. CASE L!LockTick
  <2>1. ASSUME NEW ip \in IPs PROVE lock'[ip] \in Entries
    <3> DEFINE e == lock[ip]
               a == IF e.age > FailWindow THEN e.age ELSE e.age + 1
               b == IF e.ban > 0 THEN e.ban - 1 ELSE 0
    <3>1. e \in Entries /\ e.age \in 0 .. FailWindow + 1 /\ e.ban \in 0 .. BanFor
      BY DEF Entries
    <3>2. lock'[ip] = IF e.count = 0 THEN L!NoEntry ELSE [e EXCEPT !.age = a, !.ban = b]
      BY <1>5 DEF L!LockTick
    <3> HIDE DEF e
    <3>3. a \in 0 .. FailWindow + 1
      BY <1>0, <3>1
    <3>4. b \in 0 .. BanFor
      BY <1>0, <3>1
    <3> HIDE DEF a, b
    <3>5. [e EXCEPT !.age = a, !.ban = b] \in Entries
      BY <3>1, <3>3, <3>4 DEF Entries
    <3> QED BY <1>1, <3>2, <3>5
  <2>2. lock' = [ip \in IPs |-> lock'[ip]]
    BY <1>5 DEF L!LockTick
  <2> QED BY <2>1, <2>2
<1> QED BY <1>3, <1>4, <1>5

LEMMA TypeInit == Init => TypeInv
<1> SUFFICES ASSUME Init PROVE TypeInv
  OBVIOUS
<1>0. /\ FailWindow \in Nat /\ BanFor \in Nat /\ GlobalBurst \in Nat
      /\ \A c \in Creds : Burst[c] \in Nat
  BY AdmissionAssumption
<1>1. NoAdm \in AdmRecs /\ NoAdm.pc = "idle"
  BY DEF NoAdm, AdmRecs, Gates
<1>2. adm \in [Requests -> AdmRecs] /\ HasToken
  BY <1>1 DEF Init, HasToken, Authenticated
<1>3. lock \in [IPs -> Entries]
  BY <1>0 DEF Init, L!NoEntry, Entries
<1>4. live \in [Creds -> BOOLEAN] /\ inflight \in [Creds -> Nat] /\ spent \in [Creds -> Nat]
  BY DEF Init
<1>5. globalBucket \in 0 .. GlobalBurst /\ \A c \in Creds : bucket[c] \in 0 .. Burst[c]
  BY <1>0 DEF Init
<1>6. BucketDomain
  BY DEF Init, BucketDomain
<1> QED BY <1>2, <1>3, <1>4, <1>5, <1>6 DEF TypeInv, AdmissionTypeOK, AdmRecs, Entries

(* Steps that only move a request, and to no gate behind the lookup unless *)
(* its token is known. *)
LEMMA MoveTypes ==
    ASSUME TypeInv, NEW r \in Requests, NEW p \in Gates, GoTo(r, p),
           p \in Authenticated => adm[r].cred \in Creds,
           lock' \in [IPs -> Entries],
           UNCHANGED <<live, bucket, globalBucket>>,
           inflight' \in [Creds -> Nat], spent' \in [Creds -> Nat]
    PROVE  TypeInv'
<1>1. adm' \in [Requests -> AdmRecs] /\ HasToken'
  BY GoToEffect
<1>2. BucketDomain' /\ live' \in [Creds -> BOOLEAN]
  BY DEF BucketDomain, TypeInv, AdmissionTypeOK
<1>3. globalBucket' \in 0 .. GlobalBurst /\ \A c \in Creds : bucket'[c] \in 0 .. Burst[c]
  BY DEF TypeInv, AdmissionTypeOK
<1> QED BY <1>1, <1>2, <1>3 DEF TypeInv, AdmissionTypeOK, AdmRecs, Entries

LEMMA StateTypes ==
    ASSUME TypeInv
    PROVE  /\ adm \in [Requests -> AdmRecs] /\ lock \in [IPs -> Entries]
           /\ inflight \in [Creds -> Nat] /\ spent \in [Creds -> Nat]
           /\ \A r \in Requests : adm[r].pc \in Authenticated => adm[r].cred \in Creds
  BY DEF TypeInv, AdmissionTypeOK, AdmRecs, Entries, HasToken

LEMMA ArriveTypes ==
    ASSUME TypeInv, NEW r \in Requests, NEW ip \in IPs, NEW cred \in Creds \cup {NoCred},
           Arrive(r, ip, cred)
    PROVE  TypeInv'
<1> DEFINE pc == IF Allowed(ip) THEN "ban" ELSE "done"
           d  == (cred = NoCred \/ ~live[cred])
           a  == [NoAdm EXCEPT !.pc = pc, !.ip = ip, !.cred = cred, !.dead = d]
<1>1. adm' = [adm EXCEPT ![r] = a] /\ UNCHANGED <<lock, live, bucket, globalBucket, inflight, spent>>
  BY DEF Arrive
<1>2. d \in BOOLEAN /\ pc \in {"done", "ban"}
  OBVIOUS
<1> HIDE DEF pc, d
<1>3. a \in AdmRecs /\ a.pc = pc
  BY <1>2 DEF NoAdm, AdmRecs, Gates
<1> HIDE DEF a
<1>4. adm' \in [Requests -> AdmRecs] /\ \A q \in Requests : adm'[q] = IF q = r THEN a ELSE adm[q]
  BY <1>1, <1>3, StateTypes
<1>5. HasToken'
  BY <1>2, <1>3, <1>4 DEF TypeInv, HasToken, Authenticated
<1> QED BY <1>1, <1>4, <1>5 DEF TypeInv, AdmissionTypeOK, AdmRecs, BucketDomain

LEMMA RateTypes ==
    ASSUME TypeInv, NEW r \in Requests, RateCheck(r)
    PROVE  TypeInv'
<1> DEFINE c == adm[r].cred
           p == IF GlobalAllows /\ OwnAllows(c) THEN "spend" ELSE "done"
<1>1. /\ GoTo(r, p) /\ adm[r].pc = "rate"
      /\ globalBucket' = IF GlobalBurst > 0 /\ GlobalAllows THEN globalBucket - 1 ELSE globalBucket
      /\ bucket' = IF GlobalAllows /\ Burst[c] > 0 /\ OwnAllows(c)
                     THEN [bucket EXCEPT ![c] = bucket[c] - 1] ELSE bucket
      /\ UNCHANGED <<lock, live, inflight, spent>>
  BY DEF RateCheck, At
<1>2. p \in Gates /\ c \in Creds
  BY <1>1, StateTypes DEF Gates, Authenticated
<1>3. adm' \in [Requests -> AdmRecs] /\ HasToken'
  BY <1>1, <1>2, GoToEffect
<1> HIDE DEF c, p
<1>4. /\ globalBucket \in 0 .. GlobalBurst /\ GlobalBurst \in Nat
      /\ \A d \in Creds : bucket[d] \in 0 .. Burst[d] /\ Burst[d] \in Nat
      /\ bucket = [d \in Creds |-> bucket[d]]
  BY AdmissionAssumption DEF TypeInv, AdmissionTypeOK, BucketDomain
<1>5. globalBucket' \in 0 .. GlobalBurst
  BY <1>1, <1>4 DEF GlobalAllows
<1>6. CASE bucket' = bucket
  BY <1>1, <1>3, <1>4, <1>5, <1>6 DEF TypeInv, AdmissionTypeOK, AdmRecs, BucketDomain
<1>7. CASE Burst[c] > 0 /\ OwnAllows(c) /\ bucket' = [bucket EXCEPT ![c] = bucket[c] - 1]
  <2>1. bucket[c] - 1 \in 0 .. Burst[c]
    BY <1>2, <1>4, <1>7 DEF OwnAllows
  <2>2. bucket' = [d \in Creds |-> IF d = c THEN bucket[c] - 1 ELSE bucket[d]]
    <3>1. [bucket EXCEPT ![c] = bucket[c] - 1]
            = [[d \in Creds |-> bucket[d]] EXCEPT ![c] = bucket[c] - 1]
      BY <1>4, Zenon
    <3> QED BY <1>7, <3>1
  <2>3. bucket' = [d \in Creds |-> bucket'[d]]
    BY <2>2
  <2>4. \A d \in Creds : bucket'[d] \in 0 .. Burst[d]
    BY <1>4, <2>1, <2>2
  <2> QED BY <1>1, <1>3, <1>5, <2>3, <2>4 DEF TypeInv, AdmissionTypeOK, AdmRecs, BucketDomain
<1> QED BY <1>1, <1>6, <1>7

LEMMA SlotTypes ==
    ASSUME TypeInv, NEW r \in Requests, Acquire(r) \/ Release(r)
    PROVE  TypeInv'
<1> DEFINE c == adm[r].cred
<1>1. CASE Acquire(r)
  <2> DEFINE p == IF HasSlot(c) THEN "serve" ELSE "done"
  <2>1. /\ GoTo(r, p) /\ adm[r].pc = "acquire" /\ UNCHANGED <<lock, live, bucket, globalBucket, spent>>
        /\ inflight' = IF MaxConc[c] > 0 /\ HasSlot(c)
                         THEN [inflight EXCEPT ![c] = inflight[c] + 1] ELSE inflight
    BY <1>1 DEF Acquire, At
  <2>2. c \in Creds /\ p \in Gates
    BY <2>1, StateTypes DEF Authenticated, Gates
  <2>3. inflight' \in [Creds -> Nat]
    BY <2>1, <2>2, StateTypes
  <2> QED BY <2>1, <2>2, <2>3, StateTypes, MoveTypes
<1>2. CASE Release(r)
  <2>1. /\ GoTo(r, "done") /\ UNCHANGED <<lock, live, bucket, globalBucket, spent>>
        /\ inflight' = [inflight EXCEPT ![c] = Freed(c)]
    BY <1>2 DEF Release
  <2>2. c \in Creds => Freed(c) \in Nat
    BY StateTypes DEF Freed
  <2>3. inflight' \in [Creds -> Nat]
    BY <2>1, <2>2, StateTypes
  <2> QED BY <2>1, <2>3, StateTypes, MoveTypes DEF Gates, Authenticated
<1> QED BY <1>1, <1>2

LEMMA ServeTypes ==
    ASSUME TypeInv, NEW r \in Requests, NEW cost \in 0 .. MaxCost, NEW failed \in BOOLEAN,
           ServeLogged(r, cost, failed)
    PROVE  TypeInv'
<1> DEFINE c == adm[r].cred
<1>1. /\ GoTo(r, "release") /\ adm[r].pc = "serve"
      /\ UNCHANGED <<lock, live, bucket, globalBucket, inflight>>
      /\ spent' = IF adm[r].today /\ ~failed THEN [spent EXCEPT ![c] = spent[c] + cost] ELSE spent
  BY DEF ServeLogged, At
<1>2. c \in Creds
  BY <1>1, StateTypes DEF Authenticated
<1>3. cost \in Nat
  BY AdmissionAssumption
<1>4. spent' \in [Creds -> Nat]
  BY <1>1, <1>2, <1>3, StateTypes
<1> QED BY <1>1, <1>2, <1>4, StateTypes, MoveTypes DEF Gates

LEMMA GateTypes ==
    ASSUME TypeInv, NEW r \in Requests,
           \/ CheckBan(r) \/ Lookup(r) \/ AuthFailed(r) \/ Forgive(r) \/ ServeUnlogged(r)
           \/ \E failed \in BOOLEAN : SpendCheck(r, failed) \/ SpendCheckAll(r, failed)
    PROVE  TypeInv'
<1>1. /\ UNCHANGED <<live, bucket, globalBucket, inflight, spent>>
      /\ \E p \in Gates : GoTo(r, p) /\ (p \in Authenticated => adm[r].cred \in Creds)
  <2>1. CASE CheckBan(r)
    BY <2>1 DEF CheckBan, Gates, Authenticated
  <2>2. CASE Lookup(r)
    BY <2>2, StateTypes DEF Lookup, Verifies, Gates, Authenticated, AdmRecs
  <2>3. CASE AuthFailed(r)
    BY <2>3 DEF AuthFailed, Gates, Authenticated
  <2>4. CASE Forgive(r)
    BY <2>4, StateTypes DEF Forgive, At, Gates, Authenticated
  <2>5. CASE ServeUnlogged(r)
    BY <2>5, StateTypes DEF ServeUnlogged, At, Gates, Authenticated
  <2>6. CASE \E failed \in BOOLEAN : SpendCheck(r, failed) \/ SpendCheckAll(r, failed)
    BY <2>6, StateTypes DEF SpendCheck, SpendCheckAll, At, Gates, Authenticated
  <2> QED BY <2>1, <2>2, <2>3, <2>4, <2>5, <2>6
<1>2. lock' \in [IPs -> Entries]
  <2>1. CASE AuthFailed(r) \/ Forgive(r)
    BY <2>1, StateTypes, LockTypes DEF AuthFailed, Forgive
  <2>2. CASE lock' = lock
    BY <2>2, StateTypes
  <2> QED BY <2>1, <2>2 DEF CheckBan, Lookup, ServeUnlogged, SpendCheck, SpendCheckAll
<1> QED BY <1>1, <1>2, StateTypes, MoveTypes

LEMMA WorldTypes ==
    ASSUME TypeInv, (\E c \in Creds : Invalidate(c)) \/ Tick \/ Midnight \/ UNCHANGED vars
    PROVE  TypeInv'
<1>1. CASE \E c \in Creds : Invalidate(c)
  <2>1. live' \in [Creds -> BOOLEAN]
    BY <1>1 DEF Invalidate, TypeInv, AdmissionTypeOK
  <2>2. UNCHANGED <<adm, lock, bucket, globalBucket, inflight, spent>>
    BY <1>1 DEF Invalidate
  <2> QED BY <2>1, <2>2 DEF TypeInv, AdmissionTypeOK, HasToken, BucketDomain
<1>2. CASE Tick
  <2>1. lock' \in [IPs -> Entries]
    BY <1>2, StateTypes, LockTypes DEF Tick
  <2>2. ASSUME NEW b \in Nat, NEW l \in 0 .. b PROVE Refill(l, b) \in 0 .. b
    BY DEF Refill
  <2>3. globalBucket' \in 0 .. GlobalBurst
    BY <1>2, <2>2, AdmissionAssumption DEF Tick, TypeInv, AdmissionTypeOK
  <2>4. bucket' = [c \in Creds |-> Refill(bucket[c], Burst[c])]
    BY <1>2 DEF Tick
  <2>5. BucketDomain'
    BY <2>4 DEF BucketDomain
  <2>6. \A c \in Creds : bucket'[c] \in 0 .. Burst[c]
    BY <2>2, <2>4, AdmissionAssumption DEF TypeInv, AdmissionTypeOK
  <2>7. UNCHANGED <<adm, live, inflight, spent>>
    BY <1>2 DEF Tick
  <2> QED BY <2>1, <2>3, <2>5, <2>6, <2>7 DEF TypeInv, AdmissionTypeOK, Entries, HasToken
<1>3. CASE Midnight
  <2>1. ASSUME NEW a \in AdmRecs, NEW b \in BOOLEAN
        PROVE  [a EXCEPT !.today = b] \in AdmRecs /\ [a EXCEPT !.today = b].pc = a.pc
               /\ [a EXCEPT !.today = b].cred = a.cred
    BY DEF AdmRecs
  <2>2. \A r \in Requests : adm[r] \in AdmRecs /\ (adm[r].today /\ ~At(r, "serve")) \in BOOLEAN
    BY StateTypes
  <2>3. adm' = [r \in Requests |-> [adm[r] EXCEPT !.today = (adm[r].today /\ ~At(r, "serve"))]]
    BY <1>3 DEF Midnight
  <2>4. /\ adm' \in [Requests -> AdmRecs]
        /\ \A r \in Requests : adm'[r].pc = adm[r].pc /\ adm'[r].cred = adm[r].cred
    BY <2>1, <2>2, <2>3
  <2>5. HasToken'
    BY <2>4 DEF HasToken, TypeInv
  <2>6. UNCHANGED <<lock, live, bucket, globalBucket, inflight>> /\ spent' \in [Creds -> Nat]
    BY <1>3 DEF Midnight
  <2> QED BY <2>4, <2>5, <2>6 DEF TypeInv, AdmissionTypeOK, AdmRecs, BucketDomain
<1>4. CASE UNCHANGED vars
  BY <1>4 DEF vars, TypeInv, AdmissionTypeOK, HasToken, BucketDomain
<1> QED BY <1>1, <1>2, <1>3, <1>4

LEMMA ReuseTypes ==
    ASSUME TypeInv, NEW r \in Requests, Reuse(r)
    PROVE  TypeInv'
<1>1. NoAdm \in AdmRecs /\ NoAdm.pc = "idle"
  BY DEF NoAdm, AdmRecs, Gates
<1>2. /\ adm' = [adm EXCEPT ![r] = NoAdm]
      /\ UNCHANGED <<lock, live, bucket, globalBucket, inflight, spent>>
  BY DEF Reuse
<1>3. adm' \in [Requests -> AdmRecs] /\ \A q \in Requests : adm'[q] = IF q = r THEN NoAdm ELSE adm[q]
  BY <1>1, <1>2, StateTypes
<1>4. HasToken'
  BY <1>1, <1>3 DEF TypeInv, HasToken, Authenticated
<1> QED BY <1>2, <1>3, <1>4 DEF TypeInv, AdmissionTypeOK, AdmRecs, BucketDomain

LEMMA TypeStep == TypeInv /\ [Next]_vars => TypeInv'
<1> SUFFICES ASSUME TypeInv, [Next]_vars PROVE TypeInv'
  OBVIOUS
<1>1. ASSUME NEW r \in Requests, Handler(r) PROVE TypeInv'
  BY <1>1, GateTypes, RateTypes, SlotTypes, ServeTypes DEF Handler
<1> QED BY <1>1, ArriveTypes, ReuseTypes, WorldTypes DEF Next

LEMMA TypesAlways == Spec => []TypeInv
  BY TypeInit, TypeStep, PTL DEF Spec

(* Type correctness of the gates: entries of the lockout within its window *)
(* and ban, buckets within their burst, no count below zero.               *)
THEOREM AdmissionTypeCorrect == Spec => []AdmissionTypeOK
<1>1. TypeInv => AdmissionTypeOK
  BY DEF TypeInv
<1> QED BY <1>1, TypesAlways, PTL

-----------------------------------------------------------------------------
(* Slots.  A step is quiet when no request enters or leaves service; all   *)
(* others are a successful Acquire or a Release.                           *)
InService == {"serve", "release"}

QuietStep ==
    /\ UNCHANGED inflight
    /\ \A q \in Requests : adm'[q].pc \in InService <=> adm[q].pc \in InService
    /\ \A q \in Requests : adm[q].pc \in InService => adm'[q].cred = adm[q].cred

Entered(r) == Acquire(r) /\ HasSlot(adm[r].cred)

LEMMA QuietMove ==
    ASSUME TypeInv, NEW r \in Requests, NEW p \in Gates, GoTo(r, p), UNCHANGED inflight,
           p \in InService <=> adm[r].pc \in InService
    PROVE  QuietStep
  BY GoToEffect DEF QuietStep

LEMMA StepCases ==
    ASSUME TypeInv, [Next]_vars
    PROVE  QuietStep \/ \E r \in Requests : Entered(r) \/ Release(r)
<1>1. ASSUME NEW r \in Requests, NEW ip \in IPs, NEW cred \in Creds \cup {NoCred},
             Arrive(r, ip, cred)
      PROVE  QuietStep
  <2> DEFINE pc == IF Allowed(ip) THEN "ban" ELSE "done"
             a  == [NoAdm EXCEPT !.pc = pc, !.ip = ip, !.cred = cred,
                                 !.dead = (cred = NoCred \/ ~live[cred])]
  <2>1. /\ adm[r].pc = "idle" /\ UNCHANGED inflight /\ adm' = [adm EXCEPT ![r] = a]
        /\ a.pc = pc
    BY <1>1 DEF Arrive, At, NoAdm
  <2>2. a.pc \notin InService
    BY <2>1 DEF InService
  <2> HIDE DEF a
  <2>3. \A q \in Requests : adm'[q] = IF q = r THEN a ELSE adm[q]
    BY <2>1, StateTypes
  <2> QED BY <2>1, <2>2, <2>3 DEF QuietStep, InService
<1>2. ASSUME NEW r \in Requests, Reuse(r) PROVE QuietStep
  <2>1. /\ adm[r].pc = "done" /\ UNCHANGED inflight /\ adm' = [adm EXCEPT ![r] = NoAdm]
        /\ NoAdm.pc = "idle"
    BY <1>2 DEF Reuse, At, NoAdm
  <2>2. \A q \in Requests : adm'[q] = IF q = r THEN NoAdm ELSE adm[q]
    BY <2>1, StateTypes
  <2> QED BY <2>1, <2>2 DEF QuietStep, InService
<1>3. ASSUME NEW r \in Requests, Handler(r)
      PROVE  QuietStep \/ Entered(r) \/ Release(r)
  <2>1. CASE \/ CheckBan(r) \/ Lookup(r) \/ AuthFailed(r) \/ Forgive(r) \/ RateCheck(r)
             \/ \E failed \in BOOLEAN : SpendCheck(r, failed) \/ SpendCheckAll(r, failed)
    <3>1. /\ UNCHANGED inflight /\ adm[r].pc \notin InService
          /\ \E p \in Gates : p \notin InService /\ GoTo(r, p)
      BY <2>1 DEF CheckBan, Lookup, AuthFailed, Forgive, RateCheck, SpendCheck, SpendCheckAll,
                  At, Gates, InService
    <3> QED BY <3>1, QuietMove
  <2>2. CASE ServeUnlogged(r) \/ \E cost \in 0 .. MaxCost, failed \in BOOLEAN : ServeLogged(r, cost, failed)
    <3>1. UNCHANGED inflight /\ adm[r].pc = "serve" /\ GoTo(r, "release")
      BY <2>2 DEF ServeUnlogged, ServeLogged, At
    <3> QED BY <3>1, QuietMove DEF Gates, InService
  <2>3. CASE Acquire(r) /\ ~HasSlot(adm[r].cred)
    <3>1. UNCHANGED inflight /\ adm[r].pc = "acquire" /\ GoTo(r, "done")
      BY <2>3 DEF Acquire, At
    <3> QED BY <3>1, QuietMove DEF Gates, InService
  <2> QED BY <1>3, <2>1, <2>2, <2>3 DEF Handler, Entered
<1>4. CASE (\E c \in Creds : Invalidate(c)) \/ Tick \/ UNCHANGED vars
  BY <1>4 DEF Invalidate, Tick, vars, QuietStep
<1>5. CASE Midnight
  <2>1. /\ UNCHANGED inflight
        /\ adm' = [r \in Requests |-> [adm[r] EXCEPT !.today = (adm[r].today /\ ~At(r, "serve"))]]
    BY <1>5 DEF Midnight
  <2>2. ASSUME NEW a \in AdmRecs, NEW b
        PROVE  [a EXCEPT !.today = b].pc = a.pc /\ [a EXCEPT !.today = b].cred = a.cred
    BY DEF AdmRecs
  <2>3. \A r \in Requests : adm'[r].pc = adm[r].pc /\ adm'[r].cred = adm[r].cred
    BY <2>1, <2>2, StateTypes
  <2> QED BY <2>1, <2>3 DEF QuietStep
<1> QED BY <1>1, <1>2, <1>3, <1>4, <1>5 DEF Next

LEMMA QuietHolders ==
    ASSUME QuietStep, NEW c \in Creds
    PROVE  Holders(c)' = Holders(c)
  BY DEF QuietStep, Holders, InService

(* Entering service takes a slot of one token, leaving it gives one back.  *)
LEMMA EnterHolders ==
    ASSUME TypeInv, NEW r \in Requests, Entered(r)
    PROVE  /\ adm[r].cred \in Creds /\ HasSlot(adm[r].cred)
           /\ \A c \in Creds :
                /\ r \notin Holders(c)
                /\ Holders(c)' = IF c = adm[r].cred THEN Holders(c) \cup {r} ELSE Holders(c)
                /\ inflight'[c] = IF c = adm[r].cred /\ MaxConc[c] > 0 THEN inflight[c] + 1
                                  ELSE inflight[c]
<1> DEFINE d == adm[r].cred
<1>1. /\ adm[r].pc = "acquire" /\ HasSlot(d) /\ GoTo(r, "serve")
      /\ inflight' = IF MaxConc[d] > 0 THEN [inflight EXCEPT ![d] = inflight[d] + 1] ELSE inflight
  BY DEF Entered, Acquire, At
<1>2. d \in Creds
  BY <1>1, StateTypes DEF Authenticated
<1>3. \A q \in Requests : adm'[q].cred = adm[q].cred
                       /\ adm'[q].pc = IF q = r THEN "serve" ELSE adm[q].pc
  BY <1>1, GoToEffect DEF Gates
<1>4. ASSUME NEW c \in Creds
      PROVE  /\ r \notin Holders(c)
             /\ Holders(c)' = IF c = d THEN Holders(c) \cup {r} ELSE Holders(c)
  <2>1. r \notin Holders(c)
    BY <1>1 DEF Holders
  <2>2. \A q : q \in Holders(c)' <=> (q = r /\ d = c) \/ q \in Holders(c)
    BY <1>1, <1>3 DEF Holders
  <2> QED BY <2>1, <2>2
<1>5. ASSUME NEW c \in Creds
      PROVE  inflight'[c] = IF c = d /\ MaxConc[c] > 0 THEN inflight[c] + 1 ELSE inflight[c]
  BY <1>1, <1>2, StateTypes
<1> QED BY <1>1, <1>2, <1>4, <1>5

LEMMA ReleaseHolders ==
    ASSUME TypeInv, NEW r \in Requests, Release(r)
    PROVE  /\ adm[r].cred \in Creds /\ r \in Holders(adm[r].cred)
           /\ \A c \in Creds :
                /\ c # adm[r].cred => r \notin Holders(c)
                /\ Holders(c)' = Holders(c) \ {r}
                /\ inflight'[c] = IF c = adm[r].cred THEN Freed(c) ELSE inflight[c]
<1> DEFINE d == adm[r].cred
<1>1. adm[r].pc = "release" /\ GoTo(r, "done") /\ inflight' = [inflight EXCEPT ![d] = Freed(d)]
  BY DEF Release, At
<1>2. d \in Creds /\ r \in Holders(d)
  BY <1>1, StateTypes DEF Authenticated, Holders
<1>3. \A q \in Requests : adm'[q].cred = adm[q].cred
                       /\ adm'[q].pc = IF q = r THEN "done" ELSE adm[q].pc
  BY <1>1, GoToEffect DEF Gates
<1>4. ASSUME NEW c \in Creds
      PROVE  (c # d => r \notin Holders(c)) /\ Holders(c)' = Holders(c) \ {r}
  <2>1. c # d => r \notin Holders(c)
    BY DEF Holders
  <2>2. \A q : q \in Holders(c)' <=> q # r /\ q \in Holders(c)
    BY <1>1, <1>3 DEF Holders
  <2> QED BY <2>1, <2>2
<1>5. ASSUME NEW c \in Creds
      PROVE  inflight'[c] = IF c = d THEN Freed(c) ELSE inflight[c]
  BY <1>1, <1>2, StateTypes
<1> QED BY <1>2, <1>4, <1>5

LEMMA HoldersFinite ==
    ASSUME NEW c PROVE IsFiniteSet(Holders(c)) /\ Cardinality(Holders(c)) \in Nat
<1>1. Holders(c) \subseteq Requests /\ IsFiniteSet(Requests)
  BY AdmissionAssumption DEF Holders
<1> QED BY <1>1, FS_Subset, FS_CardinalityType

(* The two facts are inductive together: the count is exact because        *)
(* Release finds it positive, and within the cap because it is exact.      *)
SlotInv == InflightExact /\ CapRespected

LEMMA SlotInit == Init => SlotInv
<1> SUFFICES ASSUME Init PROVE SlotInv
  OBVIOUS
<1>1. ASSUME NEW c \in Creds PROVE Holders(c) = {} /\ inflight[c] = 0
  BY DEF Init, NoAdm, Holders
<1>2. Cardinality({}) = 0
  BY FS_EmptySet
<1>3. \A c \in Creds : MaxConc[c] \in Int
  BY AdmissionAssumption
<1>4. ASSUME NEW c \in Creds
      PROVE  /\ inflight[c] = IF MaxConc[c] > 0 THEN Cardinality(Holders(c)) ELSE 0
             /\ MaxConc[c] > 0 => Cardinality(Holders(c)) <= MaxConc[c]
  BY <1>1, <1>2, <1>3
<1> QED BY <1>4 DEF SlotInv, InflightExact, CapRespected

LEMMA SlotStep == TypeInv /\ SlotInv /\ [Next]_vars => SlotInv'
<1> SUFFICES ASSUME TypeInv, SlotInv, [Next]_vars PROVE SlotInv'
  OBVIOUS
<1> DEFINE K(c) == Cardinality(Holders(c))
<1>0. \A c \in Creds : /\ MaxConc[c] \in Int
                       /\ inflight[c] = IF MaxConc[c] > 0 THEN K(c) ELSE 0
                       /\ MaxConc[c] > 0 => K(c) <= MaxConc[c]
  BY AdmissionAssumption DEF SlotInv, InflightExact, CapRespected
<1>1. CASE QuietStep
  BY <1>1, QuietHolders DEF SlotInv, InflightExact, CapRespected, QuietStep
<1>2. ASSUME NEW r \in Requests, Entered(r) PROVE SlotInv'
  <2>1. ASSUME NEW c \in Creds
        PROVE  /\ inflight'[c] = IF MaxConc[c] > 0 THEN Cardinality(Holders(c)') ELSE 0
               /\ MaxConc[c] > 0 => Cardinality(Holders(c)') <= MaxConc[c]
    <3>1. CASE c = adm[r].cred
      <4>1. Cardinality(Holders(c)') = K(c) + 1
        <5>1. r \notin Holders(c) /\ Holders(c)' = Holders(c) \cup {r}
          BY <1>2, <3>1, EnterHolders
        <5> QED BY <5>1, HoldersFinite, FS_AddElement
      <4>2. inflight'[c] = IF MaxConc[c] > 0 THEN inflight[c] + 1 ELSE inflight[c]
        BY <1>2, <3>1, EnterHolders
      <4>3. MaxConc[c] > 0 => inflight[c] < MaxConc[c]
        BY <1>0, <1>2, <3>1, EnterHolders DEF HasSlot
      <4>4. K(c) \in Nat
        BY HoldersFinite
      <4> HIDE DEF K
      <4> QED BY <1>0, <4>1, <4>2, <4>3, <4>4
    <3>2. CASE c # adm[r].cred
      BY <1>0, <1>2, <3>2, EnterHolders
    <3> QED BY <3>1, <3>2
  <2> QED BY <2>1 DEF SlotInv, InflightExact, CapRespected
<1>3. ASSUME NEW r \in Requests, Release(r) PROVE SlotInv'
  <2>1. ASSUME NEW c \in Creds
        PROVE  /\ inflight'[c] = IF MaxConc[c] > 0 THEN Cardinality(Holders(c)') ELSE 0
               /\ MaxConc[c] > 0 => Cardinality(Holders(c)') <= MaxConc[c]
    <3>1. CASE c = adm[r].cred
      <4>1. K(c) \in Nat /\ Cardinality(Holders(c)') \in Nat /\ Cardinality(Holders(c)') = K(c) - 1
        <5>1. r \in Holders(c) /\ Holders(c)' = Holders(c) \ {r}
          BY <1>3, <3>1, ReleaseHolders
        <5> QED BY <5>1, HoldersFinite, FS_RemoveElement, FS_CardinalityType
      <4>2. inflight'[c] = Freed(c)
        BY <1>3, <3>1, ReleaseHolders
      <4> DEFINE k == Cardinality(Holders(c)')
      <4> HIDE DEF K, k
      <4>3. k \in Nat /\ k = K(c) - 1 /\ K(c) \in Nat
        BY <4>1 DEF k
      <4>4. /\ inflight'[c] = IF MaxConc[c] > 0 THEN k ELSE 0
            /\ MaxConc[c] > 0 => k <= MaxConc[c]
        BY <1>0, <4>2, <4>3 DEF Freed
      <4> QED BY <4>4 DEF k
    <3>2. CASE c # adm[r].cred
      <4>1. Holders(c)' = Holders(c)
        <5>1. r \notin Holders(c) /\ Holders(c)' = Holders(c) \ {r}
          BY <1>3, <3>2, ReleaseHolders
        <5> QED BY <5>1
      <4> QED BY <1>0, <1>3, <3>2, <4>1, ReleaseHolders
    <3> QED BY <3>1, <3>2
  <2> QED BY <2>1 DEF SlotInv, InflightExact, CapRespected
<1> QED BY <1>1, <1>2, <1>3, StepCases

LEMMA SlotsAlways == Spec => []SlotInv
  BY SlotInit, SlotStep, TypesAlways, PTL DEF Spec

(* Acquire and the deferred Release: the counter of a capped token is the  *)
(* number of its requests in service, however requests interleave and end. *)
THEOREM SlotsAlwaysExact == Spec => []InflightExact
<1>1. SlotInv => InflightExact
  BY DEF SlotInv
<1> QED BY <1>1, SlotsAlways, PTL

(* No token ever has more requests in service than its cap.                *)
THEOREM CapAlwaysRespected == Spec => []CapRespected
<1>1. SlotInv => CapRespected
  BY DEF SlotInv
<1> QED BY <1>1, SlotsAlways, PTL

-----------------------------------------------------------------------------
(* The pool of slots.                                                      *)
PoolOf == [c \in Creds |-> Holders(c)]

LEMMA PoolCardinality ==
    ASSUME NEW S PROVE SP!Cardinality(S) = Cardinality(S)
  BY DEF SP!Cardinality, Cardinality

LEMMA PoolInit == Init => SP!Init
<1>0. NoAdm.pc = "idle"
  BY DEF NoAdm
<1>1. Init => \A r \in Requests : adm[r].pc = "idle"
  BY <1>0 DEF Init
<1>2. Init => \A c \in Creds : Holders(c) = {}
  BY <1>1 DEF Holders
<1> QED BY <1>2 DEF SP!Init

LEMMA PoolStep == TypeInv /\ SlotInv /\ [Next]_vars => [SP!Next]_PoolOf
<1> SUFFICES ASSUME TypeInv, SlotInv, [Next]_vars PROVE [SP!Next]_PoolOf
  OBVIOUS
<1>1. CASE QuietStep
  BY <1>1, QuietHolders DEF PoolOf
<1>2. ASSUME NEW r \in Requests, Entered(r) PROVE SP!Next
  <2> DEFINE d == adm[r].cred
  <2>1. d \in Creds /\ \A c \in Creds : r \notin PoolOf[c]
    BY <1>2, EnterHolders DEF PoolOf
  <2>2. MaxConc[d] <= 0 \/ Cardinality(PoolOf[d]) < MaxConc[d]
    <3>1. HasSlot(d) /\ PoolOf[d] = Holders(d) /\ MaxConc[d] \in Int
      BY <1>2, <2>1, EnterHolders, AdmissionAssumption DEF PoolOf
    <3> QED BY <2>1, <3>1 DEF HasSlot, SlotInv, InflightExact
  <2>3. PoolOf' = [PoolOf EXCEPT ![d] = PoolOf[d] \cup {r}]
    <3>1. \A c \in Creds : Holders(c)' = IF c = d THEN Holders(c) \cup {r} ELSE Holders(c)
      BY <1>2, EnterHolders
    <3> QED BY <2>1, <3>1 DEF PoolOf
  <2>4. SP!Take(r, d)
    BY <2>1, <2>2, <2>3, PoolCardinality DEF SP!Take, PoolOf
  <2> QED BY <2>1, <2>4 DEF SP!Next
<1>3. ASSUME NEW r \in Requests, Release(r) PROVE SP!Next
  <2> DEFINE d == adm[r].cred
  <2>1. d \in Creds /\ r \in PoolOf[d]
    BY <1>3, ReleaseHolders DEF PoolOf
  <2>2. PoolOf' = [PoolOf EXCEPT ![d] = PoolOf[d] \ {r}]
    <3>1. \A c \in Creds : Holders(c)' = IF c = d THEN Holders(c) \ {r} ELSE Holders(c)
      <4>1. \A c \in Creds : Holders(c)' = Holders(c) \ {r} /\ (c # d => r \notin Holders(c))
        BY <1>3, ReleaseHolders
      <4> QED BY <4>1
    <3> QED BY <2>1, <3>1 DEF PoolOf
  <2>3. SP!GiveBack(r, d)
    BY <2>1, <2>2 DEF SP!GiveBack, PoolOf
  <2> QED BY <2>1, <2>3 DEF SP!Next
<1> QED BY <1>1, <1>2, <1>3, StepCases

(* Admission implements the abstract pool: for every token and whatever    *)
(* the other gates do, slots are taken below the cap and given back once.  *)
THEOREM AdmissionRefinesSlotPool == Spec => ImplementsSlotPool
<1>1. [SP!Next]_PoolOf => [SP!Next]_([c \in Creds |-> Holders(c)])
  BY DEF PoolOf
<1> QED BY <1>1, PoolInit, PoolStep, TypesAlways, SlotsAlways, PTL
        DEF Spec, ImplementsSlotPool, SP!Spec

-----------------------------------------------------------------------------
(* Dead tokens.  That a request was let through long after its token died  *)
(* is ruled out because tokens do not come back to life: a request whose   *)
(* token was dead when it arrived still finds it dead at the lookup.       *)
StaysDead == \A r \in Requests :
    adm[r].dead /\ adm[r].cred # NoCred => ~live[adm[r].cred]

OnlyLive == \A r \in Requests : adm[r].pc \in Authenticated => ~adm[r].dead

DeadInv == StaysDead /\ OnlyLive

LEMMA DeadInit == Init => DeadInv
<1>0. NoAdm.pc = "idle" /\ NoAdm.dead = FALSE
  BY DEF NoAdm
<1>1. Init => \A r \in Requests : adm[r].pc = "idle" /\ adm[r].dead = FALSE
  BY <1>0 DEF Init
<1> QED BY <1>1 DEF DeadInv, StaysDead, OnlyLive, Authenticated

(* A move keeps both, if it enters the authenticated gates with a live     *)
(* token only. *)
LEMMA DeadMove ==
    ASSUME TypeInv, DeadInv, NEW r \in Requests, NEW p \in Gates, GoTo(r, p), UNCHANGED live,
           p \in Authenticated => adm[r].pc \in Authenticated \/ Verifies(r)
    PROVE  DeadInv'
<1>1. \A q \in Requests : /\ adm'[q].cred = adm[q].cred /\ adm'[q].dead = adm[q].dead
                          /\ adm'[q].pc = IF q = r THEN p ELSE adm[q].pc
  BY GoToEffect
<1>2. StaysDead'
  BY <1>1 DEF DeadInv, StaysDead
<1>3. p \in Authenticated => ~adm[r].dead
  BY DEF DeadInv, StaysDead, OnlyLive, Verifies
<1>4. OnlyLive'
  BY <1>1, <1>3 DEF DeadInv, OnlyLive
<1> QED BY <1>2, <1>4 DEF DeadInv

LEMMA DeadStep == TypeInv /\ DeadInv /\ [Next]_vars => DeadInv'
<1> SUFFICES ASSUME TypeInv, DeadInv, [Next]_vars PROVE DeadInv'
  OBVIOUS
<1>1. ASSUME NEW r \in Requests, NEW ip \in IPs, NEW cred \in Creds \cup {NoCred},
             Arrive(r, ip, cred)
      PROVE  DeadInv'
  <2> DEFINE d == (cred = NoCred \/ ~live[cred])
             a == [NoAdm EXCEPT !.pc = IF Allowed(ip) THEN "ban" ELSE "done", !.ip = ip,
                                !.cred = cred, !.dead = d]
  <2>1. /\ adm' = [adm EXCEPT ![r] = a] /\ UNCHANGED live
        /\ a.pc \notin Authenticated /\ a.cred = cred /\ a.dead = d
    BY <1>1 DEF Arrive, NoAdm, Authenticated
  <2>2. a.dead /\ a.cred # NoCred => ~live[a.cred]
    BY <2>1
  <2> HIDE DEF a
  <2>3. \A q \in Requests : adm'[q] = IF q = r THEN a ELSE adm[q]
    BY <2>1, StateTypes
  <2> QED BY <2>1, <2>2, <2>3 DEF DeadInv, StaysDead, OnlyLive
<1>2. ASSUME NEW r \in Requests, Reuse(r) PROVE DeadInv'
  <2>1. /\ adm' = [adm EXCEPT ![r] = NoAdm] /\ UNCHANGED live
        /\ NoAdm.pc \notin Authenticated /\ NoAdm.dead = FALSE
    BY <1>2 DEF Reuse, NoAdm, Authenticated
  <2>2. \A q \in Requests : adm'[q] = IF q = r THEN NoAdm ELSE adm[q]
    BY <2>1, StateTypes
  <2> QED BY <2>1, <2>2 DEF DeadInv, StaysDead, OnlyLive
<1>3. ASSUME NEW r \in Requests, Handler(r) PROVE DeadInv'
  <2>1. CASE CheckBan(r) \/ AuthFailed(r)
    <3>1. UNCHANGED live /\ \E p \in Gates \ Authenticated : GoTo(r, p)
      BY <2>1 DEF CheckBan, AuthFailed, Gates, Authenticated
    <3> QED BY <3>1, DeadMove
  <2>2. CASE Lookup(r)
    <3>1. UNCHANGED live /\ \E p \in Gates : GoTo(r, p) /\ (p \in Authenticated => Verifies(r))
      BY <2>2 DEF Lookup, Gates, Authenticated
    <3> QED BY <3>1, DeadMove
  <2>3. CASE \/ Forgive(r) \/ RateCheck(r) \/ Acquire(r) \/ ServeUnlogged(r) \/ Release(r)
             \/ \E failed \in BOOLEAN : SpendCheck(r, failed) \/ SpendCheckAll(r, failed)
             \/ \E cost \in 0 .. MaxCost, failed \in BOOLEAN : ServeLogged(r, cost, failed)
    <3>1. UNCHANGED live /\ \E p \in Gates : GoTo(r, p)
      BY <2>3 DEF Forgive, RateCheck, Acquire, ServeUnlogged, Release, SpendCheck, SpendCheckAll,
                  ServeLogged, Gates
    <3>2. adm[r].pc \in Authenticated
      BY <2>3 DEF Forgive, RateCheck, Acquire, ServeUnlogged, SpendCheck, SpendCheckAll, ServeLogged,
                  Release, At, Authenticated
    <3> QED BY <3>1, <3>2, DeadMove
  <2> QED BY <1>3, <2>1, <2>2, <2>3 DEF Handler
<1>4. CASE \E c \in Creds : Invalidate(c)
  <2>1. UNCHANGED adm /\ \A c \in Creds : live'[c] => live[c]
    BY <1>4 DEF Invalidate, TypeInv, AdmissionTypeOK
  <2>2. \A r \in Requests : adm[r].cred # NoCred => adm[r].cred \in Creds
    BY StateTypes DEF AdmRecs
  <2> QED BY <2>1, <2>2 DEF DeadInv, StaysDead, OnlyLive
<1>5. CASE Tick \/ UNCHANGED vars
  BY <1>5 DEF Tick, vars, DeadInv, StaysDead, OnlyLive
<1>6. CASE Midnight
  <2>1. /\ UNCHANGED live
        /\ adm' = [r \in Requests |-> [adm[r] EXCEPT !.today = (adm[r].today /\ ~At(r, "serve"))]]
    BY <1>6 DEF Midnight
  <2>2. ASSUME NEW a \in AdmRecs, NEW b
        PROVE  /\ [a EXCEPT !.today = b].pc = a.pc /\ [a EXCEPT !.today = b].cred = a.cred
               /\ [a EXCEPT !.today = b].dead = a.dead
    BY DEF AdmRecs
  <2>3. \A r \in Requests : /\ adm'[r].pc = adm[r].pc /\ adm'[r].cred = adm[r].cred
                            /\ adm'[r].dead = adm[r].dead
    BY <2>1, <2>2, StateTypes
  <2> QED BY <2>1, <2>3 DEF DeadInv, StaysDead, OnlyLive
<1> QED BY <1>1, <1>2, <1>3, <1>4, <1>5, <1>6 DEF Next

(* authenticate caches nothing: a token that was revoked, rotated or       *)
(* expired before a request arrived does not get that request served.      *)
THEOREM DeadTokenNeverServed == Spec => []DeadTokenNotServed
<1>1. DeadInv => DeadTokenNotServed
  BY DEF DeadInv, OnlyLive, DeadTokenNotServed, Authenticated
<1> QED BY <1>1, DeadInit, DeadStep, TypesAlways, PTL DEF Spec
-----------------------------------------------------------------------------
(* The lockout.  Behind the address check a request has an address, so     *)
(* that it counts as a caller exactly while it is between the two calls.   *)
HasAddress == \A r \in Requests :
    adm[r].pc \in {"ban", "lookup", "fail", "forgive"} => adm[r].ip \in IPs

Calling(a) == IF a.pc \in {"lookup", "fail", "forgive"} THEN a.ip ELSE ""

Callers == [r \in Requests |-> Calling(adm[r])]

(* One request moves to the record a. *)
Turns(r, a) == \A q \in Requests : adm'[q] = IF q = r THEN a ELSE adm[q]

LEMMA TurnCallers ==
    ASSUME NEW r \in Requests, NEW a, Turns(r, a)
    PROVE  Callers' = [Callers EXCEPT ![r] = Calling(a)]
  BY DEF Turns, Callers

LEMMA TurnAddress ==
    ASSUME HasAddress, NEW r \in Requests, NEW a, Turns(r, a),
           a.pc \in {"ban", "lookup", "fail", "forgive"} => a.ip \in IPs
    PROVE  HasAddress'
  BY DEF Turns, HasAddress

LEMMA GoToTurns ==
    ASSUME TypeInv, NEW r \in Requests, NEW p \in Gates, GoTo(r, p)
    PROVE  \E a : Turns(r, a) /\ a.pc = p /\ a.ip = adm[r].ip
<1> DEFINE c == adm[r]
           a == [c EXCEPT !.pc = p]
<1>1. adm' = [adm EXCEPT ![r] = a] /\ c \in AdmRecs
  BY StateTypes DEF GoTo
<1>2. a.pc = p /\ a.ip = c.ip
  BY <1>1 DEF AdmRecs
<1> HIDE DEF a
<1>3. Turns(r, a)
  BY <1>1, StateTypes DEF Turns
<1> QED BY <1>2, <1>3

(* A step that leaves the lockout and who calls it alone. *)
Aside == UNCHANGED <<lock, Callers>>

LEMMA AsideMove ==
    ASSUME TypeInv, HasAddress, NEW r \in Requests, NEW p \in Gates, GoTo(r, p), UNCHANGED lock,
           p \notin {"ban", "lookup", "fail", "forgive"},
           adm[r].pc \notin {"lookup", "fail", "forgive"}
    PROVE  HasAddress' /\ Aside
<1>1. PICK a : Turns(r, a) /\ a.pc = p
  BY GoToTurns
<1>2. Calling(a) = Callers[r]
  BY <1>1 DEF Calling, Callers
<1>3. Callers' = Callers
  BY <1>1, <1>2, TurnCallers DEF Callers
<1> QED BY <1>1, <1>3, TurnAddress DEF Aside

LockoutStep == [L!LockoutNext]_<<lock, Callers>>

LEMMA BanMaps ==
    ASSUME TypeInv, HasAddress, NEW r \in Requests, CheckBan(r)
    PROVE  HasAddress' /\ LockoutStep
<1>0. adm[r].pc = "ban" /\ adm[r].ip \in IPs /\ UNCHANGED lock
  BY DEF CheckBan, At, HasAddress
<1> PICK ip \in IPs : ip = adm[r].ip
  BY <1>0
<1>1. CASE L!IsBanned(ip)
  <2>1. GoTo(r, "done")
    BY <1>1 DEF CheckBan
  <2> QED BY <1>0, <2>1, AsideMove DEF Gates, Aside, LockoutStep
<1>2. CASE ~L!IsBanned(ip)
  <2>1. GoTo(r, "lookup")
    BY <1>2 DEF CheckBan
  <2>2. PICK a : Turns(r, a) /\ a.pc = "lookup" /\ a.ip = ip
    BY <2>1, GoToTurns DEF Gates
  <2>3. HasAddress'
    BY <1>0, <2>2, TurnAddress
  <2>4. Callers[r] = "" /\ Callers' = [Callers EXCEPT ![r] = ip]
    BY <1>0, <2>2, TurnCallers DEF Callers, Calling
  <2>5. L!Admit(r, ip)
    BY <1>0, <1>2, <2>4 DEF L!Admit, Callers, Calling
  <2>6. L!LockoutNext
    BY <2>5 DEF L!LockoutNext
  <2> QED BY <2>3, <2>6 DEF LockoutStep
<1> QED BY <1>1, <1>2

LEMMA LookupMaps ==
    ASSUME TypeInv, HasAddress, NEW r \in Requests, Lookup(r)
    PROVE  HasAddress' /\ LockoutStep
<1>0. adm[r].pc = "lookup" /\ adm[r].ip \in IPs /\ UNCHANGED lock
  BY DEF Lookup, At, HasAddress
<1>1. PICK p \in {"forgive", "fail"} : GoTo(r, p)
  BY DEF Lookup
<1>2. PICK a : Turns(r, a) /\ a.pc = p /\ a.ip = adm[r].ip
  BY <1>1, GoToTurns DEF Gates
<1>3. HasAddress'
  BY <1>0, <1>2, TurnAddress
<1>4. Calling(a) = Callers[r]
  BY <1>0, <1>2 DEF Calling, Callers
<1>5. Callers' = Callers
  BY <1>2, <1>4, TurnCallers DEF Callers
<1> QED BY <1>0, <1>3, <1>5 DEF LockoutStep

LEMMA OutcomeMaps ==
    ASSUME TypeInv, HasAddress, NEW r \in Requests, AuthFailed(r) \/ Forgive(r)
    PROVE  HasAddress' /\ LockoutStep
<1> DEFINE ip == adm[r].ip
<1>0. /\ adm[r].pc \in {"fail", "forgive"} /\ ip \in IPs /\ ip # ""
      /\ \/ AuthFailed(r) /\ L!Fail(ip)
         \/ Forgive(r) /\ L!Success(ip)
  BY AddressAssumption DEF AuthFailed, Forgive, At, HasAddress
<1>1. PICK p \in {"done", "rate"} : GoTo(r, p)
  BY DEF AuthFailed, Forgive
<1>2. PICK a : Turns(r, a) /\ a.pc = p
  BY <1>1, GoToTurns DEF Gates
<1>3. HasAddress'
  BY <1>2, TurnAddress
<1>4. Callers[r] = ip /\ Callers' = [Callers EXCEPT ![r] = ""]
  BY <1>0, <1>2, TurnCallers DEF Callers, Calling
<1>5. L!AuthFails(r) \/ L!AuthSucceeds(r)
  BY <1>0, <1>4 DEF L!AuthFails, L!AuthSucceeds, Callers, Calling
<1> QED BY <1>3, <1>5 DEF LockoutStep, L!LockoutNext
LEMMA OutsideMaps ==
    ASSUME TypeInv, HasAddress, NEW r \in Requests,
           \/ Reuse(r)
           \/ \E ip \in IPs, cred \in Creds \cup {NoCred} : Arrive(r, ip, cred)
    PROVE  HasAddress' /\ Aside
<1>1. \E a : /\ adm' = [adm EXCEPT ![r] = a] /\ adm[r].pc \in {"idle", "done"}
             /\ a.pc \notin {"lookup", "fail", "forgive"}
             /\ a.pc = "ban" => a.ip \in IPs
  <2>1. CASE Reuse(r)
    <3>1. NoAdm.pc = "idle" /\ adm[r].pc = "done" /\ adm' = [adm EXCEPT ![r] = NoAdm]
      BY <2>1 DEF Reuse, At, NoAdm
    <3> QED BY <3>1
  <2>2. CASE \E ip \in IPs, cred \in Creds \cup {NoCred} : Arrive(r, ip, cred)
    <3> PICK ip \in IPs, cred \in Creds \cup {NoCred} : Arrive(r, ip, cred)
      BY <2>2
    <3> DEFINE pc == IF Allowed(ip) THEN "ban" ELSE "done"
               a  == [NoAdm EXCEPT !.pc = pc, !.ip = ip, !.cred = cred,
                                   !.dead = (cred = NoCred \/ ~live[cred])]
    <3>1. /\ adm[r].pc = "idle" /\ adm' = [adm EXCEPT ![r] = a] /\ a.pc = pc /\ a.ip = ip
      BY DEF Arrive, At, NoAdm
    <3> HIDE DEF a
    <3> QED BY <3>1
  <2> QED BY <2>1, <2>2
<1>2. PICK a : /\ adm' = [adm EXCEPT ![r] = a] /\ adm[r].pc \in {"idle", "done"}
               /\ a.pc \notin {"lookup", "fail", "forgive"}
               /\ a.pc = "ban" => a.ip \in IPs
  BY <1>1
<1>3. Turns(r, a)
  BY <1>2, StateTypes DEF Turns
<1>4. Calling(a) = Callers[r]
  BY <1>2 DEF Calling, Callers
<1>5. Callers' = Callers
  BY <1>3, <1>4, TurnCallers DEF Callers
<1>6. UNCHANGED lock
  BY DEF Reuse, Arrive
<1> QED BY <1>2, <1>3, <1>5, <1>6, TurnAddress DEF Aside

LEMMA WorldMaps ==
    ASSUME TypeInv, HasAddress, (\E c \in Creds : Invalidate(c)) \/ Tick \/ Midnight \/ UNCHANGED vars
    PROVE  HasAddress' /\ LockoutStep
<1>1. CASE (\E c \in Creds : Invalidate(c)) \/ UNCHANGED vars
  <2>1. UNCHANGED <<adm, lock>>
    BY <1>1 DEF Invalidate, vars
  <2> QED BY <2>1 DEF HasAddress, LockoutStep, Callers
<1>2. CASE Tick
  <2>1. UNCHANGED adm /\ L!LockTick
    BY <1>2 DEF Tick
  <2>2. L!Clock
    BY <2>1 DEF L!Clock, Callers, Calling
  <2>3. L!LockoutNext
    BY <2>2 DEF L!LockoutNext
  <2> QED BY <2>1, <2>3 DEF HasAddress, LockoutStep
<1>3. CASE Midnight
  <2>1. UNCHANGED lock
        /\ adm' = [r \in Requests |-> [adm[r] EXCEPT !.today = (adm[r].today /\ ~At(r, "serve"))]]
    BY <1>3 DEF Midnight
  <2>2. ASSUME NEW a \in AdmRecs, NEW b
        PROVE  [a EXCEPT !.today = b].pc = a.pc /\ [a EXCEPT !.today = b].ip = a.ip
    BY DEF AdmRecs
  <2>3. \A r \in Requests : adm'[r].pc = adm[r].pc /\ adm'[r].ip = adm[r].ip
    BY <2>1, <2>2, StateTypes
  <2>4. Callers' = Callers /\ HasAddress'
    BY <2>3 DEF Callers, Calling, HasAddress
  <2> QED BY <2>1, <2>4 DEF LockoutStep
<1> QED BY <1>1, <1>2, <1>3

LEMMA BehindMaps ==
    ASSUME TypeInv, HasAddress, NEW r \in Requests,
           \/ RateCheck(r) \/ Acquire(r) \/ ServeUnlogged(r) \/ Release(r)
           \/ \E failed \in BOOLEAN : SpendCheck(r, failed) \/ SpendCheckAll(r, failed)
           \/ \E cost \in 0 .. MaxCost, failed \in BOOLEAN : ServeLogged(r, cost, failed)
    PROVE  HasAddress' /\ Aside
<1> DEFINE Behind == {"rate", "spend", "spendAll", "acquire", "serve", "release", "done"}
<1>1. /\ UNCHANGED lock /\ adm[r].pc \in Behind
      /\ \E p \in Behind : GoTo(r, p)
  BY DEF RateCheck, Acquire, ServeUnlogged, Release, SpendCheck, SpendCheckAll, ServeLogged, At
<1> QED BY <1>1, AsideMove DEF Gates

LEMMA UsesStep == TypeInv /\ HasAddress /\ [Next]_vars => HasAddress' /\ LockoutStep
<1> SUFFICES ASSUME TypeInv, HasAddress, [Next]_vars PROVE HasAddress' /\ LockoutStep
  OBVIOUS
<1>0. Aside => LockoutStep
  BY DEF Aside, LockoutStep
<1>1. ASSUME NEW r \in Requests, Handler(r) PROVE HasAddress' /\ LockoutStep
  BY <1>0, <1>1, BanMaps, LookupMaps, OutcomeMaps, BehindMaps DEF Handler
<1> QED BY <1>0, <1>1, OutsideMaps, WorldMaps DEF Next

LEMMA UsesInit == Init => HasAddress /\ L!LockoutInit
<1> SUFFICES ASSUME Init PROVE HasAddress /\ L!LockoutInit
  OBVIOUS
<1>1. \A r \in Requests : adm[r] = NoAdm /\ adm[r].pc = "idle"
  BY DEF Init, NoAdm
<1>2. lock = [ip \in IPs |-> L!NoEntry]
  BY DEF Init
<1> QED BY <1>1, <1>2 DEF HasAddress, L!LockoutInit

(* handleAPI calls the lockout as Lockout supposes: what is proved of it   *)
(* (LockoutProofs) holds of the entries under the gates, for any number of *)
(* requests.                                                               *)
THEOREM AdmissionUsesLockout == Spec => UsesLockout
<1> DEFINE Mapped == [r \in Requests |->
                        IF adm[r].pc \in {"lookup", "fail", "forgive"} THEN adm[r].ip ELSE ""]
<1>1. LockoutStep => [L!LockoutNext]_<<lock, Mapped>>
  BY DEF LockoutStep, Callers, Calling
<1> QED BY <1>1, UsesInit, UsesStep, TypesAlways, PTL
        DEF Spec, UsesLockout, L!LockoutSpec, L!lockoutVars

-----------------------------------------------------------------------------
(* Induction on numbers, stated of a set. *)
LEMMA InductionOnSet ==
    ASSUME NEW S, 0 \in S, \A n \in Nat : n \in S => n + 1 \in S
    PROVE  Nat \subseteq S
<1> DEFINE T == {n \in Nat : n \notin S}
           R == OpToRel(<, Nat)
<1>1. IsWellFoundedOn(R, Nat) /\ T \subseteq Nat
  BY NatLessThanWellFounded
<1>2. \A x, y \in Nat : x < y => <<x, y>> \in R
  BY DEF OpToRel
<1> HIDE DEF R
<1>3. ASSUME T # {} PROVE FALSE
  <2>1. PICK x \in T : \A y \in T : ~(<<y, x>> \in R)
    BY <1>1, <1>3, WFMin
  <2>2. x \in Nat /\ x # 0 /\ x \notin S
    OBVIOUS
  <2>3. x - 1 \in Nat /\ x - 1 < x /\ x - 1 + 1 = x
    BY <2>2
  <2>4. x - 1 \notin T
    BY <1>2, <2>1, <2>2, <2>3
  <2> QED BY <2>2, <2>3, <2>4
<1> QED BY <1>3

(* The sum of the costs of all tokens.  MapThenSumSet adds along a          *)
(* recursive function on the sets of tokens; SumAt is one step of it.      *)
First(S) == CHOOSE x \in S : TRUE

SumAt(f, g, S) == IF S = {} THEN 0 ELSE f[First(S)] + g[S \ {First(S)}]

Sums(f, g) == g = [S \in SUBSET Creds |-> SumAt(f, g, S)]

Sum(f) == (CHOOSE g : Sums(f, g))[Creds]

(* What TotalSpent computes, in this state and in the next. *)
LEMMA SumOfSpent == TotalSpent = Sum(spent) /\ TotalSpent' = Sum(spent')
  BY DEF Sum, Sums, SumAt, First, TotalSpent, MapThenSumSet, MapThenFoldSet

(* The sets of tokens, by their size. *)
Sized(n) == {S \in SUBSET Creds : Cardinality(S) <= n}

LEMMA Sizes ==
    ASSUME NEW S \in SUBSET Creds
    PROVE  /\ IsFiniteSet(S) /\ Cardinality(S) \in Nat /\ (Cardinality(S) = 0 => S = {})
           /\ S # {} => /\ First(S) \in S
                        /\ Cardinality(S \ {First(S)}) = Cardinality(S) - 1
<1>1. IsFiniteSet(S) /\ Cardinality(S) \in Nat
  BY AdmissionAssumption, FS_Subset, FS_CardinalityType
<1>2. S # {} => First(S) \in S
  BY DEF First
<1>3. S # {} => Cardinality(S \ {First(S)}) = Cardinality(S) - 1
  BY <1>1, <1>2, FS_RemoveElement
<1>4. Cardinality(S) = 0 => S = {}
  BY <1>1, FS_EmptySet
<1> QED BY <1>1, <1>2, <1>3, <1>4

(* There is such a function, by induction on the size of the sets. *)
LEMMA SumsExist ==
    ASSUME NEW f
    PROVE  \E g : Sums(f, g)
<1> DEFINE A == {n \in Nat : \E g : \A S \in Sized(n) : g[S] = SumAt(f, g, S)}
<1>1. 0 \in A
  <2> DEFINE g == [S \in SUBSET Creds |-> 0]
  <2>1. ASSUME NEW S \in Sized(0) PROVE g[S] = SumAt(f, g, S)
    <3>0. S \in SUBSET Creds /\ Cardinality(S) <= 0 /\ Cardinality(S) \in Nat
      BY Sizes DEF Sized
    <3>1. S \in SUBSET Creds /\ S = {}
      <4>1. Cardinality(S) = 0
        BY <3>0
      <4> QED BY <3>0, <4>1, Sizes
    <3> QED BY <3>1 DEF SumAt
  <2> QED BY <2>1
<1>2. ASSUME NEW n \in Nat, n \in A PROVE n + 1 \in A
  <2>1. PICK g : \A S \in Sized(n) : g[S] = SumAt(f, g, S)
    BY <1>2
  <2> DEFINE h == [S \in SUBSET Creds |-> SumAt(f, g, S)]
  <2>2. \A S \in Sized(n) : h[S] = g[S]
    BY <2>1 DEF Sized
  <2>3. \A S \in SUBSET Creds : h[S] = SumAt(f, g, S)
    OBVIOUS
  <2> HIDE DEF h
  <2>4. ASSUME NEW S \in Sized(n + 1) PROVE h[S] = SumAt(f, h, S)
    <3>1. S \in SUBSET Creds /\ Cardinality(S) <= n + 1
      BY DEF Sized
    <3>2. CASE S = {}
      BY <2>3, <3>1, <3>2 DEF SumAt
    <3>3. CASE S # {}
      <4> DEFINE k == Cardinality(S)
                 m == Cardinality(S \ {First(S)})
      <4>0. m = k - 1 /\ k \in Nat /\ k <= n + 1 /\ S \ {First(S)} \in SUBSET Creds
        BY <3>1, <3>3, Sizes
      <4>1. S \ {First(S)} \in Sized(n)
        <5> HIDE DEF k
        <5>1. m <= n
          BY <4>0
        <5> QED BY <4>0, <5>1 DEF Sized
      <4> QED BY <2>2, <2>3, <3>1, <4>1 DEF SumAt
    <3> QED BY <3>2, <3>3
  <2> QED BY <2>4
<1> HIDE DEF A
<1>3. Nat \subseteq A
  BY <1>1, <1>2, InductionOnSet
<1>4. Cardinality(Creds) \in Nat
  BY Sizes
<1>5. PICK g : \A S \in Sized(Cardinality(Creds)) : g[S] = SumAt(f, g, S)
  BY <1>3, <1>4 DEF A
<1>6. \A S \in SUBSET Creds : g[S] = SumAt(f, g, S)
  <2> SUFFICES ASSUME NEW S \in SUBSET Creds PROVE S \in Sized(Cardinality(Creds))
    BY <1>5
  <2> QED BY AdmissionAssumption, FS_Subset DEF Sized
<1> DEFINE h == [S \in SUBSET Creds |-> g[S]]
<1>7. \A S \in SUBSET Creds : h[S] = g[S] /\ S \ {First(S)} \in SUBSET Creds
  OBVIOUS
<1> HIDE DEF h
<1>8. \A S \in SUBSET Creds : SumAt(f, h, S) = g[S]
  BY <1>6, <1>7 DEF SumAt
<1>9. h = [S \in SUBSET Creds |-> SumAt(f, h, S)]
  BY <1>8 DEF h
<1> QED BY <1>9 DEF Sums

(* What changes in one summand changes in the sum. *)
Plus(S, d, k) == IF d \in S THEN k ELSE 0

LEMMA SumMoves ==
    ASSUME NEW f \in [Creds -> Nat], NEW h \in [Creds -> Nat], NEW d \in Creds, NEW k \in Nat,
           \A c \in Creds : h[c] = IF c = d THEN f[c] + k ELSE f[c]
    PROVE  Sum(f) \in Nat /\ Sum(h) = Sum(f) + k
<1> DEFINE g == CHOOSE x : Sums(f, x)
           e == CHOOSE x : Sums(h, x)
<1>1. Sums(f, g) /\ Sums(h, e)
  BY SumsExist
<1>2. Sum(f) = g[Creds] /\ Sum(h) = e[Creds]
  BY DEF Sum
<1> HIDE DEF g, e
<1>3. \A S \in SUBSET Creds : g[S] = SumAt(f, g, S) /\ e[S] = SumAt(h, e, S)
  BY <1>1 DEF Sums
<1> DEFINE Moved(S) == g[S] \in Nat /\ e[S] = g[S] + Plus(S, d, k)
           A == {n \in Nat : \A S \in SUBSET Creds : Cardinality(S) = n => Moved(S)}
<1>4. 0 \in A
  <2> SUFFICES ASSUME NEW S \in SUBSET Creds, Cardinality(S) = 0 PROVE Moved(S)
    OBVIOUS
  <2>1. S = {}
    BY Sizes
  <2>2. g[S] = 0 /\ e[S] = 0
    BY <1>3, <2>1 DEF SumAt
  <2> QED BY <2>1, <2>2 DEF Plus
<1>5. ASSUME NEW n \in Nat, n \in A PROVE n + 1 \in A
  <2> SUFFICES ASSUME NEW S \in SUBSET Creds, Cardinality(S) = n + 1 PROVE Moved(S)
    OBVIOUS
  <2> DEFINE x == First(S)
             T == S \ {x}
  <2>1. S # {}
    BY FS_EmptySet
  <2>2. x \in Creds /\ x \in S /\ T \in SUBSET Creds /\ Cardinality(T) = n
    <3>1. x \in S /\ Cardinality(T) = Cardinality(S) - 1
      BY <2>1, Sizes
    <3> HIDE DEF x
    <3>2. x \in Creds /\ T \in SUBSET Creds
      BY <3>1
    <3> HIDE DEF T
    <3> QED BY <3>1, <3>2
  <2>3. Moved(T)
    BY <1>5, <2>2
  <2>4. g[S] = f[x] + g[T] /\ e[S] = h[x] + e[T]
    BY <1>3, <2>1 DEF SumAt
  <2>5. f[x] \in Nat /\ h[x] = IF x = d THEN f[x] + k ELSE f[x]
    BY <2>2
  <2>6. Plus(S, d, k) = (IF x = d THEN k ELSE 0) + Plus(T, d, k) /\ Plus(T, d, k) \in Nat
    BY <2>2 DEF Plus
  <2> HIDE DEF x, T
  <2> QED BY <2>3, <2>4, <2>5, <2>6
<1> HIDE DEF A
<1>6. Nat \subseteq A
  BY <1>4, <1>5, InductionOnSet
<1>7. Moved(Creds)
  <2>1. Cardinality(Creds) \in A /\ Creds \in SUBSET Creds
    BY <1>6, Sizes
  <2> QED BY <2>1 DEF A
<1>8. Plus(Creds, d, k) = k
  BY DEF Plus
<1> QED BY <1>2, <1>7, <1>8

(* A day begins with a sum of nothing. *)
LEMMA SumOfZeros ==
    ASSUME NEW f, \A c \in Creds : f[c] = 0
    PROVE  Sum(f) = 0
<1> DEFINE g == CHOOSE x : Sums(f, x)
<1>1. Sums(f, g)
  BY SumsExist
<1>2. Sum(f) = g[Creds]
  BY DEF Sum
<1> HIDE DEF g
<1>3. \A S \in SUBSET Creds : g[S] = SumAt(f, g, S)
  BY <1>1 DEF Sums
<1> DEFINE A == {n \in Nat : \A S \in SUBSET Creds : Cardinality(S) = n => g[S] = 0}
<1>4. 0 \in A
  BY <1>3, Sizes DEF SumAt
<1>5. ASSUME NEW n \in Nat, n \in A PROVE n + 1 \in A
  <2> SUFFICES ASSUME NEW S \in SUBSET Creds, Cardinality(S) = n + 1 PROVE g[S] = 0
    OBVIOUS
  <2>1. S # {}
    BY FS_EmptySet
  <2>2. First(S) \in Creds /\ S \ {First(S)} \in SUBSET Creds /\ Cardinality(S \ {First(S)}) = n
    BY <2>1, Sizes
  <2>3. g[S \ {First(S)}] = 0 /\ f[First(S)] = 0
    BY <1>5, <2>2
  <2> QED BY <1>3, <2>1, <2>3 DEF SumAt
<1> HIDE DEF A
<1>6. Nat \subseteq A
  BY <1>4, <1>5, InductionOnSet
<1>7. Cardinality(Creds) \in A /\ Creds \in SUBSET Creds
  BY <1>6, Sizes
<1> QED BY <1>2, <1>7 DEF A

-----------------------------------------------------------------------------
(* Spend caps.  The headroom left above a cap pays for every request that  *)
(* is past its check: one more passes only while the sum is below the cap, *)
(* and what it spends later is covered by its leaving.                     *)
Room(sum, cap, P) ==
    cap > 0 => sum + MaxCost * Cardinality(P) < cap + MaxCost * Cardinality(Requests)

SpendInv ==
    /\ \A c \in Creds : Room(spent[c], DailyCap[c], Pending(c))
    /\ Room(TotalSpent, GlobalCap, PendingAll)

(* What a step may do to a sum x with the requests P pending. *)
Sinks(x, y, cap, P, Q) ==
    \/ cap > 0 => y < cap
    \/ Q \subseteq P /\ y = x
    \/ \E r \in P : Q \subseteq P \ {r} /\ y <= x + MaxCost

LEMMA RequestSets ==
    ASSUME NEW P, P \subseteq Requests
    PROVE  /\ IsFiniteSet(P) /\ Cardinality(P) \in Nat
           /\ Cardinality(P) <= Cardinality(Requests) /\ Cardinality(Requests) \in Nat
  BY AdmissionAssumption, FS_Subset, FS_CardinalityType

LEMMA RoomKept ==
    ASSUME NEW P, P \subseteq Requests, NEW Q, Q \subseteq Requests,
           NEW x \in Nat, NEW y \in Nat, NEW cap \in Nat,
           Room(x, cap, P), Sinks(x, y, cap, P, Q)
    PROVE  Room(y, cap, Q)
<1> DEFINE n == Cardinality(Requests)
           p == Cardinality(P)
           q == Cardinality(Q)
<1>0. n \in Nat /\ p \in Nat /\ q \in Nat /\ q <= n /\ MaxCost \in Nat
  BY RequestSets, AdmissionAssumption
<1>1. \A i, j \in Nat : i <= j => MaxCost * i <= MaxCost * j /\ MaxCost * j \in Nat
                                  /\ MaxCost * i \in Nat
  <2> SUFFICES ASSUME NEW i \in Nat, NEW j \in Nat, i <= j
               PROVE  MaxCost * i <= MaxCost * j /\ MaxCost * j \in Nat /\ MaxCost * i \in Nat
    OBVIOUS
  <2>1. \A a, b \in Nat : a * b \in Nat
    OBVIOUS
  <2>2. j - i \in Nat /\ MaxCost * (j - i) \in Nat
    BY <1>0, <2>1
  <2>3. MaxCost * (j - i) = MaxCost * j - MaxCost * i
    BY <1>0
  <2>4. MaxCost * j \in Nat /\ MaxCost * i \in Nat
    BY <1>0, <2>1
  <2> QED BY <2>2, <2>3, <2>4
<1>2. CASE cap > 0 => y < cap
  <2>1. MaxCost * q <= MaxCost * n /\ MaxCost * n \in Nat /\ MaxCost * q \in Nat
    BY <1>0, <1>1
  <2> DEFINE a == MaxCost * q
             b == MaxCost * n
  <2> HIDE DEF a, b
  <2>2. cap > 0 => y + a < cap + b
    BY <1>2, <2>1 DEF a, b
  <2> QED BY <2>2 DEF Room, a, b
<1>3. CASE Q \subseteq P /\ y = x
  <2>1. q <= p
    BY <1>3, RequestSets, FS_Subset
  <2>2. MaxCost * q <= MaxCost * p /\ MaxCost * p \in Nat /\ MaxCost * q \in Nat /\ MaxCost * n \in Nat
    BY <1>0, <1>1, <2>1
  <2> DEFINE a == MaxCost * q
             b == MaxCost * n
             d == MaxCost * p
  <2>3. cap > 0 => x + d < cap + b
    BY DEF Room
  <2> HIDE DEF a, b, d
  <2>4. cap > 0 => y + a < cap + b
    BY <1>3, <2>2, <2>3 DEF a, b, d
  <2> QED BY <2>4 DEF Room, a, b
<1>4. CASE \E r \in P : Q \subseteq P \ {r} /\ y <= x + MaxCost
  <2>1. PICK r \in P : Q \subseteq P \ {r} /\ y <= x + MaxCost
    BY <1>4
  <2>2. Cardinality(P \ {r}) = p - 1 /\ q <= Cardinality(P \ {r})
    BY <2>1, RequestSets, FS_Subset, FS_RemoveElement
  <2>3. q + 1 <= p
    BY <1>0, <2>2
  <2>4. MaxCost * (q + 1) <= MaxCost * p /\ MaxCost * p \in Nat /\ MaxCost * q \in Nat /\ MaxCost * n \in Nat
    BY <1>0, <1>1, <2>3
  <2>5. MaxCost * (q + 1) = MaxCost * q + MaxCost
    BY <1>0
  <2> DEFINE a == MaxCost * q
             b == MaxCost * n
             d == MaxCost * p
  <2>6. cap > 0 => x + d < cap + b
    BY DEF Room
  <2>7. a \in Nat /\ b \in Nat /\ d \in Nat /\ a + MaxCost <= d
    BY <2>4, <2>5
  <2> HIDE DEF a, b, d
  <2>8. cap > 0 => y + a < cap + b
    BY <1>0, <2>1, <2>6, <2>7
  <2> QED BY <2>8 DEF Room, a, b
<1> QED BY <1>2, <1>3, <1>4 DEF Sinks

LEMMA PendingSets ==
    /\ PendingAll \subseteq Requests /\ PendingAll' \subseteq Requests
    /\ \A c : Pending(c) \subseteq Requests /\ Pending(c)' \subseteq Requests
  BY DEF Pending, PendingAll

LEMMA TotalIsNat ==
    ASSUME TypeInv
    PROVE  TotalSpent \in Nat /\ \A c \in Creds : spent[c] \in Nat
<1>1. spent \in [Creds -> Nat]
  BY StateTypes
<1>2. CASE Creds = {}
  BY <1>2, SumOfZeros, SumOfSpent
<1>3. ASSUME NEW d \in Creds PROVE Sum(spent) \in Nat
  <2>1. \A c \in Creds : spent[c] = IF c = d THEN spent[c] + 0 ELSE spent[c]
    BY <1>1
  <2> QED BY <1>1, <2>1, SumMoves
<1> QED BY <1>1, <1>2, <1>3, SumOfSpent

(* A step that lets no request past a check, and spends nothing. *)
Checked == {"spendAll", "acquire", "serve"}
AllChecked == {"acquire", "serve"}

Frugal ==
    /\ UNCHANGED spent
    /\ \A q \in Requests : adm'[q].pc \in Checked =>
         /\ adm'[q].cred = adm[q].cred /\ adm[q].pc \in Checked
         /\ adm'[q].pc \in AllChecked => adm[q].pc \in AllChecked

SinksAll ==
    /\ \A c \in Creds : Sinks(spent[c], spent'[c], DailyCap[c], Pending(c), Pending(c)')
    /\ Sinks(TotalSpent, TotalSpent', GlobalCap, PendingAll, PendingAll')

LEMMA FrugalSinks == ASSUME Frugal PROVE SinksAll
<1>1. \A c \in Creds : Pending(c)' \subseteq Pending(c) /\ spent'[c] = spent[c]
  BY DEF Frugal, Pending, Checked
<1>2. PendingAll' \subseteq PendingAll
  BY DEF Frugal, PendingAll, Checked, AllChecked
<1>3. TotalSpent' = TotalSpent
  BY SumOfSpent DEF Frugal
<1> QED BY <1>1, <1>2, <1>3 DEF SinksAll, Sinks

(* Most gates are frugal. *)
LEMMA FrugalMove ==
    ASSUME TypeInv, NEW r \in Requests, NEW p \in Gates, GoTo(r, p), UNCHANGED spent,
           \/ p \notin Checked
           \/ p = "serve" /\ adm[r].pc = "acquire"
    PROVE  Frugal
  BY GoToEffect DEF Frugal, Checked, AllChecked

LEMMA FrugalSteps ==
    ASSUME TypeInv, NEW r \in Requests,
           \/ CheckBan(r) \/ Lookup(r) \/ AuthFailed(r) \/ Forgive(r) \/ RateCheck(r)
           \/ Acquire(r) \/ ServeUnlogged(r) \/ Release(r)
    PROVE  Frugal
<1>1. CASE CheckBan(r) \/ Lookup(r) \/ AuthFailed(r) \/ Forgive(r)
  <2>1. UNCHANGED spent /\ \E p \in Gates : GoTo(r, p) /\ p \notin Checked
    BY <1>1 DEF CheckBan, Lookup, AuthFailed, Forgive, Gates, Checked
  <2> QED BY <2>1, FrugalMove
<1>2. CASE RateCheck(r) \/ ServeUnlogged(r) \/ Release(r)
  <2>1. UNCHANGED spent /\ \E p \in Gates : GoTo(r, p) /\ p \notin Checked
    BY <1>2 DEF RateCheck, ServeUnlogged, Release, Gates, Checked
  <2> QED BY <2>1, FrugalMove
<1>3. CASE Acquire(r)
  <2>1. UNCHANGED spent /\ adm[r].pc = "acquire" /\ (GoTo(r, "serve") \/ GoTo(r, "done"))
    BY <1>3 DEF Acquire, At
  <2> QED BY <2>1, FrugalMove DEF Gates, Checked
<1> QED BY <1>1, <1>2, <1>3

LEMMA FrugalWorld ==
    ASSUME TypeInv,
           \/ \E r \in Requests : Reuse(r)
           \/ \E r \in Requests, ip \in IPs, cred \in Creds \cup {NoCred} : Arrive(r, ip, cred)
           \/ (\E c \in Creds : Invalidate(c)) \/ Tick \/ UNCHANGED vars
    PROVE  Frugal
<1>1. ASSUME NEW r \in Requests, NEW a, a.pc \notin Checked, UNCHANGED spent,
             adm' = [adm EXCEPT ![r] = a]
      PROVE  Frugal
  <2>1. \A q \in Requests : adm'[q] = IF q = r THEN a ELSE adm[q]
    BY <1>1, StateTypes
  <2> QED BY <1>1, <2>1 DEF Frugal
<1>2. ASSUME NEW r \in Requests, NEW ip \in IPs, NEW cred \in Creds \cup {NoCred},
             Arrive(r, ip, cred)
      PROVE  Frugal
  <2> DEFINE pc == IF Allowed(ip) THEN "ban" ELSE "done"
             a  == [NoAdm EXCEPT !.pc = pc, !.ip = ip, !.cred = cred,
                                 !.dead = (cred = NoCred \/ ~live[cred])]
  <2>1. UNCHANGED spent /\ adm' = [adm EXCEPT ![r] = a] /\ a.pc = pc
    BY <1>2 DEF Arrive, NoAdm
  <2>2. a.pc \notin Checked
    BY <2>1 DEF Checked
  <2> HIDE DEF a
  <2> QED BY <1>1, <2>1, <2>2
<1>3. ASSUME NEW r \in Requests, Reuse(r) PROVE Frugal
  <2>1. UNCHANGED spent /\ adm' = [adm EXCEPT ![r] = NoAdm]
    BY <1>3 DEF Reuse
  <2>2. NoAdm.pc \notin Checked
    BY DEF NoAdm, Checked
  <2> QED BY <1>1, <2>1, <2>2
<1>4. CASE (\E c \in Creds : Invalidate(c)) \/ Tick \/ UNCHANGED vars
  BY <1>4 DEF Invalidate, Tick, vars, Frugal
<1> QED BY <1>2, <1>3, <1>4

(* The two checks of checkSpend, when their queries do not fail. *)
LEMMA SpendCheckSinks ==
    ASSUME TypeInv, ~DBFails, NEW r \in Requests, NEW failed, SpendCheck(r, failed)
    PROVE  SinksAll
<1> DEFINE d == adm[r].cred
<1>1. adm[r].pc = "spend" /\ UNCHANGED spent /\ failed = FALSE
  BY DEF SpendCheck, At, QueryFails
<1>2. CASE OverCap(spent[d], DailyCap[d])
  <2>1. GoTo(r, "done")
    BY <1>1, <1>2 DEF SpendCheck
  <2> QED BY <1>1, <2>1, FrugalMove, FrugalSinks DEF Gates, Checked
<1>3. CASE ~OverCap(spent[d], DailyCap[d])
  <2>1. GoTo(r, "spendAll")
    BY <1>1, <1>3 DEF SpendCheck
  <2>2. \A q \in Requests : adm'[q].cred = adm[q].cred
                         /\ adm'[q].pc = IF q = r THEN "spendAll" ELSE adm[q].pc
    BY <2>1, GoToEffect DEF Gates
  <2>3. ASSUME NEW c \in Creds
        PROVE  Sinks(spent[c], spent'[c], DailyCap[c], Pending(c), Pending(c)')
    <3>1. CASE c = d
      <4>1. DailyCap[c] \in Nat /\ spent[c] \in Nat
        BY AdmissionAssumption, StateTypes
      <4>2. DailyCap[c] > 0 => spent'[c] < DailyCap[c]
        BY <1>1, <1>3, <3>1, <4>1 DEF OverCap
      <4> QED BY <4>2 DEF Sinks
    <3>2. CASE c # d
      <4>1. Pending(c)' \subseteq Pending(c)
        BY <2>2, <3>2 DEF Pending
      <4> QED BY <1>1, <4>1 DEF Sinks
    <3> QED BY <3>1, <3>2
  <2>4. PendingAll' \subseteq PendingAll
    BY <2>2 DEF PendingAll
  <2>5. TotalSpent' = TotalSpent
    BY <1>1, SumOfSpent
  <2> QED BY <2>3, <2>4, <2>5 DEF SinksAll, Sinks
<1> QED BY <1>2, <1>3

LEMMA SpendCheckAllSinks ==
    ASSUME TypeInv, ~DBFails, NEW r \in Requests, NEW failed, SpendCheckAll(r, failed)
    PROVE  SinksAll
<1>1. adm[r].pc = "spendAll" /\ UNCHANGED spent /\ failed = FALSE /\ TotalSpent' = TotalSpent
  BY SumOfSpent DEF SpendCheckAll, At, QueryFails
<1>2. CASE OverCap(TotalSpent, GlobalCap)
  <2>1. GoTo(r, "done")
    BY <1>1, <1>2 DEF SpendCheckAll
  <2> QED BY <1>1, <2>1, FrugalMove, FrugalSinks DEF Gates, Checked
<1>3. CASE ~OverCap(TotalSpent, GlobalCap)
  <2>1. GoTo(r, "acquire")
    BY <1>1, <1>3 DEF SpendCheckAll
  <2>2. \A q \in Requests : adm'[q].cred = adm[q].cred
                         /\ adm'[q].pc = IF q = r THEN "acquire" ELSE adm[q].pc
    BY <2>1, GoToEffect DEF Gates
  <2>3. \A c \in Creds : Pending(c)' \subseteq Pending(c) /\ spent'[c] = spent[c]
    BY <1>1, <2>2 DEF Pending
  <2>4. GlobalCap \in Nat /\ TotalSpent \in Nat
    BY AdmissionAssumption, TotalIsNat
  <2> HIDE DEF TotalSpent
  <2>5. GlobalCap > 0 => TotalSpent' < GlobalCap
    BY <1>1, <1>3, <2>4 DEF OverCap
  <2> QED BY <2>3, <2>5 DEF SinksAll, Sinks
<1> QED BY <1>2, <1>3

(* The row is written, and with it the request is no longer pending. *)
LEMMA ServeSinks ==
    ASSUME TypeInv, NEW r \in Requests, NEW cost \in 0 .. MaxCost, NEW failed,
           ServeLogged(r, cost, failed)
    PROVE  SinksAll
<1> DEFINE d == adm[r].cred
           k == IF adm[r].today /\ ~failed THEN cost ELSE 0
<1>1. /\ adm[r].pc = "serve" /\ GoTo(r, "release")
      /\ spent' = IF adm[r].today /\ ~failed THEN [spent EXCEPT ![d] = spent[d] + cost] ELSE spent
  BY DEF ServeLogged, At
<1>2. d \in Creds /\ spent \in [Creds -> Nat] /\ MaxCost \in Nat
  BY <1>1, StateTypes, AdmissionAssumption DEF Authenticated
<1>3. k \in Nat /\ k <= MaxCost
  BY <1>2
<1>4. \A c \in Creds : spent'[c] = IF c = d THEN spent[c] + k ELSE spent[c]
  BY <1>1, <1>2
<1>5. spent' \in [Creds -> Nat]
  BY <1>1, <1>2
<1>6. \A q \in Requests : adm'[q].cred = adm[q].cred
                       /\ adm'[q].pc = IF q = r THEN "release" ELSE adm[q].pc
  BY <1>1, GoToEffect DEF Gates
<1> HIDE DEF k
<1>7. ASSUME NEW c \in Creds
      PROVE  Sinks(spent[c], spent'[c], DailyCap[c], Pending(c), Pending(c)')
  <2>1. CASE c = d
    <3>1. r \in Pending(c) /\ Pending(c)' \subseteq Pending(c) \ {r}
      BY <1>1, <1>6, <2>1 DEF Pending
    <3>2. spent'[c] <= spent[c] + MaxCost
      BY <1>2, <1>3, <1>4, <2>1
    <3> QED BY <3>1, <3>2 DEF Sinks
  <2>2. CASE c # d
    <3>1. Pending(c)' \subseteq Pending(c) /\ spent'[c] = spent[c]
      BY <1>4, <1>6, <2>2 DEF Pending
    <3> QED BY <3>1 DEF Sinks
  <2> QED BY <2>1, <2>2
<1>8. Sinks(TotalSpent, TotalSpent', GlobalCap, PendingAll, PendingAll')
  <2>1. r \in PendingAll /\ PendingAll' \subseteq PendingAll \ {r}
    BY <1>1, <1>6 DEF PendingAll
  <2>2. Sum(spent) \in Nat /\ Sum(spent') = Sum(spent) + k
    BY <1>2, <1>3, <1>4, <1>5, SumMoves
  <2>3. TotalSpent' <= TotalSpent + MaxCost
    BY <1>2, <1>3, <2>2, SumOfSpent
  <2> QED BY <2>1, <2>3 DEF Sinks
<1> QED BY <1>7, <1>8 DEF SinksAll

LEMMA MidnightSinks ==
    ASSUME Midnight
    PROVE  SinksAll
<1>1. \A c \in Creds : spent'[c] = 0
  BY DEF Midnight
<1>2. TotalSpent' = 0
  BY <1>1, SumOfZeros, SumOfSpent
<1>3. \A cap \in Nat : cap > 0 => 0 < cap
  OBVIOUS
<1> QED BY <1>1, <1>2, <1>3, AdmissionAssumption DEF SinksAll, Sinks

LEMMA StepSinks == TypeInv /\ ~DBFails /\ [Next]_vars => SinksAll
<1> SUFFICES ASSUME TypeInv, ~DBFails, [Next]_vars PROVE SinksAll
  OBVIOUS
<1>1. ASSUME NEW r \in Requests, Handler(r) PROVE SinksAll
  BY <1>1, FrugalSteps, FrugalSinks, SpendCheckSinks, SpendCheckAllSinks, ServeSinks DEF Handler
<1>2. ASSUME NEW r \in Requests,
             Reuse(r) \/ \E ip \in IPs, cred \in Creds \cup {NoCred} : Arrive(r, ip, cred)
      PROVE  SinksAll
  BY <1>2, FrugalWorld, FrugalSinks
<1>3. CASE (\E c \in Creds : Invalidate(c)) \/ Tick \/ UNCHANGED vars
  BY <1>3, FrugalWorld, FrugalSinks
<1>4. CASE Midnight
  BY <1>4, MidnightSinks
<1> QED BY <1>1, <1>2, <1>3, <1>4 DEF Next

LEMMA SpendInit == Init => SpendInv
<1> SUFFICES ASSUME Init PROVE SpendInv
  OBVIOUS
<1>1. \A c \in Creds : spent[c] = 0 /\ Pending(c) = {}
  BY DEF Init, NoAdm, Pending
<1>2. PendingAll = {} /\ TotalSpent = 0
  BY <1>1, SumOfZeros, SumOfSpent DEF Init, NoAdm, PendingAll
<1>3. ASSUME NEW cap \in Nat PROVE Room(0, cap, {})
  <2>1. \A a, b \in Nat : a * b \in Nat /\ a * 0 = 0
    OBVIOUS
  <2>2. MaxCost * Cardinality(Requests) \in Nat /\ MaxCost * Cardinality({}) = 0
    BY <2>1, RequestSets, FS_EmptySet, AdmissionAssumption
  <2> QED BY <2>2 DEF Room
<1> QED BY <1>1, <1>2, <1>3, AdmissionAssumption DEF SpendInv

LEMMA SpendStep == TypeInv /\ TypeInv' /\ SpendInv /\ ~DBFails /\ [Next]_vars => SpendInv'
<1> SUFFICES ASSUME TypeInv, TypeInv', SpendInv, SinksAll PROVE SpendInv'
  BY StepSinks
<1>1. /\ TotalSpent \in Nat /\ \A c \in Creds : spent[c] \in Nat
      /\ TotalSpent' \in Nat /\ \A c \in Creds : spent'[c] \in Nat
  <2>1. spent' \in [Creds -> Nat]
    BY DEF TypeInv, AdmissionTypeOK
  <2>2. (TypeInv => TotalSpent \in Nat)'
    BY TotalIsNat, PTL
  <2> QED BY <2>1, <2>2, TotalIsNat
<1>2. ASSUME NEW c \in Creds PROVE Room(spent'[c], DailyCap[c], Pending(c)')
  <2>1. DailyCap[c] \in Nat
    BY AdmissionAssumption
  <2>2. Room(spent[c], DailyCap[c], Pending(c))
    BY DEF SpendInv
  <2>3. Sinks(spent[c], spent'[c], DailyCap[c], Pending(c), Pending(c)')
    BY DEF SinksAll
  <2> QED BY <1>1, <2>1, <2>2, <2>3, PendingSets, RoomKept
<1>3. Room(TotalSpent', GlobalCap, PendingAll')
  <2>1. GlobalCap \in Nat
    BY AdmissionAssumption
  <2> HIDE DEF TotalSpent
  <2> QED BY <1>1, <2>1, PendingSets, RoomKept DEF SpendInv, SinksAll
<1> QED BY <1>2, <1>3 DEF SpendInv, Room

(* checkSpend asks long before the row is written: however requests        *)
(* interleave between the two, midnights included, a cap is overrun by     *)
(* less than one request's cost per goroutine of the server.               *)
THEOREM OvershootAlwaysBounded == Spec => []OvershootBounded
<1>1. SpendInv /\ TypeInv => OvershootBounded
  <2> SUFFICES ASSUME SpendInv, TypeInv PROVE OvershootBounded
    OBVIOUS
  <2>1. ASSUME NEW cap \in Nat, NEW x \in Nat, NEW P, P \subseteq Requests, Room(x, cap, P), cap > 0
        PROVE  x < cap + MaxCost * Cardinality(Requests)
    <3>1. \A a, b \in Nat : a * b \in Nat
      OBVIOUS
    <3> DEFINE a == MaxCost * Cardinality(P)
               b == MaxCost * Cardinality(Requests)
    <3>2. a \in Nat /\ b \in Nat
      BY <2>1, <3>1, RequestSets, AdmissionAssumption
    <3>3. x + a < cap + b
      BY <2>1 DEF Room
    <3> HIDE DEF a, b
    <3>4. x < cap + b
      BY <3>2, <3>3
    <3> QED BY <3>4 DEF b
  <2>2. GlobalCap \in Nat /\ \A c \in Creds : DailyCap[c] \in Nat
    BY AdmissionAssumption
  <2> HIDE DEF TotalSpent
  <2>3. GlobalCap > 0 => TotalSpent < GlobalCap + MaxCost * Cardinality(Requests)
    BY <2>1, <2>2, TotalIsNat, PendingSets DEF SpendInv
  <2>4. \A c \in Creds : DailyCap[c] > 0 => spent[c] < DailyCap[c] + MaxCost * Cardinality(Requests)
    BY <2>1, <2>2, TotalIsNat, PendingSets DEF SpendInv
  <2> QED BY <2>3, <2>4 DEF OvershootBounded
<1> DEFINE J == ~DBFails => SpendInv
<1>2. J /\ TypeInv => OvershootBounded
  BY <1>1 DEF OvershootBounded
<1>3. Init => J
  BY SpendInit
<1>4. TypeInv /\ TypeInv' /\ J /\ [Next]_vars => J'
  BY SpendStep
<1> HIDE DEF J
<1> QED BY <1>2, <1>3, <1>4, TypesAlways, PTL DEF Spec
=============================================================================
