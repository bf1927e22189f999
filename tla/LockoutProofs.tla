--------------------------- MODULE LockoutProofs ---------------------------
(***************************************************************************)
(* Proofs about Lockout and its history, for every set of requests and     *)
(* addresses and all settings, a limit or a window of 0 included.          *)
(***************************************************************************)
EXTENDS LockoutObserved, TLAPS

Entries == [count : Nat, age : 0 .. FailWindow + 1, ban : 0 .. BanFor]

Ages == [1 .. MaxFails -> 0 .. Forgotten]

(* What an entry whose window is open says of the history: each failure it *)
(* counts is one of the latest, and no older than the first.               *)
Counted(s, ages) ==
    s.count > 0 /\ s.age <= FailWindow =>
        \A k \in 1 .. MaxFails : k <= s.count => ages[k] <= s.age

Inv ==
    /\ LockoutTypeOK
    /\ failed \in [IPs -> Ages]
    /\ \A ip \in IPs : Counted(lock[ip], failed[ip])

LEMMA Settings ==
    MaxFails \in Nat /\ FailWindow \in Nat /\ BanFor \in Nat
  BY LockoutAssumption

LEMMA Blank == NoEntry \in Entries /\ None \in Ages /\ \A ages : Counted(NoEntry, ages)
  BY Settings DEF NoEntry, None, Entries, Ages, Forgotten, Counted

LEMMA LaterAges ==
    ASSUME NEW ages \in Ages
    PROVE  /\ Later(ages) \in Ages
           /\ \A k \in 1 .. MaxFails : Later(ages)[k] = IF k = 1 THEN 0 ELSE ages[k - 1]
<1>1. ASSUME NEW k \in 1 .. MaxFails
      PROVE  (IF k = 1 THEN 0 ELSE ages[k - 1]) \in 0 .. Forgotten
  <2>1. k # 1 => k - 1 \in 1 .. MaxFails
    BY Settings
  <2>2. 0 \in 0 .. Forgotten
    BY Settings DEF Forgotten
  <2> QED BY <2>1, <2>2 DEF Ages
<1> QED BY <1>1 DEF Later, Ages

(* An entry that starts anew has one failure and no ban; another has one   *)
(* failure more, and if its ban grew, MaxFails of them.                    *)
LEMMA FailCases ==
    ASSUME NEW s \in Entries
    PROVE  /\ AfterFail(s) \in Entries
           /\ \/ AfterFail(s).count = 1 /\ AfterFail(s).age = 0 /\ AfterFail(s).ban = 0
              \/ /\ s.count > 0 /\ s.age <= FailWindow
                 /\ AfterFail(s).count = s.count + 1 /\ AfterFail(s).age = s.age
                 /\ AfterFail(s).ban > s.ban => s.count + 1 >= MaxFails
<1> DEFINE n == s.count + 1
           b == IF n >= MaxFails THEN BanFor ELSE s.ban
<1>0. s.count \in Nat /\ s.age \in 0 .. FailWindow + 1 /\ s.ban \in 0 .. BanFor
  BY DEF Entries
<1>1. CASE StartsAnew(s)
  <2> DEFINE t == [count |-> 1, age |-> 0, ban |-> 0]
  <2>1. AfterFail(s) = t
    BY <1>1 DEF AfterFail
  <2>2. t \in Entries
    BY Settings DEF Entries
  <2> QED BY <2>1, <2>2
<1>2. CASE ~StartsAnew(s)
  <2>1. s.count > 0 /\ s.age <= FailWindow
    BY <1>0, <1>2, Settings DEF StartsAnew
  <2>2. AfterFail(s) = [s EXCEPT !.count = n, !.ban = b]
    BY <1>2 DEF AfterFail
  <2>3. n \in Nat /\ b \in 0 .. BanFor
    BY <1>0, Settings
  <2>4. b > s.ban => n >= MaxFails
    BY <1>0
  <2> HIDE DEF n, b
  <2>5. AfterFail(s) \in Entries
    BY <2>2, <2>3 DEF Entries
  <2>6. AfterFail(s).count = n /\ AfterFail(s).age = s.age /\ AfterFail(s).ban = b
    BY <2>2 DEF Entries
  <2> QED BY <2>1, <2>4, <2>5, <2>6 DEF n
<1> QED BY <1>1, <1>2

(* A failure is noted where it is counted. *)
LEMMA FailCounted ==
    ASSUME NEW s \in Entries, NEW ages \in Ages, Counted(s, ages)
    PROVE  /\ Counted(AfterFail(s), Later(ages))
           /\ AfterFail(s).ban > s.ban => Earned(Later(ages))
<1> DEFINE t == AfterFail(s)
           u == Later(ages)
<1>0. /\ s.count \in Nat /\ s.age \in 0 .. FailWindow + 1 /\ s.ban \in 0 .. BanFor
      /\ \A k \in 1 .. MaxFails : u[k] = IF k = 1 THEN 0 ELSE ages[k - 1]
  BY LaterAges DEF Entries
<1>1. CASE t.count = 1 /\ t.age = 0 /\ t.ban = 0
  <2> HIDE DEF t, u
  <2>1. Counted(t, u)
    BY <1>0, <1>1, Settings DEF Counted
  <2>2. ~(t.ban > s.ban)
    BY <1>0, <1>1, Settings
  <2> QED BY <2>1, <2>2 DEF t, u
<1>2. CASE /\ s.count > 0 /\ s.age <= FailWindow
           /\ t.count = s.count + 1 /\ t.age = s.age
           /\ t.ban > s.ban => s.count + 1 >= MaxFails
  <2>1. ASSUME NEW k \in 1 .. MaxFails, k <= s.count + 1 PROVE u[k] <= s.age
    <3>1. CASE k = 1
      BY <1>0, <3>1, Settings
    <3>2. CASE k # 1
      <4>1. k - 1 \in 1 .. MaxFails /\ k - 1 <= s.count
        BY <1>0, <2>1, <3>2, Settings
      <4>2. ages[k - 1] <= s.age
        BY <1>2, <4>1 DEF Counted
      <4> QED BY <1>0, <3>2, <4>2
    <3> QED BY <3>1, <3>2
  <2> HIDE DEF t, u
  <2>2. Counted(t, u)
    BY <1>2, <2>1 DEF Counted
  <2>3. ASSUME t.ban > s.ban, NEW k \in 1 .. MaxFails PROVE u[k] <= FailWindow
    <3>1. k <= s.count + 1
      BY <1>0, <1>2, <2>3, Settings
    <3>2. u[k] <= s.age
      BY <2>1, <3>1
    <3>3. u[k] \in Int
      BY LaterAges, Settings DEF Ages, Forgotten, u
    <3> QED BY <1>0, <1>2, <3>2, <3>3, Settings
  <2> QED BY <2>2, <2>3 DEF t, u, Earned
<1> QED BY <1>1, <1>2, FailCases

(* A tick ages the failures with the entry that counts them. *)
LEMMA TickCounted ==
    ASSUME NEW s \in Entries, NEW ages \in Ages, Counted(s, ages)
    PROVE  LET t == IF s.count = 0 THEN NoEntry
                    ELSE [s EXCEPT !.age = IF s.age > FailWindow THEN s.age ELSE s.age + 1,
                                   !.ban = IF s.ban > 0 THEN s.ban - 1 ELSE 0]
           IN  t \in Entries /\ Older(ages) \in Ages /\ Counted(t, Older(ages)) /\ ~(t.ban > s.ban)
<1> DEFINE a == IF s.age > FailWindow THEN s.age ELSE s.age + 1
           b == IF s.ban > 0 THEN s.ban - 1 ELSE 0
           t == IF s.count = 0 THEN NoEntry ELSE [s EXCEPT !.age = a, !.ban = b]
           u == Older(ages)
<1>0. s.count \in Nat /\ s.age \in 0 .. FailWindow + 1 /\ s.ban \in 0 .. BanFor
  BY DEF Entries
<1>1. a \in 0 .. FailWindow + 1 /\ b \in 0 .. BanFor /\ b <= s.ban
      /\ (a <= FailWindow => a = s.age + 1 /\ s.age <= FailWindow)
  BY <1>0, Settings
<1>2. ASSUME NEW k \in 1 .. MaxFails
      PROVE  /\ u[k] = IF ages[k] = Forgotten THEN Forgotten ELSE ages[k] + 1
             /\ ages[k] \in 0 .. Forgotten /\ u[k] \in 0 .. Forgotten
  <2>1. u[k] = IF ages[k] = Forgotten THEN Forgotten ELSE ages[k] + 1
    BY DEF Older
  <2>2. ages[k] \in 0 .. Forgotten
    BY DEF Ages
  <2> HIDE DEF u
  <2> QED BY <2>1, <2>2, Settings DEF Forgotten
<1>3. u \in Ages
  <2>1. u = [k \in 1 .. MaxFails |-> u[k]]
    BY DEF Older
  <2> HIDE DEF u
  <2> QED BY <1>2, <2>1 DEF Ages
<1> HIDE DEF u
<1>4. CASE s.count = 0
  <2>1. t = NoEntry
    BY <1>4
  <2>2. ~(NoEntry.ban > s.ban)
    BY <1>0, Settings DEF NoEntry
  <2> QED BY <1>3, <2>1, <2>2, Blank DEF u
<1>5. CASE s.count # 0
  <2>0. t = [s EXCEPT !.age = a, !.ban = b]
    BY <1>5
  <2> HIDE DEF a, b
  <2>1. t \in Entries /\ t.count = s.count /\ t.age = a /\ t.ban = b
    BY <1>1, <2>0 DEF Entries
  <2> HIDE DEF t
  <2>2. ASSUME t.count > 0, t.age <= FailWindow, NEW k \in 1 .. MaxFails, k <= t.count
        PROVE  u[k] <= t.age
    <3>1. ages[k] <= s.age
      BY <1>1, <2>1, <2>2 DEF Counted
    <3> QED BY <1>0, <1>1, <1>2, <2>1, <2>2, <3>1, Settings DEF Forgotten
  <2>3. Counted(t, u)
    BY <2>2 DEF Counted
  <2>4. ~(t.ban > s.ban)
    BY <1>0, <1>1, <2>1, Settings
  <2> QED BY <1>3, <2>1, <2>3, <2>4 DEF t, u, a, b
<1> QED BY <1>4, <1>5
-----------------------------------------------------------------------------
(* Every step keeps the invariant, and lengthens no ban that is not earned.*)

Grows(s, t) == t.ban > s.ban

Fair(ip) == Grows(lock[ip], lock'[ip]) => Earned(failed'[ip])

LEMMA NotOver == ASSUME NEW s \in Entries PROVE ~Grows(s, s) /\ ~Grows(s, NoEntry)
<1> DEFINE b == s.ban
<1>1. b \in 0 .. BanFor
  BY DEF Entries
<1> HIDE DEF b
<1>2. ~(b > b) /\ ~(0 > b)
  BY <1>1, Settings
<1> QED BY <1>2 DEF Grows, NoEntry, b

LEMMA Parts ==
    ASSUME Inv
    PROVE  /\ lock \in [IPs -> Entries] /\ failed \in [IPs -> Ages]
           /\ caller \in [Requests -> IPs \cup {""}]
           /\ \A ip \in IPs : Counted(lock[ip], failed[ip])
  BY DEF Inv, LockoutTypeOK, Entries

(* One address gets a new entry and a new history. *)
LEMMA Write ==
    ASSUME Inv, NEW ip \in IPs, NEW s \in Entries, NEW ages \in Ages, Counted(s, ages),
           Grows(lock[ip], s) => Earned(ages),
           lock' = [lock EXCEPT ![ip] = s], failed' = [failed EXCEPT ![ip] = ages],
           caller' \in [Requests -> IPs \cup {""}]
    PROVE  Inv' /\ \A a \in IPs : Fair(a)
<1>1. \A a \in IPs : /\ lock'[a] = IF a = ip THEN s ELSE lock[a]
                     /\ failed'[a] = IF a = ip THEN ages ELSE failed[a]
  BY Parts
<1>2. lock' \in [IPs -> Entries] /\ failed' \in [IPs -> Ages]
  BY Parts
<1>3. \A a \in IPs : Counted(lock'[a], failed'[a])
  BY <1>1, Parts
<1>4. Inv'
  <2>1. LockoutTypeOK'
    BY <1>2 DEF LockoutTypeOK, Entries
  <2> QED BY <1>2, <1>3, <2>1 DEF Inv, Counted
<1>5. ASSUME NEW a \in IPs PROVE Fair(a)
  <2>1. CASE a = ip
    BY <1>1, <2>1 DEF Fair
  <2>2. CASE a # ip
    <3>1. lock[a] \in Entries /\ lock'[a] = lock[a]
      BY <1>1, <2>2, Parts
    <3> QED BY <3>1, NotOver DEF Fair
  <2> QED BY <2>1, <2>2
<1> QED BY <1>4, <1>5

LEMMA FailStep ==
    ASSUME Inv, NEW r \in Requests, AuthFails(r), Note(caller[r], Later(failed[caller[r]]))
    PROVE  Inv' /\ \A a \in IPs : Fair(a)
<1> DEFINE ip == caller[r]
           s == lock[ip]
           ages == failed[ip]
<1>1. ip \in IPs /\ s \in Entries /\ ages \in Ages /\ Counted(s, ages)
  BY Parts DEF AuthFails
<1>2. /\ AfterFail(s) \in Entries /\ Later(ages) \in Ages
      /\ Counted(AfterFail(s), Later(ages))
      /\ Grows(s, AfterFail(s)) => Earned(Later(ages))
  BY <1>1, FailCases, LaterAges, FailCounted DEF Grows
<1>3. /\ lock' = [lock EXCEPT ![ip] = AfterFail(s)]
      /\ failed' = [failed EXCEPT ![ip] = Later(ages)]
      /\ caller' \in [Requests -> IPs \cup {""}]
  BY Parts DEF AuthFails, Fail, Note
<1> QED BY <1>1, <1>2, <1>3, Write

LEMMA SuccessStep ==
    ASSUME Inv, NEW r \in Requests, AuthSucceeds(r), Note(caller[r], None)
    PROVE  Inv' /\ \A a \in IPs : Fair(a)
<1> DEFINE ip == caller[r]
<1>1. ip \in IPs /\ lock[ip] \in Entries
  BY Parts DEF AuthSucceeds
<1>2. ~Grows(lock[ip], NoEntry)
  BY <1>1, NotOver
<1>3. /\ lock' = [lock EXCEPT ![ip] = NoEntry]
      /\ failed' = [failed EXCEPT ![ip] = None]
      /\ caller' \in [Requests -> IPs \cup {""}]
  BY Parts DEF AuthSucceeds, Success, Note
<1> QED BY <1>1, <1>2, <1>3, Blank, Write

LEMMA ElapseStep ==
    ASSUME Inv, Elapse
    PROVE  Inv' /\ \A a \in IPs : Fair(a)
<1> DEFINE After(s) == IF s.count = 0 THEN NoEntry
                       ELSE [s EXCEPT !.age = IF s.age > FailWindow THEN s.age ELSE s.age + 1,
                                      !.ban = IF s.ban > 0 THEN s.ban - 1 ELSE 0]
<1>1. /\ lock' = [ip \in IPs |-> After(lock[ip])] /\ failed' = [ip \in IPs |-> Older(failed[ip])]
      /\ UNCHANGED caller
  BY DEF Elapse, Clock, LockTick
<1>2. ASSUME NEW ip \in IPs
      PROVE  /\ lock'[ip] \in Entries /\ failed'[ip] \in Ages
             /\ Counted(lock'[ip], failed'[ip]) /\ ~Grows(lock[ip], lock'[ip])
  <2>1. lock[ip] \in Entries /\ failed[ip] \in Ages /\ Counted(lock[ip], failed[ip])
    BY Parts
  <2>2. lock'[ip] = After(lock[ip]) /\ failed'[ip] = Older(failed[ip])
    BY <1>1
  <2> DEFINE s == lock[ip]
             ages == failed[ip]
  <2>3. /\ After(s) \in Entries /\ Older(ages) \in Ages
        /\ Counted(After(s), Older(ages)) /\ ~(After(s).ban > s.ban)
    BY <2>1, TickCounted
  <2> QED BY <2>2, <2>3 DEF Grows
<1>3. lock' \in [IPs -> Entries] /\ failed' \in [IPs -> Ages]
  <2>1. lock' = [ip \in IPs |-> lock'[ip]] /\ failed' = [ip \in IPs |-> failed'[ip]]
    BY <1>1
  <2> HIDE DEF After
  <2> QED BY <1>2, <2>1
<1> HIDE DEF After
<1>4. Inv'
  <2>1. LockoutTypeOK'
    BY <1>1, <1>3, Parts DEF LockoutTypeOK, Entries
  <2> QED BY <1>2, <1>3, <2>1 DEF Inv, Counted
<1> QED BY <1>2, <1>4 DEF Fair

LEMMA QuietStep ==
    ASSUME Inv, UNCHANGED <<lock, failed>>, caller' \in [Requests -> IPs \cup {""}]
    PROVE  Inv' /\ \A a \in IPs : Fair(a)
<1>1. Inv'
  BY DEF Inv, LockoutTypeOK, Counted
<1>2. \A a \in IPs : ~Grows(lock[a], lock[a])
  BY Parts, NotOver
<1> QED BY <1>1, <1>2 DEF Fair

LEMMA Step == Inv /\ [Next]_vars => Inv' /\ \A a \in IPs : Fair(a)
<1> SUFFICES ASSUME Inv, [Next]_vars PROVE Inv' /\ \A a \in IPs : Fair(a)
  OBVIOUS
<1>1. ASSUME NEW r \in Requests, NEW ip \in IPs, Admit(r, ip), UNCHANGED failed
      PROVE  UNCHANGED <<lock, failed>> /\ caller' \in [Requests -> IPs \cup {""}]
  BY <1>1, Parts DEF Admit
<1>2. CASE UNCHANGED vars
  BY <1>2, Parts, QuietStep DEF vars, lockoutVars
<1> QED BY <1>1, <1>2, FailStep, SuccessStep, ElapseStep, QuietStep DEF Next

LEMMA Start == Init => Inv
<1> SUFFICES ASSUME Init PROVE Inv
  OBVIOUS
<1>1. /\ lock \in [IPs -> Entries] /\ failed \in [IPs -> Ages]
      /\ caller \in [Requests -> IPs \cup {""}]
      /\ \A ip \in IPs : Counted(lock[ip], failed[ip])
  BY Blank DEF Init, LockoutInit
<1>2. LockoutTypeOK
  BY <1>1 DEF LockoutTypeOK, Entries
<1> QED BY <1>1, <1>2 DEF Inv

LEMMA Always == Spec => []Inv
<1>1. Inv /\ [Next]_vars => Inv'
  BY Step
<1> QED BY <1>1, Start, PTL DEF Spec

(* A ban is never longer than BanFor, for all settings: those of late      *)
(* failures do not add up.                                                 *)
THEOREM LockoutTypeCorrect == Spec => []LockoutTypeOK
<1>1. Inv => LockoutTypeOK
  BY DEF Inv
<1> QED BY <1>1, Always, PTL

(* Whatever the requests in flight, no ban is imposed or prolonged but on  *)
(* MaxFails failures within the window, with no success between.           *)
THEOREM BanIsAlwaysEarned == Spec => BanIsEarned
<1>1. Inv /\ [Next]_vars
        => [\A ip \in IPs : lock'[ip].ban > lock[ip].ban => Earned(failed'[ip])]_vars
  BY Step DEF Fair, Grows
<1> QED BY <1>1, Always, PTL DEF Spec, BanIsEarned
=============================================================================
