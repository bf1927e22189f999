---------------------------- MODULE RouterProofs ----------------------------
(***************************************************************************)
(* Proofs about Breaker, for every configuration (negative and zero        *)
(* settings included) and every set of models; and about Router, which     *)
(* asks it, for every route table, every set of requests and every width   *)
(* of the counters.                                                        *)
(***************************************************************************)
EXTENDS RouterObserved, BreakerRefinement, TLAPS, SequenceTheorems, WellFoundedInduction

-----------------------------------------------------------------------------
(* The circuit breaker.                                                    *)

(* New leaves no setting below one. *)
LEMMA Settings ==
    /\ Window \in Nat \ {0} /\ MinReq \in Nat \ {0} /\ Cool \in Nat \ {0}
    /\ ErrNum \in Nat \ {0} /\ ErrDen \in Nat \ {0}
  BY BreakerAssumption DEF Window, MinReq, Cool, ErrNum, ErrDen

(* A trimmed window is a window, no longer than it was. *)
LEMMA TrimType ==
    ASSUME NEW rs \in Seq(BOOLEAN)
    PROVE  /\ Trim(rs) \in Seq(BOOLEAN)
           /\ Len(Trim(rs)) <= Window
<1>1. CASE Len(rs) > Window
  <2>1. /\ Len(rs) - Window + 1 \in 1 .. Len(rs) + 1 /\ Len(rs) \in Nat
        /\ Len(rs) - (Len(rs) - Window + 1) + 1 = Window
    BY <1>1, Settings, LenProperties
  <2>2. /\ SubSeq(rs, Len(rs) - Window + 1, Len(rs)) \in Seq(BOOLEAN)
        /\ Len(SubSeq(rs, Len(rs) - Window + 1, Len(rs))) = Window
    BY <1>1, <2>1, Settings, SubSeqProperties
  <2> QED BY <1>1, <2>2, Settings DEF Trim
<1>2. CASE ~(Len(rs) > Window)
  BY <1>2, Settings, LenProperties DEF Trim
<1> QED BY <1>1, <1>2

(* What one call of Record does to the deadline and the reason, by cases:  *)
(* it trips, it clears, or it leaves both alone.                           *)
LEMMA RecordCases ==
    ASSUME BreakerTypeOK, NEW m \in Models, NEW success \in BOOLEAN, Record(m, success)
    PROVE  \/ /\ Trips(results'[m]) /\ brokenFor'[m] = Cool /\ reason'[m] = TRUE
           \/ /\ ~Trips(results'[m]) /\ success /\ brokenFor[m] = Past
              /\ brokenFor'[m] = Past /\ reason'[m] = FALSE
           \/ /\ ~Trips(results'[m]) /\ brokenFor'[m] = brokenFor[m] /\ reason'[m] = reason[m]
<1> DEFINE rs == Trim(Append(results[m], success))
<1>1. results'[m] = rs
  BY DEF Record, BreakerTypeOK
<1>2. brokenFor'[m] = IF Clears(success, Deadline(m, rs)) THEN Past ELSE Deadline(m, rs)
  BY DEF Record, BreakerTypeOK
<1>3. reason'[m] = (~Clears(success, Deadline(m, rs)) /\ (Trips(rs) \/ reason[m]))
  BY DEF Record, BreakerTypeOK, ReasonAfter
<1>4. CASE Trips(rs)
  <2>1. Deadline(m, rs) = Cool /\ ~Clears(success, Deadline(m, rs))
    BY <1>4, Settings DEF Deadline, Clears, Past
  <2> QED BY <1>1, <1>2, <1>3, <1>4, <2>1
<1>5. CASE ~Trips(rs) /\ Clears(success, brokenFor[m])
  <2>1. Deadline(m, rs) = brokenFor[m]
    BY <1>5 DEF Deadline
  <2> QED BY <1>1, <1>2, <1>3, <1>5, <2>1 DEF Clears
<1>6. CASE ~Trips(rs) /\ ~Clears(success, brokenFor[m])
  <2>1. Deadline(m, rs) = brokenFor[m]
    BY <1>6 DEF Deadline
  <2>2. reason[m] \in BOOLEAN
    BY DEF BreakerTypeOK
  <2> QED BY <1>1, <1>2, <1>3, <1>6, <2>1, <2>2
<1> QED BY <1>4, <1>5, <1>6

(* Record leaves the other models alone. *)
LEMMA RecordOthers ==
    ASSUME BreakerTypeOK, NEW m \in Models, NEW success \in BOOLEAN, Record(m, success),
           NEW n \in Models, n # m
    PROVE  results'[n] = results[n] /\ brokenFor'[n] = brokenFor[n] /\ reason'[n] = reason[n]
  BY DEF Record, BreakerTypeOK

LEMMA BreakerTypeInit == BreakerInit => BreakerTypeOK
<1> SUFFICES ASSUME BreakerInit PROVE BreakerTypeOK
  OBVIOUS
<1>1. Len(<<>>) = 0 /\ <<>> \in Seq(BOOLEAN)
  OBVIOUS
<1> QED BY <1>1, Settings DEF BreakerInit, BreakerTypeOK, Past

LEMMA BreakerTypeStep == BreakerTypeOK /\ [BreakerNext]_breakerVars => BreakerTypeOK'
<1> SUFFICES ASSUME BreakerTypeOK, [BreakerNext]_breakerVars PROVE BreakerTypeOK'
  OBVIOUS
<1>1. CASE \E m \in Models, success \in BOOLEAN : Record(m, success)
  <2> PICK m \in Models, success \in BOOLEAN : Record(m, success)
    BY <1>1
  <2> DEFINE rs == Trim(Append(results[m], success))
  <2>1. Append(results[m], success) \in Seq(BOOLEAN)
    BY AppendProperties DEF BreakerTypeOK
  <2>2. rs \in Seq(BOOLEAN) /\ Len(rs) <= Window
    BY <2>1, TrimType
  <2>3. /\ results' = [results EXCEPT ![m] = rs]
        /\ brokenFor' \in [Models -> Int] /\ reason' \in [Models -> BOOLEAN]
        /\ brokenFor'[m] \in Past .. Cool
    <3>1. results' = [results EXCEPT ![m] = rs]
      BY DEF Record
    <3>2. brokenFor'[m] \in Past .. Cool
      <4>1. brokenFor'[m] \in {Cool, Past, brokenFor[m]}
        BY RecordCases
      <4>2. brokenFor[m] \in Past .. Cool
        BY DEF BreakerTypeOK
      <4> QED BY <4>1, <4>2, Settings DEF Past
    <3>3. reason' \in [Models -> BOOLEAN]
      BY DEF Record, BreakerTypeOK, ReasonAfter
    <3>4. brokenFor' \in [Models -> Int]
      BY <3>2, Settings DEF Record, BreakerTypeOK, Past
    <3> QED BY <3>1, <3>2, <3>3, <3>4
  <2>4. results' \in [Models -> Seq(BOOLEAN)] /\ \A n \in Models : Len(results'[n]) <= Window
    BY <2>2, <2>3 DEF BreakerTypeOK
  <2>5. brokenFor' \in [Models -> Past .. Cool]
    BY <2>3, RecordOthers DEF BreakerTypeOK
  <2> QED BY <2>3, <2>4, <2>5 DEF BreakerTypeOK
<1>2. CASE Tick
  BY <1>2, Settings DEF Tick, BreakerTypeOK, Past
<1>3. CASE UNCHANGED breakerVars
  BY <1>3 DEF breakerVars, BreakerTypeOK
<1> QED BY <1>1, <1>2, <1>3 DEF BreakerNext

(* Type correctness: windows never outgrow the configured size and no      *)
(* deadline is more than a cooldown away, whatever the configuration.      *)
THEOREM BreakerTypeCorrect == BreakerSpec => []BreakerTypeOK
  BY BreakerTypeInit, BreakerTypeStep, PTL DEF BreakerSpec
-----------------------------------------------------------------------------
(* The reason of a break.  Neither half is inductive without the types.    *)
(* The argument is the order of the two tests in Record: a window at the   *)
(* threshold moves the deadline before the clearing test reads it, so that *)
(* a success can only erase the reason of a model that does not trip.      *)

IInv == BreakerTypeOK /\ BrokenHasReason /\ ThresholdIsRemembered

LEMMA EmptyNeverTrips == ~Trips(<<>>)
  BY Settings DEF Trips

LEMMA IInvInit == BreakerInit => IInv
  BY BreakerTypeInit, EmptyNeverTrips
     DEF IInv, BreakerInit, BrokenHasReason, ThresholdIsRemembered

LEMMA IInvStep == IInv /\ [BreakerNext]_breakerVars => IInv'
<1> SUFFICES ASSUME IInv, [BreakerNext]_breakerVars PROVE IInv'
  OBVIOUS
<1>0. BreakerTypeOK /\ BreakerTypeOK'
  BY BreakerTypeStep DEF IInv
<1>1. CASE \E m \in Models, success \in BOOLEAN : Record(m, success)
  <2> PICK m \in Models, success \in BOOLEAN : Record(m, success)
    BY <1>1
  <2>1. /\ brokenFor'[m] # Past => reason'[m]
        /\ Trips(results'[m]) => reason'[m]
    <3>1. \/ Trips(results'[m]) /\ reason'[m] = TRUE
          \/ ~Trips(results'[m]) /\ brokenFor'[m] = Past
          \/ ~Trips(results'[m]) /\ brokenFor'[m] = brokenFor[m] /\ reason'[m] = reason[m]
      BY <1>0, RecordCases
    <3>2. brokenFor[m] # Past => reason[m]
      BY DEF IInv, BrokenHasReason
    <3> QED BY <3>1, <3>2
  <2>2. ASSUME NEW n \in Models, n # m
        PROVE  /\ brokenFor'[n] # Past => reason'[n]
               /\ Trips(results'[n]) => reason'[n]
    BY <1>0, <2>2, RecordOthers DEF IInv, BrokenHasReason, ThresholdIsRemembered
  <2>3. ASSUME NEW n \in Models
        PROVE  /\ brokenFor'[n] # Past => reason'[n]
               /\ Trips(results'[n]) => reason'[n]
    BY <2>1, <2>2
  <2>4. BrokenHasReason' /\ ThresholdIsRemembered'
    BY <2>3 DEF BrokenHasReason, ThresholdIsRemembered, Trips, AtThreshold, Fails
  <2> QED BY <1>0, <2>4 DEF IInv
<1>2. CASE Tick
  <2>1. \A m \in Models : brokenFor'[m] # Past => brokenFor[m] # Past
    BY <1>2 DEF Tick
  <2>2. BrokenHasReason'
    BY <1>2, <2>1 DEF Tick, IInv, BrokenHasReason
  <2>3. ThresholdIsRemembered'
    BY <1>2 DEF Tick, IInv, ThresholdIsRemembered, Trips, AtThreshold, Fails
  <2> QED BY <1>0, <2>2, <2>3 DEF IInv
<1>3. CASE UNCHANGED breakerVars
  BY <1>0, <1>3 DEF breakerVars, IInv, BrokenHasReason, ThresholdIsRemembered, Trips, AtThreshold, Fails
<1> QED BY <1>1, <1>2, <1>3 DEF BreakerNext

LEMMA IInvAlways == BreakerSpec => []IInv
  BY IInvInit, IInvStep, PTL DEF BreakerSpec

(* Record and Snapshots: no model is ever reported broken without the      *)
(* reason the status output prints for it.                                 *)
THEOREM BrokenAlwaysHasReason == BreakerSpec => []BrokenHasReason
<1>1. IInv => BrokenHasReason
  BY DEF IInv
<1> QED BY <1>1, IInvAlways, PTL

(* Record: no success erases the break of a model whose window still       *)
(* stands at the threshold.                                                *)
THEOREM ThresholdAlwaysRemembered == BreakerSpec => []ThresholdIsRemembered
<1>1. IInv => ThresholdIsRemembered
  BY DEF IInv
<1> QED BY <1>1, IInvAlways, PTL

(* Snapshots: a model listed as unhealthy has a reason next to it, unless  *)
(* its window is still too short to break it.                              *)
THEOREM UnhealthyAlwaysExplained == BreakerSpec => []UnhealthyIsExplained
<1>1. IInv => UnhealthyIsExplained
  <2> SUFFICES ASSUME IInv, NEW m \in Models, ~Healthy(m), ~reason[m]
               PROVE  Len(results[m]) < MinReq
    BY DEF UnhealthyIsExplained
  <2>1. brokenFor[m] = Past /\ ~Trips(results[m])
    BY DEF IInv, BrokenHasReason, ThresholdIsRemembered
  <2>2. AtThreshold(results[m])
    BY <2>1 DEF Healthy, IsBroken, Past
  <2>3. results[m] \in Seq(BOOLEAN)
    BY DEF IInv, BreakerTypeOK
  <2>4. Len(results[m]) \in Nat
    BY <2>3, LenProperties
  <2> QED BY <2>1, <2>2, <2>4, Settings DEF Trips
<1> QED BY <1>1, IInvAlways, PTL

-----------------------------------------------------------------------------
(* Record against the clock: no call, and no order of calls, brings a      *)
(* deadline nearer; only the clock does, one tick at a time.               *)
THEOREM CooldownAlwaysServed == BreakerSpec => CooldownServed
<1>1. ASSUME BreakerTypeOK, [BreakerNext]_breakerVars, NEW m \in Models
      PROVE  brokenFor'[m] >= brokenFor[m] \/ (Tick /\ brokenFor'[m] = brokenFor[m] - 1)
  <2>1. brokenFor[m] \in Past .. Cool
    BY <1>1 DEF BreakerTypeOK
  <2>2. CASE \E n \in Models, success \in BOOLEAN : Record(n, success)
    <3> PICK n \in Models, success \in BOOLEAN : Record(n, success)
      BY <2>2
    <3>1. CASE n = m
      <4>1. brokenFor'[m] = Cool \/ brokenFor'[m] = brokenFor[m]
        BY <1>1, <3>1, RecordCases
      <4> QED BY <4>1, <2>1, Settings DEF Past
    <3>2. CASE n # m
      <4>1. brokenFor'[m] = brokenFor[m]
        BY <1>1, <3>2, RecordOthers
      <4> QED BY <4>1, <2>1, Settings DEF Past
    <3> QED BY <3>1, <3>2
  <2>3. CASE Tick
    <3>1. brokenFor'[m] = brokenFor[m] \/ brokenFor'[m] = brokenFor[m] - 1
      BY <2>3 DEF Tick
    <3> QED BY <2>1, <2>3, <3>1, Settings DEF Past
  <2>4. CASE UNCHANGED breakerVars
    BY <2>1, <2>4, Settings DEF breakerVars, Past
  <2> QED BY <1>1, <2>2, <2>3, <2>4 DEF BreakerNext
<1>2. BreakerTypeOK /\ [BreakerNext]_breakerVars
        => [\A m \in Models : brokenFor'[m] >= brokenFor[m]
                              \/ (Tick /\ brokenFor'[m] = brokenFor[m] - 1)]_breakerVars
  BY <1>1
<1> QED BY <1>2, BreakerTypeCorrect, PTL DEF BreakerSpec, CooldownServed

-----------------------------------------------------------------------------
(* Record after a trim: min_requests is counted over the trimmed window,   *)
(* so a configuration whose window is smaller never breaks a model.        *)
SmallWindowNeverTrips ==
    Window < MinReq => \A m \in Models : brokenFor[m] = Past /\ ~reason[m]

SmallInv == BreakerTypeOK /\ SmallWindowNeverTrips

(* A window smaller than min_requests disables the breaker for good,       *)
(* whatever the other settings.                                            *)
THEOREM SmallWindowAlwaysSafe == BreakerSpec => []SmallWindowNeverTrips
<1>1. BreakerInit => SmallInv
  BY BreakerTypeInit DEF SmallInv, SmallWindowNeverTrips, BreakerInit
<1>2. SmallInv /\ [BreakerNext]_breakerVars => SmallInv'
  <2> SUFFICES ASSUME SmallInv, [BreakerNext]_breakerVars, Window < MinReq, NEW n \in Models
               PROVE  brokenFor'[n] = Past /\ ~reason'[n]
    BY BreakerTypeStep DEF SmallInv, SmallWindowNeverTrips, Window, MinReq
  <2>0. BreakerTypeOK /\ BreakerTypeOK' /\ brokenFor[n] = Past /\ ~reason[n]
    BY BreakerTypeStep DEF SmallInv, SmallWindowNeverTrips
  <2>1. CASE \E m \in Models, success \in BOOLEAN : Record(m, success)
    <3> PICK m \in Models, success \in BOOLEAN : Record(m, success)
      BY <2>1
    <3>1. CASE n = m
      <4>1. Len(results'[m]) <= Window /\ results'[m] \in Seq(BOOLEAN)
        BY <2>0 DEF BreakerTypeOK
      <4>2. Len(results'[m]) \in Nat
        BY <4>1, LenProperties
      <4>3. ~(Len(results'[m]) >= MinReq)
        BY <4>1, <4>2, Settings
      <4>4. ~Trips(results'[m])
        BY <4>3 DEF Trips
      <4>5. brokenFor'[m] \in {Past, brokenFor[m]} /\ reason'[m] \in {FALSE, reason[m]}
        BY <2>0, <4>4, RecordCases
      <4> QED BY <2>0, <3>1, <4>5
    <3>2. CASE n # m
      BY <2>0, <3>2, RecordOthers
    <3> QED BY <3>1, <3>2
  <2>2. CASE Tick
    BY <2>0, <2>2 DEF Tick
  <2>3. CASE UNCHANGED breakerVars
    BY <2>0, <2>3 DEF breakerVars
  <2> QED BY <2>1, <2>2, <2>3 DEF BreakerNext
<1>3. SmallInv => SmallWindowNeverTrips
  BY DEF SmallInv
<1> QED BY <1>1, <1>2, <1>3, PTL DEF BreakerSpec

-----------------------------------------------------------------------------
(* The tracker implements the abstract breaker: each Record is a Trip, a   *)
(* Close or a stutter, each Tick the Lapse of the models whose deadline    *)
(* falls with it.                                                          *)

Abs == [m \in Models |-> StateOf(m)]

LEMMA RecordRefines ==
    ASSUME BreakerTypeOK, BreakerTypeOK', BrokenHasReason,
           NEW m \in Models, NEW success \in BOOLEAN, Record(m, success)
    PROVE  CB!Trip(m) \/ CB!Close(m) \/ Abs' = Abs
<1>1. ASSUME NEW n \in Models, n # m PROVE StateOf(n)' = StateOf(n)
  BY <1>1, RecordOthers DEF StateOf, IsBroken
<1>2. CASE brokenFor'[m] = Cool /\ reason'[m] = TRUE
  <2>1. StateOf(m)' = "open"
    BY <1>2, Settings DEF StateOf, IsBroken
  <2> QED BY <1>1, <2>1 DEF CB!Trip
<1>3. CASE brokenFor[m] = Past /\ brokenFor'[m] = Past /\ reason'[m] = FALSE
  <2>1. StateOf(m)' = "closed"
    BY <1>3 DEF StateOf, IsBroken, Past
  <2>2. CASE reason[m]
    <3>1. StateOf(m) = "halfopen"
      BY <1>3, <2>2 DEF StateOf, IsBroken, Past
    <3> QED BY <1>1, <2>1, <3>1 DEF CB!Close
  <2>3. CASE ~reason[m]
    <3>1. StateOf(m) = "closed"
      BY <1>3, <2>3 DEF StateOf, IsBroken, Past
    <3> QED BY <1>1, <2>1, <3>1 DEF Abs
  <2> QED BY <2>2, <2>3
<1>4. CASE brokenFor'[m] = brokenFor[m] /\ reason'[m] = reason[m]
  <2>1. StateOf(m)' = StateOf(m)
    BY <1>4 DEF StateOf, IsBroken
  <2> QED BY <1>1, <2>1 DEF Abs
<1> QED BY <1>2, <1>3, <1>4, RecordCases

LEMMA TickRefines ==
    ASSUME BreakerTypeOK, BrokenHasReason, Tick
    PROVE  \E S \in SUBSET Models : CB!Lapse(S)
<1> DEFINE S == {m \in Models : brokenFor[m] = 1}
<1>1. ASSUME NEW m \in S PROVE StateOf(m) = "open" /\ StateOf(m)' = "halfopen"
  BY <1>1 DEF Tick, StateOf, IsBroken, BrokenHasReason, Past
<1>2. ASSUME NEW m \in Models \ S PROVE StateOf(m)' = StateOf(m)
  <2>1. brokenFor[m] \in Past .. Cool /\ brokenFor[m] # 1
    BY <1>2 DEF BreakerTypeOK
  <2>2. (brokenFor'[m] > 0) <=> (brokenFor[m] > 0)
    BY <1>2, <2>1, Settings DEF Tick, Past
  <2> QED BY <1>2, <2>2 DEF Tick, StateOf, IsBroken
<1>3. CB!Lapse(S)
  BY <1>1, <1>2 DEF CB!Lapse
<1> QED BY <1>3

(* Every behaviour of health.Tracker is one of the abstract breaker.       *)
THEOREM TrackerRefinesBreaker == BreakerSpec => ImplementsCircuitBreaker
<1>1. BreakerInit => CB!Init
  BY DEF BreakerInit, CB!Init, StateOf, IsBroken, Past
<1>2. IInv /\ IInv' /\ [BreakerNext]_breakerVars => [CB!Next]_Abs
  <2> SUFFICES ASSUME IInv, IInv', [BreakerNext]_breakerVars PROVE [CB!Next]_Abs
    OBVIOUS
  <2>1. CASE \E m \in Models, success \in BOOLEAN : Record(m, success)
    BY <2>1, RecordRefines DEF IInv, CB!Next
  <2>2. CASE Tick
    BY <2>2, TickRefines DEF IInv, CB!Next
  <2>3. CASE UNCHANGED breakerVars
    BY <2>3 DEF breakerVars, Abs, StateOf, IsBroken
  <2> QED BY <2>1, <2>2, <2>3 DEF BreakerNext
<1> QED BY <1>1, <1>2, IInvAlways, PTL DEF BreakerSpec, ImplementsCircuitBreaker, CB!Spec, Abs

-----------------------------------------------------------------------------
(* The route engine.                                                      *)

(* Arithmetic of the round-robin ticket. *)
LEMMA ModRange ==
    ASSUME NEW a \in Int, NEW b \in Nat \ {0}
    PROVE  a % b \in 0 .. b - 1
  OBVIOUS

(* Counting forth and back on CounterMod values is the identity, at the    *)
(* wrap too: the position a call starts from is its ticket's, modulo the   *)
(* length of the route.                                                    *)
LEMMA TicketPosition ==
    ASSUME NEW c \in 0 .. CounterMod - 1, NEW len \in Nat \ {0}
    PROVE  StartOf(Advance(c), len) = c % len
<1>1. CounterMod \in Nat \ {0}
  BY RouterAssumption
<1>2. CASE c + 1 < CounterMod
  <2>1. Advance(c) = c + 1
    BY <1>1, <1>2 DEF Advance
  <2>2. ((c + 1) - 1) % CounterMod = c
    BY <1>1, <1>2
  <2> QED BY <2>1, <2>2 DEF StartOf
<1>3. CASE c + 1 = CounterMod
  <2>1. Advance(c) = 0
    BY <1>1, <1>3 DEF Advance
  <2>2. (0 - 1) % CounterMod = c
    BY <1>1, <1>3
  <2> QED BY <2>1, <2>2 DEF StartOf
<1> QED BY <1>1, <1>2, <1>3

LEMMA TicketType ==
    ASSUME NEW c \in 0 .. CounterMod - 1, NEW len \in Nat \ {0}
    PROVE  Advance(c) \in 0 .. CounterMod - 1 /\ StartOf(Advance(c), len) \in Nat
<1>1. CounterMod \in Nat \ {0}
  BY RouterAssumption
<1>2. Advance(c) \in 0 .. CounterMod - 1
  BY <1>1, ModRange DEF Advance
<1>3. c % len \in Nat
  BY ModRange
<1> QED BY <1>2, <1>3, TicketPosition

(* A route that resolves has models, and every position falls on one. *)
LEMMA RouteModels ==
    ASSUME NEW rt, Resolvable(rt)
    PROVE  /\ rt \in Routes /\ ModelsOf(rt) \in Seq(Models)
           /\ Count(rt) \in Nat \ {0} /\ DOMAIN ModelsOf(rt) = 1 .. Count(rt)
<1>1. ModelsOf(rt) \in Seq(Models) /\ rt \in Routes
  BY RouterAssumption DEF Resolvable, ModelsOf
<1>2. Len(ModelsOf(rt)) \in Nat /\ DOMAIN ModelsOf(rt) = 1 .. Len(ModelsOf(rt))
  BY <1>1, LenProperties
<1> QED BY <1>1, <1>2 DEF Resolvable, Count

LEMMA ModelAtType ==
    ASSUME NEW rt, Resolvable(rt), NEW k \in Nat
    PROVE  /\ (k % Count(rt)) + 1 \in 1 .. Count(rt)
           /\ ModelAt(rt, k) \in Models
<1>0. Count(rt) \in Nat \ {0}
  BY RouteModels
<1>1. (k % Count(rt)) + 1 \in 1 .. Count(rt)
  BY <1>0
<1> QED BY <1>1, RouteModels, ElementOfSeq DEF ModelAt, Count

-----------------------------------------------------------------------------
(* Types.  A call that scans does so on a route that resolves: without it  *)
(* nothing would be known of the models it looks at.                       *)
ScansResolvable ==
    \A r \in Requests : call[r].pc \in {"scan", "resolved"} => Resolvable(call[r].route)

TypeInv == RouterTypeOK /\ ScansResolvable

LEMMA NoCallType == NoCall \in Calls /\ NoCall.pc = "idle"
<1>1. <<>> \in Seq(Models)
  OBVIOUS
<1> QED BY <1>1 DEF NoCall, Calls

LEMMA DecisionType ==
    ASSUME NEW rt \in RouteNames \cup Routes \cup {ActiveRoute, ""}, NEW models \in Seq(Models)
    PROVE  /\ Decision(rt, models) \in Calls
           /\ Decision(rt, models).pc = "resolved"
           /\ Decision(rt, models).route = rt
           /\ Decision(rt, models).cands = models
  BY DEF Decision, NoCall, Calls

LEMMA LookOnType ==
    ASSUME TypeInv, NEW r \in Requests, NEW kept \in Seq(Models)
    PROVE  /\ LookOn(r, kept) \in Calls
           /\ LookOn(r, kept).pc = call[r].pc
           /\ LookOn(r, kept).route = call[r].route
           /\ LookOn(r, kept).cands = kept
           /\ LookOn(r, kept).i = call[r].i + 1
           /\ LookOn(r, kept).start = call[r].start
<1> DEFINE c == call[r]
<1>1. c \in Calls
  BY DEF TypeInv, RouterTypeOK
<1>2. LookOn(r, kept) = [c EXCEPT !.i = c.i + 1, !.cands = kept]
  BY DEF LookOn
<1> HIDE DEF c
<1>3. c.i \in Nat
  BY <1>1 DEF Calls
<1> DEFINE j == c.i + 1
<1>4. j \in Nat /\ LookOn(r, kept) = [c EXCEPT !.i = j, !.cands = kept]
  <2>1. \A n \in Nat : n + 1 \in Nat
    OBVIOUS
  <2> QED BY <1>2, <1>3, <2>1
<1>5. j = c.i + 1
  OBVIOUS
<1> HIDE DEF j
<1>6. LookOn(r, kept) \in Calls
  BY <1>1, <1>4 DEF Calls
<1>7. /\ LookOn(r, kept).pc = c.pc
      /\ LookOn(r, kept).route = c.route
      /\ LookOn(r, kept).cands = kept
      /\ LookOn(r, kept).i = j
      /\ LookOn(r, kept).start = c.start
  BY <1>1, <1>4 DEF Calls
<1> QED BY <1>5, <1>6, <1>7 DEF c

(* Writing a well-typed call keeps the invariant. *)
LEMMA CallWrite ==
    ASSUME TypeInv, NEW r \in Requests, NEW c \in Calls,
           c.pc \in {"scan", "resolved"} => Resolvable(c.route),
           counters' \in [Routes -> 0 .. CounterMod - 1],
           call' = [call EXCEPT ![r] = c]
    PROVE  TypeInv'
<1>1. call' \in [Requests -> Calls]
  BY DEF TypeInv, RouterTypeOK
<1>2. \A q \in Requests : call'[q] = IF q = r THEN c ELSE call[q]
  BY DEF TypeInv, RouterTypeOK
<1>3. ScansResolvable'
  BY <1>2 DEF TypeInv, ScansResolvable
<1> QED BY <1>1, <1>3 DEF TypeInv, RouterTypeOK

LEMMA TypeInit == RouterInit => TypeInv
<1> SUFFICES ASSUME RouterInit PROVE TypeInv
  OBVIOUS
<1>1. CounterMod \in Nat \ {0}
  BY RouterAssumption
<1>2. counters \in [Routes -> 0 .. CounterMod - 1]
  BY <1>1 DEF RouterInit
<1>3. call \in [Requests -> Calls] /\ \A r \in Requests : call[r].pc = "idle"
  BY NoCallType DEF RouterInit
<1>4. ScansResolvable
  BY <1>3 DEF ScansResolvable
<1> QED BY <1>2, <1>3, <1>4 DEF TypeInv, RouterTypeOK

LEMMA ResolveTypes ==
    ASSUME TypeInv, NEW r \in Requests, NEW name \in RouteNames, Resolve(r, name)
    PROVE  TypeInv'
<1> DEFINE rt == Named(name)
<1>0. /\ rt \in RouteNames \cup Routes \cup {ActiveRoute, ""}
      /\ counters \in [Routes -> 0 .. CounterMod - 1]
  BY DEF Named, TypeInv, RouterTypeOK
<1> HIDE DEF rt
<1>1. CASE ResolveFails(r, name)
  <2> DEFINE c == [NoCall EXCEPT !.pc = "error", !.route = rt]
  <2>1. c \in Calls /\ c.pc = "error"
    BY <1>0, NoCallType DEF Calls
  <2>2. call' = [call EXCEPT ![r] = c] /\ UNCHANGED counters
    BY <1>1 DEF ResolveFails, rt
  <2> QED BY <1>0, <2>1, <2>2, CallWrite
<1>2. CASE ResolveSingle(r, name)
  <2>1. /\ Resolvable(rt) /\ UNCHANGED counters
        /\ call' = [call EXCEPT ![r] = Decision(rt, <<ModelAt(rt, 0)>>)]
    BY <1>2 DEF ResolveSingle, rt
  <2>2. <<ModelAt(rt, 0)>> \in Seq(Models)
    BY <2>1, ModelAtType
  <2> QED BY <1>0, <2>1, <2>2, DecisionType, CallWrite
<1>3. CASE ResolveFallback(r, name)
  <2> DEFINE c == [NoCall EXCEPT !.pc = "scan", !.route = rt]
  <2>1. c \in Calls /\ c.route = rt
    BY <1>0, NoCallType DEF Calls
  <2>2. call' = [call EXCEPT ![r] = c] /\ UNCHANGED counters /\ Resolvable(rt)
    BY <1>3 DEF ResolveFallback, rt
  <2> QED BY <1>0, <2>1, <2>2, CallWrite
<1>4. CASE ResolveRound(r, name)
  <2> DEFINE n     == Advance(counters[rt])
             start == StartOf(n, Count(rt))
             c     == [NoCall EXCEPT !.pc = "scan", !.route = rt, !.start = start]
  <2>1. /\ Resolvable(rt) /\ counters' = [counters EXCEPT ![rt] = n]
        /\ call' = [call EXCEPT ![r] = c]
    BY <1>4 DEF ResolveRound, rt
  <2>2. counters[rt] \in 0 .. CounterMod - 1 /\ Count(rt) \in Nat \ {0}
    BY <1>0, <2>1, RouteModels
  <2>3. n \in 0 .. CounterMod - 1 /\ start \in Nat
    BY <2>2, TicketType
  <2> HIDE DEF n, start
  <2>4. c \in Calls /\ c.route = rt
    BY <1>0, <2>3, NoCallType DEF Calls
  <2>5. counters' \in [Routes -> 0 .. CounterMod - 1]
    BY <1>0, <2>1, <2>3
  <2> QED BY <2>1, <2>4, <2>5, CallWrite
<1> QED BY <1>1, <1>2, <1>3, <1>4 DEF Resolve, rt

(* Keep adds at most the model it looks at. *)
LEMMA KeepType ==
    ASSUME TypeInv, NEW r \in Requests, NEW m \in Models
    PROVE  Keep(r, m) \in Seq(Models)
<1>1. call[r].cands \in Seq(Models)
  BY DEF TypeInv, RouterTypeOK, Calls
<1> QED BY <1>1 DEF Keep

(* A look in fallback mode ends the call or goes on to the next place. *)
LEMMA ScanFallbackCases ==
    ASSUME TypeInv, NEW r \in Requests, ScanFallback(r)
    PROVE  LET rt   == call[r].route
               kept == Keep(r, ModelAt(rt, call[r].i))
           IN  /\ call[r].pc = "scan" /\ ModeOf(rt) = "fallback" /\ UNCHANGED counters
               /\ \/ /\ call[r].i = Count(rt) - 1
                     /\ call' = [call EXCEPT ![r] =
                                   Decision(rt, IF kept = <<>> THEN ModelsOf(rt) ELSE kept)]
                  \/ /\ call[r].i # Count(rt) - 1
                     /\ call' = [call EXCEPT ![r] = LookOn(r, kept)]
<1> DEFINE rt   == call[r].route
           kept == Keep(r, ModelAt(rt, call[r].i))
<1>1. /\ call[r].pc = "scan" /\ ModeOf(rt) = "fallback" /\ UNCHANGED counters
      /\ call' = [call EXCEPT ![r] =
             IF call[r].i = Count(rt) - 1 THEN Decision(rt, IF kept = <<>> THEN ModelsOf(rt) ELSE kept)
             ELSE LookOn(r, kept)]
  BY DEF ScanFallback
<1>2. CASE call[r].i = Count(rt) - 1
  BY <1>1, <1>2
<1>3. CASE call[r].i # Count(rt) - 1
  BY <1>1, <1>3
<1> QED BY <1>2, <1>3

(* A look in round mode picks the model, goes on or, after the last one,   *)
(* picks the model it started from.                                        *)
LEMMA ScanRoundCases ==
    ASSUME TypeInv, NEW r \in Requests, ScanRound(r)
    PROVE  LET rt == call[r].route
               m  == ModelAt(rt, call[r].start + call[r].i)
           IN  /\ call[r].pc = "scan" /\ ModeOf(rt) = "round" /\ UNCHANGED counters
               /\ \/ call' = [call EXCEPT ![r] = Decision(rt, <<m>>)]
                  \/ call' = [call EXCEPT ![r] = Decision(rt, <<ModelAt(rt, call[r].start)>>)]
                  \/ call' = [call EXCEPT ![r] = LookOn(r, call[r].cands)]
<1> DEFINE rt   == call[r].route
           m    == ModelAt(rt, call[r].start + call[r].i)
           last == call[r].i = Count(rt) - 1
<1>1. /\ call[r].pc = "scan" /\ ModeOf(rt) = "round" /\ UNCHANGED counters
      /\ call' = [call EXCEPT ![r] =
             IF ~IsBroken(m) THEN Decision(rt, <<m>>)
             ELSE IF last THEN Decision(rt, <<ModelAt(rt, call[r].start)>>)
             ELSE LookOn(r, call[r].cands)]
  BY DEF ScanRound
<1>2. CASE ~IsBroken(m)
  BY <1>1, <1>2
<1>3. CASE IsBroken(m) /\ last
  BY <1>1, <1>3
<1>4. CASE IsBroken(m) /\ ~last
  BY <1>1, <1>4
<1> QED BY <1>2, <1>3, <1>4

LEMMA ScanTypes ==
    ASSUME TypeInv, NEW r \in Requests, ScanFallback(r) \/ ScanRound(r)
    PROVE  TypeInv'
<1> DEFINE rt == call[r].route
<1>0. call[r] \in Calls /\ call[r].pc = "scan" /\ counters \in [Routes -> 0 .. CounterMod - 1]
  BY DEF ScanFallback, ScanRound, TypeInv, RouterTypeOK
<1>1. /\ Resolvable(rt) /\ call[r].i \in Nat /\ call[r].start \in Nat
      /\ rt \in RouteNames \cup Routes \cup {ActiveRoute, ""} /\ call[r].cands \in Seq(Models)
  BY <1>0 DEF TypeInv, ScansResolvable, Calls
<1>2. CASE ScanFallback(r)
  <2> DEFINE kept == Keep(r, ModelAt(rt, call[r].i))
             out  == IF kept = <<>> THEN ModelsOf(rt) ELSE kept
  <2>1. kept \in Seq(Models)
    BY <1>1, ModelAtType, KeepType
  <2>2. out \in Seq(Models)
    BY <1>1, <2>1, RouteModels
  <2>3. /\ UNCHANGED counters
        /\ \/ call' = [call EXCEPT ![r] = Decision(rt, out)]
           \/ call' = [call EXCEPT ![r] = LookOn(r, kept)]
    BY <1>2, ScanFallbackCases
  <2> HIDE DEF kept, out
  <2>4. CASE call' = [call EXCEPT ![r] = Decision(rt, out)]
    <3> DEFINE c == Decision(rt, out)
    <3>1. c \in Calls /\ c.route = rt
      BY <1>1, <2>2, DecisionType
    <3>2. call' = [call EXCEPT ![r] = c]
      BY <2>4
    <3>3. counters' \in [Routes -> 0 .. CounterMod - 1] /\ Resolvable(c.route)
      BY <1>0, <1>1, <2>3, <3>1
    <3> HIDE DEF c
    <3> QED BY <3>1, <3>2, <3>3, CallWrite
  <2>5. CASE call' = [call EXCEPT ![r] = LookOn(r, kept)]
    BY <1>0, <1>1, <2>1, <2>3, <2>5, LookOnType, CallWrite
  <2> QED BY <2>3, <2>4, <2>5
<1>3. CASE ScanRound(r)
  <2> DEFINE m == ModelAt(rt, call[r].start + call[r].i)
             d == ModelAt(rt, call[r].start)
  <2>1. call[r].start + call[r].i \in Nat
    <3> DEFINE a == call[r].start
               b == call[r].i
    <3>1. a \in Nat /\ b \in Nat
      BY <1>1
    <3> HIDE DEF a, b
    <3>2. a + b \in Nat
      BY <3>1
    <3> QED BY <3>2 DEF a, b
  <2>2. m \in Models /\ d \in Models
    BY <1>1, <2>1, ModelAtType
  <2>3. /\ UNCHANGED counters
        /\ \/ call' = [call EXCEPT ![r] = Decision(rt, <<m>>)]
           \/ call' = [call EXCEPT ![r] = Decision(rt, <<d>>)]
           \/ call' = [call EXCEPT ![r] = LookOn(r, call[r].cands)]
    BY <1>3, ScanRoundCases
  <2> HIDE DEF m, d
  <2>4. CASE \E x \in Models : call' = [call EXCEPT ![r] = Decision(rt, <<x>>)]
    <3> PICK x \in Models : call' = [call EXCEPT ![r] = Decision(rt, <<x>>)]
      BY <2>4
    <3>1. <<x>> \in Seq(Models)
      OBVIOUS
    <3> DEFINE c == Decision(rt, <<x>>)
    <3>2. c \in Calls /\ c.route = rt
      BY <1>1, <3>1, DecisionType
    <3>3. call' = [call EXCEPT ![r] = c]
      OBVIOUS
    <3>4. counters' \in [Routes -> 0 .. CounterMod - 1] /\ Resolvable(c.route)
      BY <1>0, <1>1, <2>3, <3>2
    <3> HIDE DEF c
    <3> QED BY <3>2, <3>3, <3>4, CallWrite
  <2>5. CASE call' = [call EXCEPT ![r] = LookOn(r, call[r].cands)]
    BY <1>0, <1>1, <2>3, <2>5, LookOnType, CallWrite
  <2> QED BY <2>2, <2>3, <2>4, <2>5
<1> QED BY <1>2, <1>3

LEMMA TypeStep == TypeInv /\ [RouterNext]_RouterVars => TypeInv'
<1> SUFFICES ASSUME TypeInv, [RouterNext]_RouterVars PROVE TypeInv'
  OBVIOUS
<1>1. CASE \E r \in Requests : RouterStep(r)
  BY <1>1, ResolveTypes, ScanTypes DEF RouterStep
<1>2. CASE \E r \in Requests : Return(r)
  <2>1. counters' \in [Routes -> 0 .. CounterMod - 1]
    BY <1>2 DEF Return, TypeInv, RouterTypeOK
  <2> QED BY <1>2, <2>1, NoCallType, CallWrite DEF Return
<1>3. CASE UNCHANGED routerVars
  BY <1>3 DEF routerVars, TypeInv, RouterTypeOK, ScansResolvable
<1> QED BY <1>1, <1>2, <1>3 DEF RouterNext, RouterVars

LEMMA TypesAlways == RouterSpec => []TypeInv
  BY TypeInit, TypeStep, PTL DEF RouterSpec

(* Type correctness of the engine: counters stay on their width and every  *)
(* decision is made of configured models, whatever the table.              *)
THEOREM RouterTypeCorrect == RouterSpec => []RouterTypeOK
<1>1. TypeInv => RouterTypeOK
  BY DEF TypeInv
<1> QED BY <1>1, TypesAlways, PTL

(* PeekRound and Resolve agree on the next pick in every state, for every  *)
(* width of the counter and every length of a route.                       *)
THEOREM PeekAlwaysPredicts == RouterSpec => []PeekPredictsPick
<1>1. TypeInv => PeekPredictsPick
  <2> SUFFICES ASSUME TypeInv, NEW rt \in Routes, Resolvable(rt)
               PROVE  PeekStart(rt) = StartOf(Advance(counters[rt]), Count(rt))
    BY DEF PeekPredictsPick, PeekRound
  <2>1. counters[rt] \in 0 .. CounterMod - 1 /\ Count(rt) \in Nat \ {0}
    BY RouteModels DEF TypeInv, RouterTypeOK
  <2> QED BY <2>1, TicketPosition DEF PeekStart
<1> QED BY <1>1, TypesAlways, PTL

-----------------------------------------------------------------------------
(* The try-order.  Subsequence says nothing of a list under construction:  *)
(* what a fallback scan keeps invariant is that the list is embedded in    *)
(* the places of the route it has already looked at.                       *)
Embedded(s, t, n) ==
    \E f \in [DOMAIN s -> 1 .. n] :
        /\ \A i, j \in DOMAIN s : i < j => f[i] < f[j]
        /\ \A i \in DOMAIN s : s[i] = t[f[i]]

(* A look that keeps the model extends the embedding by its place. *)
LEMMA EmbedAppend ==
    ASSUME NEW s \in Seq(Models), NEW t \in Seq(Models), NEW n \in Nat,
           n < Len(t), Embedded(s, t, n)
    PROVE  Embedded(Append(s, t[n + 1]), t, n + 1)
<1> DEFINE u == Append(s, t[n + 1])
<1>0. t[n + 1] \in Models
  <2>1. Len(t) \in Nat /\ n + 1 \in 1 .. Len(t)
    BY LenProperties
  <2> QED BY <2>1, ElementOfSeq
<1>1. PICK f \in [DOMAIN s -> 1 .. n] :
        /\ \A i, j \in DOMAIN s : i < j => f[i] < f[j]
        /\ \A i \in DOMAIN s : s[i] = t[f[i]]
  BY DEF Embedded
<1>2. /\ Len(s) \in Nat /\ DOMAIN s = 1 .. Len(s) /\ DOMAIN u = 1 .. Len(s) + 1
      /\ u[Len(s) + 1] = t[n + 1]
      /\ \A i \in 1 .. Len(s) : u[i] = s[i]
  BY <1>0, AppendProperties, LenProperties
<1> HIDE DEF u
<1> DEFINE L == Len(s)
           g == [i \in 1 .. L + 1 |-> IF i = L + 1 THEN n + 1 ELSE f[i]]
<1>3. L \in Nat /\ \A i \in 1 .. L : f[i] \in 1 .. n /\ g[i] = f[i]
  BY <1>1, <1>2
<1>4. g[L + 1] = n + 1
  BY <1>3
<1>5. g \in [DOMAIN u -> 1 .. n + 1]
  <2>1. ASSUME NEW i \in 1 .. L + 1 PROVE g[i] \in 1 .. n + 1
    <3>1. CASE i = L + 1
      BY <3>1, <1>4
    <3>2. CASE i # L + 1
      <4>1. i \in 1 .. L
        BY <3>2, <1>3
      <4>2. f[i] \in 1 .. n /\ g[i] = f[i]
        BY <4>1, <1>3
      <4> HIDE DEF g
      <4> QED BY <4>2
    <3> QED BY <3>1, <3>2
  <2> QED BY <2>1, <1>2
<1> HIDE DEF g, L
<1>6. DOMAIN s = 1 .. L /\ DOMAIN u = 1 .. L + 1
  BY <1>2 DEF L
<1>7. ASSUME NEW i \in DOMAIN u, NEW j \in DOMAIN u, i < j PROVE g[i] < g[j]
  <2>1. i \in 1 .. L /\ (j \in 1 .. L \/ j = L + 1)
    BY <1>3, <1>6, <1>7
  <2>2. CASE j \in 1 .. L
    BY <2>1, <2>2, <1>1, <1>3, <1>6, <1>7
  <2>3. CASE j = L + 1
    <3>1. g[j] = n + 1 /\ g[i] = f[i] /\ f[i] \in 1 .. n
      BY <2>1, <2>3, <1>3, <1>4
    <3> QED BY <3>1
  <2> QED BY <2>1, <2>2, <2>3
<1>8. ASSUME NEW i \in DOMAIN u PROVE u[i] = t[g[i]]
  <2>0. i \in 1 .. L + 1
    BY <1>6
  <2>1. i \in 1 .. L \/ i = L + 1
    BY <1>3, <2>0
  <2>2. CASE i \in 1 .. L
    BY <2>2, <1>1, <1>2, <1>3, <1>6 DEF L
  <2>3. CASE i = L + 1
    BY <2>3, <1>2, <1>4 DEF L
  <2> QED BY <2>1, <2>2, <2>3
<1>9. Embedded(u, t, n + 1)
  BY <1>5, <1>7, <1>8 DEF Embedded
<1> QED BY <1>9 DEF u

(* A look that skips the model leaves the list embedded in a longer prefix. *)
LEMMA EmbedSkip ==
    ASSUME NEW s, NEW t, NEW n \in Nat, Embedded(s, t, n)
    PROVE  Embedded(s, t, n + 1)
<1>1. 1 .. n \subseteq 1 .. n + 1
  OBVIOUS
<1>2. PICK f \in [DOMAIN s -> 1 .. n] :
        /\ \A i, j \in DOMAIN s : i < j => f[i] < f[j]
        /\ \A i \in DOMAIN s : s[i] = t[f[i]]
  BY DEF Embedded
<1>3. f \in [DOMAIN s -> 1 .. n + 1]
  BY <1>1, <1>2
<1> QED BY <1>2, <1>3 DEF Embedded

(* Once the whole route has been looked at, the list is in its order. *)
LEMMA EmbedWhole ==
    ASSUME NEW s, NEW t \in Seq(Models), Embedded(s, t, Len(t))
    PROVE  Subsequence(s, t)
  BY LenProperties DEF Embedded, Subsequence

LEMMA EmbedEmpty ==
    ASSUME NEW t PROVE Embedded(<<>>, t, 0)
<1> DEFINE f == [i \in DOMAIN <<>> |-> 0]
<1>1. DOMAIN <<>> = {}
  OBVIOUS
<1>2. f \in [DOMAIN <<>> -> 1 .. 0]
  BY <1>1
<1> HIDE DEF f
<1> QED BY <1>1, <1>2 DEF Embedded

LEMMA WholeRoute ==
    ASSUME NEW t \in Seq(Models) PROVE Subsequence(t, t)
<1> DEFINE f == [i \in DOMAIN t |-> i]
<1>1. f \in [DOMAIN t -> DOMAIN t] /\ \A i \in DOMAIN t : f[i] = i
  OBVIOUS
<1> HIDE DEF f
<1> QED BY <1>1 DEF Subsequence

(* The single model of a pick is one of the route. *)
LEMMA OneModel ==
    ASSUME NEW rt, Resolvable(rt), NEW k \in Nat
    PROVE  Subsequence(<<ModelAt(rt, k)>>, ModelsOf(rt))
<1> DEFINE p == (k % Count(rt)) + 1
           x == ModelAt(rt, k)
           f == [i \in {1} |-> p]
<1>1. p \in DOMAIN ModelsOf(rt) /\ x = ModelsOf(rt)[p]
  BY ModelAtType, RouteModels DEF ModelAt
<1> HIDE DEF p, x
<1>2. DOMAIN <<x>> = {1} /\ <<x>>[1] = x
  OBVIOUS
<1>3. f \in [DOMAIN <<x>> -> DOMAIN ModelsOf(rt)] /\ f[1] = p
  BY <1>1, <1>2
<1> HIDE DEF f
<1>4. \A i, j \in {1} : ~(i < j)
  OBVIOUS
<1>5. Subsequence(<<x>>, ModelsOf(rt))
  BY <1>1, <1>2, <1>3, <1>4 DEF Subsequence
<1> QED BY <1>5 DEF x

(* What holds of one call, whatever the others and the tracker do. *)
OrderedCall(c) ==
    /\ c.pc = "resolved" => /\ c.cands # <<>>
                            /\ Subsequence(c.cands, ModelsOf(c.route))
    /\ c.pc = "scan" /\ ModeOf(c.route) = "fallback" =>
            /\ c.i < Count(c.route)
            /\ Embedded(c.cands, ModelsOf(c.route), c.i)

OrderInv == \A r \in Requests : OrderedCall(call[r])

LEMMA OrderWrite ==
    ASSUME TypeInv, OrderInv, NEW r \in Requests, NEW c, OrderedCall(c),
           call' = [call EXCEPT ![r] = c]
    PROVE  OrderInv'
<1>1. \A q \in Requests : call'[q] = IF q = r THEN c ELSE call[q]
  BY DEF TypeInv, RouterTypeOK
<1> QED BY <1>1 DEF OrderInv, OrderedCall

LEMMA IdleOrdered == OrderedCall(NoCall)
  BY DEF OrderedCall, NoCall

LEMMA DecisionOrdered ==
    ASSUME NEW rt \in RouteNames \cup Routes \cup {ActiveRoute, ""}, NEW models \in Seq(Models),
           models # <<>>, Subsequence(models, ModelsOf(rt))
    PROVE  OrderedCall(Decision(rt, models))
  BY DecisionType DEF OrderedCall

LEMMA PickOrdered ==
    ASSUME NEW rt, Resolvable(rt), NEW k \in Nat
    PROVE  OrderedCall(Decision(rt, <<ModelAt(rt, k)>>))
<1> DEFINE x == ModelAt(rt, k)
<1>1. x \in Models /\ Subsequence(<<x>>, ModelsOf(rt)) /\ rt \in Routes
  BY ModelAtType, OneModel, RouteModels
<1> HIDE DEF x
<1>2. <<x>> \in Seq(Models) /\ <<x>> # <<>>
  BY <1>1
<1>3. OrderedCall(Decision(rt, <<x>>))
  BY <1>1, <1>2, DecisionOrdered
<1> QED BY <1>3 DEF x

LEMMA ResolveOrdered ==
    ASSUME TypeInv, OrderInv, NEW r \in Requests, NEW name \in RouteNames, Resolve(r, name)
    PROVE  OrderInv'
<1> DEFINE rt == Named(name)
<1>1. CASE ResolveFails(r, name)
  <2> DEFINE c == [NoCall EXCEPT !.pc = "error", !.route = rt]
  <2>1. c.pc = "error" /\ call' = [call EXCEPT ![r] = c]
    BY <1>1 DEF ResolveFails, NoCall
  <2>2. OrderedCall(c)
    BY <2>1 DEF OrderedCall
  <2> QED BY <2>1, <2>2, OrderWrite
<1>2. CASE ResolveSingle(r, name)
  <2>1. Resolvable(rt) /\ call' = [call EXCEPT ![r] = Decision(rt, <<ModelAt(rt, 0)>>)]
    BY <1>2 DEF ResolveSingle
  <2>2. OrderedCall(Decision(rt, <<ModelAt(rt, 0)>>))
    BY <2>1, PickOrdered
  <2> QED BY <2>1, <2>2, OrderWrite
<1>3. CASE ResolveFallback(r, name)
  <2> DEFINE c == [NoCall EXCEPT !.pc = "scan", !.route = rt]
  <2>1. Resolvable(rt) /\ call' = [call EXCEPT ![r] = c]
    BY <1>3 DEF ResolveFallback
  <2>2. c.pc = "scan" /\ c.route = rt /\ c.i = 0 /\ c.cands = <<>>
    BY DEF NoCall
  <2> HIDE DEF c, rt
  <2>3. c.i < Count(c.route)
    BY <2>1, <2>2, RouteModels
  <2>4. OrderedCall(c)
    BY <2>2, <2>3, EmbedEmpty DEF OrderedCall
  <2> QED BY <2>1, <2>4, OrderWrite
<1>4. CASE ResolveRound(r, name)
  <2> DEFINE c == [NoCall EXCEPT !.pc = "scan", !.route = rt,
                                 !.start = StartOf(Advance(counters[rt]), Count(rt))]
  <2>1. /\ ModeOf(rt) = "round" /\ call' = [call EXCEPT ![r] = c]
        /\ c.pc = "scan" /\ c.route = rt
    BY <1>4 DEF ResolveRound, NoCall
  <2> HIDE DEF c, rt
  <2>2. OrderedCall(c)
    BY <2>1 DEF OrderedCall
  <2> QED BY <2>1, <2>2, OrderWrite
<1> QED BY <1>1, <1>2, <1>3, <1>4 DEF Resolve

(* The list after a look is embedded in the places looked at so far. *)
LEMMA KeepEmbeds ==
    ASSUME TypeInv, OrderInv, NEW r \in Requests,
           call[r].pc = "scan", ModeOf(call[r].route) = "fallback"
    PROVE  LET rt == call[r].route
           IN  /\ call[r].i \in Nat /\ call[r].i < Count(rt)
               /\ Keep(r, ModelAt(rt, call[r].i)) \in Seq(Models)
               /\ Embedded(Keep(r, ModelAt(rt, call[r].i)), ModelsOf(rt), call[r].i + 1)
<1> DEFINE rt == call[r].route
           n  == call[r].i
           s  == call[r].cands
           m  == ModelAt(rt, n)
           k  == Keep(r, m)
<1>1. /\ Resolvable(rt) /\ n \in Nat /\ s \in Seq(Models)
  BY DEF TypeInv, RouterTypeOK, ScansResolvable, Calls
<1>2. n < Count(rt) /\ Embedded(s, ModelsOf(rt), n)
  BY DEF OrderInv, OrderedCall
<1>3. m \in Models /\ k \in Seq(Models)
  BY <1>1, ModelAtType, KeepType
<1>4. m = ModelsOf(rt)[n + 1]
  <2>1. n % Count(rt) = n
    <3> HIDE DEF n, rt
    <3> QED BY <1>1, <1>2, RouteModels
  <2> QED BY <2>1 DEF ModelAt
<1>5. k = s \/ k = Append(s, m)
  BY DEF Keep
<1>6. ModelsOf(rt) \in Seq(Models) /\ Count(rt) = Len(ModelsOf(rt))
  BY <1>1, RouteModels DEF Count
<1> HIDE DEF rt, n, s, m, k
<1>7. k = s => Embedded(k, ModelsOf(rt), n + 1)
  BY <1>1, <1>2, EmbedSkip
<1>8. k = Append(s, m) => Embedded(k, ModelsOf(rt), n + 1)
  BY <1>1, <1>2, <1>4, <1>6, EmbedAppend
<1>9. Embedded(k, ModelsOf(rt), n + 1)
  BY <1>5, <1>7, <1>8
<1> QED BY <1>1, <1>2, <1>3, <1>9 DEF rt, n, s, m, k

LEMMA ScanFallbackOrdered ==
    ASSUME TypeInv, OrderInv, NEW r \in Requests, ScanFallback(r)
    PROVE  OrderInv'
<1> DEFINE rt   == call[r].route
           n    == call[r].i
           kept == Keep(r, ModelAt(rt, n))
           out  == IF kept = <<>> THEN ModelsOf(rt) ELSE kept
<1>1. /\ call[r].pc = "scan" /\ ModeOf(rt) = "fallback"
      /\ \/ n = Count(rt) - 1 /\ call' = [call EXCEPT ![r] = Decision(rt, out)]
         \/ n # Count(rt) - 1 /\ call' = [call EXCEPT ![r] = LookOn(r, kept)]
  BY ScanFallbackCases
<1>2. /\ n \in Nat /\ n < Count(rt) /\ kept \in Seq(Models)
      /\ Embedded(kept, ModelsOf(rt), n + 1)
  BY <1>1, KeepEmbeds
<1>3. /\ Resolvable(rt) /\ rt \in Routes
      /\ ModelsOf(rt) \in Seq(Models) /\ Count(rt) \in Nat \ {0}
      /\ Count(rt) = Len(ModelsOf(rt))
  <2>1. Resolvable(rt)
    BY <1>1 DEF TypeInv, ScansResolvable
  <2> QED BY <2>1, RouteModels DEF Count
<1>4. /\ LookOn(r, kept).pc = "scan" /\ LookOn(r, kept).route = rt
      /\ LookOn(r, kept).cands = kept /\ LookOn(r, kept).i = n + 1
  BY <1>1, <1>2, LookOnType
<1> DEFINE d == Decision(rt, out)
           l == LookOn(r, kept)
<1> HIDE DEF rt, n, kept, l
<1>5. CASE n = Count(rt) - 1 /\ call' = [call EXCEPT ![r] = d]
  <2>1. n + 1 = Len(ModelsOf(rt))
    BY <1>2, <1>3, <1>5
  <2>2. Subsequence(kept, ModelsOf(rt)) /\ Subsequence(ModelsOf(rt), ModelsOf(rt))
    BY <1>2, <1>3, <2>1, EmbedWhole, WholeRoute
  <2>3. ModelsOf(rt) # <<>>
    BY <1>3
  <2>4. out \in Seq(Models) /\ out # <<>> /\ Subsequence(out, ModelsOf(rt))
    BY <1>2, <1>3, <2>2, <2>3
  <2> HIDE DEF out
  <2>5. OrderedCall(d)
    BY <1>3, <2>4, DecisionOrdered
  <2> HIDE DEF d
  <2> QED BY <1>5, <2>5, OrderWrite
<1>6. CASE n # Count(rt) - 1 /\ call' = [call EXCEPT ![r] = l]
  <2>1. n + 1 < Count(rt)
    BY <1>2, <1>3, <1>6
  <2>2. l.pc = "scan" /\ l.route = rt /\ l.cands = kept /\ l.i = n + 1
    BY <1>4 DEF l
  <2>3. OrderedCall(l)
    BY <1>2, <2>1, <2>2 DEF OrderedCall
  <2> QED BY <1>6, <2>3, OrderWrite
<1> QED BY <1>1, <1>5, <1>6 DEF l

LEMMA ScanRoundOrdered ==
    ASSUME TypeInv, OrderInv, NEW r \in Requests, ScanRound(r)
    PROVE  OrderInv'
<1> DEFINE rt == call[r].route
           a  == call[r].start
           b  == call[r].i
           l  == LookOn(r, call[r].cands)
<1>1. /\ call[r].pc = "scan" /\ ModeOf(rt) = "round"
      /\ \/ call' = [call EXCEPT ![r] = Decision(rt, <<ModelAt(rt, a + b)>>)]
         \/ call' = [call EXCEPT ![r] = Decision(rt, <<ModelAt(rt, a)>>)]
         \/ call' = [call EXCEPT ![r] = l]
  BY ScanRoundCases
<1>2. /\ Resolvable(rt) /\ a \in Nat /\ b \in Nat /\ call[r].cands \in Seq(Models)
  BY <1>1 DEF TypeInv, RouterTypeOK, ScansResolvable, Calls
<1>3. l.pc = "scan" /\ l.route = rt
  BY <1>1, <1>2, LookOnType
<1> HIDE DEF rt, a, b, l
<1>4. a + b \in Nat
  BY <1>2
<1>5. ASSUME NEW k \in Nat, call' = [call EXCEPT ![r] = Decision(rt, <<ModelAt(rt, k)>>)]
      PROVE  OrderInv'
  <2>1. OrderedCall(Decision(rt, <<ModelAt(rt, k)>>))
    BY <1>2, PickOrdered
  <2> QED BY <1>5, <2>1, OrderWrite
<1>6. CASE call' = [call EXCEPT ![r] = l]
  <2>1. OrderedCall(l)
    BY <1>1, <1>3 DEF OrderedCall
  <2> QED BY <1>6, <2>1, OrderWrite
<1> QED BY <1>1, <1>2, <1>4, <1>5, <1>6

LEMMA OrderInit == RouterInit => OrderInv
  BY IdleOrdered DEF RouterInit, OrderInv

LEMMA OrderStep == TypeInv /\ OrderInv /\ [RouterNext]_RouterVars => OrderInv'
<1> SUFFICES ASSUME TypeInv, OrderInv, [RouterNext]_RouterVars PROVE OrderInv'
  OBVIOUS
<1>1. CASE \E r \in Requests : RouterStep(r)
  BY <1>1, ResolveOrdered, ScanFallbackOrdered, ScanRoundOrdered DEF RouterStep
<1>2. CASE \E r \in Requests : Return(r)
  BY <1>2, IdleOrdered, OrderWrite DEF Return
<1>3. CASE UNCHANGED routerVars
  BY <1>3 DEF routerVars, OrderInv, OrderedCall
<1> QED BY <1>1, <1>2, <1>3 DEF RouterNext, RouterVars

(* Whatever the tracker records while a call looks at the models, and      *)
(* whichever other calls run, the try-order a call returns is never empty  *)
(* and lists models of the route in the configured order.                  *)
THEOREM TryOrderAlwaysConfigured == RouterSpec => []TryOrderIsConfigured
<1>1. OrderInv => TryOrderIsConfigured
  BY DEF OrderInv, OrderedCall, TryOrderIsConfigured
<1> QED BY <1>1, OrderInit, OrderStep, TypesAlways, PTL DEF RouterSpec

-----------------------------------------------------------------------------
(* Induction on numbers.  The library's theorem takes an operator; stated  *)
(* of a set it follows from the least element of the set's complement.     *)
LEMMA LeastElement ==
    ASSUME NEW T, T \subseteq Nat, T # {}
    PROVE  \E x \in T : \A y \in T : x <= y
<1> DEFINE R == OpToRel(<, Nat)
<1>1. IsWellFoundedOn(R, Nat)
  BY NatLessThanWellFounded
<1>2. \A x, y \in Nat : x < y => <<x, y>> \in R
  BY DEF OpToRel
<1> HIDE DEF R
<1>3. PICK x \in T : \A y \in T : ~(<<y, x>> \in R)
  BY <1>1, WFMin
<1>4. \A y \in T : ~(y < x)
  BY <1>2, <1>3
<1>5. \A y \in T : x <= y
  BY <1>4
<1> QED BY <1>5

LEMMA InductionOnSet ==
    ASSUME NEW S, 0 \in S, \A n \in Nat : n \in S => n + 1 \in S
    PROVE  Nat \subseteq S
<1> DEFINE T == {n \in Nat : n \notin S}
<1>1. CASE T = {}
  BY <1>1
<1>2. CASE T # {}
  <2>1. PICK x \in T : \A y \in T : x <= y
    BY <1>2, LeastElement
  <2>2. x # 0 /\ x \in Nat
    OBVIOUS
  <2>3. x - 1 \in Nat /\ x - 1 \notin T
    BY <2>1, <2>2
  <2> QED BY <2>1, <2>2, <2>3
<1> QED BY <1>1, <1>2

(* Division with remainder. *)
LEMMA Division ==
    ASSUME NEW a \in Nat, NEW n \in Nat \ {0}
    PROVE  \E q \in Nat : a = n * q + (a % n)
<1> DEFINE S == {x \in Nat : \E q \in Nat, d \in 0 .. n - 1 : x = n * q + d}
<1>1. 0 \in S
  <2>1. 0 = n * 0 + 0 /\ 0 \in 0 .. n - 1 /\ 0 \in Nat
    OBVIOUS
  <2> QED BY <2>1
<1>2. ASSUME NEW x \in Nat, x \in S PROVE x + 1 \in S
  <2>1. PICK q \in Nat, d \in 0 .. n - 1 : x = n * q + d
    BY <1>2
  <2>2. CASE d + 1 < n
    <3>1. x + 1 = n * q + (d + 1) /\ d + 1 \in 0 .. n - 1 /\ x + 1 \in Nat
      BY <2>1, <2>2
    <3> QED BY <3>1
  <2>3. CASE ~(d + 1 < n)
    <3>1. x + 1 = n * (q + 1) + 0 /\ 0 \in 0 .. n - 1 /\ q + 1 \in Nat /\ x + 1 \in Nat
      BY <2>1, <2>3
    <3> QED BY <3>1
  <2> QED BY <2>2, <2>3
<1>3. a \in S
  <2> HIDE DEF S
  <2> QED BY <1>1, <1>2, InductionOnSet
<1>4. PICK q \in Nat, d \in 0 .. n - 1 : a = n * q + d
  BY <1>3
<1>5. (n * q + d) % n = d
  OBVIOUS
<1> QED BY <1>4, <1>5

(* Count places from any start on, with the wrap, and every place is met.  *)
LEMMA WrapMeetsAll ==
    ASSUME NEW start \in Nat, NEW n \in Nat \ {0}, NEW j \in 0 .. n - 1
    PROVE  \E k \in 0 .. n - 1 : (start + k) % n = j
<1> DEFINE b == start % n
<1>1. PICK q \in Nat : start = n * q + b
  BY Division
<1>2. b \in 0 .. n - 1
  BY ModRange
<1> HIDE DEF b
<1>0. \A p \in Nat : (n * p + j) % n = j
  OBVIOUS
<1>3. CASE j >= b
  <2>1. j - b \in 0 .. n - 1 /\ start + (j - b) = n * q + j
    BY <1>1, <1>2, <1>3
  <2>2. (start + (j - b)) % n = j
    BY <1>0, <2>1
  <2> QED BY <2>1, <2>2
<1>4. CASE ~(j >= b)
  <2>1. (j - b) + n \in 0 .. n - 1 /\ start + ((j - b) + n) = n * (q + 1) + j /\ q + 1 \in Nat
    BY <1>1, <1>2, <1>4
  <2>2. (start + ((j - b) + n)) % n = j
    BY <1>0, <2>1
  <2> QED BY <2>1, <2>2
<1> QED BY <1>3, <1>4

-----------------------------------------------------------------------------
(* Decisions and health.  The looks of a call happen at different moments; *)
(* what is known of each look is kept in terms of the models that were     *)
(* usable (up), or broken (down), ever since the call began.               *)

(* skipBroken after i looks. *)
Looked(rt, i, cands, up, down) ==
    /\ \A k \in 0 .. i - 1 : ModelAt(rt, k) \in up => ModelAt(rt, k) \in RangeOf(cands)
    /\ RangeOf(cands) \cap down = {}

(* The round-robin scan after i looks from start on. *)
Passed(rt, start, i, up) == \A k \in 0 .. i - 1 : ModelAt(rt, start + k) \notin up

(* What DecisionRespectsHealth says of one decision. *)
Sound(rt, cands, up, down) ==
    LET out  == RangeOf(cands)
        good == up \cap RangeOf(ModelsOf(rt))
    IN  /\ good # {} => out \cap down = {}
        /\ ModeOf(rt) = "fallback" => good \subseteq out

HealthCall(c, up, down) ==
    /\ c.pc = "scan" /\ ModeOf(c.route) = "fallback" => Looked(c.route, c.i, c.cands, up, down)
    /\ c.pc = "scan" /\ ModeOf(c.route) = "round" =>
          /\ c.i < Count(c.route)
          /\ Passed(c.route, c.start, c.i, up)
    /\ c.pc = "resolved" /\ ModeOf(c.route) # "single" => Sound(c.route, c.cands, up, down)

HealthInv == \A r \in Requests : HealthCall(call[r], steady[r].up, steady[r].down)

LEMMA RangeOfAppend ==
    ASSUME NEW s \in Seq(Models), NEW m \in Models
    PROVE  RangeOf(Append(s, m)) = RangeOf(s) \cup {m}
<1>1. /\ DOMAIN s = 1 .. Len(s) /\ Len(s) \in Nat
      /\ DOMAIN Append(s, m) = 1 .. Len(s) + 1
      /\ \A k \in 1 .. Len(s) : Append(s, m)[k] = s[k]
      /\ Append(s, m)[Len(s) + 1] = m
  BY AppendProperties, LenProperties
<1>2. \A k \in 1 .. Len(s) + 1 : k = Len(s) + 1 \/ k \in 1 .. Len(s)
  BY <1>1
<1>3. /\ \A k \in 1 .. Len(s) : k \in 1 .. Len(s) + 1
      /\ Len(s) + 1 \in 1 .. Len(s) + 1
  BY <1>1
<1> QED BY <1>1, <1>2, <1>3 DEF RangeOf

LEMMA RangeOfEmpty == RangeOf(<<>>) = {}
  BY DEF RangeOf

LEMMA RangeOfOne == \A x : RangeOf(<<x>>) = {x}
<1> SUFFICES ASSUME NEW x PROVE RangeOf(<<x>>) = {x}
  OBVIOUS
<1>1. DOMAIN <<x>> = {1} /\ <<x>>[1] = x
  OBVIOUS
<1> QED BY <1>1 DEF RangeOf

(* Every model of a route stands at one of its places. *)
LEMMA PlaceOfModel ==
    ASSUME NEW rt, Resolvable(rt), NEW m \in RangeOf(ModelsOf(rt))
    PROVE  \E j \in 0 .. Count(rt) - 1 : \A a \in Nat : a % Count(rt) = j => ModelAt(rt, a) = m
<1>1. ModelsOf(rt) \in Seq(Models) /\ Count(rt) \in Nat \ {0} /\ Count(rt) = Len(ModelsOf(rt))
  BY RouteModels DEF Count
<1>2. PICK k \in 1 .. Count(rt) : m = ModelsOf(rt)[k]
  BY <1>1, LenProperties DEF RangeOf
<1>3. k - 1 \in 0 .. Count(rt) - 1 /\ (k - 1) + 1 = k
  BY <1>1, <1>2
<1>4. \A a \in Nat : a % Count(rt) = k - 1 => ModelAt(rt, a) = m
  BY <1>2, <1>3 DEF ModelAt
<1> QED BY <1>3, <1>4

(* The first Count places of a route are its models. *)
LEMMA ModelPlaced ==
    ASSUME NEW rt, Resolvable(rt), NEW m \in RangeOf(ModelsOf(rt))
    PROVE  \E k \in 0 .. Count(rt) - 1 : ModelAt(rt, k) = m
<1>1. PICK j \in 0 .. Count(rt) - 1 : \A a \in Nat : a % Count(rt) = j => ModelAt(rt, a) = m
  BY PlaceOfModel
<1>2. Count(rt) \in Nat \ {0}
  BY RouteModels
<1>3. j \in Nat /\ j % Count(rt) = j
  BY <1>2
<1> QED BY <1>1, <1>3

(* So are Count places from any start on. *)
LEMMA ModelMet ==
    ASSUME NEW rt, Resolvable(rt), NEW start \in Nat, NEW m \in RangeOf(ModelsOf(rt))
    PROVE  \E k \in 0 .. Count(rt) - 1 : ModelAt(rt, start + k) = m
<1>1. PICK j \in 0 .. Count(rt) - 1 : \A a \in Nat : a % Count(rt) = j => ModelAt(rt, a) = m
  BY PlaceOfModel
<1>2. Count(rt) \in Nat \ {0}
  BY RouteModels
<1>3. PICK k \in 0 .. Count(rt) - 1 : (start + k) % Count(rt) = j
  BY <1>2, WrapMeetsAll
<1>4. start + k \in Nat
  BY <1>2
<1> QED BY <1>1, <1>3, <1>4

(* Nothing is lost when fewer models have been usable, or broken, throughout. *)
LEMMA StillHealthy ==
    ASSUME NEW c, NEW up, NEW down, NEW up2, NEW down2,
           up2 \subseteq up, down2 \subseteq down, HealthCall(c, up, down)
    PROVE  HealthCall(c, up2, down2)
<1>1. Looked(c.route, c.i, c.cands, up, down) => Looked(c.route, c.i, c.cands, up2, down2)
  BY DEF Looked
<1>2. Passed(c.route, c.start, c.i, up) => Passed(c.route, c.start, c.i, up2)
  BY DEF Passed
<1>3. Sound(c.route, c.cands, up, down) => Sound(c.route, c.cands, up2, down2)
  BY DEF Sound
<1> QED BY <1>1, <1>2, <1>3 DEF HealthCall

(* One look of skipBroken, with the models broken at that moment. *)
LEMMA LookedNext ==
    ASSUME NEW rt, NEW i \in Nat, NEW s \in Seq(Models), NEW up, NEW down, NEW B,
           ModelAt(rt, i) \in Models, Looked(rt, i, s, up, down)
    PROVE  /\ ModelAt(rt, i) \in B => Looked(rt, i + 1, s, up \ B, down \cap B)
           /\ ModelAt(rt, i) \notin B =>
                Looked(rt, i + 1, Append(s, ModelAt(rt, i)), up \ B, down \cap B)
<1>1. \A k \in 0 .. (i + 1) - 1 : k = i \/ k \in 0 .. i - 1
  OBVIOUS
<1>2. RangeOf(Append(s, ModelAt(rt, i))) = RangeOf(s) \cup {ModelAt(rt, i)}
  BY RangeOfAppend
<1>3. CASE ModelAt(rt, i) \in B
  BY <1>1, <1>3 DEF Looked
<1>4. CASE ModelAt(rt, i) \notin B
  BY <1>1, <1>2, <1>4 DEF Looked
<1> QED BY <1>3, <1>4

LEMMA PassedNext ==
    ASSUME NEW rt, NEW start \in Nat, NEW i \in Nat, NEW up, NEW B,
           ModelAt(rt, start + i) \in B, Passed(rt, start, i, up)
    PROVE  Passed(rt, start, i + 1, up \ B)
<1>1. \A k \in 0 .. (i + 1) - 1 : k = i \/ k \in 0 .. i - 1
  OBVIOUS
<1> QED BY <1>1 DEF Passed

(* A scan of the whole route is a sound decision. *)
LEMMA LookedAll ==
    ASSUME NEW rt, Resolvable(rt), NEW s, NEW up, NEW down,
           Looked(rt, Count(rt), s, up, down)
    PROVE  Sound(rt, IF s = <<>> THEN ModelsOf(rt) ELSE s, up, down)
<1>1. up \cap RangeOf(ModelsOf(rt)) \subseteq RangeOf(s)
  BY ModelPlaced DEF Looked
<1>2. CASE s = <<>>
  <2>1. up \cap RangeOf(ModelsOf(rt)) = {}
    BY <1>1, <1>2, RangeOfEmpty
  <2> QED BY <1>2, <2>1 DEF Sound
<1>3. CASE s # <<>>
  BY <1>1, <1>3 DEF Sound, Looked
<1> QED BY <1>2, <1>3

LEMMA PassedAll ==
    ASSUME NEW rt, Resolvable(rt), NEW start \in Nat, NEW up, Passed(rt, start, Count(rt), up)
    PROVE  up \cap RangeOf(ModelsOf(rt)) = {}
<1> SUFFICES ASSUME NEW m \in RangeOf(ModelsOf(rt)), m \in up PROVE FALSE
  OBVIOUS
<1>1. PICK k \in 0 .. Count(rt) - 1 : ModelAt(rt, start + k) = m
  BY ModelMet
<1> QED BY <1>1 DEF Passed

(* What Observe does to one request. *)
LEMMA Observed ==
    ASSUME Observe, NEW r \in Requests, call[r].pc # "idle", call'[r].pc # "idle"
    PROVE  /\ call[r].pc = "scan" => /\ steady'[r].up = steady[r].up \ BrokenModels'
                                     /\ steady'[r].down = steady[r].down \cap BrokenModels'
           /\ call[r].pc # "scan" => steady'[r] = steady[r]
  BY DEF Observe

(* A request that takes no step itself. *)
LEMMA HealthWaits ==
    ASSUME HealthInv, Observe, NEW r \in Requests, call'[r] = call[r]
    PROVE  HealthCall(call'[r], steady'[r].up, steady'[r].down)
<1>0. HealthCall(call[r], steady[r].up, steady[r].down)
  BY DEF HealthInv
<1>1. CASE call[r].pc = "idle"
  BY <1>1 DEF HealthCall
<1>2. CASE call[r].pc # "idle"
  <2>1. steady'[r].up \subseteq steady[r].up /\ steady'[r].down \subseteq steady[r].down
    BY <1>2, Observed
  <2>2. HealthCall(call[r], steady'[r].up, steady'[r].down)
    BY <1>0, <2>1, StillHealthy
  <2> QED BY <2>2
<1> QED BY <1>1, <1>2

(* A call that begins has looked at nothing; one that ends at once, in     *)
(* single mode or with an error, promises nothing.                         *)
LEMMA ResolveHealthy ==
    ASSUME TypeInv, NEW r \in Requests, NEW name \in RouteNames, Resolve(r, name), NEW up, NEW down
    PROVE  HealthCall(call'[r], up, down)
<1> DEFINE rt == Named(name)
<1>0. \A c : call' = [call EXCEPT ![r] = c] => call'[r] = c
  BY DEF TypeInv, RouterTypeOK
<1>1. CASE ResolveFails(r, name)
  <2>1. call'[r].pc = "error"
    BY <1>0, <1>1 DEF ResolveFails, NoCall
  <2> QED BY <2>1 DEF HealthCall
<1>2. CASE ResolveSingle(r, name)
  <2>1. call'[r] = Decision(rt, <<ModelAt(rt, 0)>>) /\ ModeOf(rt) = "single"
    BY <1>0, <1>2 DEF ResolveSingle
  <2>2. call'[r].pc = "resolved" /\ call'[r].route = rt
    BY <2>1 DEF Decision, NoCall
  <2> QED BY <2>1, <2>2 DEF HealthCall
<1>3. CASE ResolveFallback(r, name)
  <2>1. call'[r] = [NoCall EXCEPT !.pc = "scan", !.route = rt] /\ ModeOf(rt) = "fallback"
    BY <1>0, <1>3 DEF ResolveFallback
  <2> HIDE DEF rt
  <2>2. /\ call'[r].pc = "scan" /\ call'[r].route = rt
        /\ call'[r].cands = <<>> /\ call'[r].i = 0
    BY <2>1 DEF NoCall
  <2>3. Looked(rt, 0, <<>>, up, down)
    BY RangeOfEmpty DEF Looked
  <2> QED BY <2>1, <2>2, <2>3 DEF HealthCall
<1>4. CASE ResolveRound(r, name)
  <2> DEFINE start == StartOf(Advance(counters[rt]), Count(rt))
  <2>1. /\ call'[r] = [NoCall EXCEPT !.pc = "scan", !.route = rt, !.start = start]
        /\ ModeOf(rt) = "round" /\ Resolvable(rt)
    BY <1>0, <1>4 DEF ResolveRound
  <2>2. 0 < Count(rt)
    BY <2>1, RouteModels
  <2> HIDE DEF rt, start
  <2>3. call'[r].pc = "scan" /\ call'[r].route = rt /\ call'[r].i = 0 /\ call'[r].start = start
    BY <2>1 DEF NoCall
  <2>4. Passed(rt, start, 0, up)
    BY DEF Passed
  <2> QED BY <2>1, <2>2, <2>3, <2>4 DEF HealthCall
<1> QED BY <1>1, <1>2, <1>3, <1>4 DEF Resolve

(* skipBroken's step. *)
LEMMA ScanFallbackHealthy ==
    ASSUME TypeInv, NEW r \in Requests, ScanFallback(r), NEW x, NEW y, HealthCall(call[r], x, y)
    PROVE  /\ call[r].pc = "scan" /\ call'[r].pc # "idle"
           /\ HealthCall(call'[r], x \ BrokenModels, y \cap BrokenModels)
<1> DEFINE rt   == call[r].route
           i    == call[r].i
           s    == call[r].cands
           m    == ModelAt(rt, i)
           kept == Keep(r, m)
           out  == IF kept = <<>> THEN ModelsOf(rt) ELSE kept
           up   == x \ BrokenModels
           down == y \cap BrokenModels
<1>0. call[r] \in Calls /\ call[r].pc = "scan" /\ ModeOf(rt) = "fallback"
  BY ScanFallbackCases DEF TypeInv, RouterTypeOK
<1>1. /\ Resolvable(rt) /\ i \in Nat /\ s \in Seq(Models)
      /\ rt \in RouteNames \cup Routes \cup {ActiveRoute, ""}
  BY <1>0 DEF TypeInv, ScansResolvable, Calls
<1>2. \/ i + 1 = Count(rt) /\ call' = [call EXCEPT ![r] = Decision(rt, out)]
      \/ call' = [call EXCEPT ![r] = LookOn(r, kept)]
  <2>1. \/ i = Count(rt) - 1 /\ call' = [call EXCEPT ![r] = Decision(rt, out)]
        \/ call' = [call EXCEPT ![r] = LookOn(r, kept)]
    BY ScanFallbackCases
  <2>2. Count(rt) \in Nat
    BY <1>1, RouteModels
  <2>3. i = Count(rt) - 1 => i + 1 = Count(rt)
    <3> HIDE DEF i, rt
    <3> QED BY <2>2
  <2> QED BY <2>1, <2>3
<1>3. \A c : call' = [call EXCEPT ![r] = c] => call'[r] = c
  BY DEF TypeInv, RouterTypeOK
<1>4. m \in Models /\ kept \in Seq(Models)
  BY <1>1, ModelAtType, KeepType
<1>5. Looked(rt, i, s, x, y)
  BY <1>0 DEF HealthCall
<1>6. kept = IF m \in BrokenModels THEN s ELSE Append(s, m)
  BY <1>4 DEF Keep, BrokenModels
<1>7. call'[r] = Decision(rt, out) \/ call'[r] = LookOn(r, kept)
  BY <1>2, <1>3
<1>8. out \in Seq(Models)
  BY <1>1, <1>4, RouteModels
<1>9. call'[r].pc # "idle"
  <2>1. Decision(rt, out).pc = "resolved"
    BY <1>1, <1>8, DecisionType
  <2>2. LookOn(r, kept).pc = "scan"
    BY <1>0, <1>4, LookOnType
  <2> QED BY <1>7, <2>1, <2>2
<1>10. up = x \ BrokenModels /\ down = y \cap BrokenModels
  OBVIOUS
<1>11. Looked(rt, i + 1, kept, up, down)
  <2> HIDE DEF rt, i, s, up, down, kept
  <2> QED BY <1>1, <1>4, <1>5, <1>6, <1>10, LookedNext
<1>12. CASE call' = [call EXCEPT ![r] = LookOn(r, kept)]
  <2>1. call'[r] = LookOn(r, kept)
    BY <1>3, <1>12
  <2>2. /\ call'[r].pc = "scan" /\ call'[r].route = rt
        /\ call'[r].i = i + 1 /\ call'[r].cands = kept
    BY <1>0, <1>4, <2>1, LookOnType
  <2>3. HealthCall(call'[r], up, down)
    <3> HIDE DEF rt, i, up, down, kept
    <3> QED BY <1>0, <1>11, <2>2 DEF HealthCall
  <2> QED BY <1>0, <1>9, <2>3
<1>13. CASE i + 1 = Count(rt) /\ call' = [call EXCEPT ![r] = Decision(rt, out)]
  <2>1. /\ call'[r].pc = "resolved" /\ call'[r].route = rt /\ call'[r].cands = out
    <3>1. call'[r] = Decision(rt, out)
      BY <1>3, <1>13
    <3>2. /\ Decision(rt, out).pc = "resolved"
          /\ Decision(rt, out).route = rt
          /\ Decision(rt, out).cands = out
      BY <1>1, <1>8, DecisionType
    <3> HIDE DEF rt, out
    <3> QED BY <3>1, <3>2
  <2>2. Sound(rt, out, up, down)
    <3> HIDE DEF rt, i, up, down, kept
    <3> QED BY <1>1, <1>11, <1>13, LookedAll
  <2>3. HealthCall(call'[r], up, down)
    <3> HIDE DEF rt, up, down, out
    <3> QED BY <2>1, <2>2 DEF HealthCall
  <2> QED BY <1>0, <1>9, <2>3
<1> QED BY <1>0, <1>2, <1>9, <1>12, <1>13

(* The round-robin scan's step. *)
LEMMA ScanRoundHealthy ==
    ASSUME TypeInv, NEW r \in Requests, ScanRound(r), NEW x, NEW y, HealthCall(call[r], x, y)
    PROVE  /\ call[r].pc = "scan" /\ call'[r].pc # "idle"
           /\ HealthCall(call'[r], x \ BrokenModels, y \cap BrokenModels)
<1> DEFINE rt    == call[r].route
           i     == call[r].i
           start == call[r].start
           m     == ModelAt(rt, start + i)
           d     == ModelAt(rt, start)
           up    == x \ BrokenModels
           down  == y \cap BrokenModels
<1>0. /\ call[r] \in Calls /\ call[r].pc = "scan" /\ ModeOf(rt) = "round"
  BY ScanRoundCases DEF TypeInv, RouterTypeOK
<1>1. /\ Resolvable(rt) /\ call[r].cands \in Seq(Models)
      /\ rt \in RouteNames \cup Routes \cup {ActiveRoute, ""}
  BY <1>0 DEF TypeInv, ScansResolvable, Calls
<1>1a. i \in Nat /\ start \in Nat
  BY <1>0 DEF Calls
<1>2. call'[r] = IF ~IsBroken(m) THEN Decision(rt, <<m>>)
                 ELSE IF i = Count(rt) - 1 THEN Decision(rt, <<d>>)
                 ELSE LookOn(r, call[r].cands)
  BY DEF ScanRound, TypeInv, RouterTypeOK
<1>3. m \in Models /\ d \in Models
  <2> HIDE DEF rt, i, start
  <2>1. start + i \in Nat
    BY <1>1a
  <2> QED BY <1>1, <1>1a, <2>1, ModelAtType
<1>4. IsBroken(m) <=> m \in BrokenModels
  BY <1>3 DEF BrokenModels
<1>5. Passed(rt, start, i, x) /\ i < Count(rt)
  BY <1>0 DEF HealthCall
<1>6. \A z \in Models : /\ Decision(rt, <<z>>).pc = "resolved"
                        /\ Decision(rt, <<z>>).route = rt
                        /\ Decision(rt, <<z>>).cands = <<z>>
  <2> SUFFICES ASSUME NEW z \in Models
               PROVE  /\ Decision(rt, <<z>>).pc = "resolved"
                      /\ Decision(rt, <<z>>).route = rt
                      /\ Decision(rt, <<z>>).cands = <<z>>
    OBVIOUS
  <2>1. <<z>> \in Seq(Models)
    OBVIOUS
  <2> QED BY <1>1, <2>1, DecisionType
<1>7. /\ LookOn(r, call[r].cands).pc = "scan"
      /\ LookOn(r, call[r].cands).route = rt
      /\ LookOn(r, call[r].cands).i = i + 1
      /\ LookOn(r, call[r].cands).start = start
  BY <1>0, <1>1, LookOnType
<1> HIDE DEF m, d
<1>8. call'[r].pc # "idle"
  BY <1>2, <1>3, <1>6, <1>7
<1>9. up = x \ BrokenModels /\ down = y \cap BrokenModels
  OBVIOUS
<1>10. IsBroken(m) => Passed(rt, start, i + 1, up)
  <2> HIDE DEF rt, i, start, up
  <2> QED BY <1>1a, <1>4, <1>5, <1>9, PassedNext DEF m
<1>11. HealthCall(call'[r], up, down)
  <2> HIDE DEF rt, i, start, up, down
  <2>1. CASE ~IsBroken(m)
    <3>1. call'[r].pc = "resolved" /\ call'[r].route = rt /\ call'[r].cands = <<m>>
      BY <1>2, <1>3, <1>6, <2>1
    <3>2. RangeOf(<<m>>) \cap down = {}
      BY <1>4, <1>9, <2>1, RangeOfOne
    <3>3. Sound(rt, <<m>>, up, down)
      BY <1>0, <3>2 DEF Sound
    <3> QED BY <3>1, <3>3 DEF HealthCall
  <2>2. CASE IsBroken(m) /\ i = Count(rt) - 1
    <3>1. call'[r].pc = "resolved" /\ call'[r].route = rt /\ call'[r].cands = <<d>>
      BY <1>2, <1>3, <1>6, <2>2
    <3>2. Count(rt) \in Nat
      BY <1>1, RouteModels
    <3>3. i + 1 = Count(rt)
      BY <2>2, <3>2
    <3>4. up \cap RangeOf(ModelsOf(rt)) = {}
      BY <1>1, <1>1a, <1>10, <2>2, <3>3, PassedAll
    <3>5. Sound(rt, <<d>>, up, down)
      BY <3>4 DEF Sound
    <3> QED BY <3>1, <3>5 DEF HealthCall
  <2>3. CASE IsBroken(m) /\ i # Count(rt) - 1
    <3>1. /\ call'[r].pc = "scan" /\ call'[r].route = rt
          /\ call'[r].i = i + 1 /\ call'[r].start = start
      BY <1>2, <1>7, <2>3
    <3>2. Count(rt) \in Nat
      BY <1>1, RouteModels
    <3>3. i + 1 < Count(rt)
      BY <1>1a, <1>5, <2>3, <3>2
    <3> QED BY <1>0, <1>10, <2>3, <3>1, <3>3 DEF HealthCall
  <2> QED BY <2>1, <2>2, <2>3
<1> QED BY <1>0, <1>8, <1>11

(* A request that looks at a model itself. *)
LEMMA ScanHealthy ==
    ASSUME TypeInv, HealthInv, NEW r \in Requests, ScanFallback(r) \/ ScanRound(r), Observe,
           BrokenModels' = BrokenModels
    PROVE  HealthCall(call'[r], steady'[r].up, steady'[r].down)
<1>0. HealthCall(call[r], steady[r].up, steady[r].down)
  BY DEF HealthInv
<1>1. /\ call[r].pc = "scan" /\ call'[r].pc # "idle"
      /\ HealthCall(call'[r], steady[r].up \ BrokenModels, steady[r].down \cap BrokenModels)
  BY <1>0, ScanFallbackHealthy, ScanRoundHealthy
<1>2. /\ steady'[r].up = steady[r].up \ BrokenModels
      /\ steady'[r].down = steady[r].down \cap BrokenModels
  BY <1>1, Observed
<1> QED BY <1>1, <1>2

LEMMA HealthInit == ObservedInit => HealthInv
<1> SUFFICES ASSUME ObservedInit, NEW r \in Requests
             PROVE  HealthCall(call[r], steady[r].up, steady[r].down)
  BY DEF HealthInv
<1>1. call[r].pc = "idle"
  BY NoCallType DEF ObservedInit, RouterInit
<1> QED BY <1>1 DEF HealthCall

LEMMA HealthStep == TypeInv /\ HealthInv /\ [ObservedNext]_observedVars => HealthInv'
<1> SUFFICES ASSUME TypeInv, HealthInv, [ObservedNext]_observedVars PROVE HealthInv'
  OBVIOUS
<1>1. CASE UNCHANGED observedVars
  BY <1>1 DEF observedVars, RouterVars, routerVars, HealthInv
<1>2. CASE ObservedNext
  <2>0. Observe
    BY <1>2 DEF ObservedNext
  <2>1. ASSUME NEW q \in Requests, RouterStep(q) \/ Return(q), UNCHANGED breakerVars
        PROVE  HealthInv'
    <3>1. BrokenModels' = BrokenModels
      BY <2>1 DEF breakerVars, BrokenModels, IsBroken
    <3>2. ASSUME NEW r \in Requests PROVE HealthCall(call'[r], steady'[r].up, steady'[r].down)
      <4>1. CASE r # q
        <5>1. call'[r] = call[r]
          <6>1. \E c : call' = [call EXCEPT ![q] = c]
            BY <2>1 DEF RouterStep, Resolve, ResolveFails, ResolveSingle, ResolveFallback,
                        ResolveRound, ScanFallback, ScanRound, Return
          <6> QED BY <4>1, <6>1 DEF TypeInv, RouterTypeOK
        <5> QED BY <2>0, <5>1, HealthWaits
      <4>2. CASE r = q /\ \E name \in RouteNames : Resolve(q, name)
        BY <4>2, ResolveHealthy
      <4>3. CASE r = q /\ (ScanFallback(q) \/ ScanRound(q))
        BY <2>0, <3>1, <4>3, ScanHealthy
      <4>4. CASE r = q /\ Return(q)
        <5>1. call'[r] = NoCall
          BY <4>4 DEF Return, TypeInv, RouterTypeOK
        <5> QED BY <5>1, NoCallType DEF HealthCall
      <4> QED BY <2>1, <4>1, <4>2, <4>3, <4>4 DEF RouterStep
    <3> QED BY <3>2 DEF HealthInv
  <2>2. CASE UNCHANGED routerVars
    <3>1. ASSUME NEW r \in Requests PROVE HealthCall(call'[r], steady'[r].up, steady'[r].down)
      <4>1. call'[r] = call[r]
        BY <2>2 DEF routerVars
      <4> QED BY <2>0, <4>1, HealthWaits
    <3> QED BY <3>1 DEF HealthInv
  <2> QED BY <1>2, <2>1, <2>2 DEF ObservedNext, RouterNext
<1> QED BY <1>1, <1>2

(* Results are recorded and deadlines fall between the looks of a call,    *)
(* so none of its looks need agree.  Still no call ends with a model       *)
(* broken all along while one of its models was usable all along, and the  *)
(* fallback order leaves out no model usable all along.                    *)
THEOREM DecisionAlwaysRespectsHealth == ObservedSpec => []DecisionRespectsHealth
<1>1. ObservedInit => RouterInit
  BY DEF ObservedInit
<1>2. [ObservedNext]_observedVars => [RouterNext]_RouterVars
  BY DEF ObservedNext, observedVars
<1>3. HealthInv => DecisionRespectsHealth
  BY DEF HealthInv, HealthCall, Sound, DecisionRespectsHealth
<1> QED BY <1>1, <1>2, <1>3, TypeInit, TypeStep, HealthInit, HealthStep, PTL
    DEF ObservedSpec

=============================================================================
