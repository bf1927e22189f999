------------------------------ MODULE Breaker ------------------------------
(***************************************************************************)
(* The circuit breaker of internal/health/breaker.go: one rolling window   *)
(* of attempt outcomes per model, and a deadline before which the model is *)
(* reported as broken.                                                     *)
(*                                                                         *)
(* Time.  brokenUntil is represented by brokenFor, the number of clock     *)
(* ticks left before it: positive while now is before the deadline, 0 at   *)
(* the deadline, Past when the deadline is over or was never set (the zero *)
(* time.Time).  Tick is the clock; no bound on time is needed.             *)
(* Latencies are left out: nothing but the reported p50 depends on them.   *)
(***************************************************************************)
EXTENDS Integers, Sequences, FiniteSets

CONSTANTS
    Models,        \* the upstream models a route can name
    CfgWindow,     \* health.window of the configuration, in attempts
    CfgMinReq,     \* health.min_requests
    CfgErrNum,     \* health.error_threshold = CfgErrNum / CfgErrDen
    CfgErrDen,
    CfgCool        \* health.cooldown_ms, in ticks

ASSUME BreakerAssumption ==
    /\ CfgWindow \in Int /\ CfgMinReq \in Int /\ CfgCool \in Int
    /\ CfgErrNum \in Int /\ CfgErrDen \in Nat \ {0}

(* New replaces a setting that is zero or negative by its default. *)
Window == IF CfgWindow <= 0 THEN 20 ELSE CfgWindow
MinReq == IF CfgMinReq <= 0 THEN 5 ELSE CfgMinReq
Cool   == IF CfgCool <= 0 THEN 60000 ELSE CfgCool
ErrNum == IF CfgErrNum <= 0 THEN 1 ELSE CfgErrNum
ErrDen == IF CfgErrNum <= 0 THEN 2 ELSE CfgErrDen

VARIABLES
    results,       \* results[m]: the window, oldest outcome first, TRUE = success
    brokenFor,     \* brokenFor[m]: ticks left before brokenUntil
    reason         \* reason[m]: whether the break's reason string is set

breakerVars == <<results, brokenFor, reason>>

Past == -1

BreakerInit ==
    /\ results = [m \in Models |-> <<>>]
    /\ brokenFor = [m \in Models |-> Past]
    /\ reason = [m \in Models |-> FALSE]

-----------------------------------------------------------------------------
(* The parts of Record.  The definitions named Bug... are seeded faults,    *)
(* slips the code could have made, kept to show that the properties        *)
(* below can fail.                                                         *)

BugTrimOffByOne(rs) == IF Len(rs) > Window + 1 THEN Tail(rs) ELSE rs
BugTrimNewest(rs)   == IF Len(rs) > Window THEN SubSeq(rs, 1, Window) ELSE rs

Trim(rs) == IF Len(rs) > Window
              THEN SubSeq(rs, Len(rs) - Window + 1, Len(rs))
              ELSE rs

Fails(rs) == Cardinality({i \in DOMAIN rs : ~rs[i]})

(* float64(fails)/float64(len) >= errRate, without the division. *)
AtThreshold(rs) == Fails(rs) * ErrDen >= ErrNum * Len(rs)

BugTripsOnce(rs) == Len(rs) = MinReq /\ AtThreshold(rs)

Trips(rs) == Len(rs) >= MinReq /\ AtThreshold(rs)

BugDeadlineReset(m, rs) == IF Trips(rs) THEN Cool ELSE Past

(* brokenUntil once the window is rs: a whole cooldown from now if it trips. *)
Deadline(m, rs) == IF Trips(rs) THEN Cool ELSE brokenFor[m]

BugClearsEarly(success, until) == success

(* now.After(brokenUntil): the deadline is the one this call may just have set. *)
Clears(success, until) == success /\ until = Past

BugReasonOfLast(m, success, rs) == ~success

(* The reason is set by a trip, erased when the break clears, else kept. *)
ReasonAfter(m, success, rs) ==
    ~Clears(success, Deadline(m, rs)) /\ (Trips(rs) \/ reason[m])

(***************************************************************************)
(* Record appends the outcome, trims the window, opens the breaker when    *)
(* the window is at the threshold and, on a success past the deadline,     *)
(* forgets the break.  One step: the whole body runs under t.mu.           *)
(***************************************************************************)
Record(m, success) ==
    LET rs    == Trim(Append(results[m], success))
        until == Deadline(m, rs)
    IN  /\ results' = [results EXCEPT ![m] = rs]
        /\ brokenFor' = [brokenFor EXCEPT ![m] = IF Clears(success, until) THEN Past ELSE until]
        /\ reason' = [reason EXCEPT ![m] = ReasonAfter(m, success, rs)]

IsBroken(m) == brokenFor[m] > 0

(* The "healthy" field of a Snapshot. *)
Healthy(m) == ~IsBroken(m) /\ (results[m] = <<>> \/ ~AtThreshold(results[m]))

(* One tick of the wall clock, seen by every model's deadline. *)
Tick ==
    /\ \E m \in Models : brokenFor[m] # Past
    /\ brokenFor' = [m \in Models |->
                       IF brokenFor[m] = Past THEN Past ELSE brokenFor[m] - 1]
    /\ UNCHANGED <<results, reason>>

BreakerNext ==
    \/ \E m \in Models, success \in BOOLEAN : Record(m, success)
    \/ Tick

BreakerSpec == BreakerInit /\ [][BreakerNext]_breakerVars

-----------------------------------------------------------------------------
(* Properties *)

(* The window never outgrows its size and the deadline is at most one      *)
(* cooldown away.                                                          *)
BreakerTypeOK ==
    /\ results \in [Models -> Seq(BOOLEAN)]
    /\ \A m \in Models : Len(results[m]) <= Window
    /\ brokenFor \in [Models -> Past .. Cool]
    /\ reason \in [Models -> BOOLEAN]

(* Record, Snapshots: a model is never reported broken without the reason  *)
(* that eco status and eco doctor print next to it, not even at the tick   *)
(* where its deadline falls.                                               *)
BrokenHasReason == \A m \in Models : brokenFor[m] # Past => reason[m]

(* Record: as long as the window stands at the threshold the break is      *)
(* remembered: no success, early or late, erases it before the window      *)
(* itself has recovered.                                                   *)
ThresholdIsRemembered == \A m \in Models : Trips(results[m]) => reason[m]

(* Snapshots against Record: eco status and eco doctor never list a model  *)
(* as unhealthy without a reason to show next to it, except while its      *)
(* window holds fewer attempts than it takes to break it.                  *)
UnhealthyIsExplained ==
    \A m \in Models : Healthy(m) \/ reason[m] \/ Len(results[m]) < MinReq

(* Record against the clock: a break lasts its whole cooldown.  An answer  *)
(* that was in flight when the model was broken may extend the deadline,   *)
(* it never brings it nearer: only the clock does, one tick at a time.     *)
CooldownServed ==
    [][\A m \in Models : brokenFor'[m] >= brokenFor[m] \/ (Tick /\ brokenFor'[m] = brokenFor[m] - 1)]_breakerVars

(* The comment at breaker.go:92, "half-open success clears break": a       *)
(* success recorded after the cooldown of a broken model closes it.        *)
HalfOpenSuccessClears ==
    [][\A m \in Models :
         reason[m] /\ brokenFor[m] = Past /\ Record(m, TRUE) => ~reason'[m]]_breakerVars
=============================================================================
