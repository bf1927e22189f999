------------------------------- MODULE Router -------------------------------
(***************************************************************************)
(* The route engine of internal/router/router.go, called by several        *)
(* requests at once.  Resolve takes e.mu only to advance the round-robin   *)
(* counter and the tracker's lock once per model it looks at, so attempts  *)
(* of other requests are recorded, and time passes, between two looks of   *)
(* one call: a call is a sequence of steps here, one per lock region.      *)
(***************************************************************************)
EXTENDS Breaker

CONSTANTS
    Requests,      \* the goroutines that may call Resolve at the same time
    RouteCfg,      \* cfg.Routes: name -> [mode, models, via, noVia, viaReq]
    ActiveRoute,   \* cfg.Defaults.ActiveRoute, "" when none is set
    SaverDefault,  \* cfg.Defaults.SaverDefault, "" when none is set
    RouteNames,    \* the names callers ask for: "", known and unknown ones
    CounterMod     \* 2^64: the counters are uint64

Routes == DOMAIN RouteCfg

ASSUME RouterAssumption ==
    /\ CounterMod \in Nat \ {0}
    /\ \A rt \in Routes : RouteCfg[rt].models \in Seq(Models)

VARIABLES
    counters,      \* counters[rt]: calls of round route rt so far, modulo CounterMod
    call           \* call[r]: the call of Resolve that request r is in

routerVars == <<counters, call>>

(* Fields of a call: route and try-order so far, the position the scan has *)
(* reached and, in round mode, the position it started from (both from 0). *)
NoCall == [pc |-> "idle", route |-> "", cands |-> <<>>, i |-> 0, start |-> 0]

(* What a call that has succeeded leaves behind. *)
Decision(rt, models) == [NoCall EXCEPT !.pc = "resolved", !.route = rt, !.cands = models]

RouterInit ==
    /\ counters = [rt \in Routes |-> 0]
    /\ call = [r \in Requests |-> NoCall]

-----------------------------------------------------------------------------
(* strings.ToLower on the mode; a hand-edited "Fallback" is the one        *)
(* spelling with capitals the model gives the configuration.               *)
LowerMode(mode) == IF mode = "Fallback" THEN "fallback" ELSE mode

RangeOf(s) == {s[i] : i \in DOMAIN s}

ModeOf(rt)   == LowerMode(RouteCfg[rt].mode)
ModelsOf(rt) == RouteCfg[rt].models
Count(rt)    == Len(ModelsOf(rt))

(* The saver of a decision: the route's own, else the default one, unless  *)
(* the route opts out.                                                     *)
ViaOf(rt) == IF RouteCfg[rt].noVia THEN ""
             ELSE IF RouteCfg[rt].via # "" THEN RouteCfg[rt].via
             ELSE SaverDefault

(* The route a call is about: an empty name means the active route. *)
Named(name) == IF name = "" THEN ActiveRoute ELSE name

Resolvable(rt) ==
    /\ rt \in Routes
    /\ Count(rt) > 0
    /\ ModeOf(rt) \in {"single", "fallback", "round"}

BugStartZero(n, len) == 0

BugNoWrap(n) == n + 1

(* e.counters[routeName]++ on a uint64. *)
Advance(n) == (n + 1) % CounterMod

(* int((n-1) % uint64(len)), with n - 1 computed on 64 bits. *)
StartOf(n, len) == ((n - 1) % CounterMod) % len

ModelAt(rt, k) == ModelsOf(rt)[(k % Count(rt)) + 1]

-----------------------------------------------------------------------------
(* No active route, unknown route, route without models or unknown mode. *)
ResolveFails(r, name) ==
    /\ call[r].pc = "idle"
    /\ ~Resolvable(Named(name))
    /\ call' = [call EXCEPT ![r] = [NoCall EXCEPT !.pc = "error", !.route = Named(name)]]
    /\ UNCHANGED counters

(* Single mode takes the first model; a broken one only changes the text. *)
ResolveSingle(r, name) ==
    LET rt == Named(name) IN
    /\ call[r].pc = "idle"
    /\ Resolvable(rt) /\ ModeOf(rt) = "single"
    /\ call' = [call EXCEPT ![r] = Decision(rt, <<ModelAt(rt, 0)>>)]
    /\ UNCHANGED counters

ResolveFallback(r, name) ==
    LET rt == Named(name) IN
    /\ call[r].pc = "idle"
    /\ Resolvable(rt) /\ ModeOf(rt) = "fallback"
    /\ call' = [call EXCEPT ![r] = [NoCall EXCEPT !.pc = "scan", !.route = rt]]
    /\ UNCHANGED counters

(* Round mode first takes a ticket from the route's counter, under e.mu. *)
ResolveRound(r, name) ==
    LET rt == Named(name)
        n  == Advance(counters[rt])
    IN  /\ call[r].pc = "idle"
        /\ Resolvable(rt) /\ ModeOf(rt) = "round"
        /\ counters' = [counters EXCEPT ![rt] = n]
        /\ call' = [call EXCEPT ![r] = [NoCall EXCEPT
                      !.pc = "scan", !.route = rt, !.start = StartOf(n, Count(rt))]]

Resolve(r, name) ==
    \/ ResolveFails(r, name)
    \/ ResolveSingle(r, name)
    \/ ResolveFallback(r, name)
    \/ ResolveRound(r, name)

BugPrepend(r, m) == IF IsBroken(m) THEN call[r].cands ELSE <<m>> \o call[r].cands
BugKeepsBroken(r, m) == Append(call[r].cands, m)

(* skipBroken's append of a model that is not broken. *)
Keep(r, m) == IF IsBroken(m) THEN call[r].cands ELSE Append(call[r].cands, m)

(* The call goes on to the next place of the route. *)
LookOn(r, kept) == [call[r] EXCEPT !.i = call[r].i + 1, !.cands = kept]

(* skipBroken looks at one model; after the last one an empty list is      *)
(* replaced by the whole route, to try every broken model in order.        *)
ScanFallback(r) ==
    LET rt   == call[r].route
        kept == Keep(r, ModelAt(rt, call[r].i))
        last == call[r].i = Count(rt) - 1
    IN  /\ call[r].pc = "scan" /\ ModeOf(rt) = "fallback"
        /\ call' = [call EXCEPT ![r] =
             IF last THEN Decision(rt, IF kept = <<>> THEN ModelsOf(rt) ELSE kept)
             ELSE LookOn(r, kept)]
        /\ UNCHANGED counters

(* Round mode looks at the models from start on, and wraps, until one is   *)
(* not broken; if every look finds a broken one, start is picked anyway.   *)
ScanRound(r) ==
    LET rt   == call[r].route
        m    == ModelAt(rt, call[r].start + call[r].i)
        last == call[r].i = Count(rt) - 1
    IN  /\ call[r].pc = "scan" /\ ModeOf(rt) = "round"
        /\ call' = [call EXCEPT ![r] =
             IF ~IsBroken(m) THEN Decision(rt, <<m>>)
             ELSE IF last THEN Decision(rt, <<ModelAt(rt, call[r].start)>>)
             ELSE LookOn(r, call[r].cands)]
        /\ UNCHANGED counters

(* The caller takes the decision, or the error. *)
Return(r) ==
    /\ call[r].pc \in {"resolved", "error"}
    /\ call' = [call EXCEPT ![r] = NoCall]
    /\ UNCHANGED counters

-----------------------------------------------------------------------------
(* PeekRound: the pick a call made now would get, without its ticket. *)
FirstUnbroken(rt, start) ==
    LET healthy == {k \in 0 .. Count(rt) - 1 : ~IsBroken(ModelAt(rt, start + k))}
    IN  IF healthy = {} THEN ModelAt(rt, start)
        ELSE ModelAt(rt, start + (CHOOSE k \in healthy : \A j \in healthy : k <= j))

BugPeekOffset(rt) == (counters[rt] + 1) % Count(rt)

PeekStart(rt) == counters[rt] % Count(rt)

PeekRound(rt) == FirstUnbroken(rt, PeekStart(rt))

-----------------------------------------------------------------------------
(* The rest of the daemon, seen from the engine: attempts are recorded and *)
(* time passes at any moment.                                              *)
RouterStep(r) == (\E name \in RouteNames : Resolve(r, name)) \/ ScanFallback(r) \/ ScanRound(r)

RouterNext ==
    \/ \E r \in Requests : (RouterStep(r) \/ Return(r)) /\ UNCHANGED breakerVars
    \/ BreakerNext /\ UNCHANGED routerVars

RouterVars == <<breakerVars, routerVars>>

RouterSpec == RouterInit /\ BreakerInit /\ [][RouterNext]_RouterVars

(* A goroutine inside Resolve goes on, its caller uses the result, and     *)
(* clients keep asking for every round-robin route: strongly fair, since   *)
(* the moments in which a request slot is free may be short.               *)
RoundRoutes == {rt \in Routes : Resolvable(rt) /\ ModeOf(rt) = "round"}

Asked(rt) == \E r \in Requests :
    ResolveRound(r, rt) /\ UNCHANGED breakerVars

RouterFairness ==
    /\ \A r \in Requests : WF_RouterVars((ScanFallback(r) \/ ScanRound(r) \/ Return(r)) /\ UNCHANGED breakerVars)
    /\ \A rt \in RoundRoutes : SF_RouterVars(Asked(rt))

RouterFairSpec == RouterSpec /\ RouterFairness

-----------------------------------------------------------------------------
(* Properties *)

Calls == [pc : {"idle", "scan", "resolved", "error"},
          route : RouteNames \cup Routes \cup {ActiveRoute, ""},
          cands : Seq(Models), i : Nat, start : Nat]

RouterTypeOK ==
    /\ counters \in [Routes -> 0 .. CounterMod - 1]
    /\ call \in [Requests -> Calls]

(* f embeds the sequence s in t, in order. *)
Subsequence(s, t) ==
    \E f \in [DOMAIN s -> DOMAIN t] :
        /\ \A i, j \in DOMAIN s : i < j => f[i] < f[j]
        /\ \A i \in DOMAIN s : s[i] = t[f[i]]

(* Resolve in fallback mode: whatever is recorded while the call looks at  *)
(* the models one by one, the try-order it returns is never empty and      *)
(* keeps the order the operator configured, repeated models included.      *)
TryOrderIsConfigured ==
    \A r \in Requests : call[r].pc = "resolved" =>
        /\ call[r].cands # <<>>
        /\ Subsequence(call[r].cands, ModelsOf(call[r].route))

(* PeekRound and Resolve compute the next pick from the counter in two     *)
(* different ways, one of them through a subtraction on uint64: they agree *)
(* in every state, also where the counter wraps around.                    *)
PeekPredictsPick ==
    \A rt \in Routes : Resolvable(rt) /\ ModeOf(rt) = "round" =>
        PeekRound(rt) = FirstUnbroken(rt, StartOf(Advance(counters[rt]), Count(rt)))

(* Round mode: a model of the route that is not broken any more keeps      *)
(* being picked, even though several callers share the counter, the others *)
(* skip over it and the counter wraps around.                              *)
NoStarvation ==
    \A rt \in RoundRoutes : \A m \in RangeOf(ModelsOf(rt)) :
        <>[]~IsBroken(m) =>
            []<>(\E r \in Requests : /\ call[r].pc = "resolved"
                                     /\ call[r].route = rt
                                     /\ call[r].cands = <<m>>)
=============================================================================
