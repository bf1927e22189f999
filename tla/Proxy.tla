------------------------------- MODULE Proxy -------------------------------
(***************************************************************************)
(* handleProxy and tryUpstream of internal/server/proxy.go: what happens   *)
(* to an admitted request, from the choice of its route to its answer.     *)
(* Several requests run at once and share the route engine and the health  *)
(* tracker; upstreams, savers and clients are the environment.             *)
(*                                                                         *)
(* The decision of a request is its record in Router's variable call,      *)
(* which handleProxy keeps and whose models it filters.  Statuses are the  *)
(* classes the code tells apart, bodies and headers are left out.          *)
(***************************************************************************)
EXTENDS Router, SequencesExt

CONSTANTS
    Scopes,        \* the ScopeModels of tokens, as sets of models; {} = any
    TokenRoutes,   \* the ScopeRoute of tokens; "" = any
    Headers,       \* the values of X-Eco-Route; "" = absent
    Savers,        \* cfg.Savers with a URL
    Unresolved,    \* models for which no provider can be determined
    Alive,         \* models whose upstream answers every request with success
    Departures     \* whether clients may hang up before their answer

ASSUME ProxyAssumption ==
    /\ Unresolved \subseteq Models /\ Alive \subseteq Models
    /\ Unresolved \cap Alive = {} /\ Departures \in BOOLEAN
    /\ Headers \cup TokenRoutes \cup {ActiveRoute} \subseteq RouteNames

(* Outcomes of an attempt.  ok: below 400.  client: 4xx but 429.  retry:   *)
(* 429 or 5xx.  saver_err: the saver hop cannot be reached.  err: any      *)
(* other failure to get a whole reply (no provider, connection, timeout,   *)
(* cancelled).                                                             *)
Replies(m) == IF m \in Alive THEN {"ok"} ELSE {"ok", "client", "retry"}

VARIABLES
    req,           \* req[r]: the progress of the request in slot r
    saverUp        \* saverUp[s]: saver s answers a probe

proxyVars == <<req, saverUp>>
vars == <<breakerVars, routerVars, req, saverUp>>

(* tried: outcomes of the attempts already judged.  writes, logs: calls of *)
(* WriteHeader and of InsertActivity.  answer: what the client got, as a   *)
(* stream if streamed.                                                     *)
(* gone: the client left, so the request's context is cancelled.           *)
NoReq == [pc |-> "idle", tokRoute |-> "", scope |-> {}, stream |-> FALSE,
          hop |-> "", last |-> "", tried |-> <<>>,
          answer |-> "", streamed |-> FALSE, writes |-> 0, logs |-> 0, gone |-> FALSE]

Init ==
    /\ RouterInit /\ BreakerInit
    /\ req = [r \in Requests |-> NoReq]
    /\ saverUp \in [Savers -> BOOLEAN]

-----------------------------------------------------------------------------
(* Pure parts. *)

(* The token's route wins over the active one, and the header over both    *)
(* unless the token is bound to another route.                             *)
ChosenRoute(tokRoute, header) ==
    IF header # "" /\ (tokRoute = "" \/ tokRoute = header) THEN header
    ELSE IF tokRoute # "" THEN tokRoute
    ELSE ActiveRoute

BugUnscoped(models, scope) == models

(* The models of the scope, in their order. *)
Filtered(models, scope) ==
    LET kept[n \in 0 .. Len(models)] ==
            IF n = 0 THEN <<>>
            ELSE IF models[n] \in scope THEN Append(kept[n - 1], models[n]) ELSE kept[n - 1]
    IN  kept[Len(models)]

InScope(models, scope) == IF scope = {} THEN models ELSE Filtered(models, scope)

BugRetriesClientErrors(outcome) == outcome # "ok"

shouldFallback(outcome) == outcome \in {"retry", "err", "saver_err"}

(* The model of the attempt in progress. *)
Current(r) == call[r].cands[Len(req[r].tried) + 1]

(* SSE content type, or the client asked for a stream. *)
Streams(r, sse) == sse \/ req[r].stream

(* tryUpstream's choice of a hop, from one probe of the saver. *)
Hop(rt) ==
    LET via == ViaOf(rt)
        reachable == via \in Savers /\ saverUp[via]
    IN  IF via = "" THEN "direct"
        ELSE IF reachable THEN "saver"
        ELSE IF RouteCfg[rt].viaReq THEN "none" ELSE "direct"

BugNeverLogs(q, logged) == q.logs

(* logActivity runs on every exit that follows an attempt or a failed      *)
(* Resolve; the refusals between the two leave no trace.                   *)
Logged(q, logged) == IF logged THEN q.logs + 1 ELSE q.logs

(* The answer is written and the handler returns. *)
Answer(q, what, logged) ==
    [q EXCEPT !.pc = "done", !.answer = what, !.writes = @ + 1, !.logs = Logged(q, logged)]

-----------------------------------------------------------------------------
(* The handler of request r. *)

(* The route is chosen and Resolve begins. *)
Accept(r, tokRoute, header, scope, stream) ==
    /\ req[r].pc = "idle"
    /\ req' = [req EXCEPT ![r] = [NoReq EXCEPT
                 !.pc = "routing", !.tokRoute = tokRoute, !.scope = scope, !.stream = stream]]
    /\ Resolve(r, ChosenRoute(tokRoute, header))
    /\ UNCHANGED <<breakerVars, saverUp>>

Look(r) ==
    /\ ScanFallback(r) \/ ScanRound(r)
    /\ UNCHANGED <<breakerVars, req, saverUp>>

(* Resolve returned an error: 502, with an activity row. *)
NotRouted(r) ==
    /\ req[r].pc = "routing" /\ call[r].pc = "error"
    /\ req' = [req EXCEPT ![r] = Answer(@, "route_error", TRUE)]
    /\ UNCHANGED <<breakerVars, routerVars, saverUp>>

(* The decision is filtered by the token's models, then the body is read:  *)
(* either may end the request, without an activity row.                    *)
Prepare(r, bodyRead) ==
    LET models == InScope(call[r].cands, req[r].scope) IN
    /\ req[r].pc = "routing" /\ call[r].pc = "resolved"
    /\ IF models = <<>>
         THEN /\ req' = [req EXCEPT ![r] = Answer(@, "scope_error", FALSE)]
              /\ UNCHANGED call
         ELSE /\ call' = [call EXCEPT ![r].cands = models]
              /\ req' = [req EXCEPT ![r] = IF bodyRead THEN [@ EXCEPT !.pc = "try"]
                                           ELSE Answer(@, "bad_body", FALSE)]
    /\ UNCHANGED <<breakerVars, counters, saverUp>>

BugSilentReturn(r) ==
    LET hop == Hop(call[r].route) IN
    /\ req[r].pc = "try"
    /\ req' = [req EXCEPT ![r].pc = IF hop = "none" THEN "judge" ELSE "sent",
                          ![r].hop = hop, ![r].last = ""]
    /\ UNCHANGED <<breakerVars, routerVars, saverUp>>

(* tryUpstream up to client.Do: no provider, or no way through a required  *)
(* saver, ends the attempt before anything is sent.                        *)
Try(r) ==
    LET hop  == Hop(call[r].route)
        fail == IF Current(r) \in Unresolved THEN "err"
                ELSE IF hop = "none" THEN "saver_err" ELSE ""
    IN  /\ req[r].pc = "try"
        /\ req' = [req EXCEPT ![r].pc = IF fail = "" THEN "sent" ELSE "judge",
                              ![r].hop = hop, ![r].last = fail]
        /\ UNCHANGED <<breakerVars, routerVars, saverUp>>

(* The saver that answered the probe is gone when the request is sent. *)
SaverLost(r) == req[r].hop = "saver" /\ ~saverUp[ViaOf(call[r].route)]

(* client.Do, or the read of a buffered body, fails: the client left, the  *)
(* timeout struck, a connection broke.  Nothing is recorded here.          *)
UpstreamError(r) ==
    /\ req[r].pc = "sent"
    /\ Current(r) \in Alive => req[r].gone \/ SaverLost(r)
    /\ req' = [req EXCEPT ![r].pc = "judge",
                          ![r].last = IF SaverLost(r) THEN "saver_err" ELSE "err"]
    /\ UNCHANGED <<breakerVars, routerVars, saverUp>>

(* A streamed reply is committed to the client as soon as its headers are  *)
(* in, whatever its status.                                                *)
StreamBegin(r, reply, sse) ==
    /\ req[r].pc = "sent" /\ ~req[r].gone /\ ~SaverLost(r) /\ Streams(r, sse)
    /\ reply \in Replies(Current(r))
    /\ req' = [req EXCEPT ![r].pc = "streaming", ![r].last = reply,
                          ![r].answer = reply, ![r].streamed = TRUE, ![r].writes = @ + 1]
    /\ UNCHANGED <<breakerVars, routerVars, saverUp>>

BugStreamFallsBack(r) ==
    /\ req[r].pc = "streaming"
    /\ Record(Current(r), req[r].last # "retry")
    /\ req' = [req EXCEPT ![r].pc = "judge"]
    /\ UNCHANGED <<routerVars, saverUp>>

(* The stream ends, complete or cut by either side or by the timeout.      *)
StreamEnd(r) ==
    /\ req[r].pc = "streaming"
    /\ Record(Current(r), req[r].last # "retry")
    /\ req' = [req EXCEPT ![r].pc = "done", ![r].tried = Append(@, req[r].last),
                          ![r].logs = @ + 1]
    /\ UNCHANGED <<routerVars, saverUp>>

(* A buffered reply is read to its end and its outcome recorded. *)
BufferedReply(r, reply, sse) ==
    /\ req[r].pc = "sent" /\ ~req[r].gone /\ ~SaverLost(r) /\ ~Streams(r, sse)
    /\ reply \in Replies(Current(r))
    /\ Record(Current(r), reply # "retry")
    /\ req' = [req EXCEPT ![r].pc = "judge", ![r].last = reply]
    /\ UNCHANGED <<routerVars, saverUp>>

(* handleProxy gives the answer of a success or of a client error.         *)
Deliver(r) ==
    LET q == [req[r] EXCEPT !.tried = Append(@, req[r].last)] IN
    /\ req[r].pc = "judge" /\ ~shouldFallback(req[r].last)
    /\ req' = [req EXCEPT ![r] = Answer(q, req[r].last, TRUE)]
    /\ UNCHANGED <<breakerVars, routerVars, saverUp>>

BugStopsEarly(r) == Len(req[r].tried) + 2 < Len(call[r].cands)

(* decision.Mode is compared as it is spelled in the configuration. *)
MoreToTry(r) ==
    /\ RouteCfg[call[r].route].mode = "fallback"
    /\ Len(req[r].tried) + 1 < Len(call[r].cands)

(* A failed attempt is recorded, here too, and the next model is tried in  *)
(* fallback mode; otherwise the failure is the client's answer.            *)
Judge(r) ==
    LET q == [req[r] EXCEPT !.tried = Append(@, req[r].last)] IN
    /\ req[r].pc = "judge" /\ shouldFallback(req[r].last)
    /\ Record(Current(r), FALSE)
    /\ req' = [req EXCEPT ![r] = IF MoreToTry(r) THEN [q EXCEPT !.pc = "try"]
                                 ELSE Answer(q, req[r].last, TRUE)]
    /\ UNCHANGED <<routerVars, saverUp>>

(* The handler has returned; the slot serves another request. *)
Reuse(r) ==
    /\ req[r].pc = "done"
    /\ req' = [req EXCEPT ![r] = NoReq]
    /\ call' = [call EXCEPT ![r] = NoCall]
    /\ UNCHANGED <<breakerVars, counters, saverUp>>

-----------------------------------------------------------------------------
(* The environment. *)

ClientLeaves(r) ==
    /\ Departures
    /\ req[r].pc \in {"try", "sent", "streaming", "judge"} /\ ~req[r].gone
    /\ req' = [req EXCEPT ![r].gone = TRUE]
    /\ UNCHANGED <<breakerVars, routerVars, saverUp>>

SaverFlips(s) ==
    /\ saverUp' = [saverUp EXCEPT ![s] = ~@]
    /\ UNCHANGED <<breakerVars, routerVars, req>>

Clock == Tick /\ UNCHANGED <<routerVars, proxyVars>>

-----------------------------------------------------------------------------
Arrive(r) ==
    \E tokRoute \in TokenRoutes, header \in Headers, scope \in Scopes, stream \in BOOLEAN :
        Accept(r, tokRoute, header, scope, stream)

Reply(r) ==
    \E reply \in {"ok", "client", "retry"}, sse \in BOOLEAN :
        StreamBegin(r, reply, sse) \/ BufferedReply(r, reply, sse)

Handler(r) ==
    \/ Look(r)
    \/ NotRouted(r)
    \/ \E bodyRead \in BOOLEAN : Prepare(r, bodyRead)
    \/ Try(r)
    \/ UpstreamError(r)
    \/ Reply(r)
    \/ StreamEnd(r)
    \/ Deliver(r)
    \/ Judge(r)

Next ==
    \/ \E r \in Requests : Arrive(r) \/ Handler(r) \/ Reuse(r) \/ ClientLeaves(r)
    \/ \E s \in Savers : SaverFlips(s)
    \/ Clock

Spec == Init /\ [][Next]_vars

(* A handler's goroutine goes on: its local steps run, the context's       *)
(* timeout bounds client.Do, the read of a body and a stream, and the      *)
(* server reuses the slot.  Nothing is assumed of clients, upstreams,      *)
(* savers or the clock.                                                    *)
Fairness == \A r \in Requests : WF_vars(Handler(r)) /\ WF_vars(Reuse(r))

FairSpec == Spec /\ Fairness

-----------------------------------------------------------------------------
(* Properties *)

Outcomes == {"ok", "client", "retry", "err", "saver_err"}

Reqs ==
    [pc : {"idle", "routing", "try", "sent", "streaming", "judge", "done"},
     tokRoute : TokenRoutes \cup {""}, scope : Scopes \cup {{}}, stream : BOOLEAN,
     hop : {"", "direct", "saver", "none"}, last : Outcomes \cup {""},
     tried : Seq(Outcomes),
     answer : Outcomes \cup {"", "route_error", "scope_error", "bad_body"},
     streamed : BOOLEAN, writes : Nat, logs : Nat, gone : BOOLEAN]

(* tryUpstream: an attempt always ends with an outcome, also where it      *)
(* returns before anything is sent.                                        *)
ProxyTypeOK == req \in [Requests -> Reqs] /\ saverUp \in [Savers -> BOOLEAN]

Phase(r) ==
    LET q == req[r] IN
    CASE q.pc = "idle"                     -> "free"
      [] q.pc = "done" /\ q.writes = 1     -> "closed"
      [] q.pc = "streaming"                -> "committed"
      [] q.pc \notin {"idle", "done", "streaming"} /\ q.writes = 0 -> "open"
      [] OTHER                             -> "corrupt"

RL == INSTANCE RequestLifecycle WITH phase <- [r \in Requests |-> Phase(r)]

(* handleProxy and tryUpstream write to the client from two places and     *)
(* loop between them: still every request is answered, exactly once, and   *)
(* no model is tried, nor a second answer begun, once a stream has been    *)
(* committed - whatever upstreams, savers, other requests and the client   *)
(* itself do.                                                              *)
AnswersOnce == RL!Spec

FallbackRoute(r) == RouteCfg[call[r].route].mode = "fallback"

(* The attempt loop: a client error is never retried, nor a success, and a *)
(* buffered failure of a fallback route is answered only when every model  *)
(* left in its try-order has failed; the other modes try one model only.   *)
RetryDiscipline ==
    \A r \in Requests :
        LET q == req[r] IN
        q.pc = "done" /\ q.tried # <<>> =>
            /\ \A k \in 1 .. Len(q.tried) - 1 : q.tried[k] \in {"retry", "err", "saver_err"}
            /\ Last(q.tried) = q.answer
            /\ ~FallbackRoute(r) => Len(q.tried) = 1
            /\ FallbackRoute(r) /\ ~q.streamed /\ q.answer \in {"retry", "err", "saver_err"}
                 => Len(q.tried) = Len(call[r].cands)

(* The filter of handleProxy, against its choice of route and Resolve's    *)
(* choice of models: whichever route the header, the token and the default *)
(* name, no attempt leaves the route and the models the token is bound to. *)
AttemptsInScope ==
    \A r \in Requests :
        req[r].pc \in {"try", "sent", "streaming", "judge"} =>
            /\ req[r].tokRoute # "" => call[r].route = req[r].tokRoute
            /\ req[r].scope # {} => Current(r) \in req[r].scope

(* logActivity: a request for which an upstream was tried leaves exactly   *)
(* one activity row, however many models it went through.                  *)
TriedIsLoggedOnce ==
    \A r \in Requests :
        req[r].pc = "done" => /\ req[r].tried # <<>> => req[r].logs = 1
                              /\ req[r].logs <= 1

(* Resolve, the breaker and the attempt loop together: as long as one      *)
(* model of a fallback route, usable by the token, has a sound upstream,   *)
(* no client that waits for its answer sees a failure, even if all the     *)
(* other models fail and their results trip the breaker in the middle of   *)
(* another request's try-order.  (Streams and saver hops excepted: see     *)
(* the divergences.)                                                       *)
SoundModelAnswers ==
    \A r \in Requests :
        LET q      == req[r]
            usable == {m \in Alive : q.scope = {} \/ m \in q.scope}
        IN  /\ q.pc = "done" /\ ~q.gone /\ ~q.streamed
            /\ q.answer \notin {"route_error", "bad_body"}
            /\ FallbackRoute(r) /\ ViaOf(call[r].route) = ""
            /\ usable \cap RangeOf(ModelsOf(call[r].route)) # {}
            => q.answer \in {"ok", "client"}

-----------------------------------------------------------------------------
(* A statement of the documentation that the code does not keep, refuted   *)
(* by a run of its own.                                                    *)

(* README.md:676, "Pre-first-byte failures still trigger fallback          *)
(* normally": a fallback route does not answer a 5xx or 429 of a model     *)
(* while others are left, since at that point no byte has been sent.       *)
PreByteFailureFallsBack ==
    \A r \in Requests :
        req[r].pc = "done" /\ FallbackRoute(r) /\ req[r].answer = "retry"
            => Len(req[r].tried) = Len(call[r].cands)
=============================================================================
