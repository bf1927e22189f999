---------------------------- MODULE ProxyProofs ----------------------------
(***************************************************************************)
(* Proofs about Proxy, for every route table, every set of requests,       *)
(* tokens, savers and upstreams.                                           *)
(*                                                                         *)
(* The invariant says of each request by itself what its record and its    *)
(* call of Resolve have to do with each other: nothing that another        *)
(* request does touches either.                                            *)
(***************************************************************************)
EXTENDS Proxy, RouterProofs, FiniteSetTheorems

-----------------------------------------------------------------------------
(* The scope filter: what the recursive function of Filtered computes.     *)
KeptAt(s, S, g, n) ==
    IF n = 0 THEN <<>>
    ELSE IF s[n] \in S THEN Append(g[n - 1], s[n]) ELSE g[n - 1]

Filters(s, S, g, n) == g = [i \in 0 .. n |-> KeptAt(s, S, g, i)]

(* There is such a function, for every length. *)
LEMMA FilterExists ==
    ASSUME NEW s, NEW S, NEW n \in Nat
    PROVE  \E g : Filters(s, S, g, n)
<1> DEFINE A == {m \in Nat : \E g : Filters(s, S, g, m)}
<1>1. 0 \in A
  <2> DEFINE g == [i \in 0 .. 0 |-> <<>>]
  <2>1. Filters(s, S, g, 0)
    BY DEF Filters, KeptAt
  <2> QED BY <2>1
<1>2. ASSUME NEW m \in Nat, m \in A PROVE m + 1 \in A
  <2>1. PICK g : Filters(s, S, g, m)
    BY <1>2
  <2> DEFINE b == KeptAt(s, S, g, m + 1)
             h == [i \in 0 .. (m + 1) |-> IF i = m + 1 THEN b ELSE g[i]]
  <2>2. \A i \in 0 .. m : g[i] = KeptAt(s, S, g, i)
    BY <2>1 DEF Filters
  <2>0. \A i \in 0 .. m : h[i] = g[i]
    OBVIOUS
  <2>3. h[m + 1] = b /\ h = [i \in 0 .. (m + 1) |-> h[i]]
    OBVIOUS
  <2> HIDE DEF h
  <2>4. b = KeptAt(s, S, h, m + 1)
    BY <2>0 DEF KeptAt
  <2>5. \A i \in 0 .. m : KeptAt(s, S, h, i) = KeptAt(s, S, g, i)
    BY <2>0 DEF KeptAt
  <2>6. ASSUME NEW i \in 0 .. (m + 1) PROVE h[i] = KeptAt(s, S, h, i)
    <3>1. CASE i = m + 1
      BY <3>1, <2>3, <2>4
    <3>2. CASE i # m + 1
      <4>1. i \in 0 .. m
        BY <3>2
      <4> QED BY <4>1, <2>2, <2>0, <2>5
    <3> QED BY <3>1, <3>2
  <2>7. Filters(s, S, h, m + 1)
    BY <2>3, <2>6 DEF Filters
  <2> QED BY <2>7
<1> HIDE DEF A
<1>3. Nat \subseteq A
  BY <1>1, <1>2, InductionOnSet
<1> QED BY <1>3 DEF A

(* Its values are lists of models of the scope. *)
LEMMA FilterValues ==
    ASSUME NEW s \in Seq(Models), NEW S, NEW g, Filters(s, S, g, Len(s))
    PROVE  \A m \in 0 .. Len(s) : g[m] \in Seq(Models \cap S)
<1> DEFINE A == {m \in Nat : m <= Len(s) => g[m] \in Seq(Models \cap S)}
<1>0. Len(s) \in Nat /\ DOMAIN s = 1 .. Len(s) /\ \A i \in 1 .. Len(s) : s[i] \in Models
  BY LenProperties, ElementOfSeq
<1>1. \A i \in 0 .. Len(s) : g[i] = KeptAt(s, S, g, i)
  BY DEF Filters
<1>2. 0 \in A
  <2>1. g[0] = <<>>
    BY <1>0, <1>1 DEF KeptAt
  <2>2. <<>> \in Seq(Models \cap S)
    OBVIOUS
  <2> QED BY <2>1, <2>2
<1>3. ASSUME NEW m \in Nat, m \in A PROVE m + 1 \in A
  <2> SUFFICES ASSUME m + 1 <= Len(s) PROVE g[m + 1] \in Seq(Models \cap S)
    OBVIOUS
  <2>1. g[m] \in Seq(Models \cap S) /\ m + 1 \in 1 .. Len(s) /\ (m + 1) - 1 = m
    BY <1>0, <1>3
  <2>2. g[m + 1] = IF s[m + 1] \in S THEN Append(g[m], s[m + 1]) ELSE g[m]
    BY <1>0, <1>1, <2>1 DEF KeptAt
  <2>3. s[m + 1] \in Models
    BY <1>0, <2>1
  <2>4. \A t \in Seq(Models \cap S), x \in Models \cap S : Append(t, x) \in Seq(Models \cap S)
    BY AppendProperties
  <2> QED BY <2>1, <2>2, <2>3, <2>4
<1> HIDE DEF A
<1>4. Nat \subseteq A
  BY <1>2, <1>3, InductionOnSet
<1>5. \A m \in 0 .. Len(s) : m \in A /\ m <= Len(s)
  BY <1>0, <1>4
<1> QED BY <1>5 DEF A

(* No model of the scope is left out. *)
LEMMA FilterKeeps ==
    ASSUME NEW s \in Seq(Models), NEW S, NEW g, Filters(s, S, g, Len(s)),
           NEW j \in 1 .. Len(s), s[j] \in S
    PROVE  s[j] \in RangeOf(g[Len(s)])
<1> DEFINE A == {m \in Nat : j <= m /\ m <= Len(s) => s[j] \in RangeOf(g[m])}
<1>0. Len(s) \in Nat /\ \A i \in 1 .. Len(s) : s[i] \in Models
  BY LenProperties, ElementOfSeq
<1>1. \A i \in 0 .. Len(s) : g[i] = KeptAt(s, S, g, i)
  BY DEF Filters
<1>2. 0 \in A
  BY <1>0
<1>3. ASSUME NEW m \in Nat, m \in A PROVE m + 1 \in A
  <2> SUFFICES ASSUME j <= m + 1, m + 1 <= Len(s) PROVE s[j] \in RangeOf(g[m + 1])
    OBVIOUS
  <2>1. m \in 0 .. Len(s) /\ m + 1 \in 1 .. Len(s) /\ (m + 1) - 1 = m
    BY <1>0
  <2>2. g[m + 1] = IF s[m + 1] \in S THEN Append(g[m], s[m + 1]) ELSE g[m]
    BY <1>0, <1>1, <2>1 DEF KeptAt
  <2>3. g[m] \in Seq(Models) /\ s[m + 1] \in Models
    <3>1. g[m] \in Seq(Models \cap S)
      BY <2>1, FilterValues
    <3>2. \A t \in Seq(Models \cap S) : t \in Seq(Models)
      BY LenProperties, ElementOfSeq
    <3> QED BY <1>0, <2>1, <3>1, <3>2
  <2>4. RangeOf(Append(g[m], s[m + 1])) = RangeOf(g[m]) \cup {s[m + 1]}
    BY <2>3, RangeOfAppend
  <2>5. CASE j = m + 1
    BY <2>2, <2>4, <2>5
  <2>6. CASE j # m + 1
    <3>1. s[j] \in RangeOf(g[m])
      BY <1>0, <1>3, <2>1, <2>6
    <3> QED BY <2>2, <2>4, <3>1
  <2> QED BY <2>5, <2>6
<1> HIDE DEF A
<1>4. Nat \subseteq A
  BY <1>2, <1>3, InductionOnSet
<1>5. Len(s) \in A /\ j <= Len(s) /\ Len(s) <= Len(s)
  BY <1>0, <1>4
<1> QED BY <1>5 DEF A

(* What the filter leaves are models, all of them in the scope. *)
LEMMA InScopeModels ==
    ASSUME NEW s \in Seq(Models), NEW S
    PROVE  /\ InScope(s, S) \in Seq(Models)
           /\ S # {} => \A i \in DOMAIN InScope(s, S) : InScope(s, S)[i] \in S
<1>1. Filtered(s, S) \in Seq(Models \cap S)
  <2> DEFINE n == Len(s)
             f == CHOOSE g : Filters(s, S, g, n)
  <2>1. n \in Nat
    BY LenProperties
  <2>2. Filters(s, S, f, n)
    BY <2>1, FilterExists
  <2>3. Filtered(s, S) = f[n]
    BY DEF Filtered, Filters, KeptAt
  <2> HIDE DEF f
  <2>4. n \in 0 .. n
    BY <2>1
  <2> QED BY <2>2, <2>3, <2>4, FilterValues
<1>2. ASSUME NEW t \in Seq(Models \cap S)
      PROVE  t \in Seq(Models) /\ \A i \in DOMAIN t : t[i] \in S
  BY LenProperties, ElementOfSeq
<1> HIDE DEF Filtered
<1> QED BY <1>1, <1>2 DEF InScope

LEMMA InScopeKeeps ==
    ASSUME NEW s \in Seq(Models), NEW S, NEW m \in RangeOf(s), S = {} \/ m \in S
    PROVE  m \in RangeOf(InScope(s, S))
<1>1. ASSUME m \in S PROVE m \in RangeOf(Filtered(s, S))
  <2> DEFINE n == Len(s)
             f == CHOOSE g : Filters(s, S, g, n)
  <2>1. n \in Nat /\ DOMAIN s = 1 .. n
    BY LenProperties
  <2>2. Filters(s, S, f, n)
    BY <2>1, FilterExists
  <2>3. Filtered(s, S) = f[n]
    BY DEF Filtered, Filters, KeptAt
  <2> HIDE DEF f
  <2>4. PICK j \in 1 .. n : m = s[j]
    BY <2>1 DEF RangeOf
  <2> QED BY <1>1, <2>2, <2>3, <2>4, FilterKeeps
<1> HIDE DEF Filtered
<1> QED BY <1>1 DEF InScope

-----------------------------------------------------------------------------
(* The invariant. *)

(* Every outcome in the list is one that is retried. *)
AllFailed(s) == \A k \in 1 .. Len(s) : shouldFallback(s[k])

(* Nothing has been tried, written or logged yet. *)
Untouched(q) == q.tried = <<>> /\ q.writes = 0 /\ q.logs = 0 /\ ~q.streamed

(* Inside the attempt loop. *)
Attempting(q, c) ==
    /\ Len(q.tried) < Len(c.cands)
    /\ AllFailed(q.tried)
    /\ RouteCfg[c.route].mode # "fallback" => q.tried = <<>>
    /\ q.scope # {} => \A i \in DOMAIN c.cands : c.cands[i] \in q.scope
    /\ q.logs = 0

(* What RetryDiscipline says of one request that is done. *)
Disciplined(q, c) ==
    q.tried # <<>> =>
        /\ \A k \in 1 .. Len(q.tried) - 1 : q.tried[k] \in {"retry", "err", "saver_err"}
        /\ Last(q.tried) = q.answer
        /\ RouteCfg[c.route].mode # "fallback" => Len(q.tried) = 1
        /\ RouteCfg[c.route].mode = "fallback" /\ ~q.streamed /\ q.answer \in {"retry", "err", "saver_err"}
             => Len(q.tried) = Len(c.cands)

Finished(q, c) ==
    /\ q.writes = 1 /\ q.logs \in {0, 1} /\ (q.tried # <<>> => q.logs = 1)
    /\ Disciplined(q, c)

(* A request's record q and its call c of Resolve. *)
Good(q, c) ==
    /\ c.pc = "scan" => q.pc = "routing"
    /\ q.pc # "idle" /\ q.tokRoute # "" => c.route = q.tokRoute
    /\ q.pc \in {"idle", "routing"} => Untouched(q)
    /\ q.pc \in {"try", "sent", "streaming", "judge"} => Attempting(q, c)
    /\ q.pc \in {"try", "sent", "judge"} => q.writes = 0 /\ ~q.streamed
    /\ q.pc = "streaming" => q.writes = 1 /\ q.streamed /\ q.answer = q.last
    /\ q.pc \in {"streaming", "judge"} => q.last \in Outcomes
    /\ q.pc = "done" => Finished(q, c)

Inv == TypeInv /\ ProxyTypeOK /\ \A r \in Requests : Good(req[r], call[r])

LEMMA InvParts ==
    ASSUME Inv, NEW r \in Requests
    PROVE  /\ req[r] \in Reqs /\ call[r] \in Calls /\ Good(req[r], call[r])
           /\ call[r].cands \in Seq(Models) /\ req[r].tried \in Seq(Outcomes)
<1>1. req[r] \in Reqs /\ call[r] \in Calls /\ Good(req[r], call[r])
  BY DEF Inv, ProxyTypeOK, TypeInv, RouterTypeOK
<1> QED BY <1>1 DEF Reqs, Calls

(* A step of one request touches no other's record or call. *)
LEMMA ReqWrite ==
    ASSUME Inv, TypeInv', NEW r \in Requests, NEW q \in Reqs, Good(q, call'[r]),
           \A s \in Requests \ {r} : call'[s] = call[s],
           req' = [req EXCEPT ![r] = q], UNCHANGED saverUp
    PROVE  Inv'
<1>1. req \in [Requests -> Reqs] /\ saverUp \in [Savers -> BOOLEAN]
  BY DEF Inv, ProxyTypeOK
<1>2. ProxyTypeOK'
  <2>1. req' \in [Requests -> Reqs]
    BY <1>1
  <2> QED BY <1>1, <2>1 DEF ProxyTypeOK
<1>3. ASSUME NEW s \in Requests PROVE Good(req'[s], call'[s])
  <2>1. CASE s = r
    BY <2>1, <1>1
  <2>2. CASE s # r
    <3>1. req'[s] = req[s] /\ call'[s] = call[s]
      BY <2>2, <1>1
    <3>2. Good(req[s], call[s])
      BY DEF Inv
    <3> QED BY <3>1, <3>2
  <2> QED BY <2>1, <2>2
<1>4. \A s \in Requests : Good(req'[s], call'[s])
  BY <1>3
<1> QED BY <1>2, <1>4 DEF Inv, Good, Attempting, Untouched, Finished, Disciplined

(* Most steps leave the engine alone. *)
LEMMA ReqOnly ==
    ASSUME Inv, NEW r \in Requests, NEW q \in Reqs, Good(q, call[r]),
           req' = [req EXCEPT ![r] = q], UNCHANGED <<routerVars, saverUp>>
    PROVE  Inv'
<1>1. call' = call /\ counters' = counters
  BY DEF routerVars
<1>2. TypeInv'
  BY <1>1 DEF Inv, TypeInv, RouterTypeOK, ScansResolvable
<1>3. Good(q, call'[r]) /\ \A s \in Requests \ {r} : call'[s] = call[s]
  BY <1>1
<1> QED BY <1>2, <1>3, ReqWrite

LEMMA Idle == NoReq \in Reqs /\ NoReq.pc = "idle" /\ NoReq.tokRoute = "" /\ Untouched(NoReq)
<1>1. <<>> \in Seq(Outcomes)
  OBVIOUS
<1> QED BY <1>1 DEF NoReq, Reqs, Untouched

(* One more outcome. *)
LEMMA OneMore ==
    ASSUME NEW s \in Seq(Outcomes), NEW x \in Outcomes
    PROVE  LET t == Append(s, x)
           IN  /\ t \in Seq(Outcomes) /\ t # <<>> /\ Last(t) = x
               /\ Len(s) \in Nat /\ Len(t) = Len(s) + 1 /\ (s = <<>> => Len(s) = 0)
               /\ AllFailed(s) => \A k \in 1 .. Len(t) - 1 : shouldFallback(t[k])
               /\ AllFailed(s) /\ shouldFallback(x) => AllFailed(t)
<1> DEFINE t == Append(s, x)
           n == Len(s)
<1>1. /\ t \in Seq(Outcomes) /\ Len(t) = n + 1 /\ t[n + 1] = x /\ n \in Nat
      /\ \A k \in 1 .. n : t[k] = s[k]
  BY AppendProperties, LenProperties
<1>2. t # <<>> /\ (s = <<>> => n = 0)
  BY <1>1
<1> HIDE DEF t, n
<1>3. Last(t) = x
  BY <1>1 DEF Last
<1>4. ASSUME AllFailed(s), NEW k \in 1 .. n PROVE shouldFallback(t[k])
  BY <1>1, <1>4 DEF AllFailed, n
<1>5. AllFailed(s) => \A k \in 1 .. Len(t) - 1 : shouldFallback(t[k])
  <2>1. Len(t) - 1 = n
    BY <1>1
  <2> QED BY <1>4, <2>1
<1>6. ASSUME AllFailed(s), shouldFallback(x) PROVE AllFailed(t)
  <2>1. ASSUME NEW k \in 1 .. Len(t) PROVE shouldFallback(t[k])
    <3>1. k \in 1 .. n \/ k = n + 1
      BY <1>1
    <3> QED BY <1>1, <1>4, <1>6, <3>1
  <2> QED BY <2>1 DEF AllFailed
<1> QED BY <1>1, <1>2, <1>3, <1>5, <1>6 DEF t, n

-----------------------------------------------------------------------------
(* One lemma per action. *)

LEMMA ChosenRouteNamed ==
    ASSUME NEW tok \in TokenRoutes, NEW header \in Headers
    PROVE  /\ ChosenRoute(tok, header) \in RouteNames
           /\ tok # "" => Named(ChosenRoute(tok, header)) = tok
  BY ProxyAssumption DEF ChosenRoute, Named

(* Resolve changes the call of its own request only, and it is about the   *)
(* route that was named.                                                   *)
LEMMA ResolveCall ==
    ASSUME TypeInv, NEW r \in Requests, NEW name, Resolve(r, name)
    PROVE  /\ call'[r].route = Named(name)
           /\ \A s \in Requests \ {r} : call'[s] = call[s]
<1>0. call \in [Requests -> Calls]
  BY DEF TypeInv, RouterTypeOK
<1>1. \E c : call' = [call EXCEPT ![r] = c] /\ c.route = Named(name)
  <2>1. CASE ResolveFails(r, name)
    <3> DEFINE c == [NoCall EXCEPT !.pc = "error", !.route = Named(name)]
    <3>1. call' = [call EXCEPT ![r] = c] /\ c.route = Named(name)
      BY <2>1 DEF ResolveFails, NoCall
    <3> QED BY <3>1
  <2>2. CASE ResolveSingle(r, name)
    <3> DEFINE c == Decision(Named(name), <<ModelAt(Named(name), 0)>>)
    <3>1. call' = [call EXCEPT ![r] = c] /\ c.route = Named(name)
      BY <2>2 DEF ResolveSingle, Decision, NoCall
    <3> QED BY <3>1
  <2>3. CASE ResolveFallback(r, name)
    <3> DEFINE c == [NoCall EXCEPT !.pc = "scan", !.route = Named(name)]
    <3>1. call' = [call EXCEPT ![r] = c] /\ c.route = Named(name)
      BY <2>3 DEF ResolveFallback, NoCall
    <3> QED BY <3>1
  <2>4. CASE ResolveRound(r, name)
    <3> DEFINE rt == Named(name)
               c  == [NoCall EXCEPT !.pc = "scan", !.route = rt,
                        !.start = StartOf(Advance(counters[rt]), Count(rt))]
    <3>1. call' = [call EXCEPT ![r] = c] /\ c.route = rt
      BY <2>4 DEF ResolveRound, NoCall
    <3> QED BY <3>1
  <2> QED BY <2>1, <2>2, <2>3, <2>4 DEF Resolve
<1> QED BY <1>0, <1>1

LEMMA AcceptGood ==
    ASSUME Inv, NEW r \in Requests, NEW tok \in TokenRoutes, NEW header \in Headers,
           NEW scope \in Scopes, NEW stream \in BOOLEAN, Accept(r, tok, header, scope, stream)
    PROVE  Inv'
<1> DEFINE name == ChosenRoute(tok, header)
           q == [NoReq EXCEPT !.pc = "routing", !.tokRoute = tok, !.scope = scope, !.stream = stream]
<1>1. /\ req' = [req EXCEPT ![r] = q] /\ Resolve(r, name) /\ UNCHANGED saverUp /\ TypeInv
  BY DEF Accept, Inv
<1>2. name \in RouteNames /\ (tok # "" => Named(name) = tok)
  BY ChosenRouteNamed
<1>3. /\ q \in Reqs /\ q.pc = "routing" /\ q.tokRoute = tok /\ Untouched(q)
  BY Idle DEF Reqs, NoReq, Untouched
<1> HIDE DEF name, q
<1>4. TypeInv'
  BY <1>1, <1>2, ResolveTypes
<1>5. call'[r].route = Named(name) /\ \A s \in Requests \ {r} : call'[s] = call[s]
  BY <1>1, ResolveCall
<1>6. Good(q, call'[r])
  BY <1>2, <1>3, <1>5 DEF Good
<1> QED BY <1>1, <1>3, <1>4, <1>5, <1>6, ReqWrite

(* A look of Resolve stays on the route. *)
LEMMA LookGood ==
    ASSUME Inv, NEW r \in Requests, Look(r)
    PROVE  Inv'
<1>0. TypeInv /\ req[r] \in Reqs /\ call \in [Requests -> Calls] /\ UNCHANGED <<req, saverUp>>
  BY InvParts DEF Inv, Look, TypeInv, RouterTypeOK
<1>1. TypeInv'
  BY <1>0, ScanTypes DEF Look
<1>2. call[r].pc = "scan"
  BY DEF Look, ScanFallback, ScanRound
<1>3. \E c : call' = [call EXCEPT ![r] = c] /\ c.route = call[r].route
  <2> DEFINE rt == call[r].route
  <2>0. ASSUME NEW ms PROVE Decision(rt, ms).route = rt
    BY DEF Decision, NoCall
  <2>1. ASSUME NEW k PROVE LookOn(r, k).route = rt
    BY <1>0 DEF LookOn, Calls
  <2>2. CASE ScanFallback(r)
    BY <1>0, <2>0, <2>1, <2>2, ScanFallbackCases
  <2>3. CASE ScanRound(r)
    <3>1. \/ \E ms : call' = [call EXCEPT ![r] = Decision(rt, ms)]
          \/ call' = [call EXCEPT ![r] = LookOn(r, call[r].cands)]
      BY <1>0, <2>3, ScanRoundCases
    <3> QED BY <2>0, <2>1, <3>1
  <2> QED BY <2>2, <2>3 DEF Look
<1>4. call'[r].route = call[r].route /\ \A s \in Requests \ {r} : call'[s] = call[s]
  BY <1>0, <1>3
<1>5. Good(req[r], call'[r])
  <2>1. Good(req[r], call[r])
    BY InvParts
  <2> QED BY <1>2, <1>4, <2>1 DEF Good
<1>6. req' = [req EXCEPT ![r] = req[r]]
  BY <1>0 DEF Inv, ProxyTypeOK
<1> QED BY <1>0, <1>1, <1>4, <1>5, <1>6, ReqWrite

LEMMA Once == {0, 1} \subseteq Nat /\ 0 + 1 = 1
  OBVIOUS

(* The answers that end a request before anything was tried. *)
LEMMA Refused ==
    ASSUME NEW q \in Reqs, NEW c, Untouched(q), c.pc # "scan",
           q.tokRoute # "" => c.route = q.tokRoute,
           NEW what \in {"route_error", "scope_error", "bad_body"}, NEW logged \in BOOLEAN
    PROVE  Answer(q, what, logged) \in Reqs /\ Good(Answer(q, what, logged), c)
<1> DEFINE n == Logged(q, logged)
           a == Answer(q, what, logged)
<1>1. n \in {0, 1}
  <2>1. q.logs = 0 /\ q.logs + 1 = 1
    BY Once DEF Untouched
  <2>2. CASE logged
    BY <2>1, <2>2 DEF Logged
  <2>3. CASE ~logged
    BY <2>1, <2>3 DEF Logged
  <2> QED BY <2>2, <2>3
<1>2. a = [q EXCEPT !.pc = "done", !.answer = what, !.writes = 1, !.logs = n]
  <2>1. q.writes + 1 = 1
    BY Once DEF Untouched
  <2> QED BY <2>1 DEF Answer
<1> HIDE DEF n, a
<1>3. a \in Reqs
  <2>1. n \in Nat /\ 1 \in Nat
    BY Once, <1>1
  <2> QED BY <1>2, <2>1 DEF Reqs
<1>4. /\ a.pc = "done" /\ a.writes = 1 /\ a.logs = n /\ a.tokRoute = q.tokRoute
      /\ a.tried = <<>>
  BY <1>2 DEF Reqs, Untouched
<1>5. Finished(a, c)
  BY <1>1, <1>4 DEF Finished, Disciplined
<1>6. Good(a, c)
  BY <1>4, <1>5 DEF Good
<1> QED BY <1>3, <1>6 DEF a

LEMMA NotRoutedGood ==
    ASSUME Inv, NEW r \in Requests, NotRouted(r)
    PROVE  Inv'
<1> DEFINE q == Answer(req[r], "route_error", TRUE)
<1>1. /\ req[r].pc = "routing" /\ call[r].pc = "error"
      /\ req' = [req EXCEPT ![r] = q] /\ UNCHANGED <<routerVars, saverUp>>
  BY InvParts DEF NotRouted
<1>2. q \in Reqs /\ Good(q, call[r])
  BY <1>1, InvParts, Refused DEF Good
<1> HIDE DEF q
<1> QED BY <1>1, <1>2, ReqOnly

(* The filter leaves a list in the scope, which the attempts go through.   *)
LEMMA PrepareGood ==
    ASSUME Inv, NEW r \in Requests, NEW bodyRead \in BOOLEAN, Prepare(r, bodyRead)
    PROVE  Inv'
<1> DEFINE o == req[r]
           c == call[r]
           models == InScope(c.cands, o.scope)
           d == [c EXCEPT !.cands = models]
<1>0. /\ o.pc = "routing" /\ c.pc = "resolved" /\ o \in Reqs /\ c \in Calls /\ Good(o, c)
      /\ c.cands \in Seq(Models)
      /\ UNCHANGED <<counters, saverUp>> /\ TypeInv /\ call \in [Requests -> Calls]
  BY InvParts DEF Prepare, Inv, TypeInv, RouterTypeOK
<1>1. /\ Untouched(o) /\ (o.tokRoute # "" => c.route = o.tokRoute)
  BY <1>0 DEF Good
<1>2. /\ models \in Seq(Models)
      /\ o.scope # {} => \A i \in DOMAIN models : models[i] \in o.scope
  BY <1>0, InScopeModels
<1>3. \/ /\ req' = [req EXCEPT ![r] = Answer(o, "scope_error", FALSE)]
         /\ UNCHANGED call
      \/ /\ models # <<>> /\ call' = [call EXCEPT ![r] = d]
         /\ \/ req' = [req EXCEPT ![r] = [o EXCEPT !.pc = "try"]]
            \/ req' = [req EXCEPT ![r] = Answer(o, "bad_body", FALSE)]
  <2>0. /\ req \in [Requests -> Reqs] /\ call \in [Requests -> Calls]
    BY <1>0 DEF Inv, ProxyTypeOK
  <2>1. CASE models = <<>>
    BY <2>1 DEF Prepare
  <2>2. CASE models # <<>>
    <3>1. /\ call' = [call EXCEPT ![r].cands = models]
          /\ req' = [req EXCEPT ![r] = IF bodyRead THEN [o EXCEPT !.pc = "try"]
                                       ELSE Answer(o, "bad_body", FALSE)]
      BY <2>2 DEF Prepare
    <3>2. call' = [call EXCEPT ![r] = d]
      BY <3>1
    <3> QED BY <2>2, <3>1, <3>2
  <2> QED BY <2>1, <2>2
<1> HIDE DEF models
<1>4. /\ d \in Calls /\ d.pc = "resolved" /\ d.route = c.route /\ d.cands = models
  BY <1>0, <1>2 DEF Calls
<1>5. Resolvable(c.route)
  BY <1>0 DEF TypeInv, ScansResolvable
<1> HIDE DEF o, c, d
<1>6. CASE /\ req' = [req EXCEPT ![r] = Answer(o, "scope_error", FALSE)]
           /\ UNCHANGED call
  <2> DEFINE q == Answer(o, "scope_error", FALSE)
  <2>1. q \in Reqs /\ Good(q, c)
    BY <1>0, <1>1, Refused
  <2> HIDE DEF q
  <2>2. UNCHANGED <<routerVars, saverUp>>
    BY <1>0, <1>6 DEF routerVars
  <2>3. req' = [req EXCEPT ![r] = q]
    BY <1>6 DEF q
  <2> QED BY <2>1, <2>2, <2>3, ReqOnly DEF c
<1>7. CASE models # <<>> /\ call' = [call EXCEPT ![r] = d]
  <2>1. TypeInv'
    <3>1. counters' \in [Routes -> 0 .. CounterMod - 1] /\ Resolvable(d.route)
      BY <1>0, <1>4, <1>5 DEF TypeInv, RouterTypeOK
    <3> QED BY <1>0, <1>4, <1>7, <3>1, CallWrite
  <2>2. call'[r] = d /\ \A s \in Requests \ {r} : call'[s] = call[s]
    BY <1>0, <1>7
  <2>3. CASE req' = [req EXCEPT ![r] = [o EXCEPT !.pc = "try"]]
    <3> DEFINE q == [o EXCEPT !.pc = "try"]
    <3>1. /\ q \in Reqs /\ q.pc = "try" /\ Untouched(q) /\ q.tokRoute = o.tokRoute
          /\ q.scope = o.scope
      BY <1>0, <1>1 DEF Reqs, Untouched
    <3> HIDE DEF q
    <3>2. Len(q.tried) = 0 /\ 0 < Len(models)
      <4>1. Len(models) \in Nat /\ Len(models) # 0
        BY <1>2, <1>7, EmptySeq, LenProperties
      <4> QED BY <4>1, <3>1 DEF Untouched
    <3>3. AllFailed(q.tried)
      BY <3>2 DEF AllFailed
    <3>4. Good(q, d)
      BY <1>1, <1>2, <1>4, <3>1, <3>2, <3>3 DEF Good, Attempting, Untouched
    <3>5. req' = [req EXCEPT ![r] = q]
      BY <2>3 DEF q
    <3> QED BY <1>0, <2>1, <2>2, <3>1, <3>4, <3>5, ReqWrite
  <2>4. CASE req' = [req EXCEPT ![r] = Answer(o, "bad_body", FALSE)]
    <3> DEFINE q == Answer(o, "bad_body", FALSE)
    <3>1. q \in Reqs /\ Good(q, d)
      BY <1>0, <1>1, <1>4, Refused
    <3>2. req' = [req EXCEPT ![r] = q]
      BY <2>4
    <3> HIDE DEF q
    <3> QED BY <1>0, <2>1, <2>2, <3>1, <3>2, ReqWrite
  <2> QED BY <1>3, <1>7, <2>3, <2>4, <1>6
<1> QED BY <1>3, <1>6, <1>7

LEMMA HopType == ASSUME NEW rt PROVE Hop(rt) \in {"direct", "saver", "none"}
  BY DEF Hop

(* An attempt moves on inside the loop, before anything is written. *)
LEMMA MovesOn ==
    ASSUME NEW o \in Reqs, NEW c, Good(o, c), o.pc \in {"try", "sent"},
           NEW pc \in {"sent", "judge"}, NEW hop \in {"", "direct", "saver", "none"},
           NEW last \in Outcomes \cup {""}, pc = "judge" => last \in Outcomes
    PROVE  LET q == [o EXCEPT !.pc = pc, !.hop = hop, !.last = last]
           IN  q \in Reqs /\ Good(q, c)
<1> DEFINE q == [o EXCEPT !.pc = pc, !.hop = hop, !.last = last]
<1>1. q \in Reqs
  BY DEF Reqs
<1>2. /\ q.pc = pc /\ q.last = last /\ q.tokRoute = o.tokRoute /\ q.scope = o.scope
      /\ q.tried = o.tried /\ q.writes = o.writes /\ q.logs = o.logs
      /\ q.streamed = o.streamed
  BY DEF Reqs
<1> HIDE DEF q
<1>3. /\ c.pc # "scan" /\ (o.tokRoute # "" => c.route = o.tokRoute) /\ Attempting(o, c)
      /\ o.writes = 0 /\ ~o.streamed
  BY DEF Good
<1>4. Attempting(q, c)
  BY <1>2, <1>3 DEF Attempting
<1>5. q.writes = 0 /\ ~q.streamed
  BY <1>2, <1>3
<1>6. Good(q, c)
  BY <1>2, <1>3, <1>4, <1>5 DEF Good
<1> QED BY <1>1, <1>6 DEF q

LEMMA TryGood ==
    ASSUME Inv, NEW r \in Requests, Try(r)
    PROVE  Inv'
<1> DEFINE o    == req[r]
           hop  == Hop(call[r].route)
           fail == IF Current(r) \in Unresolved THEN "err"
                   ELSE IF hop = "none" THEN "saver_err" ELSE ""
           pc   == IF fail = "" THEN "sent" ELSE "judge"
           q    == [o EXCEPT !.pc = pc, !.hop = hop, !.last = fail]
<1>0. o \in Reqs /\ Good(o, call[r]) /\ req \in [Requests -> Reqs]
  BY InvParts DEF Inv, ProxyTypeOK
<1>1. /\ o.pc = "try" /\ UNCHANGED <<routerVars, saverUp>>
      /\ req' = [req EXCEPT ![r].pc = pc, ![r].hop = hop, ![r].last = fail]
  BY DEF Try
<1>2. /\ hop \in {"", "direct", "saver", "none"} /\ fail \in Outcomes \cup {""}
      /\ pc \in {"sent", "judge"} /\ (pc = "judge" => fail \in Outcomes)
  BY HopType DEF Outcomes
<1> HIDE DEF hop, fail, pc
<1>3. req' = [req EXCEPT ![r] = q]
  BY <1>0, <1>1
<1>4. q \in Reqs /\ Good(q, call[r])
  BY <1>0, <1>1, <1>2, MovesOn
<1> HIDE DEF q
<1> QED BY <1>1, <1>3, <1>4, ReqOnly

(* The two ways out of client.Do that write nothing. *)
LEMMA SentJudged ==
    ASSUME Inv, NEW r \in Requests, req[r].pc = "sent", NEW last \in Outcomes,
           req' = [req EXCEPT ![r].pc = "judge", ![r].last = last],
           UNCHANGED <<routerVars, saverUp>>
    PROVE  Inv'
<1> DEFINE o == req[r]
           q == [o EXCEPT !.pc = "judge", !.hop = o.hop, !.last = last]
<1>0. o \in Reqs /\ Good(o, call[r]) /\ req \in [Requests -> Reqs]
  BY InvParts DEF Inv, ProxyTypeOK
<1>1. o.hop \in {"", "direct", "saver", "none"}
  BY <1>0 DEF Reqs
<1>2. req' = [req EXCEPT ![r] = q]
  BY <1>0 DEF Reqs
<1>3. q \in Reqs /\ Good(q, call[r])
  BY <1>0, <1>1, MovesOn
<1> HIDE DEF q
<1> QED BY <1>2, <1>3, ReqOnly

LEMMA UpstreamErrorGood ==
    ASSUME Inv, NEW r \in Requests, UpstreamError(r)
    PROVE  Inv'
<1> DEFINE last == IF SaverLost(r) THEN "saver_err" ELSE "err"
<1>1. /\ req[r].pc = "sent" /\ UNCHANGED <<routerVars, saverUp>>
      /\ req' = [req EXCEPT ![r].pc = "judge", ![r].last = last] /\ last \in Outcomes
  BY DEF UpstreamError, Outcomes
<1> HIDE DEF last
<1> QED BY <1>1, SentJudged

LEMMA BufferedReplyGood ==
    ASSUME Inv, NEW r \in Requests, NEW reply \in {"ok", "client", "retry"}, NEW sse \in BOOLEAN,
           BufferedReply(r, reply, sse)
    PROVE  Inv'
<1>1. /\ req[r].pc = "sent" /\ UNCHANGED <<routerVars, saverUp>>
      /\ req' = [req EXCEPT ![r].pc = "judge", ![r].last = reply] /\ reply \in Outcomes
  BY DEF BufferedReply, Outcomes
<1> QED BY <1>1, SentJudged

LEMMA StreamBeginGood ==
    ASSUME Inv, NEW r \in Requests, NEW reply \in {"ok", "client", "retry"}, NEW sse \in BOOLEAN,
           StreamBegin(r, reply, sse)
    PROVE  Inv'
<1> DEFINE o == req[r]
           c == call[r]
           q == [o EXCEPT !.pc = "streaming", !.last = reply, !.answer = reply,
                          !.streamed = TRUE, !.writes = 1]
<1>0. o \in Reqs /\ Good(o, c) /\ req \in [Requests -> Reqs]
  BY InvParts DEF Inv, ProxyTypeOK
<1>1. /\ o.pc = "sent" /\ UNCHANGED <<routerVars, saverUp>> /\ reply \in Outcomes
      /\ req' = [req EXCEPT ![r].pc = "streaming", ![r].last = reply, ![r].answer = reply,
                            ![r].streamed = TRUE, ![r].writes = o.writes + 1]
  BY DEF StreamBegin, Outcomes
<1>2. /\ c.pc # "scan" /\ (o.tokRoute # "" => c.route = o.tokRoute) /\ Attempting(o, c)
      /\ o.writes = 0
  BY <1>0, <1>1 DEF Good
<1>3. o.writes + 1 = 1
  BY <1>2, Once
<1>4. req' = [req EXCEPT ![r] = q]
  BY <1>0, <1>1, <1>3
<1>5. q \in Reqs
  BY <1>0, <1>1, Once DEF Reqs
<1>6. /\ q.pc = "streaming" /\ q.last = reply /\ q.answer = reply /\ q.writes = 1
      /\ q.streamed = TRUE
      /\ q.tokRoute = o.tokRoute /\ q.scope = o.scope /\ q.tried = o.tried /\ q.logs = o.logs
  BY <1>0 DEF Reqs
<1> HIDE DEF q, o, c
<1>7. Attempting(q, c)
  BY <1>2, <1>6 DEF Attempting
<1>8. Good(q, c)
  BY <1>1, <1>2, <1>6, <1>7 DEF Good
<1> QED BY <1>1, <1>4, <1>5, <1>8, ReqOnly DEF c

(* The last attempt ends the request: its outcome is the answer, as a      *)
(* stream or, if it failed, for want of another model.                     *)
LEMMA EndsGood ==
    ASSUME NEW o \in Reqs, NEW c \in Calls, Good(o, c), o.pc \in {"streaming", "judge"},
           NEW q \in Reqs, q.pc = "done", q.tokRoute = o.tokRoute,
           q.tried = Append(o.tried, o.last), q.answer = o.last, q.writes = 1, q.logs = 1,
           \/ q.streamed = TRUE
           \/ ~shouldFallback(o.last)
           \/ RouteCfg[c.route].mode # "fallback"
           \/ ~(Len(o.tried) + 1 < Len(c.cands))
    PROVE  Good(q, c)
<1>1. /\ c.pc # "scan" /\ (o.tokRoute # "" => c.route = o.tokRoute) /\ Attempting(o, c)
      /\ o.last \in Outcomes /\ o.tried \in Seq(Outcomes)
  BY DEF Good, Reqs
<1>2. /\ Len(o.tried) \in Nat /\ Len(q.tried) = Len(o.tried) + 1 /\ q.tried # <<>>
      /\ Last(q.tried) = o.last
      /\ \A k \in 1 .. Len(q.tried) - 1 : shouldFallback(q.tried[k])
      /\ o.tried = <<>> => Len(o.tried) = 0
  <2> DEFINE s == o.tried
             x == o.last
             t == Append(s, x)
  <2>1. AllFailed(s) /\ s \in Seq(Outcomes) /\ x \in Outcomes
    BY <1>1 DEF Attempting
  <2>2. q.tried = t
    OBVIOUS
  <2> HIDE DEF s, x
  <2>3. /\ Len(s) \in Nat /\ Len(t) = Len(s) + 1 /\ t # <<>> /\ Last(t) = x
        /\ \A k \in 1 .. Len(t) - 1 : shouldFallback(t[k])
        /\ s = <<>> => Len(s) = 0
    BY <2>1, OneMore
  <2> HIDE DEF t
  <2> QED BY <2>2, <2>3 DEF s, x
<1>3. Len(c.cands) \in Nat /\ Len(o.tried) < Len(c.cands)
  BY <1>1, LenProperties DEF Calls, Attempting
<1>4. RouteCfg[c.route].mode # "fallback" => Len(q.tried) = 1
  BY <1>1, <1>2, Once DEF Attempting
<1>5. RouteCfg[c.route].mode = "fallback" /\ ~q.streamed /\ q.answer \in {"retry", "err", "saver_err"}
        => Len(q.tried) = Len(c.cands)
  <2> DEFINE n == Len(o.tried)
             k == Len(c.cands)
  <2> SUFFICES ASSUME RouteCfg[c.route].mode = "fallback", ~q.streamed, shouldFallback(o.last)
               PROVE  Len(q.tried) = k
    BY DEF shouldFallback
  <2>1. ~(n + 1 < k)
    OBVIOUS
  <2> HIDE DEF n, k
  <2> QED BY <1>2, <1>3, <2>1 DEF n, k
<1>6. \A k \in 1 .. Len(q.tried) - 1 : q.tried[k] \in {"retry", "err", "saver_err"}
  BY <1>2 DEF shouldFallback
<1>7. Disciplined(q, c)
  BY <1>2, <1>4, <1>5, <1>6 DEF Disciplined
<1>8. Finished(q, c)
  BY <1>7 DEF Finished
<1> QED BY <1>1, <1>8 DEF Good

LEMMA StreamEndGood ==
    ASSUME Inv, NEW r \in Requests, StreamEnd(r)
    PROVE  Inv'
<1> DEFINE o == req[r]
           c == call[r]
           t == Append(o.tried, o.last)
           q == [o EXCEPT !.pc = "done", !.tried = t, !.logs = 1]
<1>0. o \in Reqs /\ c \in Calls /\ Good(o, c) /\ req \in [Requests -> Reqs]
  BY InvParts DEF Inv, ProxyTypeOK
<1>1. /\ o.pc = "streaming" /\ UNCHANGED <<routerVars, saverUp>>
      /\ req' = [req EXCEPT ![r].pc = "done", ![r].tried = t, ![r].logs = o.logs + 1]
  BY DEF StreamEnd
<1>2. /\ o.logs = 0 /\ o.writes = 1 /\ o.streamed /\ o.answer = o.last /\ o.last \in Outcomes
      /\ o.tried \in Seq(Outcomes)
  BY <1>0, <1>1 DEF Good, Attempting, Reqs
<1>3. o.logs + 1 = 1 /\ t \in Seq(Outcomes)
  BY <1>2, Once, OneMore
<1> HIDE DEF t
<1>4. req' = [req EXCEPT ![r] = q]
  BY <1>0, <1>1, <1>3
<1>5. q \in Reqs
  BY <1>0, <1>3, Once DEF Reqs
<1>6. /\ q.pc = "done" /\ q.tokRoute = o.tokRoute /\ q.tried = t /\ q.answer = o.answer
      /\ q.writes = o.writes /\ q.logs = 1 /\ q.streamed = o.streamed
  BY <1>0 DEF Reqs
<1>7. q.streamed = TRUE
  BY <1>2, <1>6, <1>5 DEF Reqs
<1> HIDE DEF q, o, c
<1>8. Good(q, c)
  BY <1>0, <1>1, <1>2, <1>5, <1>6, <1>7, EndsGood DEF t
<1> QED BY <1>1, <1>4, <1>5, <1>8, ReqOnly DEF c

(* The answer of a buffered attempt. *)
LEMMA Answers ==
    ASSUME NEW o \in Reqs, NEW c \in Calls, Good(o, c), o.pc = "judge",
           \/ ~shouldFallback(o.last)
           \/ RouteCfg[c.route].mode # "fallback"
           \/ ~(Len(o.tried) + 1 < Len(c.cands))
    PROVE  LET q == Answer([o EXCEPT !.tried = Append(o.tried, o.last)], o.last, TRUE)
           IN  q \in Reqs /\ Good(q, c)
<1> DEFINE t == Append(o.tried, o.last)
           p == [o EXCEPT !.tried = t]
           q == Answer(p, o.last, TRUE)
<1>1. /\ o.logs = 0 /\ o.writes = 0 /\ o.last \in Outcomes /\ o.tried \in Seq(Outcomes)
  BY DEF Good, Attempting, Reqs
<1>2. t \in Seq(Outcomes)
  BY <1>1, OneMore
<1> HIDE DEF t
<1>3. p.logs + 1 = 1 /\ p.writes + 1 = 1
  <2>1. p.logs = 0 /\ p.writes = 0
    BY <1>1 DEF Reqs
  <2> HIDE DEF p
  <2> QED BY <2>1, Once
<1>4. q = [o EXCEPT !.tried = t, !.pc = "done", !.answer = o.last, !.writes = 1, !.logs = 1]
  <2>1. q = [p EXCEPT !.pc = "done", !.answer = o.last, !.writes = 1, !.logs = 1]
    <3> HIDE DEF p
    <3> QED BY <1>3 DEF Answer, Logged
  <2> QED BY <2>1 DEF Reqs
<1> HIDE DEF q
<1>5. q \in Reqs
  BY <1>1, <1>2, <1>4, Once DEF Reqs
<1>6. /\ q.pc = "done" /\ q.tokRoute = o.tokRoute /\ q.tried = t /\ q.answer = o.last
      /\ q.writes = 1 /\ q.logs = 1
  BY <1>4 DEF Reqs
<1>7. Good(q, c)
  BY <1>5, <1>6, EndsGood DEF t
<1> QED BY <1>5, <1>7 DEF q, p, t

LEMMA DeliverGood ==
    ASSUME Inv, NEW r \in Requests, Deliver(r)
    PROVE  Inv'
<1> DEFINE o == req[r]
           q == Answer([o EXCEPT !.tried = Append(o.tried, o.last)], o.last, TRUE)
<1>0. o \in Reqs /\ call[r] \in Calls /\ Good(o, call[r]) /\ req \in [Requests -> Reqs]
  BY InvParts DEF Inv, ProxyTypeOK
<1>1. /\ o.pc = "judge" /\ ~shouldFallback(o.last) /\ UNCHANGED <<routerVars, saverUp>>
      /\ req' = [req EXCEPT ![r] = q]
  BY DEF Deliver
<1>2. q \in Reqs /\ Good(q, call[r])
  BY <1>0, <1>1, Answers
<1> HIDE DEF q
<1> QED BY <1>1, <1>2, ReqOnly

(* A failure, with models left: the next attempt, one place further. *)
LEMMA NextModel ==
    ASSUME NEW o \in Reqs, NEW c \in Calls, Good(o, c), o.pc = "judge", shouldFallback(o.last),
           RouteCfg[c.route].mode = "fallback", Len(o.tried) + 1 < Len(c.cands)
    PROVE  LET q == [o EXCEPT !.tried = Append(o.tried, o.last), !.pc = "try"]
           IN  q \in Reqs /\ Good(q, c)
<1> DEFINE s == o.tried
           x == o.last
           t == Append(s, x)
           q == [o EXCEPT !.tried = t, !.pc = "try"]
<1>1. /\ c.pc # "scan" /\ (o.tokRoute # "" => c.route = o.tokRoute) /\ Attempting(o, c)
      /\ x \in Outcomes /\ s \in Seq(Outcomes) /\ o.writes = 0 /\ ~o.streamed
  BY DEF Good, Reqs
<1>2. AllFailed(s) /\ shouldFallback(x)
  BY <1>1 DEF Attempting
<1>3. Len(s) + 1 < Len(c.cands)
  OBVIOUS
<1> HIDE DEF s, x
<1>4. t \in Seq(Outcomes) /\ AllFailed(t) /\ Len(t) = Len(s) + 1
  BY <1>1, <1>2, OneMore
<1> HIDE DEF t
<1>5. q \in Reqs
  BY <1>4 DEF Reqs
<1>6. /\ q.pc = "try" /\ q.tokRoute = o.tokRoute /\ q.scope = o.scope /\ q.tried = t
      /\ q.writes = o.writes /\ q.logs = o.logs /\ q.streamed = o.streamed
  BY DEF Reqs
<1> HIDE DEF q
<1>7. Attempting(q, c)
  BY <1>1, <1>3, <1>4, <1>6 DEF Attempting
<1>8. q.writes = 0 /\ ~q.streamed
  BY <1>1, <1>6
<1>9. Good(q, c)
  BY <1>1, <1>6, <1>7, <1>8 DEF Good
<1> QED BY <1>5, <1>9 DEF q, t, s, x

LEMMA JudgeGood ==
    ASSUME Inv, NEW r \in Requests, Judge(r)
    PROVE  Inv'
<1> DEFINE o == req[r]
           c == call[r]
           p == [o EXCEPT !.tried = Append(o.tried, o.last)]
<1>0. o \in Reqs /\ c \in Calls /\ Good(o, c) /\ req \in [Requests -> Reqs]
  BY InvParts DEF Inv, ProxyTypeOK
<1>1. /\ o.pc = "judge" /\ shouldFallback(o.last) /\ UNCHANGED <<routerVars, saverUp>>
      /\ req' = [req EXCEPT ![r] = IF MoreToTry(r) THEN [p EXCEPT !.pc = "try"]
                                   ELSE Answer(p, o.last, TRUE)]
  BY DEF Judge
<1>2. CASE MoreToTry(r)
  <2> DEFINE q == [o EXCEPT !.tried = Append(o.tried, o.last), !.pc = "try"]
  <2>1. RouteCfg[c.route].mode = "fallback" /\ Len(o.tried) + 1 < Len(c.cands)
    BY <1>2 DEF MoreToTry
  <2>2. q \in Reqs /\ Good(q, c)
    BY <1>0, <1>1, <2>1, NextModel
  <2>3. [p EXCEPT !.pc = "try"] = q
    BY <1>0 DEF Reqs
  <2>4. req' = [req EXCEPT ![r] = q]
    BY <1>1, <1>2, <2>3
  <2> HIDE DEF q
  <2> QED BY <1>1, <2>2, <2>4, ReqOnly
<1>3. CASE ~MoreToTry(r)
  <2> DEFINE q == Answer(p, o.last, TRUE)
  <2>1. RouteCfg[c.route].mode # "fallback" \/ ~(Len(o.tried) + 1 < Len(c.cands))
    BY <1>3 DEF MoreToTry
  <2>2. q \in Reqs /\ Good(q, c)
    BY <1>0, <1>1, <2>1, Answers
  <2>3. req' = [req EXCEPT ![r] = q]
    BY <1>1, <1>3
  <2> HIDE DEF q
  <2> QED BY <1>1, <2>2, <2>3, ReqOnly
<1> QED BY <1>2, <1>3

LEMMA ReuseGood ==
    ASSUME Inv, NEW r \in Requests, Reuse(r)
    PROVE  Inv'
<1>0. /\ TypeInv /\ call \in [Requests -> Calls] /\ counters \in [Routes -> 0 .. CounterMod - 1]
  BY DEF Inv, TypeInv, RouterTypeOK
<1>1. /\ req' = [req EXCEPT ![r] = NoReq] /\ call' = [call EXCEPT ![r] = NoCall]
      /\ UNCHANGED <<counters, saverUp>>
  BY DEF Reuse
<1>2. call'[r] = NoCall /\ \A s \in Requests \ {r} : call'[s] = call[s]
  BY <1>0, <1>1
<1>3. TypeInv'
  BY <1>0, <1>1, NoCallType, CallWrite
<1>4. Good(NoReq, call'[r])
  BY <1>2, Idle, NoCallType DEF Good
<1> QED BY <1>1, <1>2, <1>3, <1>4, Idle, ReqWrite

LEMMA ClientLeavesGood ==
    ASSUME Inv, NEW r \in Requests, ClientLeaves(r)
    PROVE  Inv'
<1> DEFINE o == req[r]
           c == call[r]
           q == [o EXCEPT !.gone = TRUE]
<1>0. o \in Reqs /\ Good(o, c) /\ req \in [Requests -> Reqs]
  BY InvParts DEF Inv, ProxyTypeOK
<1>1. /\ UNCHANGED <<routerVars, saverUp>> /\ req' = [req EXCEPT ![r] = q]
      /\ o.pc \in {"try", "sent", "streaming", "judge"}
  BY <1>0 DEF ClientLeaves
<1>2. q \in Reqs
  BY <1>0 DEF Reqs
<1>3. /\ q.pc = o.pc /\ q.tokRoute = o.tokRoute /\ q.scope = o.scope /\ q.last = o.last
      /\ q.tried = o.tried /\ q.answer = o.answer /\ q.streamed = o.streamed
      /\ q.writes = o.writes /\ q.logs = o.logs
  BY <1>0 DEF Reqs
<1> HIDE DEF q, o, c
<1>4. Good(q, c)
  BY <1>0, <1>1, <1>3 DEF Good, Attempting
<1> QED BY <1>1, <1>2, <1>4, ReqOnly DEF c

LEMMA HandlerGood ==
    ASSUME Inv, NEW r \in Requests, Handler(r)
    PROVE  Inv'
<1>1. CASE Look(r) \/ NotRouted(r)
  BY <1>1, LookGood, NotRoutedGood
<1>2. CASE \E bodyRead \in BOOLEAN : Prepare(r, bodyRead)
  BY <1>2, PrepareGood
<1>3. CASE Try(r) \/ UpstreamError(r)
  BY <1>3, TryGood, UpstreamErrorGood
<1>4. CASE Reply(r)
  <2> PICK reply \in {"ok", "client", "retry"}, sse \in BOOLEAN :
        StreamBegin(r, reply, sse) \/ BufferedReply(r, reply, sse)
    BY <1>4 DEF Reply
  <2> QED BY StreamBeginGood, BufferedReplyGood
<1>5. CASE StreamEnd(r) \/ Deliver(r) \/ Judge(r)
  BY <1>5, StreamEndGood, DeliverGood, JudgeGood
<1> QED BY <1>1, <1>2, <1>3, <1>4, <1>5 DEF Handler

(* Steps that leave every request alone: the savers' and the clock's. *)
LEMMA EnvironmentGood ==
    ASSUME Inv, UNCHANGED <<routerVars, req>>, saverUp' \in [Savers -> BOOLEAN]
    PROVE  Inv'
  BY DEF Inv, routerVars, TypeInv, RouterTypeOK, ScansResolvable, ProxyTypeOK,
         Good, Attempting, Untouched, Finished, Disciplined

LEMMA InvInit == Init => Inv
<1> SUFFICES ASSUME Init PROVE Inv
  OBVIOUS
<1>1. TypeInv /\ req = [r \in Requests |-> NoReq] /\ call = [r \in Requests |-> NoCall]
  BY TypeInit DEF Init, RouterInit
<1>2. ProxyTypeOK
  BY <1>1, Idle DEF Init, ProxyTypeOK
<1>3. Good(NoReq, NoCall)
  BY Idle, NoCallType DEF Good
<1>4. \A r \in Requests : Good(req[r], call[r])
  BY <1>1, <1>3
<1> QED BY <1>1, <1>2, <1>4 DEF Inv

LEMMA InvStep == Inv /\ [Next]_vars => Inv'
<1> SUFFICES ASSUME Inv, [Next]_vars PROVE Inv'
  OBVIOUS
<1>0. saverUp \in [Savers -> BOOLEAN]
  BY DEF Inv, ProxyTypeOK
<1>1. ASSUME NEW r \in Requests, Arrive(r) PROVE Inv'
  BY <1>1, AcceptGood DEF Arrive
<1>2. ASSUME NEW r \in Requests, Handler(r) \/ Reuse(r) \/ ClientLeaves(r) PROVE Inv'
  BY <1>2, HandlerGood, ReuseGood, ClientLeavesGood
<1>3. ASSUME NEW s \in Savers, SaverFlips(s) PROVE Inv'
  BY <1>0, <1>3, EnvironmentGood DEF SaverFlips
<1>4. CASE Clock \/ UNCHANGED vars
  BY <1>0, <1>4, EnvironmentGood DEF Clock, proxyVars, vars
<1> QED BY <1>1, <1>2, <1>3, <1>4 DEF Next

LEMMA InvAlways == Spec => []Inv
  BY InvInit, InvStep, PTL DEF Spec

-----------------------------------------------------------------------------
(* Theorems. *)

(* Type correctness of the request records: every attempt that is judged   *)
(* has an outcome, on every path through tryUpstream.                      *)
THEOREM ProxyTypeCorrect == Spec => []ProxyTypeOK
<1>1. Inv => ProxyTypeOK
  BY DEF Inv
<1> QED BY <1>1, InvAlways, PTL

(* The attempt loop retries failures only, in fallback mode only, and      *)
(* gives up only when the try-order is exhausted - for every route table,  *)
(* every number of concurrent requests and whatever upstreams do.          *)
THEOREM RetryAlwaysDisciplined == Spec => []RetryDiscipline
<1>1. Inv => RetryDiscipline
  BY InvParts DEF RetryDiscipline, FallbackRoute, Good, Finished, Disciplined
<1> QED BY <1>1, InvAlways, PTL

(* Every attempt is on the route and a model the token is bound to. *)
THEOREM AttemptsAlwaysInScope == Spec => []AttemptsInScope
<1>1. Inv => AttemptsInScope
  <2> SUFFICES ASSUME Inv, NEW r \in Requests, req[r].pc \in {"try", "sent", "streaming", "judge"}
               PROVE  /\ req[r].tokRoute # "" => call[r].route = req[r].tokRoute
                      /\ req[r].scope # {} => Current(r) \in req[r].scope
    BY DEF AttemptsInScope
  <2> DEFINE s == req[r].tried
             ms == call[r].cands
  <2>1. /\ s \in Seq(Outcomes) /\ ms \in Seq(Models) /\ Attempting(req[r], call[r])
        /\ req[r].tokRoute # "" => call[r].route = req[r].tokRoute
    BY InvParts DEF Good
  <2>2. /\ Len(s) < Len(ms)
        /\ req[r].scope # {} => \A i \in DOMAIN ms : ms[i] \in req[r].scope
    BY <2>1 DEF Attempting
  <2>3. Current(r) = ms[Len(s) + 1]
    BY DEF Current
  <2> HIDE DEF s, ms
  <2>4. Len(s) + 1 \in DOMAIN ms
    <3>1. Len(s) \in Nat /\ Len(ms) \in Nat /\ DOMAIN ms = 1 .. Len(ms)
      BY <2>1, LenProperties
    <3> QED BY <2>2, <3>1
  <2> QED BY <2>1, <2>2, <2>3, <2>4
<1> QED BY <1>1, InvAlways, PTL

(* A request for which a model was tried leaves exactly one activity row.  *)
THEOREM TriedAlwaysLoggedOnce == Spec => []TriedIsLoggedOnce
<1>1. Inv => TriedIsLoggedOnce
  <2> SUFFICES ASSUME Inv, NEW r \in Requests, req[r].pc = "done"
               PROVE  (req[r].tried # <<>> => req[r].logs = 1) /\ req[r].logs <= 1
    BY DEF TriedIsLoggedOnce
  <2>1. req[r].logs \in {0, 1} /\ (req[r].tried # <<>> => req[r].logs = 1)
    BY InvParts DEF Good, Finished
  <2> QED BY <2>1
<1> QED BY <1>1, InvAlways, PTL
-----------------------------------------------------------------------------
(* The abstract life cycle.  Under the invariant the phase of a request is *)
(* a function of where its handler is.                                     *)
PhaseAt(pc) ==
    IF pc = "idle" THEN "free"
    ELSE IF pc = "done" THEN "closed"
    ELSE IF pc = "streaming" THEN "committed" ELSE "open"

LEMMA PhaseIsPlace ==
    ASSUME Inv, NEW r \in Requests
    PROVE  Phase(r) = PhaseAt(req[r].pc)
<1> DEFINE q == req[r]
<1>1. /\ q.pc \in {"idle", "routing", "try", "sent", "streaming", "judge", "done"}
      /\ q.pc = "done" => q.writes = 1
      /\ q.pc \in {"routing", "try", "sent", "judge"} => q.writes = 0
  BY InvParts DEF Reqs, Good, Finished, Untouched
<1> HIDE DEF q
<1>2. CASE q.pc = "idle"
  BY <1>2 DEF Phase, PhaseAt, q
<1>3. CASE q.pc = "done"
  BY <1>1, <1>3 DEF Phase, PhaseAt, q
<1>4. CASE q.pc = "streaming"
  BY <1>4 DEF Phase, PhaseAt, q
<1>5. CASE q.pc \in {"routing", "try", "sent", "judge"}
  BY <1>1, <1>5 DEF Phase, PhaseAt, q
<1> QED BY <1>1, <1>2, <1>3, <1>4, <1>5

(* What the abstract machine allows: a request is taken, committed and     *)
(* closed in this order, or closed at once, and then its slot is free.     *)
Edge(a, b) ==
    \/ a = b
    \/ a = "free" /\ b = "open"
    \/ a = "open" /\ b \in {"committed", "closed"}
    \/ a = "committed" /\ b = "closed"
    \/ a = "closed" /\ b = "free"

LEMMA StepIsEdge ==
    ASSUME Inv, NEW r \in Requests, Arrive(r) \/ Handler(r) \/ Reuse(r) \/ ClientLeaves(r)
    PROVE  /\ Edge(PhaseAt(req[r].pc), PhaseAt(req'[r].pc))
           /\ \A s \in Requests \ {r} : req'[s] = req[s]
<1>0. req[r] \in Reqs /\ req \in [Requests -> Reqs]
  BY InvParts DEF Inv, ProxyTypeOK
<1>1. ASSUME NEW what, NEW logged, NEW p \in Reqs
      PROVE  Answer(p, what, logged).pc = "done"
  BY DEF Answer, Reqs
<1>2. CASE Arrive(r)
  BY <1>0, <1>2 DEF Arrive, Accept, NoReq, Edge, PhaseAt
<1>3. CASE Look(r)
  BY <1>3 DEF Look, Edge
<1>4. CASE NotRouted(r)
  <2>1. req[r].pc = "routing" /\ req'[r].pc = "done"
    BY <1>0, <1>1, <1>4 DEF NotRouted
  <2> QED BY <1>0, <1>4, <2>1 DEF NotRouted, Edge, PhaseAt
<1>5. CASE \E bodyRead \in BOOLEAN : Prepare(r, bodyRead)
  <2> PICK bodyRead \in BOOLEAN : Prepare(r, bodyRead)
    BY <1>5
  <2>1. \/ req' = [req EXCEPT ![r] = Answer(req[r], "scope_error", FALSE)]
        \/ req' = [req EXCEPT ![r] = Answer(req[r], "bad_body", FALSE)]
        \/ req' = [req EXCEPT ![r] = [req[r] EXCEPT !.pc = "try"]]
    BY DEF Prepare
  <2>2. req[r].pc = "routing"
    BY DEF Prepare
  <2>3. [req[r] EXCEPT !.pc = "try"].pc = "try"
    BY <1>0 DEF Reqs
  <2> PICK q : req' = [req EXCEPT ![r] = q] /\ q.pc \in {"done", "try"}
    <3> DEFINE x == Answer(req[r], "scope_error", FALSE)
               y == Answer(req[r], "bad_body", FALSE)
               z == [req[r] EXCEPT !.pc = "try"]
    <3>1. x.pc = "done" /\ y.pc = "done" /\ z.pc = "try"
      BY <1>0, <1>1, <2>3
    <3> HIDE DEF x, y, z
    <3>2. \/ req' = [req EXCEPT ![r] = x]
          \/ req' = [req EXCEPT ![r] = y]
          \/ req' = [req EXCEPT ![r] = z]
      BY <2>1 DEF x, y, z
    <3> QED BY <3>1, <3>2
  <2>4. req'[r].pc \in {"done", "try"} /\ \A s \in Requests \ {r} : req'[s] = req[s]
    BY <1>0
  <2> QED BY <2>2, <2>4 DEF Edge, PhaseAt
<1>6. CASE Try(r)
  <2>1. /\ req[r].pc = "try" /\ req'[r].pc \in {"sent", "judge"}
        /\ \A s \in Requests \ {r} : req'[s] = req[s]
    BY <1>0, <1>6 DEF Try, Reqs
  <2> QED BY <2>1 DEF Edge, PhaseAt
<1>7. CASE UpstreamError(r)
  <2>1. /\ req[r].pc = "sent" /\ req'[r].pc = "judge"
        /\ \A s \in Requests \ {r} : req'[s] = req[s]
    BY <1>0, <1>7 DEF UpstreamError, Reqs
  <2> QED BY <2>1 DEF Edge, PhaseAt
<1>8. CASE Reply(r)
  <2>1. /\ req[r].pc = "sent" /\ req'[r].pc \in {"streaming", "judge"}
        /\ \A s \in Requests \ {r} : req'[s] = req[s]
    <3> PICK reply \in {"ok", "client", "retry"}, sse \in BOOLEAN :
          StreamBegin(r, reply, sse) \/ BufferedReply(r, reply, sse)
      BY <1>8 DEF Reply
    <3>1. CASE StreamBegin(r, reply, sse)
      BY <1>0, <3>1 DEF StreamBegin, Reqs
    <3>2. CASE BufferedReply(r, reply, sse)
      BY <1>0, <3>2 DEF BufferedReply, Reqs
    <3> QED BY <3>1, <3>2
  <2> QED BY <2>1 DEF Edge, PhaseAt
<1>9. CASE StreamEnd(r)
  <2>1. /\ req[r].pc = "streaming" /\ req'[r].pc = "done"
        /\ \A s \in Requests \ {r} : req'[s] = req[s]
    BY <1>0, <1>9 DEF StreamEnd, Reqs
  <2> QED BY <2>1 DEF Edge, PhaseAt
<1>10. CASE Deliver(r) \/ Judge(r)
  <2> DEFINE p == [req[r] EXCEPT !.tried = Append(req[r].tried, req[r].last)]
  <2>1. req[r].pc = "judge" /\ req[r].last \in Outcomes /\ req[r].tried \in Seq(Outcomes)
    BY <1>10, InvParts DEF Deliver, Judge, Good
  <2>2. p \in Reqs
    BY <1>0, <2>1, OneMore DEF Reqs
  <2>3. \/ req' = [req EXCEPT ![r] = Answer(p, req[r].last, TRUE)]
        \/ req' = [req EXCEPT ![r] = [p EXCEPT !.pc = "try"]]
    BY <1>10 DEF Deliver, Judge
  <2> HIDE DEF p
  <2>4. [p EXCEPT !.pc = "try"].pc = "try"
    BY <2>2 DEF Reqs
  <2> PICK q : req' = [req EXCEPT ![r] = q] /\ q.pc \in {"done", "try"}
    <3> DEFINE x == Answer(p, req[r].last, TRUE)
               z == [p EXCEPT !.pc = "try"]
    <3>1. x.pc = "done" /\ z.pc = "try"
      BY <1>1, <2>2, <2>4
    <3> HIDE DEF x, z
    <3>2. req' = [req EXCEPT ![r] = x] \/ req' = [req EXCEPT ![r] = z]
      BY <2>3 DEF x, z
    <3> QED BY <3>1, <3>2
  <2>5. req'[r].pc \in {"done", "try"} /\ \A s \in Requests \ {r} : req'[s] = req[s]
    BY <1>0
  <2> QED BY <2>1, <2>5 DEF Edge, PhaseAt
<1>11. CASE Reuse(r)
  <2>1. req[r].pc = "done" /\ req' = [req EXCEPT ![r] = NoReq]
    BY <1>11 DEF Reuse
  <2>2. req'[r].pc = "idle" /\ \A s \in Requests \ {r} : req'[s] = req[s]
    BY <1>0, <2>1, Idle
  <2> QED BY <2>1, <2>2 DEF Edge, PhaseAt
<1>12. CASE ClientLeaves(r)
  <2>1. req'[r].pc = req[r].pc /\ \A s \in Requests \ {r} : req'[s] = req[s]
    BY <1>0, <1>12 DEF ClientLeaves, Reqs
  <2> QED BY <2>1 DEF Edge
<1> QED
  BY <1>2, <1>3, <1>4, <1>5, <1>6, <1>7, <1>8, <1>9, <1>10, <1>11, <1>12 DEF Handler

Phases == [r \in Requests |-> Phase(r)]

LEMMA PhasesArePlaces == Inv => Phases = [r \in Requests |-> PhaseAt(req[r].pc)]
  BY PhaseIsPlace DEF Phases

(* One request's edge is a step of the abstract machine, or a stutter. *)
LEMMA EdgeMaps ==
    ASSUME NEW r \in Requests, Edge(PhaseAt(req[r].pc), PhaseAt(req'[r].pc)),
           \A s \in Requests \ {r} : req'[s] = req[s],
           Phases = [s \in Requests |-> PhaseAt(req[s].pc)],
           Phases' = [s \in Requests |-> PhaseAt(req'[s].pc)]
    PROVE  [RL!Next]_Phases
<1> DEFINE a == PhaseAt(req[r].pc)
           b == PhaseAt(req'[r].pc)
<1>1. Phases[r] = a /\ Phases' = [Phases EXCEPT ![r] = b]
  OBVIOUS
<1>2. CASE a = b
  BY <1>2
<1>3. CASE a # b
  <2>1. RL!Next
    BY <1>1, <1>3 DEF Edge, RL!Next, RL!Open, RL!Commit, RL!Close, RL!Free, RL!Move, Phases
  <2> QED BY <2>1
<1> QED BY <1>2, <1>3

LEMMA LifecycleStep ==
    ASSUME Inv, [Next]_vars,
           Phases = [s \in Requests |-> PhaseAt(req[s].pc)],
           (Phases = [s \in Requests |-> PhaseAt(req[s].pc)])'
    PROVE  [RL!Next]_Phases
<1>1. CASE \E r \in Requests : Arrive(r) \/ Handler(r) \/ Reuse(r) \/ ClientLeaves(r)
  BY <1>1, StepIsEdge, EdgeMaps
<1>2. CASE UNCHANGED req
  BY <1>2 DEF Phases, Phase
<1>3. (\E s \in Savers : SaverFlips(s)) \/ Clock \/ UNCHANGED vars => UNCHANGED req
  BY DEF SaverFlips, Clock, proxyVars, vars
<1> QED BY <1>1, <1>2, <1>3 DEF Next

(* The safety half of AnswersOnce, for every number of requests: an answer *)
(* is begun once and completed once, whatever fails on the way.  That it   *)
(* is completed at all needs fairness and is only model-checked.           *)
THEOREM NeverAnsweredTwice == Spec => RL!Safety
<1> DEFINE Placed == Phases = [s \in Requests |-> PhaseAt(req[s].pc)]
<1>1. Init => RL!Init
  <2> SUFFICES ASSUME Init PROVE RL!Init
    OBVIOUS
  <2>1. Inv /\ \A r \in Requests : req[r].pc = "idle"
    BY InvInit, Idle DEF Init
  <2>2. \A r \in Requests : Phase(r) = "free"
    BY <2>1, PhaseIsPlace DEF PhaseAt
  <2> QED BY <2>2 DEF RL!Init
<1>2. Inv => Placed
  BY PhasesArePlaces
<1>3. Inv /\ Placed /\ Placed' /\ [Next]_vars => [RL!Next]_Phases
  BY LifecycleStep
<1>4. [RL!Next]_Phases => [RL!Next]_([r \in Requests |-> Phase(r)])
  BY DEF Phases
<1> HIDE DEF Placed
<1> QED BY <1>1, <1>2, <1>3, <1>4, InvAlways, PTL DEF Spec, RL!Safety
-----------------------------------------------------------------------------
(* A sound model answers.  Without savers and departures, the model with   *)
(* the sound upstream never fails, so the breaker never opens on it, so no *)
(* look of Resolve skips it, so it stays in the try-order, and an attempt  *)
(* that failed was not one of it.                                          *)

Sheltered == ~Departures /\ \A rt \in Routes : ViaOf(rt) = ""

(* The tracker has seen no failure of a model with a sound upstream. *)
AlwaysWell ==
    /\ DOMAIN results = Models /\ DOMAIN brokenFor = Models
    /\ \A m \in Alive : results[m] \in Seq({TRUE}) /\ brokenFor[m] = Past

(* The sound models that a request of scope S may use on a route. *)
Hope(S, rt) == {m \in Alive : S = {} \/ m \in S} \cap RangeOf(ModelsOf(rt))

(* What SoundModelAnswers says of a request that is done. *)
Served(q, c) ==
    /\ ~q.streamed /\ q.answer \notin {"route_error", "bad_body"}
    /\ RouteCfg[c.route].mode = "fallback" /\ Hope(q.scope, c.route) # {}
    => q.answer \in {"ok", "client"}

Confident(q, c) ==
    /\ ~q.gone /\ q.hop # "saver"
    /\ q.pc = "routing" => HealthCall(c, Alive, {})
    /\ q.pc \in {"try", "sent", "streaming", "judge"} =>
         /\ c.pc = "resolved"
         /\ RouteCfg[c.route].mode = "fallback" => Hope(q.scope, c.route) \subseteq RangeOf(c.cands)
         /\ \A k \in 1 .. Len(q.tried) : c.cands[k] \notin Alive
    /\ q.pc \in {"streaming", "judge"} /\ c.cands[Len(q.tried) + 1] \in Alive => q.last = "ok"
    /\ q.pc = "done" => Served(q, c)

SoundInv == AlwaysWell /\ \A r \in Requests : Confident(req[r], call[r])

LEMMA AliveModels == Alive \subseteq Models /\ Unresolved \cap Alive = {}
  BY ProxyAssumption

LEMMA TrimKeeps ==
    ASSUME NEW S, NEW t \in Seq(S)
    PROVE  Trim(t) \in Seq(S)
<1>0. Window \in Nat \ {0}
  BY BreakerAssumption DEF Window
<1>1. CASE Len(t) > Window
  <2>1. Len(t) \in Nat /\ Len(t) - Window + 1 \in 1 .. Len(t) + 1
    BY <1>0, <1>1, LenProperties
  <2>2. SubSeq(t, Len(t) - Window + 1, Len(t)) \in Seq(S)
    BY <2>1, SubSeqProperties
  <2> QED BY <1>1, <2>2 DEF Trim
<1>2. CASE ~(Len(t) > Window)
  BY <1>2 DEF Trim
<1> QED BY <1>1, <1>2

(* A window of successes does not trip: the threshold is positive. *)
LEMMA SuccessesDoNotTrip ==
    ASSUME NEW s \in Seq({TRUE})
    PROVE  /\ Trim(Append(s, TRUE)) \in Seq({TRUE})
           /\ ~Trips(Trim(Append(s, TRUE)))
<1>0. Window \in Nat \ {0} /\ MinReq \in Nat \ {0} /\ ErrNum \in Nat \ {0} /\ ErrDen \in Nat \ {0}
  BY BreakerAssumption DEF Window, MinReq, ErrNum, ErrDen
<1>1. ASSUME NEW t \in Seq({TRUE}) PROVE ~Trips(t)
  <2>1. Len(t) \in Nat /\ \A i \in DOMAIN t : t[i] \in {TRUE}
    <3> DEFINE S == {TRUE}
    <3> HIDE DEF S
    <3>1. t \in Seq(S)
      BY <1>1 DEF S
    <3>2. Len(t) \in Nat /\ DOMAIN t = 1 .. Len(t) /\ \A i \in 1 .. Len(t) : t[i] \in S
      BY <3>1, LenProperties, ElementOfSeq
    <3> QED BY <3>2 DEF S
  <2>2. Fails(t) = 0
    <3>1. {i \in DOMAIN t : ~t[i]} = {}
      BY <2>1
    <3> QED BY <3>1, FS_EmptySet DEF Fails
  <2> DEFINE n == Len(t)
  <2>3. \A a, b \in Nat \ {0} : a * b > 0
    OBVIOUS
  <2>4. n >= MinReq => ~(0 * ErrDen >= ErrNum * n)
    <3> HIDE DEF n
    <3> SUFFICES ASSUME n >= MinReq PROVE ~(0 * ErrDen >= ErrNum * n)
      OBVIOUS
    <3>1. n \in Nat \ {0}
      BY <1>0, <2>1 DEF n
    <3>2. ErrNum * n > 0 /\ ErrNum * n \in Nat
      BY <1>0, <2>3, <3>1
    <3>3. 0 * ErrDen = 0
      BY <1>0
    <3> QED BY <3>2, <3>3
  <2> QED BY <2>2, <2>4 DEF Trips, AtThreshold
<1>2. Append(s, TRUE) \in Seq({TRUE})
  BY AppendProperties
<1> QED BY <1>1, <1>2, TrimKeeps

(* The tracker learns of an attempt of any model, or of a success. *)
LEMMA WellRecord ==
    ASSUME AlwaysWell, NEW m, NEW success \in BOOLEAN, Record(m, success), m \in Alive => success = TRUE
    PROVE  AlwaysWell'
<1> DEFINE rs    == Trim(Append(results[m], success))
           until == Deadline(m, rs)
           left  == IF Clears(success, until) THEN Past ELSE until
<1>1. results' = [results EXCEPT ![m] = rs] /\ brokenFor' = [brokenFor EXCEPT ![m] = left]
  BY DEF Record
<1>2. m \in Alive => rs \in Seq({TRUE}) /\ left = Past
  <2> SUFFICES ASSUME m \in Alive PROVE rs \in Seq({TRUE}) /\ left = Past
    OBVIOUS
  <2>1. rs \in Seq({TRUE}) /\ ~Trips(rs)
    BY SuccessesDoNotTrip DEF AlwaysWell
  <2>2. until = Past
    BY <2>1 DEF Deadline, AlwaysWell
  <2> QED BY <2>1, <2>2
<1> HIDE DEF rs, left
<1>3. DOMAIN results' = Models /\ DOMAIN brokenFor' = Models
  BY <1>1 DEF AlwaysWell
<1>4. ASSUME NEW a \in Alive PROVE results'[a] \in Seq({TRUE}) /\ brokenFor'[a] = Past
  <2>1. /\ a \in DOMAIN results /\ a \in DOMAIN brokenFor
        /\ results[a] \in Seq({TRUE}) /\ brokenFor[a] = Past
    BY AliveModels DEF AlwaysWell
  <2>2. CASE a = m
    BY <1>1, <1>2, <2>1, <2>2
  <2>3. CASE a # m
    BY <1>1, <2>1, <2>3
  <2> QED BY <2>2, <2>3
<1> QED BY <1>3, <1>4 DEF AlwaysWell

LEMMA WellTick == ASSUME AlwaysWell, Tick PROVE AlwaysWell'
  BY AliveModels DEF AlwaysWell, Tick

LEMMA WellQuiet == ASSUME AlwaysWell, UNCHANGED breakerVars PROVE AlwaysWell'
  BY DEF AlwaysWell, breakerVars

LEMMA NoneBroken == AlwaysWell => Alive \ BrokenModels = Alive
  BY DEF AlwaysWell, BrokenModels, IsBroken, Past

(* A step of one request: what is known of the others is not touched. *)
LEMMA SoundWrite ==
    ASSUME Inv, SoundInv, NEW r \in Requests, NEW q, AlwaysWell', Confident(q, call'[r]),
           \A s \in Requests \ {r} : call'[s] = call[s],
           req' = [req EXCEPT ![r] = q]
    PROVE  SoundInv'
<1>1. req \in [Requests -> Reqs]
  BY DEF Inv, ProxyTypeOK
<1>2. ASSUME NEW s \in Requests PROVE Confident(req'[s], call'[s])
  <2>1. CASE s = r
    BY <1>1, <2>1
  <2>2. CASE s # r
    <3>1. req'[s] = req[s] /\ call'[s] = call[s]
      BY <1>1, <2>2
    <3>2. Confident(req[s], call[s])
      BY DEF SoundInv
    <3> QED BY <3>1, <3>2
  <2> QED BY <2>1, <2>2
<1>3. \A s \in Requests : Confident(req'[s], call'[s])
  BY <1>2
<1> QED BY <1>3 DEF SoundInv, Confident, Served, HealthCall, Looked, Passed, Sound, Hope

LEMMA SoundReq ==
    ASSUME Inv, SoundInv, NEW r \in Requests, NEW q, AlwaysWell', Confident(q, call[r]),
           UNCHANGED routerVars, req' = [req EXCEPT ![r] = q]
    PROVE  SoundInv'
<1>1. call' = call
  BY DEF routerVars
<1>2. Confident(q, call'[r]) /\ \A s \in Requests \ {r} : call'[s] = call[s]
  BY <1>1
<1> QED BY <1>2, SoundWrite

LEMMA SoundParts ==
    ASSUME Inv, SoundInv, NEW r \in Requests
    PROVE  /\ req[r] \in Reqs /\ call[r] \in Calls /\ Good(req[r], call[r])
           /\ call[r].cands \in Seq(Models) /\ req[r].tried \in Seq(Outcomes)
           /\ Confident(req[r], call[r]) /\ AlwaysWell
           /\ req \in [Requests -> Reqs] /\ call \in [Requests -> Calls] /\ TypeInv
  BY InvParts DEF SoundInv, Inv, ProxyTypeOK, TypeInv, RouterTypeOK

LEMMA AcceptSound ==
    ASSUME Inv, SoundInv, NEW r \in Requests, NEW tok \in TokenRoutes, NEW header \in Headers,
           NEW scope \in Scopes, NEW stream \in BOOLEAN, Accept(r, tok, header, scope, stream)
    PROVE  SoundInv'
<1> DEFINE name == ChosenRoute(tok, header)
           q == [NoReq EXCEPT !.pc = "routing", !.tokRoute = tok, !.scope = scope, !.stream = stream]
<1>1. /\ req' = [req EXCEPT ![r] = q] /\ Resolve(r, name) /\ TypeInv /\ UNCHANGED breakerVars
  BY DEF Accept, Inv
<1>2. name \in RouteNames
  BY ChosenRouteNamed
<1>3. q.pc = "routing" /\ ~q.gone /\ q.hop = ""
  BY DEF NoReq
<1> HIDE DEF name, q
<1>4. HealthCall(call'[r], Alive, {}) /\ \A s \in Requests \ {r} : call'[s] = call[s]
  BY <1>1, <1>2, ResolveHealthy, ResolveCall
<1>5. Confident(q, call'[r])
  BY <1>3, <1>4 DEF Confident
<1>6. AlwaysWell'
  BY <1>1, WellQuiet DEF SoundInv
<1> QED BY <1>1, <1>4, <1>5, <1>6, SoundWrite

LEMMA LookSound ==
    ASSUME Inv, SoundInv, NEW r \in Requests, Look(r)
    PROVE  SoundInv'
<1>0. /\ TypeInv /\ Good(req[r], call[r]) /\ Confident(req[r], call[r]) /\ AlwaysWell
      /\ req \in [Requests -> Reqs] /\ call \in [Requests -> Calls]
      /\ UNCHANGED <<breakerVars, req>> /\ (ScanFallback(r) \/ ScanRound(r))
  BY SoundParts DEF Look
<1>1. call[r].pc = "scan" /\ \A s \in Requests \ {r} : call'[s] = call[s]
  <2>1. \E c : call' = [call EXCEPT ![r] = c]
    BY <1>0 DEF ScanFallback, ScanRound
  <2> QED BY <1>0, <2>1 DEF ScanFallback, ScanRound
<1>2. req[r].pc = "routing"
  BY <1>0, <1>1 DEF Good
<1>3. HealthCall(call[r], Alive, {})
  BY <1>0, <1>2 DEF Confident
<1>4. HealthCall(call'[r], Alive \ BrokenModels, {} \cap BrokenModels)
  BY <1>0, <1>3, ScanFallbackHealthy, ScanRoundHealthy
<1>5. Alive \ BrokenModels = Alive /\ {} \cap BrokenModels = {}
  BY <1>0, NoneBroken
<1>6. HealthCall(call'[r], Alive, {})
  BY <1>4, <1>5
<1>7. Confident(req[r], call'[r])
  BY <1>0, <1>2, <1>6 DEF Confident
<1>8. req' = [req EXCEPT ![r] = req[r]] /\ AlwaysWell'
  BY <1>0, WellQuiet
<1> QED BY <1>1, <1>7, <1>8, SoundWrite

(* An answer that ends a request. *)
LEMMA AnswerSound ==
    ASSUME NEW o \in Reqs, ~o.gone, o.hop # "saver", NEW c, NEW what, NEW logged \in BOOLEAN,
           \/ o.streamed
           \/ what \in {"route_error", "bad_body", "ok", "client"}
           \/ RouteCfg[c.route].mode = "fallback" => Hope(o.scope, c.route) = {}
    PROVE  Confident(Answer(o, what, logged), c)
<1> DEFINE w == o.writes + 1
           n == Logged(o, logged)
           q == Answer(o, what, logged)
<1>1. q = [o EXCEPT !.pc = "done", !.answer = what, !.writes = w, !.logs = n]
  BY DEF Answer
<1> HIDE DEF w, n, q
<1>2. /\ q.pc = "done" /\ q.answer = what /\ q.gone = o.gone /\ q.hop = o.hop
      /\ q.streamed = o.streamed /\ q.scope = o.scope
  BY <1>1 DEF Reqs
<1>3. Served(q, c)
  BY <1>2 DEF Served
<1>4. Confident(q, c)
  BY <1>2, <1>3 DEF Confident
<1> QED BY <1>4 DEF q

LEMMA NotRoutedSound ==
    ASSUME Inv, SoundInv, NEW r \in Requests, NotRouted(r)
    PROVE  SoundInv'
<1> DEFINE o == req[r]
           q == Answer(o, "route_error", TRUE)
<1>1. /\ req' = [req EXCEPT ![r] = q] /\ UNCHANGED <<breakerVars, routerVars>>
  BY DEF NotRouted
<1>2. o \in Reqs /\ ~o.gone /\ o.hop # "saver" /\ AlwaysWell'
  BY <1>1, SoundParts, WellQuiet DEF Confident
<1>3. Confident(q, call[r])
  BY <1>2, AnswerSound
<1> HIDE DEF q
<1> QED BY <1>1, <1>2, <1>3, SoundReq

(* The spelling that the attempt loop knows is one that Resolve knows. *)
LEMMA FallbackSpelling ==
    ASSUME NEW rt, RouteCfg[rt].mode = "fallback"
    PROVE  ModeOf(rt) = "fallback"
  BY DEF ModeOf, LowerMode

LEMMA PrepareSound ==
    ASSUME Inv, SoundInv, NEW r \in Requests, NEW bodyRead \in BOOLEAN, Prepare(r, bodyRead)
    PROVE  SoundInv'
<1> DEFINE o == req[r]
           c == call[r]
           models == InScope(c.cands, o.scope)
           d == [c EXCEPT !.cands = models]
<1>0. /\ o.pc = "routing" /\ c.pc = "resolved" /\ o \in Reqs /\ c \in Calls /\ Good(o, c)
      /\ Confident(o, c) /\ c.cands \in Seq(Models)
      /\ req \in [Requests -> Reqs] /\ call \in [Requests -> Calls]
      /\ UNCHANGED breakerVars
  BY SoundParts DEF Prepare
<1>1. AlwaysWell' /\ ~o.gone /\ o.hop # "saver" /\ o.tried = <<>>
  BY <1>0, SoundParts, WellQuiet DEF Confident, Good, Untouched
<1>2. RouteCfg[c.route].mode = "fallback" => Hope(o.scope, c.route) \subseteq RangeOf(models)
  <2> SUFFICES ASSUME RouteCfg[c.route].mode = "fallback", NEW m \in Hope(o.scope, c.route)
               PROVE  m \in RangeOf(models)
    OBVIOUS
  <2>1. Sound(c.route, c.cands, Alive, {}) /\ ModeOf(c.route) = "fallback"
    <3>1. ModeOf(c.route) = "fallback" /\ HealthCall(c, Alive, {})
      BY <1>0, FallbackSpelling DEF Confident
    <3> QED BY <1>0, <3>1 DEF HealthCall
  <2>2. m \in RangeOf(c.cands) /\ (o.scope = {} \/ m \in o.scope)
    BY <2>1 DEF Sound, Hope
  <2> QED BY <1>0, <2>2, InScopeKeeps
<1>3. \/ /\ models = <<>> /\ UNCHANGED call
         /\ req' = [req EXCEPT ![r] = Answer(o, "scope_error", FALSE)]
      \/ /\ call' = [call EXCEPT ![r] = d]
         /\ \/ req' = [req EXCEPT ![r] = [o EXCEPT !.pc = "try"]]
            \/ req' = [req EXCEPT ![r] = Answer(o, "bad_body", FALSE)]
  <2>1. CASE models = <<>>
    BY <2>1 DEF Prepare
  <2>2. CASE models # <<>>
    <3>1. /\ call' = [call EXCEPT ![r].cands = models]
          /\ req' = [req EXCEPT ![r] = IF bodyRead THEN [o EXCEPT !.pc = "try"]
                                       ELSE Answer(o, "bad_body", FALSE)]
      BY <2>2 DEF Prepare
    <3>2. call' = [call EXCEPT ![r] = d]
      BY <1>0, <3>1
    <3> QED BY <2>2, <3>1, <3>2
  <2> QED BY <2>1, <2>2
<1> HIDE DEF models
<1>4. d.pc = "resolved" /\ d.route = c.route /\ d.cands = models
  BY <1>0 DEF Calls
<1> HIDE DEF o, c, d
<1>5. CASE /\ models = <<>> /\ UNCHANGED call
           /\ req' = [req EXCEPT ![r] = Answer(o, "scope_error", FALSE)]
  <2> DEFINE q == Answer(o, "scope_error", FALSE)
  <2>1. RouteCfg[c.route].mode = "fallback" => Hope(o.scope, c.route) = {}
    BY <1>2, <1>5, RangeOfEmpty
  <2>2. Confident(q, c)
    BY <1>0, <1>1, <2>1, AnswerSound
  <2>3. req' = [req EXCEPT ![r] = q]
    BY <1>5
  <2> HIDE DEF q
  <2>4. Confident(q, call'[r]) /\ \A s \in Requests \ {r} : call'[s] = call[s]
    BY <1>5, <2>2 DEF c
  <2> QED BY <1>1, <2>3, <2>4, SoundWrite
<1>6. CASE call' = [call EXCEPT ![r] = d]
  <2>1. call'[r] = d /\ \A s \in Requests \ {r} : call'[s] = call[s]
    BY <1>0, <1>6
  <2>2. CASE req' = [req EXCEPT ![r] = [o EXCEPT !.pc = "try"]]
    <3> DEFINE q == [o EXCEPT !.pc = "try"]
    <3>1. /\ q.pc = "try" /\ q.tried = <<>> /\ q.scope = o.scope /\ ~q.gone /\ q.hop = o.hop
      BY <1>0, <1>1 DEF Reqs
    <3>2. req' = [req EXCEPT ![r] = q]
      BY <2>2
    <3> HIDE DEF q
    <3>3. \A k \in 1 .. Len(q.tried) : d.cands[k] \notin Alive
      <4>1. Len(q.tried) = 0
        BY <3>1
      <4> QED BY <4>1
    <3>4. Confident(q, d)
      BY <1>1, <1>2, <1>4, <3>1, <3>3 DEF Confident
    <3> QED BY <1>1, <2>1, <3>2, <3>4, SoundWrite
  <2>3. CASE req' = [req EXCEPT ![r] = Answer(o, "bad_body", FALSE)]
    <3> DEFINE q == Answer(o, "bad_body", FALSE)
    <3>1. Confident(q, d)
      BY <1>0, <1>1, AnswerSound
    <3>2. req' = [req EXCEPT ![r] = q]
      BY <2>3
    <3> HIDE DEF q
    <3> QED BY <1>1, <2>1, <3>1, <3>2, SoundWrite
  <2> QED BY <1>3, <1>6, <1>5, <2>2, <2>3
<1> QED BY <1>3, <1>5, <1>6

(* Inside the attempt loop: the route resolves, and the attempt's model.   *)
LEMMA AttemptParts ==
    ASSUME Inv, SoundInv, NEW r \in Requests, req[r].pc \in {"try", "sent", "streaming", "judge"}
    PROVE  /\ call[r].pc = "resolved" /\ call[r].route \in Routes
           /\ Current(r) = call[r].cands[Len(req[r].tried) + 1]
           /\ Attempting(req[r], call[r])
           /\ ~req[r].gone /\ req[r].hop # "saver"
<1>1. call[r].pc = "resolved" /\ ~req[r].gone /\ req[r].hop # "saver"
  BY SoundParts DEF Confident
<1>2. call[r].route \in Routes
  BY <1>1, SoundParts DEF TypeInv, ScansResolvable, Resolvable
<1>3. Attempting(req[r], call[r])
  BY SoundParts DEF Good
<1> QED BY <1>1, <1>2, <1>3 DEF Current

(* An attempt gets its hop, or its outcome: a sound model's is a success.  *)
Attempted(r, q) ==
    /\ req[r].pc \in {"try", "sent"} /\ q.pc \in {"sent", "streaming", "judge"}
    /\ q.hop # "saver" /\ q.gone = req[r].gone
    /\ q.tried = req[r].tried /\ q.scope = req[r].scope
    /\ q.pc # "sent" /\ Current(r) \in Alive => q.last = "ok"

LEMMA AttemptSound ==
    ASSUME Inv, SoundInv, NEW r \in Requests, NEW q, Attempted(r, q),
           req' = [req EXCEPT ![r] = q], UNCHANGED routerVars, AlwaysWell'
    PROVE  SoundInv'
<1> DEFINE o == req[r]
           c == call[r]
<1>0. /\ Confident(o, c) /\ c.pc = "resolved" /\ ~o.gone /\ o.pc \in {"try", "sent"}
      /\ q.gone = o.gone /\ q.tried = o.tried /\ q.scope = o.scope /\ q.hop # "saver"
      /\ q.pc \in {"sent", "streaming", "judge"}
  BY SoundParts, AttemptParts DEF Attempted
<1>1. q.pc # "sent" /\ c.cands[Len(o.tried) + 1] \in Alive => q.last = "ok"
  BY AttemptParts DEF Attempted
<1> HIDE DEF o, c
<1>2. Confident(q, c)
  BY <1>0, <1>1 DEF Confident
<1> QED BY <1>2, SoundReq DEF c

LEMMA TrySound ==
    ASSUME Sheltered, Inv, SoundInv, NEW r \in Requests, Try(r)
    PROVE  SoundInv'
<1> DEFINE o    == req[r]
           fail == IF Current(r) \in Unresolved THEN "err" ELSE ""
           pc   == IF fail = "" THEN "sent" ELSE "judge"
<1>0. o \in Reqs /\ req \in [Requests -> Reqs] /\ o.pc = "try" /\ call[r].route \in Routes
  BY SoundParts, AttemptParts DEF Try
<1>1. Hop(call[r].route) = "direct"
  BY <1>0 DEF Hop, Sheltered
<1>2. /\ req' = [req EXCEPT ![r].pc = pc, ![r].hop = "direct", ![r].last = fail]
      /\ UNCHANGED <<breakerVars, routerVars>>
  BY <1>1 DEF Try
<1>3. pc \in {"sent", "streaming", "judge"} /\ (pc # "sent" /\ Current(r) \in Alive => fail = "ok")
  BY AliveModels
<1> HIDE DEF pc, fail
<1> DEFINE q == [o EXCEPT !.pc = pc, !.hop = "direct", !.last = fail]
<1>4. req' = [req EXCEPT ![r] = q]
  BY <1>0, <1>2
<1>5. /\ q.pc = pc /\ q.hop = "direct" /\ q.last = fail
      /\ q.gone = o.gone /\ q.tried = o.tried /\ q.scope = o.scope
  BY <1>0 DEF Reqs
<1>6. AlwaysWell'
  BY <1>2, SoundParts, WellQuiet
<1> HIDE DEF q
<1>7. Attempted(r, q)
  BY <1>0, <1>3, <1>5 DEF Attempted
<1>8. UNCHANGED routerVars
  BY <1>2
<1> HIDE DEF o
<1> QED BY <1>4, <1>6, <1>7, <1>8, AttemptSound

LEMMA UpstreamErrorSound ==
    ASSUME Inv, SoundInv, NEW r \in Requests, UpstreamError(r)
    PROVE  SoundInv'
<1> DEFINE o    == req[r]
           last == IF SaverLost(r) THEN "saver_err" ELSE "err"
<1>0. o \in Reqs /\ req \in [Requests -> Reqs] /\ o.pc = "sent" /\ ~o.gone /\ o.hop # "saver"
  BY SoundParts, AttemptParts DEF UpstreamError
<1>1. Current(r) \notin Alive
  BY <1>0 DEF UpstreamError, SaverLost
<1>2. /\ req' = [req EXCEPT ![r].pc = "judge", ![r].last = last]
      /\ UNCHANGED <<breakerVars, routerVars>>
  BY DEF UpstreamError
<1> HIDE DEF last
<1> DEFINE q == [o EXCEPT !.pc = "judge", !.last = last]
<1>3. req' = [req EXCEPT ![r] = q]
  BY <1>0, <1>2
<1>4. /\ q.pc = "judge" /\ q.last = last
      /\ q.hop = o.hop /\ q.gone = o.gone /\ q.tried = o.tried /\ q.scope = o.scope
  BY <1>0 DEF Reqs
<1>5. AlwaysWell'
  BY <1>2, SoundParts, WellQuiet
<1> HIDE DEF q
<1>7. Attempted(r, q)
  BY <1>0, <1>1, <1>4 DEF Attempted
<1>8. UNCHANGED routerVars
  BY <1>2
<1> HIDE DEF o
<1> QED BY <1>3, <1>5, <1>7, <1>8, AttemptSound

LEMMA StreamBeginSound ==
    ASSUME Inv, SoundInv, NEW r \in Requests, NEW reply \in {"ok", "client", "retry"},
           NEW sse \in BOOLEAN, StreamBegin(r, reply, sse)
    PROVE  SoundInv'
<1> DEFINE o == req[r]
           w == o.writes + 1
<1>0. o \in Reqs /\ req \in [Requests -> Reqs] /\ o.pc = "sent" /\ o.hop # "saver"
  BY SoundParts, AttemptParts DEF StreamBegin
<1>1. Current(r) \in Alive => reply = "ok"
  BY DEF StreamBegin, Replies
<1>2. /\ req' = [req EXCEPT ![r].pc = "streaming", ![r].last = reply, ![r].answer = reply,
                            ![r].streamed = TRUE, ![r].writes = w]
      /\ UNCHANGED <<breakerVars, routerVars>>
  BY DEF StreamBegin
<1> HIDE DEF w
<1> DEFINE q == [o EXCEPT !.pc = "streaming", !.last = reply, !.answer = reply,
                          !.streamed = TRUE, !.writes = w]
<1>3. req' = [req EXCEPT ![r] = q]
  BY <1>0, <1>2
<1>4. /\ q.pc = "streaming" /\ q.last = reply
      /\ q.hop = o.hop /\ q.gone = o.gone /\ q.tried = o.tried /\ q.scope = o.scope
  BY <1>0 DEF Reqs
<1>5. AlwaysWell'
  BY <1>2, SoundParts, WellQuiet
<1> HIDE DEF q
<1>7. Attempted(r, q)
  BY <1>0, <1>1, <1>4 DEF Attempted
<1>8. UNCHANGED routerVars
  BY <1>2
<1> HIDE DEF o
<1> QED BY <1>3, <1>5, <1>7, <1>8, AttemptSound

LEMMA BufferedReplySound ==
    ASSUME Inv, SoundInv, NEW r \in Requests, NEW reply \in {"ok", "client", "retry"},
           NEW sse \in BOOLEAN, BufferedReply(r, reply, sse)
    PROVE  SoundInv'
<1> DEFINE o == req[r]
           x == reply # "retry"
<1>0. /\ o \in Reqs /\ req \in [Requests -> Reqs] /\ o.pc = "sent" /\ o.hop # "saver" /\ AlwaysWell
  BY SoundParts, AttemptParts DEF BufferedReply
<1>1. Current(r) \in Alive => reply = "ok" /\ x = TRUE
  BY DEF BufferedReply, Replies
<1>2. /\ req' = [req EXCEPT ![r].pc = "judge", ![r].last = reply]
      /\ Record(Current(r), x) /\ UNCHANGED routerVars /\ x \in BOOLEAN
  BY DEF BufferedReply
<1> HIDE DEF x
<1> DEFINE q == [o EXCEPT !.pc = "judge", !.last = reply]
<1>3. req' = [req EXCEPT ![r] = q]
  BY <1>0, <1>2
<1>4. /\ q.pc = "judge" /\ q.last = reply
      /\ q.hop = o.hop /\ q.gone = o.gone /\ q.tried = o.tried /\ q.scope = o.scope
  BY <1>0 DEF Reqs
<1>5. AlwaysWell'
  BY <1>0, <1>1, <1>2, WellRecord
<1> HIDE DEF q
<1>7. Attempted(r, q)
  BY <1>0, <1>1, <1>4 DEF Attempted
<1>8. UNCHANGED routerVars
  BY <1>2
<1> HIDE DEF o
<1> QED BY <1>3, <1>5, <1>7, <1>8, AttemptSound

LEMMA StreamEndSound ==
    ASSUME Inv, SoundInv, NEW r \in Requests, StreamEnd(r)
    PROVE  SoundInv'
<1> DEFINE o == req[r]
           c == call[r]
           x == o.last # "retry"
           t == Append(o.tried, o.last)
           n == o.logs + 1
           q == [o EXCEPT !.pc = "done", !.tried = t, !.logs = n]
<1>0. /\ o \in Reqs /\ req \in [Requests -> Reqs] /\ o.pc = "streaming" /\ AlwaysWell
      /\ Good(o, c) /\ Confident(o, c)
  BY SoundParts DEF StreamEnd
<1>1. Current(r) \in Alive => x = TRUE
  BY <1>0, AttemptParts DEF Confident
<1>2. /\ req' = [req EXCEPT ![r].pc = "done", ![r].tried = t, ![r].logs = n]
      /\ Record(Current(r), x) /\ UNCHANGED routerVars /\ x \in BOOLEAN
  BY DEF StreamEnd
<1>3. AlwaysWell'
  <2> HIDE DEF x
  <2> QED BY <1>0, <1>1, <1>2, WellRecord
<1> HIDE DEF t, n
<1>4. req' = [req EXCEPT ![r] = q]
  BY <1>0, <1>2
<1>5. q.pc = "done" /\ q.streamed = o.streamed /\ q.gone = o.gone /\ q.hop = o.hop
  BY <1>0 DEF Reqs
<1> HIDE DEF q
<1>6. Confident(q, c)
  BY <1>0, <1>5 DEF Confident, Served, Good
<1> QED BY <1>2, <1>3, <1>4, <1>6, SoundReq

LEMMA DeliverSound ==
    ASSUME Inv, SoundInv, NEW r \in Requests, Deliver(r)
    PROVE  SoundInv'
<1> DEFINE o == req[r]
           t == Append(o.tried, o.last)
           p == [o EXCEPT !.tried = t]
           q == Answer(p, o.last, TRUE)
<1>0. /\ o \in Reqs /\ o.pc = "judge" /\ ~shouldFallback(o.last) /\ AlwaysWell
      /\ Good(o, call[r]) /\ ~o.gone /\ o.hop # "saver"
  BY SoundParts, AttemptParts DEF Deliver
<1>1. /\ req' = [req EXCEPT ![r] = q] /\ UNCHANGED <<breakerVars, routerVars>>
  BY DEF Deliver
<1>2. o.last \in {"ok", "client"} /\ o.last \in Outcomes /\ o.tried \in Seq(Outcomes)
  BY <1>0 DEF Good, Outcomes, shouldFallback, Reqs
<1>3. t \in Seq(Outcomes)
  BY <1>2, OneMore
<1> HIDE DEF t
<1>4. p \in Reqs /\ p.gone = o.gone /\ p.hop = o.hop
  BY <1>0, <1>3 DEF Reqs
<1> HIDE DEF p
<1>5. Confident(q, call[r])
  BY <1>0, <1>2, <1>4, AnswerSound
<1>6. AlwaysWell'
  BY <1>0, <1>1, WellQuiet
<1> HIDE DEF q
<1> QED BY <1>1, <1>5, <1>6, SoundReq

(* A failure: its model is not sound, and what is left still holds all the *)
(* sound ones; if nothing is left, there was none.                         *)
LEMMA JudgeSound ==
    ASSUME Inv, SoundInv, NEW r \in Requests, Judge(r)
    PROVE  SoundInv'
<1> DEFINE o == req[r]
           c == call[r]
           n == Len(o.tried) + 1
           t == Append(o.tried, o.last)
           p == [o EXCEPT !.tried = t]
           v == [p EXCEPT !.pc = "try"]
           a == Answer(p, o.last, TRUE)
<1>0. /\ o \in Reqs /\ Confident(o, c) /\ Attempting(o, c) /\ Good(o, c)
      /\ c.cands \in Seq(Models) /\ o.tried \in Seq(Outcomes) /\ AlwaysWell
      /\ o.pc = "judge" /\ shouldFallback(o.last)
      /\ ~o.gone /\ o.hop # "saver" /\ c.pc = "resolved"
  BY SoundParts, AttemptParts DEF Judge
<1>1. Current(r) = c.cands[n] /\ Current(r) \notin Alive
  <2>1. Current(r) = c.cands[n]
    BY <1>0, AttemptParts
  <2>2. o.last # "ok"
    BY <1>0 DEF shouldFallback
  <2> QED BY <1>0, <2>1, <2>2 DEF Confident
<1>2. /\ req' = [req EXCEPT ![r] = IF MoreToTry(r) THEN v ELSE a]
      /\ Record(Current(r), FALSE) /\ UNCHANGED routerVars
  BY DEF Judge
<1>3. AlwaysWell'
  BY <1>0, <1>1, <1>2, WellRecord
<1>4. o.last \in Outcomes
  BY <1>0 DEF shouldFallback, Outcomes
<1>5. t \in Seq(Outcomes) /\ Len(t) = n /\ Len(o.tried) \in Nat
  BY <1>0, <1>4, OneMore
<1>6. \A k \in 1 .. n : c.cands[k] \notin Alive
  <2>1. \A k \in 1 .. Len(o.tried) : c.cands[k] \notin Alive
    BY <1>0 DEF Confident
  <2>2. \A k \in 1 .. n : k \in 1 .. Len(o.tried) \/ k = n
    BY <1>5
  <2> QED BY <1>1, <2>1, <2>2
<1>7. n <= Len(c.cands) /\ Len(c.cands) \in Nat /\ DOMAIN c.cands = 1 .. Len(c.cands)
  BY <1>0, <1>5, LenProperties DEF Attempting
<1>8. RouteCfg[c.route].mode = "fallback" => Hope(o.scope, c.route) \subseteq RangeOf(c.cands)
  BY <1>0 DEF Confident
<1> HIDE DEF t
<1>9. p \in Reqs /\ p.tried = t /\ p.gone = o.gone /\ p.hop = o.hop /\ p.scope = o.scope
  BY <1>0, <1>5 DEF Reqs
<1> HIDE DEF p
<1>10. CASE MoreToTry(r)
  <2>1. /\ v.pc = "try" /\ v.tried = t /\ v.gone = o.gone /\ v.hop = o.hop /\ v.scope = o.scope
    BY <1>9 DEF Reqs
  <2>2. req' = [req EXCEPT ![r] = v]
    BY <1>2, <1>10
  <2> HIDE DEF v
  <2>3. \A k \in 1 .. Len(v.tried) : c.cands[k] \notin Alive
    BY <1>5, <1>6, <2>1
  <2>4. v.pc = "try" /\ ~v.gone /\ v.hop # "saver"
    BY <1>0, <2>1
  <2>5. RouteCfg[c.route].mode = "fallback" => Hope(v.scope, c.route) \subseteq RangeOf(c.cands)
    BY <1>8, <2>1
  <2>6. c.pc = "resolved"
    BY <1>0
  <2> HIDE DEF c
  <2>7. Confident(v, c)
    BY <2>3, <2>4, <2>5, <2>6 DEF Confident
  <2>8. UNCHANGED routerVars
    BY <1>2
  <2> QED BY <1>3, <2>2, <2>7, <2>8, SoundReq DEF c
<1>11. CASE ~MoreToTry(r)
  <2>1. RouteCfg[c.route].mode = "fallback" => Hope(p.scope, c.route) = {}
    <3> SUFFICES ASSUME RouteCfg[c.route].mode = "fallback", NEW m \in Hope(p.scope, c.route)
                 PROVE  FALSE
      OBVIOUS
    <3>1. n = Len(c.cands)
      <4>1. ~(n < Len(c.cands))
        BY <1>11 DEF MoreToTry
      <4> QED BY <1>5, <1>7, <4>1
    <3>2. m \in RangeOf(c.cands) /\ m \in Alive
      BY <1>8, <1>9 DEF Hope
    <3>3. PICK k \in 1 .. Len(c.cands) : m = c.cands[k]
      BY <1>7, <3>2 DEF RangeOf
    <3> QED BY <1>6, <3>1, <3>2, <3>3
  <2>2. ~p.gone /\ p.hop # "saver"
    BY <1>0, <1>9
  <2>3. Confident(a, c)
    BY <1>9, <2>1, <2>2, AnswerSound
  <2>4. req' = [req EXCEPT ![r] = a]
    BY <1>2, <1>11
  <2>5. UNCHANGED routerVars
    BY <1>2
  <2> HIDE DEF a
  <2> QED BY <1>3, <2>3, <2>4, <2>5, SoundReq
<1> QED BY <1>10, <1>11

LEMMA ReuseSound ==
    ASSUME Inv, SoundInv, NEW r \in Requests, Reuse(r)
    PROVE  SoundInv'
<1>1. /\ req' = [req EXCEPT ![r] = NoReq] /\ call' = [call EXCEPT ![r] = NoCall]
      /\ UNCHANGED breakerVars /\ call \in [Requests -> Calls]
  BY SoundParts DEF Reuse
<1>2. Confident(NoReq, call'[r])
  BY DEF NoReq, Confident
<1>3. AlwaysWell'
  BY <1>1, SoundParts, WellQuiet
<1>4. \A s \in Requests \ {r} : call'[s] = call[s]
  BY <1>1
<1> QED BY <1>1, <1>2, <1>3, <1>4, SoundWrite

LEMMA HandlerSound ==
    ASSUME Sheltered, Inv, SoundInv, NEW r \in Requests, Handler(r)
    PROVE  SoundInv'
<1>1. CASE Look(r) \/ NotRouted(r)
  BY <1>1, LookSound, NotRoutedSound
<1>2. CASE \E bodyRead \in BOOLEAN : Prepare(r, bodyRead)
  BY <1>2, PrepareSound
<1>3. CASE Try(r) \/ UpstreamError(r)
  BY <1>3, TrySound, UpstreamErrorSound
<1>4. CASE Reply(r)
  <2> PICK reply \in {"ok", "client", "retry"}, sse \in BOOLEAN :
        StreamBegin(r, reply, sse) \/ BufferedReply(r, reply, sse)
    BY <1>4 DEF Reply
  <2> QED BY StreamBeginSound, BufferedReplySound
<1>5. CASE StreamEnd(r) \/ Deliver(r) \/ Judge(r)
  BY <1>5, StreamEndSound, DeliverSound, JudgeSound
<1> QED BY <1>1, <1>2, <1>3, <1>4, <1>5 DEF Handler

(* Steps that leave every request alone. *)
LEMMA EnvironmentSound ==
    ASSUME SoundInv, UNCHANGED <<routerVars, req>>, AlwaysWell'
    PROVE  SoundInv'
<1>1. \A r \in Requests : Confident(req[r], call[r])
  BY DEF SoundInv
<1>2. req' = req /\ call' = call
  BY DEF routerVars
<1>3. \A r \in Requests : Confident(req'[r], call'[r])
  BY <1>1, <1>2
<1> QED BY <1>3 DEF SoundInv, Confident, Served, HealthCall, Looked, Passed, Sound, Hope

LEMMA SoundInit == Init => SoundInv
<1> SUFFICES ASSUME Init PROVE SoundInv
  OBVIOUS
<1>1. AlwaysWell
  <2>1. <<>> \in Seq({TRUE})
    OBVIOUS
  <2> QED BY <2>1, AliveModels DEF Init, BreakerInit, AlwaysWell
<1>2. \A r \in Requests : Confident(req[r], call[r])
  BY DEF Init, NoReq, Confident
<1> QED BY <1>1, <1>2 DEF SoundInv

LEMMA SoundStep == Sheltered /\ Inv /\ SoundInv /\ [Next]_vars => SoundInv'
<1> SUFFICES ASSUME Sheltered, Inv, SoundInv, [Next]_vars PROVE SoundInv'
  OBVIOUS
<1>0. AlwaysWell
  BY DEF SoundInv
<1>1. ASSUME NEW r \in Requests, Arrive(r) PROVE SoundInv'
  BY <1>1, AcceptSound DEF Arrive
<1>2. ASSUME NEW r \in Requests, Handler(r) \/ Reuse(r) \/ ClientLeaves(r) PROVE SoundInv'
  BY <1>2, HandlerSound, ReuseSound DEF ClientLeaves, Sheltered
<1>3. ASSUME NEW s \in Savers, SaverFlips(s) PROVE SoundInv'
  BY <1>0, <1>3, WellQuiet, EnvironmentSound DEF SaverFlips
<1>4. CASE Clock
  BY <1>0, <1>4, WellTick, EnvironmentSound DEF Clock, proxyVars
<1>5. CASE UNCHANGED vars
  BY <1>0, <1>5, WellQuiet, EnvironmentSound DEF vars
<1> QED BY <1>1, <1>2, <1>3, <1>4, <1>5 DEF Next

(* As long as a fallback route has a model with a sound upstream that the  *)
(* token may use, a client of that route is never answered with a failure: *)
(* whatever the other models do, however many requests run at once and     *)
(* wherever the breaker opens meanwhile - if no saver stands between and   *)
(* clients wait for their answers.                                         *)
THEOREM SoundModelAlwaysAnswers == Spec => [](Sheltered => SoundModelAnswers)
<1> DEFINE J == Sheltered => SoundInv
<1>1. Init => J
  BY SoundInit
<1>2. Inv /\ J /\ [Next]_vars => J'
  BY SoundStep DEF Sheltered
<1>3. J => (Sheltered => SoundModelAnswers)
  <2> SUFFICES ASSUME SoundInv, NEW r \in Requests, req[r].pc = "done"
               PROVE  LET q      == req[r]
                          usable == {m \in Alive : q.scope = {} \/ m \in q.scope}
                      IN  /\ ~q.streamed /\ q.answer \notin {"route_error", "bad_body"}
                          /\ FallbackRoute(r)
                          /\ usable \cap RangeOf(ModelsOf(call[r].route)) # {}
                          => q.answer \in {"ok", "client"}
    BY DEF SoundModelAnswers
  <2>1. Served(req[r], call[r])
    BY DEF SoundInv, Confident
  <2> QED BY <2>1 DEF Served, Hope, FallbackRoute
<1> HIDE DEF J
<1> QED BY <1>1, <1>2, <1>3, InvAlways, PTL DEF Spec
-----------------------------------------------------------------------------
(* The tracker under the proxy.  Requests call Record from three places,   *)
(* two of them for one and the same attempt loop; each call is for a model *)
(* of the configuration, so that to the tracker the proxy is just one more *)
(* user and everything proved about it alone holds under the proxy.        *)

LEMMA AttemptModel ==
    ASSUME Inv, NEW r \in Requests, req[r].pc \in {"try", "sent", "streaming", "judge"}
    PROVE  Current(r) \in Models
<1> DEFINE s == req[r].tried
           ms == call[r].cands
<1>1. s \in Seq(Outcomes) /\ ms \in Seq(Models) /\ Attempting(req[r], call[r])
  BY InvParts DEF Good
<1>2. Len(s) < Len(ms)
  BY <1>1 DEF Attempting
<1>3. Current(r) = ms[Len(s) + 1]
  BY DEF Current
<1> HIDE DEF s, ms
<1>4. Len(s) + 1 \in 1 .. Len(ms)
  <2>1. Len(s) \in Nat /\ Len(ms) \in Nat
    BY <1>1, LenProperties
  <2> QED BY <1>2, <2>1
<1> QED BY <1>1, <1>3, <1>4, ElementOfSeq

LEMMA HandlerRecords ==
    ASSUME Inv, NEW r \in Requests, Handler(r)
    PROVE  [BreakerNext]_breakerVars
<1>1. CASE Look(r) \/ NotRouted(r)
  BY <1>1 DEF Look, NotRouted
<1>2. CASE \E bodyRead \in BOOLEAN : Prepare(r, bodyRead)
  BY <1>2 DEF Prepare
<1>3. CASE Try(r) \/ UpstreamError(r) \/ Deliver(r)
  BY <1>3 DEF Try, UpstreamError, Deliver
<1>4. CASE Reply(r)
  <2> PICK reply \in {"ok", "client", "retry"}, sse \in BOOLEAN :
        StreamBegin(r, reply, sse) \/ BufferedReply(r, reply, sse)
    BY <1>4 DEF Reply
  <2>1. CASE StreamBegin(r, reply, sse)
    BY <2>1 DEF StreamBegin
  <2>2. CASE BufferedReply(r, reply, sse)
    <3>1. req[r].pc = "sent" /\ Record(Current(r), reply # "retry")
      BY <2>2 DEF BufferedReply
    <3>2. Current(r) \in Models /\ (reply # "retry") \in BOOLEAN
      BY <3>1, AttemptModel
    <3> QED BY <3>1, <3>2 DEF BreakerNext
  <2> QED BY <2>1, <2>2
<1>5. CASE StreamEnd(r)
  <2>1. req[r].pc = "streaming" /\ Record(Current(r), req[r].last # "retry")
    BY <1>5 DEF StreamEnd
  <2>2. Current(r) \in Models /\ (req[r].last # "retry") \in BOOLEAN
    BY <2>1, AttemptModel
  <2> QED BY <2>1, <2>2 DEF BreakerNext
<1>6. CASE Judge(r)
  <2>1. req[r].pc = "judge" /\ Record(Current(r), FALSE)
    BY <1>6 DEF Judge
  <2>2. Current(r) \in Models
    BY <2>1, AttemptModel
  <2> QED BY <2>1, <2>2 DEF BreakerNext
<1> QED BY <1>1, <1>2, <1>3, <1>4, <1>5, <1>6 DEF Handler

LEMMA ProxyRecords == Inv /\ [Next]_vars => [BreakerNext]_breakerVars
<1> SUFFICES ASSUME Inv, [Next]_vars PROVE [BreakerNext]_breakerVars
  OBVIOUS
<1>1. ASSUME NEW r \in Requests, Arrive(r) \/ Reuse(r) \/ ClientLeaves(r)
      PROVE  UNCHANGED breakerVars
  BY <1>1 DEF Arrive, Accept, Reuse, ClientLeaves
<1>2. ASSUME NEW s \in Savers, SaverFlips(s) PROVE UNCHANGED breakerVars
  BY <1>2 DEF SaverFlips
<1>3. CASE Clock
  BY <1>3 DEF Clock, BreakerNext
<1>4. CASE UNCHANGED vars
  BY <1>4 DEF vars
<1> QED BY <1>1, <1>2, <1>3, <1>4, HandlerRecords DEF Next

(* tryUpstream and handleProxy against health.Tracker: whatever requests   *)
(* run at once, the tracker sees results of configured models and the      *)
(* clock, and nothing else.                                                *)
THEOREM ProxyUsesBreaker == Spec => BreakerSpec
<1>1. Init => BreakerInit
  BY DEF Init
<1> QED BY <1>1, ProxyRecords, InvAlways, PTL DEF Spec, BreakerSpec

(* So the promises of the breaker hold while any number of requests share  *)
(* it: breaks last, have a reason, and come and go as the abstract breaker *)
(* says.                                                                   *)
THEOREM ProxyKeepsBreakerPromises ==
    Spec => /\ []BrokenHasReason
            /\ CooldownServed
            /\ ImplementsCircuitBreaker
  BY ProxyUsesBreaker, BrokenAlwaysHasReason, CooldownAlwaysServed, TrackerRefinesBreaker, PTL
=============================================================================
