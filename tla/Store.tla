-------------------------------- MODULE Store --------------------------------
(***************************************************************************)
(* The tokens and activity tables of internal/store, the token commands of *)
(* internal/cli that change the first, and the daemon's requests, which    *)
(* look a plaintext up (authenticate) and leave a row in the second        *)
(* (logActivity).  Every statement is atomic; a command or a request is    *)
(* several of them, with prompts and hashing in between, and commands of   *)
(* several processes and requests interleave.  A command may end anywhere. *)
(*                                                                         *)
(* A hash stands for the plaintext it was made of: a secret is drawn once, *)
(* and a row's hash verifies that secret and no other.  Scopes are opaque; *)
(* label, rate and caps are set at the insertion and never change.  Times  *)
(* are hundredths of a second.                                             *)
(***************************************************************************)
EXTENDS Integers, Sequences

CONSTANTS Admins,       \* the processes that run token commands
          Clients,      \* the goroutines that serve requests
          Ids, Secrets, Scopes, None,
          Lifetimes,    \* the terms a token may be given
          Never,        \* the term of a token without one
          Costs,        \* the estimates of a request
          Unpriced,     \* the estimate of one without a price
          DaySeconds,
          Instants,     \* the times at which something happens
          MaxActs       \* bound: commands and requests in all

ASSUME StoreAssumption ==
    /\ None \notin Ids \cup Secrets
    /\ Never \notin Int /\ Lifetimes \subseteq Int \cup {Never}
    /\ Instants \subseteq Nat /\ DaySeconds \in Nat \ {0} /\ MaxActs \in Nat

VARIABLES table,        \* tokens: a function of the ids that were inserted
          rows,         \* activity: its rows in the order of their insertion
          audit,        \* audit: the commands on record
          now,
          drawn,        \* the secrets that were generated
          job,          \* the command each process is at
          visit,        \* the request each goroutine is at
          told,         \* the secrets whose end a command has reported
          acts          \* how many commands and requests were begun

storeVars == <<table, rows, audit, now, drawn, job, visit, told, acts>>

----------------------------------------------------------------------------
(* Times as the tables keep them.                                          *)
Second == 100

Sec(t) == t \div Second
Frac(t) == t % Second

Ends == Int \cup {Never}

\* Mutant: the term keeps its fraction.
BugStored(t) == t

\* RFC3339 drops the fraction.
Stored(t) == Second * Sec(t)

Expired(end) == end # Never /\ now > end

\* RFC3339Nano drops trailing zeros, and the point with them, so that of two
\* texts of one second the one that goes on with a digit, or a point, comes
\* before the one that ends there with its "Z".
TextRank(f) ==
    IF f = 0 THEN 11 * 11
    ELSE 11 * (f \div 10) + (IF f % 10 = 0 THEN 10 ELSE f % 10)

\* ts >= since, compared as texts.
TextAtLeast(t, since) ==
    \/ Sec(t) > Sec(since)
    \/ Sec(t) = Sec(since) /\ TextRank(Frac(t)) >= TextRank(Frac(since))

\* Mutant: the last 24 hours instead of the day.
BugDayStart(t) == t - Second * DaySeconds

DayStart(t) == Second * (Sec(t) - (Sec(t) % DaySeconds))

\* The rows of a window, as ListActivity, StatsBy and DailySpend ask for it.
Since(t) == {i \in DOMAIN rows : TextAtLeast(rows[i].ts, t)}

\* The rows whose costs DailySpend adds up for a token.
DailySpend(id) ==
    {i \in Since(DayStart(now)) : rows[i].token = id /\ rows[i].cost # Unpriced}

----------------------------------------------------------------------------
(* The statements on the tokens.                                           *)
Token == [hash : Secrets, revoked : BOOLEAN, expires : Ends,
          scope : Scopes, used : BOOLEAN]

\* The hash of a secret verifies it and no other.
Verify(s, hash) == hash = s

Active == {id \in DOMAIN table : ~table[id].revoked}

\* Mutant: revoked rows are asked for too.
BugMatching(s) == {id \in DOMAIN table : Verify(s, table[id].hash)}

Matching(s) == {id \in Active : Verify(s, table[id].hash)}

InsertToken(id, s, end, scope) ==
    table' = [i \in DOMAIN table \cup {id} |->
                IF i = id THEN [hash |-> s, revoked |-> FALSE, expires |-> end,
                                scope |-> scope, used |-> FALSE]
                ELSE table[i]]

UpdateTokenHash(id, s) ==
    table' = [table EXCEPT ![id].hash = s, ![id].revoked = FALSE]

RevokeToken(id) == table' = [table EXCEPT ![id].revoked = TRUE]

UpdateTokenScope(id, scope) == table' = [table EXCEPT ![id].scope = scope]

----------------------------------------------------------------------------
(* The commands.                                                           *)
NoJob == [cmd |-> "none", step |-> "idle", id |-> None, secret |-> None,
          expires |-> Never, old |-> {}]

NoVisit == [step |-> "idle", match |-> {}, id |-> None, start |-> 0]

Init ==
    /\ table = [id \in {} |-> NoJob] /\ rows = <<>> /\ audit = {}
    /\ now \in Instants /\ \A t \in Instants : now <= t
    /\ drawn = {} /\ told = {} /\ acts = 0
    /\ job = [a \in Admins |-> NoJob] /\ visit = [c \in Clients |-> NoVisit]

Ask(a, cmd, step, id) ==
    /\ job[a].step = "idle" /\ acts < MaxActs
    /\ job' = [job EXCEPT ![a] = [NoJob EXCEPT !.cmd = cmd, !.step = step, !.id = id]]
    /\ acts' = acts + 1
    /\ UNCHANGED <<table, rows, audit, now, drawn, visit, told>>

\* token new, its wizard, and the last step of init.
AskNew(a) == Ask(a, "token_create", "draw", None)

AskRotate(a) == \E id \in DOMAIN table : Ask(a, "token_rotate", "draw", id)
AskRevoke(a) == \E id \in DOMAIN table : Ask(a, "token_revoke", "revoke", id)
AskScope(a) == \E id \in DOMAIN table : Ask(a, "token_scope", "scope", id)

\* The menus offer no revoked token; what they start does not look again.
AskRotateMenu(a) == \E id \in Active : Ask(a, "token_rotate", "draw", id)
AskRevokeMenu(a) == \E id \in Active : Ask(a, "token_revoke", "revoke", id)

Generated == Secrets \ drawn

EndOf(life) == IF life = Never THEN Never ELSE Stored(now + life)

\* A secret, and for a new token the end of its term.
Draw(a) ==
    /\ job[a].step = "draw"
    /\ \E s \in Generated :
        /\ drawn' = drawn \cup {s}
        /\ \/ /\ job[a].cmd = "token_create"
              /\ \E life \in Lifetimes :
                    job' = [job EXCEPT ![a].secret = s, ![a].step = "insert",
                                       ![a].expires = EndOf(life)]
           \/ /\ job[a].cmd = "token_rotate"
              /\ job' = [job EXCEPT ![a].secret = s, ![a].step = "rotate"]
    /\ UNCHANGED <<table, rows, audit, now, visit, told, acts>>

\* The statement went through: what is left is the report.
Written(a, id, old) ==
    /\ job' = [job EXCEPT ![a] = [NoJob EXCEPT !.cmd = job[a].cmd, !.step = "report",
                                               !.id = id, !.old = old]]
    /\ UNCHANGED <<rows, audit, now, drawn, visit, told, acts>>

NewToken(a) ==
    /\ job[a].step = "insert"
    /\ \E id \in Ids \ DOMAIN table, scope \in Scopes :
        /\ InsertToken(id, job[a].secret, job[a].expires, scope)
        /\ Written(a, id, {})

Rotate(a) ==
    /\ job[a].step = "rotate"
    /\ UpdateTokenHash(job[a].id, job[a].secret)
    /\ Written(a, job[a].id, {table[job[a].id].hash})

Revoke(a) ==
    /\ job[a].step = "revoke"
    /\ RevokeToken(job[a].id)
    /\ Written(a, job[a].id, {table[job[a].id].hash})

\* Both parts of the scope are written, the one that was not given as empty.
Scope(a) ==
    /\ job[a].step = "scope"
    /\ \E scope \in Scopes : UpdateTokenScope(job[a].id, scope)
    /\ Written(a, job[a].id, {})

\* The audit row, whose failure is ignored, and the message.
Report(a) ==
    /\ job[a].step = "report"
    /\ audit' \in {audit, audit \cup {<<job[a].cmd, job[a].id>>}}
    /\ told' = told \cup job[a].old
    /\ job' = [job EXCEPT ![a] = NoJob]
    /\ UNCHANGED <<table, rows, now, drawn, visit, acts>>

\* Declined, failed or killed.
Quit(a) ==
    /\ job[a].step # "idle"
    /\ job' = [job EXCEPT ![a] = NoJob]
    /\ UNCHANGED <<table, rows, audit, now, drawn, visit, told, acts>>

----------------------------------------------------------------------------
(* The requests.  The daemon has one connection, which a lookup keeps until *)
(* its last hash is compared.                                              *)
ConnectionFree == \A c \in Clients : visit[c].step # "asked"

\* FindTokenByPlaintext reads the rows of one snapshot...
Lookup(c) ==
    /\ visit[c].step = "idle" /\ ConnectionFree /\ acts < MaxActs
    /\ \E s \in Secrets :
        visit' = [visit EXCEPT ![c] =
            [NoVisit EXCEPT !.step = "asked",
                !.match = {[id |-> id, expires |-> table[id].expires] : id \in Matching(s)}]]
    /\ acts' = acts + 1
    /\ UNCHANGED <<table, rows, audit, now, drawn, job, told>>

\* ...and, after the hashing, looks at the clock.
Accept(c) ==
    /\ visit[c].step = "asked"
    /\ \E row \in visit[c].match :
        /\ ~Expired(row.expires)
        /\ visit' = [visit EXCEPT ![c] = [NoVisit EXCEPT !.step = "served",
                                            !.id = row.id, !.start = now]]
    /\ UNCHANGED <<table, rows, audit, now, drawn, job, told, acts>>

Reject(c) ==
    /\ visit[c].step = "asked"
    /\ \A row \in visit[c].match : Expired(row.expires)
    /\ visit' = [visit EXCEPT ![c] = NoVisit]
    /\ UNCHANGED <<table, rows, audit, now, drawn, job, told, acts>>

\* logActivity: a row with the time the request began, then TouchToken.
Log(c) ==
    /\ visit[c].step = "served" /\ ConnectionFree
    /\ \E cost \in Costs \cup {Unpriced} :
        rows' = Append(rows, [token |-> visit[c].id, ts |-> visit[c].start, cost |-> cost])
    /\ table' = [table EXCEPT ![visit[c].id].used = TRUE]
    /\ visit' = [visit EXCEPT ![c] = NoVisit]
    /\ UNCHANGED <<audit, now, drawn, job, told, acts>>

\* A request that leaves no row.
Vanish(c) ==
    /\ visit[c].step = "served"
    /\ visit' = [visit EXCEPT ![c] = NoVisit]
    /\ UNCHANGED <<table, rows, audit, now, drawn, job, told, acts>>

Tick ==
    /\ \E t \in Instants : t > now /\ now' = t
    /\ UNCHANGED <<table, rows, audit, drawn, job, visit, told, acts>>

Next ==
    \/ \E a \in Admins :
        \/ AskNew(a) \/ AskRotate(a) \/ AskRevoke(a) \/ AskScope(a)
        \/ AskRotateMenu(a) \/ AskRevokeMenu(a)
        \/ Draw(a) \/ NewToken(a) \/ Rotate(a) \/ Revoke(a) \/ Scope(a)
        \/ Report(a) \/ Quit(a)
    \/ \E c \in Clients : Lookup(c) \/ Accept(c) \/ Reject(c) \/ Log(c) \/ Vanish(c)
    \/ Tick

Spec == Init /\ [][Next]_storeVars

----------------------------------------------------------------------------
Commands == {"token_create", "token_rotate", "token_revoke", "token_scope"}

Jobs == [cmd : Commands \cup {"none"},
         step : {"idle", "draw", "insert", "rotate", "revoke", "scope", "report"},
         id : Ids \cup {None}, secret : Secrets \cup {None},
         expires : Ends, old : SUBSET Secrets]

Rows == [token : Ids, ts : Instants, cost : Costs \cup {Unpriced}]

Visits == [step : {"idle", "asked", "served"},
           match : SUBSET [id : Ids, expires : Ends],
           id : Ids \cup {None}, start : Nat]

\* Type invariant: terms end on whole seconds, no two tokens share a secret,
\* and every row was made by a request of a token that exists.
StoreTypeOK ==
    /\ DOMAIN table \subseteq Ids /\ table \in [DOMAIN table -> Token]
    /\ \A i \in DOMAIN table : table[i].expires # Never => Frac(table[i].expires) = 0
    /\ \A i, j \in DOMAIN table : table[i].hash = table[j].hash => i = j
    /\ rows \in Seq(Rows) /\ \A i \in DOMAIN rows : rows[i].token \in DOMAIN table
    /\ audit \subseteq Commands \X Ids
    /\ now \in Instants /\ drawn \subseteq Secrets /\ told \subseteq drawn
    /\ job \in [Admins -> Jobs] /\ visit \in [Clients -> Visits]
    /\ acts \in 0 .. MaxActs

\* DailySpend compares texts, and in the first second of a day their order is
\* not that of the times.  What it leaves out of a token's spend are the
\* requests that began in that second and not on its stroke; it never takes
\* in a request of the day before, however late its row was written.
SpendMissesOnlyFirstSecond ==
    \A id \in Ids :
        DailySpend(id) =
            {i \in DOMAIN rows :
                /\ rows[i].token = id /\ rows[i].cost # Unpriced
                /\ rows[i].ts >= DayStart(now)
                /\ Sec(rows[i].ts) = Sec(DayStart(now)) => Frac(rows[i].ts) = 0}

\* The secrets that open the door at this moment.
LiveSecrets ==
    {s \in Secrets : \E id \in DOMAIN table :
        /\ table[id].hash = s /\ ~table[id].revoked
        /\ table[id].expires = Never \/ now <= table[id].expires}

Held == {job[a].secret : a \in Admins} \ {None}

Hopeful == {c \in Clients : /\ visit[c].step = "asked"
                            /\ \E row \in visit[c].match :
                                row.expires = Never \/ now <= row.expires}

Admitted == {c \in Clients : visit[c].step = "served"}

CR == INSTANCE Credentials WITH
        live <- LiveSecrets, spent <- drawn \ (LiveSecrets \cup Held),
        told <- told, hopeful <- Hopeful, admitted <- Admitted

\* The tables and commands implement Credentials: a secret that was rotated
\* away, revoked or has expired is never good again, although rotating clears
\* the revoked flag (store.go:145) and the commands of several processes mix;
\* once a command has reported the end of a secret no lookup that begins later
\* succeeds with it; and a lookup that was overtaken by the clock fails.
ImplementsCredentials == CR!Spec
=============================================================================
