----------------------------- MODULE StoreProofs -----------------------------
(***************************************************************************)
(* Store keeps its tables well formed and implements Credentials, for any  *)
(* number of processes, requests, tokens and secrets, all terms and times. *)
(***************************************************************************)
EXTENDS Store, TLAPS

(* What a process at each step of its command holds, given the ids that     *)
(* exist.                                                                   *)
Shaped(j, D) ==
    /\ j \in Jobs
    /\ j.secret # None <=> j.step \in {"insert", "rotate"}
    /\ j.step # "idle" => j.cmd \in Commands
    /\ j.step \in {"rotate", "revoke", "scope", "report"} => j.id \in D
    /\ j.cmd = "token_rotate" => j.id \in D
    /\ j.expires # Never => Frac(j.expires) = 0

VisitShaped(v, D) ==
    /\ v \in Visits
    /\ \A row \in v.match : row.id \in D
    /\ v.step = "served" => v.id \in D /\ v.start \in Instants

TableInv ==
    /\ DOMAIN table \subseteq Ids /\ table \in [DOMAIN table -> Token]
    /\ \A i \in DOMAIN table : table[i].expires # Never => Frac(table[i].expires) = 0
    /\ \A i, j \in DOMAIN table : table[i].hash = table[j].hash => i = j
    /\ \A i \in DOMAIN table : table[i].hash \in drawn

JobsInv ==
    /\ job = [a \in Admins |-> job[a]]
    /\ \A a \in Admins : Shaped(job[a], DOMAIN table)

VisitsInv ==
    /\ visit = [c \in Clients |-> visit[c]]
    /\ \A c \in Clients : VisitShaped(visit[c], DOMAIN table)

RowsInv == rows \in Seq(Rows) /\ \A i \in DOMAIN rows : rows[i].token \in DOMAIN table

\* A secret that was drawn, is held by no process, and is in no row but a
\* revoked one.
Dead(s) ==
    /\ s \in drawn
    /\ \A a \in Admins : job[a].secret # s
    /\ \A i \in DOMAIN table : table[i].hash = s => table[i].revoked

SecretsInv ==
    /\ \A a \in Admins : job[a].secret # None =>
        /\ job[a].secret \in drawn
        /\ \A i \in DOMAIN table : table[i].hash # job[a].secret
    /\ \A a, b \in Admins : job[a].secret = job[b].secret /\ job[a].secret # None => a = b
    /\ \A a \in Admins : \A s \in job[a].old : Dead(s)

OthersInv ==
    /\ audit \subseteq Commands \X Ids
    /\ now \in Instants /\ drawn \subseteq Secrets /\ told \subseteq drawn
    /\ acts \in 0 .. MaxActs

Inv == TableInv /\ JobsInv /\ VisitsInv /\ RowsInv /\ SecretsInv /\ OthersInv

----------------------------------------------------------------------------
(* Records.                                                                *)

LEMMA NoJobShaped == \A D : Shaped(NoJob, D)
BY StoreAssumption DEF Shaped, NoJob, Jobs, Commands, Ends

LEMMA NoJobFields ==
    /\ NoJob \in Jobs
    /\ NoJob.secret = None /\ NoJob.expires = Never /\ NoJob.old = {}
BY DEF NoJob, Jobs, Ends

LEMMA AskedShaped ==
    ASSUME NEW D \in SUBSET Ids, NEW id \in D \cup {None},
           NEW cmd \in Commands, NEW step \in {"draw", "revoke", "scope"},
           step # "draw" \/ cmd = "token_rotate" => id \in D
    PROVE  /\ Shaped([NoJob EXCEPT !.cmd = cmd, !.step = step, !.id = id], D)
           /\ [NoJob EXCEPT !.cmd = cmd, !.step = step, !.id = id].secret = None
           /\ [NoJob EXCEPT !.cmd = cmd, !.step = step, !.id = id].old = {}
<1>. DEFINE n == NoJob
            j == [n EXCEPT !.cmd = cmd, !.step = step, !.id = id]
<1>1. n \in Jobs /\ n.secret = None /\ n.expires = Never /\ n.old = {}
    BY NoJobFields
<1>. HIDE DEF n
<1>2. j \in Jobs BY <1>1 DEF Jobs
<1>3. /\ j.cmd = cmd /\ j.step = step /\ j.id = id
      /\ j.secret = None /\ j.expires = Never /\ j.old = {}
    BY <1>1 DEF Jobs
<1>. HIDE DEF j
<1>5. Shaped(j, D) BY <1>2, <1>3 DEF Shaped
<1>. QED BY <1>3, <1>5 DEF j, n

LEMMA WrittenShaped ==
    ASSUME NEW D \in SUBSET Ids, NEW id \in D, NEW cmd \in Commands, NEW old \in SUBSET Secrets
    PROVE  /\ Shaped([NoJob EXCEPT !.cmd = cmd, !.step = "report", !.id = id, !.old = old], D)
           /\ [NoJob EXCEPT !.cmd = cmd, !.step = "report", !.id = id, !.old = old].secret = None
           /\ [NoJob EXCEPT !.cmd = cmd, !.step = "report", !.id = id, !.old = old].old = old
<1>. DEFINE n == NoJob
            j == [n EXCEPT !.cmd = cmd, !.step = "report", !.id = id, !.old = old]
<1>1. n \in Jobs /\ n.secret = None /\ n.expires = Never /\ n.old = {}
    BY NoJobFields
<1>. HIDE DEF n
<1>2. j \in Jobs BY <1>1 DEF Jobs
<1>3. /\ j.cmd = cmd /\ j.step = "report" /\ j.id = id
      /\ j.secret = None /\ j.expires = Never /\ j.old = old
    BY <1>1 DEF Jobs
<1>. HIDE DEF j
<1>4. Shaped(j, D) BY <1>2, <1>3 DEF Shaped
<1>. QED BY <1>3, <1>4 DEF j, n

\* A term that EndOf gives ends on a whole second.
LEMMA WholeSeconds ==
    ASSUME NEW life \in Lifetimes, now \in Instants
    PROVE  EndOf(life) \in Ends /\ (EndOf(life) # Never => Frac(EndOf(life)) = 0)
<1>1. CASE life = Never BY <1>1 DEF EndOf, Ends
<1>2. CASE life # Never
    <2>1. life \in Int /\ now \in Int BY <1>2, StoreAssumption
    <2>. DEFINE n == now + life
    <2>2. n \in Int BY <2>1
    <2>. HIDE DEF n
    <2>3. EndOf(life) = 100 * (n \div 100) BY <1>2 DEF EndOf, Stored, Second, Sec, n
    <2>4. n \div 100 \in Int BY <2>2
    <2>5. \A q \in Int : 100 * q \in Int /\ (100 * q) % 100 = 0 OBVIOUS
    <2>. QED BY <2>3, <2>4, <2>5 DEF Ends, Frac, Second
<1>. QED BY <1>1, <1>2

LEMMA DrawnShaped ==
    ASSUME NEW D, NEW j, Shaped(j, D), j.step = "draw", NEW s \in Secrets,
           now \in Instants
    PROVE  /\ j.cmd = "token_create" =>
                \A life \in Lifetimes :
                    Shaped([j EXCEPT !.secret = s, !.step = "insert", !.expires = EndOf(life)], D)
           /\ j.cmd = "token_rotate" =>
                Shaped([j EXCEPT !.secret = s, !.step = "rotate"], D)
<1>0. s # None BY StoreAssumption
<1>1. ASSUME j.cmd = "token_create", NEW life \in Lifetimes
      PROVE  Shaped([j EXCEPT !.secret = s, !.step = "insert", !.expires = EndOf(life)], D)
    <2>. DEFINE e == EndOf(life)
                k == [j EXCEPT !.secret = s, !.step = "insert", !.expires = e]
    <2>1. e \in Ends /\ (e # Never => Frac(e) = 0) BY WholeSeconds
    <2>. HIDE DEF e
    <2>2. k \in Jobs BY <2>1 DEF Shaped, Jobs
    <2>3. /\ k.cmd = "token_create" /\ k.step = "insert" /\ k.secret = s /\ k.expires = e
        BY <1>1 DEF Shaped, Jobs
    <2>. HIDE DEF k
    <2>4. Shaped(k, D) BY <1>0, <2>1, <2>2, <2>3 DEF Shaped, Commands
    <2>. QED BY <2>4 DEF k, e
<1>2. ASSUME j.cmd = "token_rotate"
      PROVE  Shaped([j EXCEPT !.secret = s, !.step = "rotate"], D)
    <2>. DEFINE k == [j EXCEPT !.secret = s, !.step = "rotate"]
    <2>2. k \in Jobs BY DEF Shaped, Jobs
    <2>3. /\ k.cmd = "token_rotate" /\ k.step = "rotate" /\ k.secret = s
          /\ k.expires = j.expires /\ k.id = j.id
        BY <1>2 DEF Shaped, Jobs
    <2>4. j.id \in D BY <1>2 DEF Shaped
    <2>5. k.expires # Never => Frac(k.expires) = 0 BY <2>3 DEF Shaped
    <2>. HIDE DEF k
    <2>6. Shaped(k, D) BY <1>0, <2>2, <2>3, <2>4, <2>5 DEF Shaped, Commands
    <2>. QED BY <2>6 DEF k
<1>. QED BY <1>1, <1>2

LEMMA VisitShapes ==
    ASSUME NEW D \in SUBSET Ids
    PROVE  /\ VisitShaped(NoVisit, D)
           /\ \A M \in SUBSET [id : D, expires : Ends] :
                LET v == [NoVisit EXCEPT !.step = "asked", !.match = M]
                IN  VisitShaped(v, D) /\ v.step = "asked" /\ v.match = M
           /\ \A id \in D, t \in Instants :
                LET v == [NoVisit EXCEPT !.step = "served", !.id = id, !.start = t]
                IN  VisitShaped(v, D) /\ v.step = "served" /\ v.match = {}
<1>. DEFINE n == NoVisit
<1>1. n \in Visits /\ n.step = "idle" /\ n.match = {} BY DEF NoVisit, Visits
<1>2. VisitShaped(n, D) BY <1>1 DEF VisitShaped
<1>. HIDE DEF n
<1>3. ASSUME NEW M \in SUBSET [id : D, expires : Ends]
      PROVE  LET v == [n EXCEPT !.step = "asked", !.match = M]
             IN  VisitShaped(v, D) /\ v.step = "asked" /\ v.match = M
    <2>. DEFINE v == [n EXCEPT !.step = "asked", !.match = M]
    <2>0. M \in SUBSET [id : Ids, expires : Ends] /\ \A row \in M : row.id \in D
        OBVIOUS
    <2>1. v \in Visits BY <1>1, <2>0 DEF Visits
    <2>2. v.step = "asked" /\ v.match = M BY <1>1 DEF Visits
    <2>. QED BY <2>0, <2>1, <2>2 DEF VisitShaped
<1>4. ASSUME NEW id \in D, NEW t \in Instants
      PROVE  LET v == [n EXCEPT !.step = "served", !.id = id, !.start = t]
             IN  VisitShaped(v, D) /\ v.step = "served" /\ v.match = {}
    <2>. DEFINE v == [n EXCEPT !.step = "served", !.id = id, !.start = t]
    <2>1. id \in Ids /\ t \in Nat BY StoreAssumption
    <2>2. v \in Visits BY <1>1, <2>1 DEF Visits
    <2>3. v.step = "served" /\ v.match = {} /\ v.id = id /\ v.start = t BY <1>1 DEF Visits
    <2>. QED BY <2>2, <2>3 DEF VisitShaped
<1>. QED BY <1>2, <1>3, <1>4 DEF n

----------------------------------------------------------------------------
(* What a step leaves alone stays in order.                                *)

LEMMA MoreIds ==
    ASSUME NEW D, NEW E, D \subseteq E
    PROVE  /\ \A j : Shaped(j, D) => Shaped(j, E)
           /\ \A v : VisitShaped(v, D) => VisitShaped(v, E)
BY DEF Shaped, VisitShaped

LEMMA JobsKept ==
    ASSUME JobsInv, DOMAIN table \subseteq DOMAIN table', job' = job
    PROVE  JobsInv'
BY MoreIds DEF JobsInv

LEMMA VisitsKept ==
    ASSUME VisitsInv, DOMAIN table \subseteq DOMAIN table', visit' = visit
    PROVE  VisitsInv'
BY MoreIds DEF VisitsInv

LEMMA JobMoves ==
    ASSUME JobsInv, DOMAIN table \subseteq DOMAIN table', NEW a \in Admins,
           NEW j, Shaped(j, DOMAIN table'), job' = [job EXCEPT ![a] = j]
    PROVE  JobsInv' /\ \A b \in Admins : job'[b] = IF b = a THEN j ELSE job[b]
<1>1. \A b \in Admins : job'[b] = IF b = a THEN j ELSE job[b] BY DEF JobsInv
<1>2. job' = [b \in Admins |-> job'[b]] BY DEF JobsInv
<1>3. \A b \in Admins : Shaped(job[b], DOMAIN table) BY DEF JobsInv
<1>4. \A b \in Admins : Shaped(job'[b], DOMAIN table') BY <1>1, <1>3, MoreIds
<1>. QED BY <1>1, <1>2, <1>4 DEF JobsInv

LEMMA VisitMoves ==
    ASSUME VisitsInv, DOMAIN table \subseteq DOMAIN table', NEW c \in Clients,
           NEW v, VisitShaped(v, DOMAIN table'), visit' = [visit EXCEPT ![c] = v]
    PROVE  VisitsInv' /\ \A d \in Clients : visit'[d] = IF d = c THEN v ELSE visit[d]
<1>1. \A d \in Clients : visit'[d] = IF d = c THEN v ELSE visit[d] BY DEF VisitsInv
<1>2. visit' = [d \in Clients |-> visit'[d]] BY DEF VisitsInv
<1>3. \A d \in Clients : VisitShaped(visit[d], DOMAIN table) BY DEF VisitsInv
<1>4. \A d \in Clients : VisitShaped(visit'[d], DOMAIN table') BY <1>1, <1>3, MoreIds
<1>. QED BY <1>1, <1>2, <1>4 DEF VisitsInv

\* The fields of the rows that no statement on the secrets touches.
LEMMA SecretsKept ==
    ASSUME SecretsInv, OthersInv, drawn' = drawn,
           \A i \in DOMAIN table' : /\ i \in DOMAIN table
                                    /\ table'[i].hash = table[i].hash
                                    /\ table[i].revoked => table'[i].revoked,
           \A b \in Admins : /\ job'[b].secret \in {job[b].secret, None}
                             /\ job'[b].old \subseteq job[b].old
    PROVE  SecretsInv'
<1>1. \A s : Dead(s) => Dead(s)'
    BY StoreAssumption DEF Dead, OthersInv
<1>. QED BY <1>1 DEF SecretsInv

\* The same when only one process moves, or none.
LEMMA SecretsKeptByJob ==
    ASSUME SecretsInv, OthersInv, UNCHANGED <<table, drawn>>, NEW a \in Admins,
           NEW j, j.secret \in {job[a].secret, None}, j.old \subseteq job[a].old,
           \A b \in Admins : job'[b] = IF b = a THEN j ELSE job[b]
    PROVE  SecretsInv'
BY SecretsKept

LEMMA TableUntouched ==
    ASSUME UNCHANGED <<table, drawn>>
    PROVE  TableInv => TableInv'
BY DEF TableInv

LEMMA RowsKept ==
    ASSUME RowsInv, DOMAIN table \subseteq DOMAIN table', rows' = rows
    PROVE  RowsInv'
BY DEF RowsInv

----------------------------------------------------------------------------
(* One lemma for each step that commands take.                             *)

\* A process moves, and holds no other secret than before.
LEMMA OnlyJobMoves ==
    ASSUME Inv, NEW a \in Admins, NEW j, Shaped(j, DOMAIN table),
           j.secret \in {job[a].secret, None}, j.old \subseteq job[a].old,
           job' = [job EXCEPT ![a] = j], UNCHANGED <<table, rows, drawn, visit>>
    PROVE  /\ TableInv' /\ JobsInv' /\ VisitsInv' /\ RowsInv' /\ SecretsInv'
           /\ \A b \in Admins : job'[b] = IF b = a THEN j ELSE job[b]
<1>1. DOMAIN table' = DOMAIN table OBVIOUS
<1>2. JobsInv' /\ \A b \in Admins : job'[b] = IF b = a THEN j ELSE job[b]
    BY <1>1, JobMoves DEF Inv
<1>3. TableInv' BY TableUntouched DEF Inv
<1>4. VisitsInv' BY <1>1, VisitsKept DEF Inv
<1>5. RowsInv' BY <1>1, RowsKept DEF Inv
<1>6. SecretsInv' BY <1>2, SecretsKeptByJob DEF Inv
<1>. QED BY <1>2, <1>3, <1>4, <1>5, <1>6

LEMMA AskStep ==
    ASSUME Inv, NEW a \in Admins, NEW cmd \in Commands,
           NEW step \in {"draw", "revoke", "scope"}, NEW id \in DOMAIN table \cup {None},
           step # "draw" \/ cmd = "token_rotate" => id \in DOMAIN table,
           Ask(a, cmd, step, id)
    PROVE  Inv' /\ \A b \in Admins : job'[b].secret = job[b].secret
<1>. DEFINE j == [NoJob EXCEPT !.cmd = cmd, !.step = step, !.id = id]
<1>1. DOMAIN table \in SUBSET Ids BY DEF Inv, TableInv
<1>2. Shaped(j, DOMAIN table) /\ j.secret = None /\ j.old = {}
    <2>. DEFINE D == DOMAIN table
    <2>1. D \in SUBSET Ids /\ id \in D \cup {None} BY <1>1
    <2>2. step # "draw" \/ cmd = "token_rotate" => id \in D OBVIOUS
    <2>. HIDE DEF D
    <2>3. Shaped(j, D) BY <2>1, <2>2, AskedShaped
    <2>4. j.secret = None BY NoJobFields DEF Jobs
    <2>5. j.old = {} BY NoJobFields DEF Jobs
    <2>. QED BY <2>3, <2>4, <2>5 DEF D
<1>3. job' = [job EXCEPT ![a] = j] /\ UNCHANGED <<table, rows, drawn, visit>>
    BY DEF Ask
<1>4. job[a].secret = None BY DEF Ask, Inv, JobsInv, Shaped
<1>. HIDE DEF j
<1>5. /\ TableInv' /\ JobsInv' /\ VisitsInv' /\ RowsInv' /\ SecretsInv'
      /\ \A b \in Admins : job'[b] = IF b = a THEN j ELSE job[b]
    BY <1>2, <1>3, OnlyJobMoves
<1>6. acts' \in 0 .. MaxActs BY StoreAssumption DEF Ask, Inv, OthersInv
<1>7. OthersInv' BY <1>6 DEF Ask, Inv, OthersInv
<1>. QED BY <1>2, <1>4, <1>5, <1>7 DEF Inv

\* What each of the questions gives rise to.
LEMMA AskSteps ==
    ASSUME Inv, NEW a \in Admins,
           \/ AskNew(a) \/ AskRotate(a) \/ AskRevoke(a) \/ AskScope(a)
           \/ AskRotateMenu(a) \/ AskRevokeMenu(a)
    PROVE  /\ Inv' /\ \A b \in Admins : job'[b].secret = job[b].secret
           /\ UNCHANGED <<table, now, drawn, visit, told>>
<1>1. \E cmd \in Commands, step \in {"draw", "revoke", "scope"}, id \in DOMAIN table \cup {None} :
        /\ step # "draw" \/ cmd = "token_rotate" => id \in DOMAIN table
        /\ Ask(a, cmd, step, id)
    BY DEF AskNew, AskRotate, AskRevoke, AskScope, AskRotateMenu, AskRevokeMenu, Active, Commands
<1>2. PICK cmd \in Commands, step \in {"draw", "revoke", "scope"}, id \in DOMAIN table \cup {None} :
        /\ step # "draw" \/ cmd = "token_rotate" => id \in DOMAIN table
        /\ Ask(a, cmd, step, id)
    BY <1>1
<1>3. Inv' /\ \A b \in Admins : job'[b].secret = job[b].secret BY <1>2, AskStep
<1>. QED BY <1>2, <1>3 DEF Ask

LEMMA ReportStep ==
    ASSUME Inv, NEW a \in Admins, Report(a)
    PROVE  Inv' /\ \A b \in Admins : job'[b].secret = job[b].secret
<1>1. NoJob.secret = None /\ NoJob.old = {} BY NoJobFields
<1>2. Shaped(job[a], DOMAIN table) BY DEF Inv, JobsInv
<1>3. job[a].secret = None /\ <<job[a].cmd, job[a].id>> \in Commands \X Ids
    BY <1>2 DEF Report, Shaped, Inv, TableInv
<1>4. job[a].old \subseteq drawn BY DEF Inv, SecretsInv, Dead
<1>5. /\ TableInv' /\ JobsInv' /\ VisitsInv' /\ RowsInv' /\ SecretsInv'
      /\ \A b \in Admins : job'[b] = IF b = a THEN NoJob ELSE job[b]
    BY <1>1, NoJobShaped, OnlyJobMoves DEF Report
<1>6. OthersInv' BY <1>3, <1>4 DEF Report, Inv, OthersInv
<1>. QED BY <1>1, <1>3, <1>5, <1>6 DEF Inv

LEMMA QuitStep ==
    ASSUME Inv, NEW a \in Admins, Quit(a)
    PROVE  /\ Inv' /\ job'[a].secret = None
           /\ \A b \in Admins : b # a => job'[b].secret = job[b].secret
<1>1. NoJob.secret = None /\ NoJob.old = {} BY NoJobFields
<1>2. /\ TableInv' /\ JobsInv' /\ VisitsInv' /\ RowsInv' /\ SecretsInv'
      /\ \A b \in Admins : job'[b] = IF b = a THEN NoJob ELSE job[b]
    BY <1>1, NoJobShaped, OnlyJobMoves DEF Quit
<1>3. OthersInv' BY DEF Quit, Inv, OthersInv
<1>. QED BY <1>1, <1>2, <1>3 DEF Inv

LEMMA DrawStep ==
    ASSUME Inv, NEW a \in Admins, Draw(a)
    PROVE  /\ Inv'
           /\ \E s \in Secrets \ drawn :
                /\ drawn' = drawn \cup {s} /\ job'[a].secret = s
                /\ \A b \in Admins : b # a => job'[b].secret = job[b].secret
           /\ job[a].secret = None
<1>1. PICK s \in Secrets \ drawn :
        /\ drawn' = drawn \cup {s}
        /\ \/ /\ job[a].cmd = "token_create"
              /\ \E life \in Lifetimes :
                    job' = [job EXCEPT ![a].secret = s, ![a].step = "insert",
                                       ![a].expires = EndOf(life)]
           \/ /\ job[a].cmd = "token_rotate"
              /\ job' = [job EXCEPT ![a].secret = s, ![a].step = "rotate"]
    BY DEF Draw, Generated
<1>. DEFINE o == job[a]
<1>2. Shaped(o, DOMAIN table) /\ o.step = "draw" BY DEF Inv, JobsInv, Draw
<1>3. o.secret = None /\ o \in Jobs BY <1>2 DEF Shaped
<1>4. now \in Instants BY DEF Inv, OthersInv
<1>5. job = [b \in Admins |-> job[b]] BY DEF Inv, JobsInv
<1>6. \E j : /\ Shaped(j, DOMAIN table) /\ j.secret = s /\ j.old = o.old
             /\ job' = [job EXCEPT ![a] = j]
    <2>1. ASSUME o.cmd = "token_create", NEW life \in Lifetimes,
                 job' = [job EXCEPT ![a].secret = s, ![a].step = "insert",
                                    ![a].expires = EndOf(life)]
          PROVE  \E j : /\ Shaped(j, DOMAIN table) /\ j.secret = s /\ j.old = o.old
                        /\ job' = [job EXCEPT ![a] = j]
        <3>. DEFINE j == [o EXCEPT !.secret = s, !.step = "insert", !.expires = EndOf(life)]
        <3>1. job' = [job EXCEPT ![a] = j] BY <2>1, <1>5
        <3>2. Shaped(j, DOMAIN table) BY <1>2, <1>4, <2>1, DrawnShaped
        <3>3. j.secret = s /\ j.old = o.old BY <1>3 DEF Jobs
        <3>. QED BY <3>1, <3>2, <3>3
    <2>2. ASSUME o.cmd = "token_rotate",
                 job' = [job EXCEPT ![a].secret = s, ![a].step = "rotate"]
          PROVE  \E j : /\ Shaped(j, DOMAIN table) /\ j.secret = s /\ j.old = o.old
                        /\ job' = [job EXCEPT ![a] = j]
        <3>. DEFINE j == [o EXCEPT !.secret = s, !.step = "rotate"]
        <3>1. job' = [job EXCEPT ![a] = j] BY <2>2, <1>5
        <3>2. Shaped(j, DOMAIN table) BY <1>2, <1>4, <2>2, DrawnShaped
        <3>3. j.secret = s /\ j.old = o.old BY <1>3 DEF Jobs
        <3>. QED BY <3>1, <3>2, <3>3
    <2>. QED BY <1>1, <2>1, <2>2
<1>7. PICK j : /\ Shaped(j, DOMAIN table) /\ j.secret = s /\ j.old = o.old
               /\ job' = [job EXCEPT ![a] = j]
    BY <1>6
<1>8. UNCHANGED <<table, rows, audit, now, visit, told, acts>> BY DEF Draw
<1>9. JobsInv' /\ \A b \in Admins : job'[b] = IF b = a THEN j ELSE job[b]
    BY <1>7, <1>8, JobMoves DEF Inv
<1>10. TableInv' BY <1>1, <1>8 DEF Inv, TableInv
<1>11. VisitsInv' BY <1>8, VisitsKept DEF Inv
<1>12. RowsInv' BY <1>8, RowsKept DEF Inv
<1>13. OthersInv' BY <1>1, <1>8 DEF Inv, OthersInv
<1>14. SecretsInv'
    <2>1. \A i \in DOMAIN table : table[i].hash # s BY <1>1 DEF Inv, TableInv
    <2>2. \A b \in Admins : job[b].secret # s
        BY <1>1, StoreAssumption DEF Inv, SecretsInv
    <2>3. \A b \in Admins : job'[b].old = job[b].old BY <1>7, <1>9
    <2>4. \A t : Dead(t) => Dead(t)'
        BY <1>1, <1>7, <1>8, <1>9 DEF Dead
    <2>5. \A b \in Admins : \A t \in job'[b].old : Dead(t)'
        BY <2>3, <2>4 DEF Inv, SecretsInv
    <2>6. \A b \in Admins : job'[b].secret = IF b = a THEN s ELSE job[b].secret
        BY <1>7, <1>9
    <2>7. \A b \in Admins : job'[b].secret # None =>
            /\ job'[b].secret \in drawn'
            /\ \A i \in DOMAIN table' : table'[i].hash # job'[b].secret
        BY <1>1, <1>8, <2>1, <2>6 DEF Inv, SecretsInv
    <2>8. \A b, d \in Admins : job'[b].secret = job'[d].secret /\ job'[b].secret # None => b = d
        BY <2>2, <2>6 DEF Inv, SecretsInv
    <2>. QED BY <2>5, <2>7, <2>8 DEF SecretsInv
<1>. QED BY <1>1, <1>3, <1>7, <1>9, <1>10, <1>11, <1>12, <1>13, <1>14 DEF Inv

----------------------------------------------------------------------------
(* The statements on the tokens, and what is left of the command.          *)

\* A row is changed in place; its term is kept.
LEMMA RowChanges ==
    ASSUME TableInv, NEW id \in DOMAIN table, NEW row \in Token,
           table' = [table EXCEPT ![id] = row]
    PROVE  /\ DOMAIN table' = DOMAIN table /\ DOMAIN table' \subseteq Ids
           /\ table' \in [DOMAIN table' -> Token]
           /\ \A i \in DOMAIN table : table'[i] = IF i = id THEN row ELSE table[i]
BY DEF TableInv

LEMMA WrittenStep ==
    ASSUME Inv, NEW a \in Admins, job[a].step # "idle",
           NEW id \in DOMAIN table', DOMAIN table \subseteq DOMAIN table',
           DOMAIN table' \subseteq Ids, NEW old \in SUBSET Secrets, Written(a, id, old)
    PROVE  /\ JobsInv' /\ VisitsInv' /\ RowsInv' /\ OthersInv'
           /\ job'[a].secret = None /\ job'[a].old = old
           /\ \A b \in Admins : b # a => job'[b] = job[b]
<1>. DEFINE cmd == job[a].cmd
            j == [NoJob EXCEPT !.cmd = cmd, !.step = "report", !.id = id, !.old = old]
            D == DOMAIN table'
<1>1. cmd \in Commands BY DEF Inv, JobsInv, Shaped
<1>2. job' = [job EXCEPT ![a] = j] BY DEF Written
<1>3. D \in SUBSET Ids /\ id \in D OBVIOUS
<1>. HIDE DEF cmd, D
<1>4. Shaped(j, D) BY <1>1, <1>3, WrittenShaped
<1>5. j.secret = None /\ j.old = old BY NoJobFields DEF Jobs
<1>. HIDE DEF j
<1>6. JobsInv' /\ \A b \in Admins : job'[b] = IF b = a THEN j ELSE job[b]
    BY <1>2, <1>4, JobMoves DEF Inv, D
<1>7. VisitsInv' BY VisitsKept DEF Inv, Written
<1>8. RowsInv' BY RowsKept DEF Inv, Written
<1>9. OthersInv' BY DEF Inv, OthersInv, Written
<1>. QED BY <1>5, <1>6, <1>7, <1>8, <1>9

LEMMA ScopeStep ==
    ASSUME Inv, NEW a \in Admins, Scope(a)
    PROVE  /\ Inv' /\ \A b \in Admins : job'[b].secret = job[b].secret
           /\ DOMAIN table' = DOMAIN table
           /\ \A i \in DOMAIN table :
                /\ table'[i].hash = table[i].hash /\ table'[i].revoked = table[i].revoked
                /\ table'[i].expires = table[i].expires
<1>. DEFINE id == job[a].id
<1>1. PICK scope \in Scopes : UpdateTokenScope(id, scope) BY DEF Scope
<1>. DEFINE row == [table[id] EXCEPT !.scope = scope]
<1>2. id \in DOMAIN table /\ job[a].secret = None
    BY DEF Scope, Inv, JobsInv, Shaped
<1>3. table[id] \in Token BY <1>2 DEF Inv, TableInv
<1>4. /\ row \in Token /\ row.hash = table[id].hash
      /\ row.revoked = table[id].revoked /\ row.expires = table[id].expires
    BY <1>3 DEF Token
<1>5. table' = [table EXCEPT ![id] = row] BY <1>1 DEF UpdateTokenScope
<1>. HIDE DEF row, id
<1>6. /\ DOMAIN table' = DOMAIN table /\ DOMAIN table' \subseteq Ids
      /\ table' \in [DOMAIN table' -> Token]
      /\ \A i \in DOMAIN table : table'[i] = IF i = id THEN row ELSE table[i]
    BY <1>2, <1>4, <1>5, RowChanges DEF Inv
<1>7. \A i \in DOMAIN table :
        /\ table'[i].hash = table[i].hash /\ table'[i].revoked = table[i].revoked
        /\ table'[i].expires = table[i].expires
    BY <1>4, <1>6
<1>8. Written(a, id, {}) /\ job[a].step # "idle" BY DEF Scope, id
<1>9. /\ JobsInv' /\ VisitsInv' /\ RowsInv' /\ OthersInv'
      /\ job'[a].secret = None /\ job'[a].old = {}
      /\ \A b \in Admins : b # a => job'[b] = job[b]
    BY <1>2, <1>6, <1>8, WrittenStep
<1>10. drawn' = drawn BY <1>8 DEF Written
<1>11. TableInv' BY <1>6, <1>7, <1>10 DEF Inv, TableInv
<1>12. \A b \in Admins : /\ job'[b].secret \in {job[b].secret, None}
                         /\ job'[b].old \subseteq job[b].old
    BY <1>9
<1>13. SecretsInv' BY <1>6, <1>7, <1>10, <1>12, SecretsKept DEF Inv
<1>14. \A b \in Admins : job'[b].secret = job[b].secret BY <1>2, <1>9
<1>. QED BY <1>6, <1>7, <1>9, <1>11, <1>13, <1>14 DEF Inv

LEMMA RevokeStep ==
    ASSUME Inv, NEW a \in Admins, Revoke(a)
    PROVE  /\ Inv' /\ \A b \in Admins : job'[b].secret = job[b].secret
           /\ DOMAIN table' = DOMAIN table /\ job[a].id \in DOMAIN table
           /\ \A i \in DOMAIN table :
                /\ table'[i].hash = table[i].hash
                /\ table'[i].revoked = (i = job[a].id \/ table[i].revoked)
                /\ table'[i].expires = table[i].expires
<1>. DEFINE id == job[a].id
            row == [table[id] EXCEPT !.revoked = TRUE]
            old == {table[id].hash}
<1>2. id \in DOMAIN table /\ job[a].secret = None
    BY DEF Revoke, Inv, JobsInv, Shaped
<1>3. table[id] \in Token BY <1>2 DEF Inv, TableInv
<1>4. /\ row \in Token /\ row.hash = table[id].hash
      /\ row.revoked = TRUE /\ row.expires = table[id].expires
      /\ old \in SUBSET Secrets
    BY <1>3 DEF Token
<1>5. table' = [table EXCEPT ![id] = row] BY DEF Revoke, RevokeToken
<1>8. Written(a, id, old) /\ job[a].step # "idle" BY DEF Revoke
<1>0. \A i \in DOMAIN table : table[i].revoked \in BOOLEAN
    BY DEF Inv, TableInv, Token
<1>15. \A s \in old : s = table[id].hash OBVIOUS
<1>. HIDE DEF row, id, old
<1>6. /\ DOMAIN table' = DOMAIN table /\ DOMAIN table' \subseteq Ids
      /\ table' \in [DOMAIN table' -> Token]
      /\ \A i \in DOMAIN table : table'[i] = IF i = id THEN row ELSE table[i]
    BY <1>2, <1>4, <1>5, RowChanges DEF Inv
<1>7. \A i \in DOMAIN table :
        /\ table'[i].hash = table[i].hash
        /\ table'[i].revoked = (i = id \/ table[i].revoked)
        /\ table'[i].expires = table[i].expires
    BY <1>0, <1>4, <1>6
<1>9. /\ JobsInv' /\ VisitsInv' /\ RowsInv' /\ OthersInv'
      /\ job'[a].secret = None /\ job'[a].old = old
      /\ \A b \in Admins : b # a => job'[b] = job[b]
    BY <1>2, <1>4, <1>6, <1>8, WrittenStep
<1>10. drawn' = drawn BY <1>8 DEF Written
<1>11. TableInv' BY <1>6, <1>7, <1>10 DEF Inv, TableInv
<1>12. \A b \in Admins : job'[b].secret = job[b].secret BY <1>2, <1>9
<1>13. SecretsInv'
    <2>1. \A s : Dead(s) => Dead(s)' BY <1>6, <1>7, <1>10, <1>12 DEF Dead
    <2>2. ASSUME NEW s, s = table[id].hash PROVE Dead(s)'
        <3>1. s \in drawn /\ s # None
            BY <1>2, <1>3, <2>2, StoreAssumption DEF Inv, TableInv, Token
        <3>2. \A b \in Admins : job[b].secret # s
            BY <1>2, <2>2, <3>1 DEF Inv, SecretsInv
        <3>3. \A i \in DOMAIN table : table[i].hash = s => i = id
            BY <1>2, <2>2 DEF Inv, TableInv
        <3>4. \A i \in DOMAIN table' : table'[i].hash = s => table'[i].revoked
            BY <1>6, <1>7, <3>3
        <3>. QED BY <1>10, <1>12, <3>1, <3>2, <3>4 DEF Dead
    <2>3. \A b \in Admins : \A s \in job'[b].old : Dead(s)'
        <3>1. \A s \in old : Dead(s)' BY <1>15, <2>2
        <3>2. \A b \in Admins : b # a => \A s \in job[b].old : Dead(s)'
            BY <2>1 DEF Inv, SecretsInv
        <3>. QED BY <1>9, <3>1, <3>2
    <2>. QED BY <1>6, <1>7, <1>10, <1>12, <2>3 DEF Inv, SecretsInv
<1>. QED BY <1>2, <1>6, <1>7, <1>9, <1>11, <1>12, <1>13 DEF Inv, id

\* A secret that was held becomes the hash of a row, and nothing else of what
\* the secrets' invariant speaks of changes but what a rotation lets go.
LEMMA SecretsMove ==
    ASSUME Inv, NEW a \in Admins, job[a].secret # None, drawn' = drawn,
           job'[a].secret = None, \A b \in Admins : b # a => job'[b] = job[b],
           NEW id \in DOMAIN table',
           DOMAIN table' \subseteq DOMAIN table \cup {id},
           table'[id].hash = job[a].secret,
           \A i \in DOMAIN table' \ {id} : table'[i] = table[i],
           \A s \in job'[a].old : id \in DOMAIN table /\ s = table[id].hash
    PROVE  SecretsInv'
<1>. DEFINE new == job[a].secret
<1>0. new \in drawn /\ \A i \in DOMAIN table : table[i].hash # new
    BY DEF Inv, SecretsInv
<1>1. \A b \in Admins : b # a => job[b].secret # new BY DEF Inv, SecretsInv
<1>. HIDE DEF new
<1>9. table'[id].hash = new BY DEF new
<1>2. \A b \in Admins : job'[b].secret # None =>
        /\ b # a /\ job'[b].secret = job[b].secret /\ job[b].secret # new
    BY <1>1
<1>3. \A b \in Admins : job'[b].secret # None =>
        /\ job'[b].secret \in drawn'
        /\ \A i \in DOMAIN table' : table'[i].hash # job'[b].secret
    BY <1>2, <1>9 DEF Inv, SecretsInv
<1>4. \A b, d \in Admins : job'[b].secret = job'[d].secret /\ job'[b].secret # None => b = d
    BY <1>2 DEF Inv, SecretsInv
<1>5. ASSUME NEW s, Dead(s) PROVE Dead(s)'
    <2>1. s # new BY <1>5 DEF Dead, new
    <2>2. \A i \in DOMAIN table' : table'[i].hash = s => table'[i].revoked
        BY <1>5, <1>9, <2>1 DEF Dead
    <2>3. s # None BY <1>5, StoreAssumption DEF Dead, Inv, OthersInv
    <2>. QED BY <1>5, <2>2, <2>3 DEF Dead
<1>6. ASSUME NEW s \in job'[a].old PROVE Dead(s)'
    <2>1. id \in DOMAIN table /\ s = table[id].hash BY <1>6
    <2>2. s \in drawn /\ s # None
        BY <2>1, StoreAssumption DEF Inv, TableInv, OthersInv
    <2>3. \A b \in Admins : job[b].secret # s BY <2>1, <2>2 DEF Inv, SecretsInv
    <2>4. \A i \in DOMAIN table : table[i].hash = s => i = id
        BY <2>1 DEF Inv, TableInv
    <2>5. s # new BY <2>3 DEF new
    <2>6. \A i \in DOMAIN table' : table'[i].hash # s BY <1>9, <2>4, <2>5
    <2>7. \A b \in Admins : job'[b].secret # s BY <2>2, <2>3
    <2>. QED BY <2>2, <2>6, <2>7 DEF Dead
<1>7. \A b \in Admins : \A s \in job'[b].old : Dead(s)'
    <2>1. \A b \in Admins : b # a => \A s \in job[b].old : Dead(s)'
        BY <1>5 DEF Inv, SecretsInv
    <2>. QED BY <1>6, <2>1
<1>. QED BY <1>3, <1>4, <1>7 DEF SecretsInv

LEMMA RotateStep ==
    ASSUME Inv, NEW a \in Admins, Rotate(a)
    PROVE  /\ Inv' /\ job[a].secret # None /\ job'[a].secret = None
           /\ \A b \in Admins : b # a => job'[b].secret = job[b].secret
           /\ DOMAIN table' = DOMAIN table /\ job[a].id \in DOMAIN table
           /\ \A i \in DOMAIN table : i # job[a].id => table'[i] = table[i]
           /\ table'[job[a].id].hash = job[a].secret
           /\ table'[job[a].id].revoked = FALSE
           /\ table'[job[a].id].expires = table[job[a].id].expires
<1>. DEFINE id == job[a].id
            new == job[a].secret
            row == [table[id] EXCEPT !.hash = new, !.revoked = FALSE]
            old == {table[id].hash}
<1>2. id \in DOMAIN table /\ new # None /\ new \in Secrets
    BY DEF Rotate, Inv, JobsInv, Shaped, Jobs
<1>3. table[id] \in Token BY <1>2 DEF Inv, TableInv
<1>4. /\ row \in Token /\ row.hash = new
      /\ row.revoked = FALSE /\ row.expires = table[id].expires
      /\ old \in SUBSET Secrets
    BY <1>2, <1>3 DEF Token
<1>5. table' = [table EXCEPT ![id] = row] BY DEF Rotate, UpdateTokenHash
<1>8. Written(a, id, old) /\ job[a].step # "idle" BY DEF Rotate
<1>15. \A s \in old : s = table[id].hash OBVIOUS
<1>16. new \in drawn /\ \A i \in DOMAIN table : table[i].hash # new
    BY <1>2 DEF Inv, SecretsInv
<1>. HIDE DEF row, old, id
<1>6. /\ DOMAIN table' = DOMAIN table /\ DOMAIN table' \subseteq Ids
      /\ table' \in [DOMAIN table' -> Token]
      /\ \A i \in DOMAIN table : table'[i] = IF i = id THEN row ELSE table[i]
    BY <1>2, <1>4, <1>5, RowChanges DEF Inv
<1>9. /\ JobsInv' /\ VisitsInv' /\ RowsInv' /\ OthersInv'
      /\ job'[a].secret = None /\ job'[a].old = old
      /\ \A b \in Admins : b # a => job'[b] = job[b]
    BY <1>2, <1>4, <1>6, <1>8, WrittenStep
<1>10. drawn' = drawn BY <1>8 DEF Written
<1>11. TableInv'
    <2>1. \A i \in DOMAIN table : table'[i].expires = table[i].expires BY <1>4, <1>6
    <2>2. \A i, k \in DOMAIN table : table'[i].hash = table'[k].hash => i = k
        BY <1>4, <1>6, <1>16 DEF Inv, TableInv
    <2>3. \A i \in DOMAIN table : table'[i].hash \in drawn
        BY <1>4, <1>6, <1>16 DEF Inv, TableInv
    <2>. QED BY <1>6, <1>10, <2>1, <2>2, <2>3 DEF Inv, TableInv
<1>13. SecretsInv'
    <2>1. table'[id].hash = new /\ id \in DOMAIN table' BY <1>2, <1>4, <1>6
    <2>2. \A i \in DOMAIN table' \ {id} : table'[i] = table[i] BY <1>6
    <2>. HIDE DEF new
    <2>3. new = job[a].secret BY DEF new
    <2>. QED BY <1>2, <1>6, <1>9, <1>10, <1>15, <2>1, <2>2, <2>3, SecretsMove
<1>14. \A b \in Admins : b # a => job'[b].secret = job[b].secret BY <1>9
<1>17. /\ table'[id].hash = new /\ table'[id].revoked = FALSE
       /\ table'[id].expires = table[id].expires
    BY <1>2, <1>4, <1>6
<1>. QED BY <1>2, <1>6, <1>9, <1>11, <1>13, <1>14, <1>17 DEF Inv, id

LEMMA NewTokenStep ==
    ASSUME Inv, NEW a \in Admins, NewToken(a)
    PROVE  /\ Inv' /\ job[a].secret # None /\ job'[a].secret = None
           /\ \A b \in Admins : b # a => job'[b].secret = job[b].secret
           /\ \E id : /\ id \notin DOMAIN table /\ DOMAIN table' = DOMAIN table \cup {id}
                      /\ \A i \in DOMAIN table : table'[i] = table[i]
                      /\ table'[id].hash = job[a].secret
                      /\ table'[id].revoked = FALSE
<1>1. PICK id \in Ids \ DOMAIN table, scope \in Scopes :
        /\ InsertToken(id, job[a].secret, job[a].expires, scope)
        /\ Written(a, id, {})
    BY DEF NewToken
<1>. DEFINE new == job[a].secret
            row == [hash |-> new, revoked |-> FALSE, expires |-> job[a].expires,
                    scope |-> scope, used |-> FALSE]
<1>2. new # None /\ new \in Secrets /\ job[a].expires \in Ends /\ job[a].step # "idle"
      /\ (job[a].expires # Never => Frac(job[a].expires) = 0)
    BY DEF NewToken, Inv, JobsInv, Shaped, Jobs
<1>3. row \in Token /\ row.hash = new /\ row.revoked = FALSE /\ row.expires = job[a].expires
    BY <1>2 DEF Token
<1>4. table' = [i \in DOMAIN table \cup {id} |-> IF i = id THEN row ELSE table[i]]
    BY <1>1 DEF InsertToken
<1>16. new \in drawn /\ \A i \in DOMAIN table : table[i].hash # new
    BY <1>2 DEF Inv, SecretsInv
<1>. HIDE DEF row
<1>5. DOMAIN table' = DOMAIN table \cup {id} BY <1>4
<1>6. table'[id] = row /\ \A i \in DOMAIN table : table'[i] = table[i] BY <1>1, <1>4
<1>7. DOMAIN table' \subseteq Ids /\ \A i \in DOMAIN table' : table'[i] \in Token
    BY <1>1, <1>3, <1>5, <1>6 DEF Inv, TableInv
<1>8. table' \in [DOMAIN table' -> Token] BY <1>4, <1>7
<1>9. /\ JobsInv' /\ VisitsInv' /\ RowsInv' /\ OthersInv'
      /\ job'[a].secret = None /\ job'[a].old = {}
      /\ \A b \in Admins : b # a => job'[b] = job[b]
    BY <1>1, <1>2, <1>5, <1>7, WrittenStep
<1>10. drawn' = drawn BY <1>1 DEF Written
<1>11. TableInv'
    <2>1. \A i \in DOMAIN table' : table'[i].expires # Never => Frac(table'[i].expires) = 0
        BY <1>2, <1>3, <1>5, <1>6 DEF Inv, TableInv
    <2>2. \A i, k \in DOMAIN table' : table'[i].hash = table'[k].hash => i = k
        BY <1>3, <1>5, <1>6, <1>16 DEF Inv, TableInv
    <2>3. \A i \in DOMAIN table' : table'[i].hash \in drawn
        BY <1>3, <1>5, <1>6, <1>16 DEF Inv, TableInv
    <2>. QED BY <1>7, <1>8, <1>10, <2>1, <2>2, <2>3 DEF TableInv
<1>13. SecretsInv'
    <2>1. table'[id].hash = new /\ id \in DOMAIN table' BY <1>3, <1>5, <1>6
    <2>2. \A i \in DOMAIN table' \ {id} : table'[i] = table[i] BY <1>5, <1>6
    <2>3. DOMAIN table' \subseteq DOMAIN table \cup {id} BY <1>5
    <2>. HIDE DEF new
    <2>4. new = job[a].secret BY DEF new
    <2>5. \A s \in job'[a].old : id \in DOMAIN table /\ s = table[id].hash BY <1>9
    <2>. QED BY <1>2, <1>9, <1>10, <2>1, <2>2, <2>3, <2>4, <2>5, SecretsMove
<1>14. \A b \in Admins : b # a => job'[b].secret = job[b].secret BY <1>9
<1>. QED BY <1>1, <1>2, <1>3, <1>5, <1>6, <1>9, <1>11, <1>13, <1>14 DEF Inv

----------------------------------------------------------------------------
(* The steps of requests, and the clock.                                   *)

\* A request moves, and the tables stay as they are.
LEMMA OnlyVisitMoves ==
    ASSUME Inv, NEW c \in Clients, NEW v, VisitShaped(v, DOMAIN table),
           visit' = [visit EXCEPT ![c] = v],
           UNCHANGED <<table, rows, audit, now, drawn, job, told>>, acts' \in 0 .. MaxActs
    PROVE  /\ Inv'
           /\ \A d \in Clients : visit'[d] = IF d = c THEN v ELSE visit[d]
<1>1. DOMAIN table' = DOMAIN table OBVIOUS
<1>2. VisitsInv' /\ \A d \in Clients : visit'[d] = IF d = c THEN v ELSE visit[d]
    BY <1>1, VisitMoves DEF Inv
<1>3. TableInv' BY TableUntouched DEF Inv
<1>4. JobsInv' BY <1>1, JobsKept DEF Inv
<1>5. RowsInv' BY <1>1, RowsKept DEF Inv
<1>6. SecretsInv' BY SecretsKept DEF Inv
<1>7. OthersInv' BY DEF Inv, OthersInv
<1>. QED BY <1>2, <1>3, <1>4, <1>5, <1>6, <1>7 DEF Inv

Found(s) == {[id |-> id, expires |-> table[id].expires] : id \in Matching(s)}

LEMMA LookupStep ==
    ASSUME Inv, NEW c \in Clients, Lookup(c)
    PROVE  /\ Inv' /\ UNCHANGED <<table, now, drawn, job, told>>
           /\ visit[c].step = "idle"
           /\ \E s \in Secrets : \E v :
                /\ v.step = "asked" /\ v.match = Found(s)
                /\ \A d \in Clients : visit'[d] = IF d = c THEN v ELSE visit[d]
<1>1. PICK s \in Secrets :
        visit' = [visit EXCEPT ![c] = [NoVisit EXCEPT !.step = "asked", !.match = Found(s)]]
    BY DEF Lookup, Found
<1>. DEFINE D == DOMAIN table
            M == Found(s)
            v == [NoVisit EXCEPT !.step = "asked", !.match = M]
<1>2. M \in SUBSET [id : D, expires : Ends]
    BY DEF Inv, TableInv, Token, Found, Matching, Active
<1>3. D \in SUBSET Ids BY DEF Inv, TableInv
<1>. HIDE DEF D, M
<1>4. VisitShaped(v, D) /\ v.step = "asked" /\ v.match = M BY <1>2, <1>3, VisitShapes
<1>5. visit' = [visit EXCEPT ![c] = v] BY <1>1 DEF M
<1>. HIDE DEF v
<1>6. acts' \in 0 .. MaxActs BY StoreAssumption DEF Lookup, Inv, OthersInv
<1>7. UNCHANGED <<table, rows, audit, now, drawn, job, told>> BY DEF Lookup
<1>8. /\ Inv' /\ \A d \in Clients : visit'[d] = IF d = c THEN v ELSE visit[d]
    BY <1>4, <1>5, <1>6, <1>7, OnlyVisitMoves DEF D
<1>. QED BY <1>4, <1>7, <1>8 DEF Lookup, M

LEMMA AcceptStep ==
    ASSUME Inv, NEW c \in Clients, Accept(c)
    PROVE  /\ Inv' /\ UNCHANGED <<table, now, drawn, job, told>>
           /\ visit[c].step = "asked" /\ visit'[c].step = "served"
           /\ \E row \in visit[c].match : ~Expired(row.expires)
           /\ \A d \in Clients : d # c => visit'[d] = visit[d]
<1>1. PICK row \in visit[c].match :
        /\ ~Expired(row.expires)
        /\ visit' = [visit EXCEPT ![c] = [NoVisit EXCEPT !.step = "served",
                                            !.id = row.id, !.start = now]]
    BY DEF Accept
<1>. DEFINE D == DOMAIN table
            id == row.id
            t == now
            v == [NoVisit EXCEPT !.step = "served", !.id = id, !.start = t]
<1>2. id \in D BY DEF Inv, VisitsInv, VisitShaped
<1>3. D \in SUBSET Ids /\ t \in Instants BY DEF Inv, TableInv, OthersInv
<1>. HIDE DEF D, id, t
<1>4. VisitShaped(v, D) /\ v.step = "served"
    <2>1. \A i \in D, u \in Instants :
            LET w == [NoVisit EXCEPT !.step = "served", !.id = i, !.start = u]
            IN  VisitShaped(w, D) /\ w.step = "served" /\ w.match = {}
        BY <1>3, VisitShapes
    <2>. QED BY <1>2, <1>3, <2>1
<1>5. visit' = [visit EXCEPT ![c] = v] BY <1>1 DEF id, t
<1>. HIDE DEF v
<1>7. UNCHANGED <<table, rows, audit, now, drawn, job, told, acts>> BY DEF Accept
<1>6. acts' \in 0 .. MaxActs BY <1>7 DEF Inv, OthersInv
<1>8. /\ Inv' /\ \A d \in Clients : visit'[d] = IF d = c THEN v ELSE visit[d]
    BY <1>4, <1>5, <1>6, <1>7, OnlyVisitMoves DEF D
<1>. QED BY <1>1, <1>4, <1>7, <1>8 DEF Accept

LEMMA RejectOrVanishStep ==
    ASSUME Inv, NEW c \in Clients, Reject(c) \/ Vanish(c)
    PROVE  /\ Inv' /\ UNCHANGED <<table, now, drawn, job, told>>
           /\ visit'[c].step = "idle"
           /\ \A d \in Clients : d # c => visit'[d] = visit[d]
<1>1. NoVisit.step = "idle" BY DEF NoVisit
<1>2. VisitShaped(NoVisit, DOMAIN table) BY VisitShapes DEF Inv, TableInv
<1>3. /\ visit' = [visit EXCEPT ![c] = NoVisit]
      /\ UNCHANGED <<table, rows, audit, now, drawn, job, told, acts>>
    BY DEF Reject, Vanish
<1>4. acts' \in 0 .. MaxActs BY <1>3 DEF Inv, OthersInv
<1>5. /\ Inv' /\ \A d \in Clients : visit'[d] = IF d = c THEN NoVisit ELSE visit[d]
    BY <1>2, <1>3, <1>4, OnlyVisitMoves
<1>. QED BY <1>1, <1>3, <1>5

LEMMA LogStep ==
    ASSUME Inv, NEW c \in Clients, Log(c)
    PROVE  /\ Inv' /\ UNCHANGED <<now, drawn, job, told>>
           /\ visit[c].step = "served" /\ visit'[c].step = "idle"
           /\ \A d \in Clients : d # c => visit'[d] = visit[d]
           /\ DOMAIN table' = DOMAIN table
           /\ \A i \in DOMAIN table :
                /\ table'[i].hash = table[i].hash /\ table'[i].revoked = table[i].revoked
                /\ table'[i].expires = table[i].expires
<1>. DEFINE id == visit[c].id
            row == [table[id] EXCEPT !.used = TRUE]
<1>1. PICK cost \in Costs \cup {Unpriced} :
        rows' = Append(rows, [token |-> id, ts |-> visit[c].start, cost |-> cost])
    BY DEF Log
<1>2. id \in DOMAIN table /\ visit[c].start \in Instants /\ visit[c].step = "served"
    BY DEF Log, Inv, VisitsInv, VisitShaped
<1>3. table[id] \in Token BY <1>2 DEF Inv, TableInv
<1>4. /\ row \in Token /\ row.hash = table[id].hash
      /\ row.revoked = table[id].revoked /\ row.expires = table[id].expires
    BY <1>3 DEF Token
<1>5. table' = [table EXCEPT ![id] = row] BY DEF Log
<1>15. /\ visit' = [visit EXCEPT ![c] = NoVisit]
       /\ UNCHANGED <<audit, now, drawn, job, told, acts>>
    BY DEF Log
<1>. DEFINE new == [token |-> id, ts |-> visit[c].start, cost |-> cost]
<1>16. new \in Rows /\ new.token = id BY <1>2 DEF Rows, Inv, TableInv
<1>. HIDE DEF row, id, new
<1>6. /\ DOMAIN table' = DOMAIN table /\ DOMAIN table' \subseteq Ids
      /\ table' \in [DOMAIN table' -> Token]
      /\ \A i \in DOMAIN table : table'[i] = IF i = id THEN row ELSE table[i]
    BY <1>2, <1>4, <1>5, RowChanges DEF Inv
<1>7. \A i \in DOMAIN table :
        /\ table'[i].hash = table[i].hash /\ table'[i].revoked = table[i].revoked
        /\ table'[i].expires = table[i].expires
    BY <1>4, <1>6
<1>8. NoVisit.step = "idle" BY DEF NoVisit
<1>9. VisitShaped(NoVisit, DOMAIN table') BY <1>6, VisitShapes
<1>10. VisitsInv' /\ \A d \in Clients : visit'[d] = IF d = c THEN NoVisit ELSE visit[d]
    <2>1. DOMAIN table \subseteq DOMAIN table' BY <1>6
    <2>. QED BY <1>9, <1>15, <2>1, VisitMoves DEF Inv
<1>11. TableInv' BY <1>6, <1>7, <1>15 DEF Inv, TableInv
<1>12. JobsInv' BY <1>6, <1>15, JobsKept DEF Inv
<1>13. RowsInv'
    <2>1. rows' = Append(rows, new) /\ rows \in Seq(Rows) BY <1>1 DEF new, Inv, RowsInv
    <2>2. rows' \in Seq(Rows) BY <1>16, <2>1
    <2>3. \A i \in DOMAIN rows' : rows'[i] = new \/ (i \in DOMAIN rows /\ rows'[i] = rows[i])
        BY <1>16, <2>1
    <2>. QED BY <1>2, <1>6, <1>16, <2>2, <2>3 DEF Inv, RowsInv
<1>14. SecretsInv' BY <1>6, <1>7, <1>15, SecretsKept DEF Inv
<1>17. OthersInv' BY <1>15 DEF Inv, OthersInv
<1>. QED BY <1>2, <1>6, <1>7, <1>8, <1>10, <1>11, <1>12, <1>13, <1>14, <1>15, <1>17 DEF Inv

LEMMA TickStep ==
    ASSUME Inv, Tick
    PROVE  Inv' /\ UNCHANGED <<table, drawn, job, visit, told>> /\ now' > now
<1>1. now' \in Instants /\ now' > now BY DEF Tick
<1>2. UNCHANGED <<table, rows, audit, drawn, job, visit, told, acts>> BY DEF Tick
<1>3. TableInv' BY <1>2, TableUntouched DEF Inv
<1>4. JobsInv' /\ VisitsInv' BY <1>2, JobsKept, VisitsKept DEF Inv
<1>5. RowsInv' BY <1>2, RowsKept DEF Inv
<1>6. SecretsInv' BY <1>2, SecretsKept DEF Inv
<1>7. OthersInv' BY <1>1, <1>2 DEF Inv, OthersInv
<1>. QED BY <1>1, <1>2, <1>3, <1>4, <1>5, <1>6, <1>7 DEF Inv

----------------------------------------------------------------------------
(* The invariant.                                                          *)

LEMMA InitInv == Init => Inv
<1>. SUFFICES ASSUME Init PROVE Inv OBVIOUS
<1>1. table = [id \in {} |-> NoJob] /\ DOMAIN table = {} BY DEF Init
<1>2. TableInv
    <2>1. table \in [DOMAIN table -> Token] BY <1>1
    <2>. QED BY <1>1, <2>1 DEF TableInv
<1>3. JobsInv BY NoJobShaped DEF Init, JobsInv
<1>4. VisitsInv BY VisitShapes DEF Init, VisitsInv
<1>5. RowsInv BY DEF Init, RowsInv
<1>6. SecretsInv BY NoJobFields DEF Init, SecretsInv
<1>7. OthersInv BY StoreAssumption DEF Init, OthersInv
<1>. QED BY <1>2, <1>3, <1>4, <1>5, <1>6, <1>7 DEF Inv

LEMMA NextInv == Inv /\ [Next]_storeVars => Inv'
<1>. SUFFICES ASSUME Inv, [Next]_storeVars PROVE Inv' OBVIOUS
<1>1. CASE UNCHANGED storeVars
    BY <1>1 DEF storeVars, Inv, TableInv, JobsInv, VisitsInv, RowsInv, SecretsInv, OthersInv, Dead
<1>2. ASSUME NEW a \in Admins,
             \/ AskNew(a) \/ AskRotate(a) \/ AskRevoke(a) \/ AskScope(a)
             \/ AskRotateMenu(a) \/ AskRevokeMenu(a)
      PROVE  Inv'
    BY <1>2, AskSteps
<1>3. ASSUME NEW a \in Admins,
             \/ Draw(a) \/ NewToken(a) \/ Rotate(a) \/ Revoke(a) \/ Scope(a)
             \/ Report(a) \/ Quit(a)
      PROVE  Inv'
    BY <1>3, DrawStep, NewTokenStep, RotateStep, RevokeStep, ScopeStep, ReportStep, QuitStep
<1>4. ASSUME NEW c \in Clients,
             Lookup(c) \/ Accept(c) \/ Reject(c) \/ Log(c) \/ Vanish(c)
      PROVE  Inv'
    BY <1>4, LookupStep, AcceptStep, RejectOrVanishStep, LogStep
<1>5. CASE Tick BY <1>5, TickStep
<1>. QED BY <1>1, <1>2, <1>3, <1>4, <1>5 DEF Next

\* The tables and the processes' state are well formed at every step: terms
\* end on whole seconds, secrets are unique, rows name tokens that exist.
THEOREM StoreTypeCorrect == Spec => []StoreTypeOK
<1>1. Inv => StoreTypeOK
    <2>. SUFFICES ASSUME Inv PROVE StoreTypeOK OBVIOUS
    <2>1. job \in [Admins -> Jobs] BY DEF Inv, JobsInv, Shaped
    <2>2. visit \in [Clients -> Visits] BY DEF Inv, VisitsInv, VisitShaped
    <2>. QED BY <2>1, <2>2 DEF Inv, StoreTypeOK, TableInv, RowsInv, OthersInv
<1>. QED BY <1>1, InitInv, NextInv, PTL DEF Spec

----------------------------------------------------------------------------
(* The spend of a day.                                                     *)

\* Within a second, the stroke itself is the greatest text.
LEMMA StrokeIsGreatest ==
    ASSUME NEW f \in 0 .. 99
    PROVE  TextRank(f) >= TextRank(0) <=> f = 0
<1>1. f \div 10 \in 0 .. 9 /\ f % 10 \in 0 .. 9 OBVIOUS
<1>2. TextRank(0) = 121 BY DEF TextRank
<1>3. ASSUME f # 0 PROVE TextRank(f) <= 109 BY <1>1, <1>3 DEF TextRank
<1>4. TextRank(f) \in Int BY <1>1 DEF TextRank
<1>. QED BY <1>2, <1>3, <1>4

LEMMA DayStartOnStroke ==
    ASSUME NEW t \in Nat
    PROVE  /\ DayStart(t) \in Int /\ Frac(DayStart(t)) = 0
           /\ Sec(DayStart(t)) \in Int /\ DayStart(t) = 100 * Sec(DayStart(t))
<1>. DEFINE x == Sec(t) - (Sec(t) % DaySeconds)
<1>1. Sec(t) \in Int BY DEF Sec, Second
<1>2. \A u \in Int : u % DaySeconds \in Int BY StoreAssumption
<1>3. x \in Int BY <1>1, <1>2
<1>4. DayStart(t) = 100 * x BY DEF DayStart, Second
<1>. HIDE DEF x
<1>5. \A q \in Int : 100 * q \in Int /\ (100 * q) % 100 = 0 /\ (100 * q) \div 100 = q
    OBVIOUS
<1>. QED BY <1>3, <1>4, <1>5 DEF Frac, Sec, Second

LEMMA TextOrder ==
    ASSUME NEW t \in Nat, NEW d \in Int, Frac(d) = 0, NEW q \in Int, Sec(d) = q, d = 100 * q
    PROVE  TextAtLeast(t, d) <=> t >= d /\ (Sec(t) = Sec(d) => Frac(t) = 0)
<1>1. Frac(t) \in 0 .. 99 /\ Sec(t) \in Int /\ t = 100 * Sec(t) + Frac(t)
    BY DEF Frac, Sec, Second
<1>2. TextRank(Frac(t)) >= TextRank(0) <=> Frac(t) = 0 BY <1>1, StrokeIsGreatest
<1>. DEFINE u == Sec(t)
            f == Frac(t)
<1>. HIDE DEF u, f
<1>3. u \in Int /\ f \in 0 .. 99 /\ t = 100 * u + f BY <1>1 DEF u, f
<1>4. u > q => t >= d BY <1>3
<1>5. u = q => t >= d BY <1>3
<1>6. u < q => ~(t >= d) BY <1>3
<1>7. TextAtLeast(t, d) <=> (u > q \/ (u = q /\ f = 0)) BY <1>2 DEF TextAtLeast, u, f
<1>. QED BY <1>3, <1>4, <1>5, <1>6, <1>7 DEF u, f

\* The only requests of a day that its spend leaves out are those that began
\* in its first second and not on the stroke, for every length of a day, all
\* times and any number of rows (store.go:253).
THEOREM SpendAlwaysCountsTheDay == Spec => []SpendMissesOnlyFirstSecond
<1>1. Inv => SpendMissesOnlyFirstSecond
    <2>. SUFFICES ASSUME Inv PROVE SpendMissesOnlyFirstSecond OBVIOUS
    <2>1. \A i \in DOMAIN rows : rows[i] \in Rows BY DEF Inv, RowsInv
    <2>2. \A i \in DOMAIN rows : rows[i].ts \in Nat BY <2>1, StoreAssumption DEF Rows
    <2>3. now \in Nat BY StoreAssumption DEF Inv, OthersInv
    <2>. DEFINE d == DayStart(now)
    <2>4. d \in Int /\ Frac(d) = 0 /\ Sec(d) \in Int /\ d = 100 * Sec(d)
        BY <2>3, DayStartOnStroke
    <2>. HIDE DEF d
    <2>5. ASSUME NEW i \in DOMAIN rows
          PROVE  TextAtLeast(rows[i].ts, d)
                    <=> rows[i].ts >= d /\ (Sec(rows[i].ts) = Sec(d) => Frac(rows[i].ts) = 0)
        <3>. DEFINE t == rows[i].ts
        <3>1. t \in Nat BY <2>2
        <3>. HIDE DEF t
        <3>2. TextAtLeast(t, d) <=> t >= d /\ (Sec(t) = Sec(d) => Frac(t) = 0)
            BY <2>4, <3>1, TextOrder
        <3>. QED BY <3>2 DEF t
    <2>6. Since(d) = {i \in DOMAIN rows : TextAtLeast(rows[i].ts, d)} BY DEF Since
    <2>7. ASSUME NEW id \in Ids
          PROVE  DailySpend(id) =
                    {i \in DOMAIN rows :
                        /\ rows[i].token = id /\ rows[i].cost # Unpriced
                        /\ rows[i].ts >= d
                        /\ Sec(rows[i].ts) = Sec(d) => Frac(rows[i].ts) = 0}
        <3>1. DailySpend(id) = {i \in Since(d) : rows[i].token = id /\ rows[i].cost # Unpriced}
            BY DEF DailySpend, d
        <3>. QED BY <2>5, <2>6, <3>1
    <2>. QED BY <2>7 DEF SpendMissesOnlyFirstSecond, d
<1>. QED BY <1>1, InitInv, NextInv, PTL DEF Spec

----------------------------------------------------------------------------
(* Store implements Credentials.                                           *)

InTerm(end) == end = Never \/ now <= end

LEMMA SecretFacts ==
    ASSUME Inv
    PROVE  /\ \A i \in DOMAIN table : table[i].hash \in Secrets /\ table[i].expires \in Ends
           /\ \A i \in DOMAIN table :
                table[i].hash \in LiveSecrets <=> ~table[i].revoked /\ InTerm(table[i].expires)
           /\ LiveSecrets \subseteq {table[i].hash : i \in DOMAIN table}
           /\ {table[i].hash : i \in DOMAIN table} \subseteq drawn
           /\ drawn \subseteq Secrets /\ None \notin drawn
           /\ Held \subseteq drawn
           /\ \A i \in DOMAIN table : table[i].hash \notin Held
<1>1. \A i \in DOMAIN table : table[i] \in Token /\ table[i].hash \in drawn
    BY DEF Inv, TableInv
<1>2. \A i \in DOMAIN table : table[i].hash \in Secrets /\ table[i].expires \in Ends
    BY <1>1 DEF Token
<1>3. \A i, j \in DOMAIN table : table[i].hash = table[j].hash => i = j
    BY DEF Inv, TableInv
<1>4. drawn \subseteq Secrets /\ None \notin drawn BY StoreAssumption DEF Inv, OthersInv
<1>5. Held \subseteq drawn BY DEF Held, Inv, SecretsInv
<1>6. \A i \in DOMAIN table : table[i].hash \notin Held
    BY <1>1, <1>4 DEF Held, Inv, SecretsInv
<1>7. \A i \in DOMAIN table :
        table[i].hash \in LiveSecrets <=> ~table[i].revoked /\ InTerm(table[i].expires)
    BY <1>2, <1>3 DEF LiveSecrets, InTerm
<1>8. LiveSecrets \subseteq {table[i].hash : i \in DOMAIN table} BY DEF LiveSecrets
<1>. QED BY <1>1, <1>2, <1>4, <1>5, <1>6, <1>7, <1>8

LEMMA SameLive ==
    ASSUME DOMAIN table' = DOMAIN table, now' = now,
           \A i \in DOMAIN table :
                /\ table'[i].hash = table[i].hash /\ table'[i].revoked = table[i].revoked
                /\ table'[i].expires = table[i].expires
    PROVE  LiveSecrets' = LiveSecrets
BY DEF LiveSecrets

LEMMA SameHeld ==
    ASSUME \A b \in Admins : job'[b].secret = job[b].secret
    PROVE  Held' = Held
BY DEF Held

\* One process lets go of the secret it holds, and no other has it.
LEMMA LetsGo ==
    ASSUME Inv, NEW a \in Admins, job'[a].secret = None,
           \A b \in Admins : b # a => job'[b].secret = job[b].secret
    PROVE  /\ Held' = Held \ {job[a].secret}
           /\ job[a].secret # None => job[a].secret \in Held /\ job[a].secret \in drawn
<1>1. \A b \in Admins : b # a /\ job[b].secret # None => job[b].secret # job[a].secret
    BY DEF Inv, SecretsInv
<1>2. job[a].secret # None => job[a].secret \in Held /\ job[a].secret \in drawn
    BY DEF Held, Inv, SecretsInv
<1>3. Held' \subseteq Held \ {job[a].secret} BY <1>1 DEF Held
<1>4. Held \ {job[a].secret} \subseteq Held' BY DEF Held
<1>. QED BY <1>2, <1>3, <1>4

LEMMA SameVisits ==
    ASSUME visit' = visit, now' = now
    PROVE  Hopeful' = Hopeful /\ Admitted' = Admitted
BY DEF Hopeful, Admitted

LEMMA AskMaps ==
    ASSUME Inv, NEW a \in Admins,
           \/ AskNew(a) \/ AskRotate(a) \/ AskRevoke(a) \/ AskScope(a)
           \/ AskRotateMenu(a) \/ AskRevokeMenu(a)
    PROVE  UNCHANGED CR!credVars
<1>1. /\ \A b \in Admins : job'[b].secret = job[b].secret
      /\ UNCHANGED <<table, now, drawn, visit, told>>
    BY AskSteps
<1>2. LiveSecrets' = LiveSecrets BY <1>1, SameLive
<1>3. Held' = Held BY <1>1, SameHeld
<1>4. Hopeful' = Hopeful /\ Admitted' = Admitted BY <1>1, SameVisits
<1>. QED BY <1>1, <1>2, <1>3, <1>4 DEF CR!credVars

LEMMA DrawMaps ==
    ASSUME Inv, NEW a \in Admins, Draw(a)
    PROVE  UNCHANGED CR!credVars
<1>1. PICK s \in Secrets \ drawn :
        /\ drawn' = drawn \cup {s} /\ job'[a].secret = s
        /\ \A b \in Admins : b # a => job'[b].secret = job[b].secret
    BY DrawStep
<1>2. job[a].secret = None BY DrawStep
<1>3. UNCHANGED <<table, now, visit, told>> BY DEF Draw
<1>4. LiveSecrets' = LiveSecrets BY <1>3, SameLive
<1>5. s # None BY StoreAssumption
<1>6. Held' = Held \cup {s} BY <1>1, <1>2, <1>5 DEF Held
<1>7. s \notin LiveSecrets BY <1>1, SecretFacts
<1>8. (drawn \ (LiveSecrets \cup Held))' = drawn \ (LiveSecrets \cup Held)
    BY <1>1, <1>4, <1>6, <1>7
<1>9. Hopeful' = Hopeful /\ Admitted' = Admitted BY <1>3, SameVisits
<1>. QED BY <1>3, <1>4, <1>8, <1>9 DEF CR!credVars

LEMMA ScopeMaps ==
    ASSUME Inv, NEW a \in Admins, Scope(a)
    PROVE  UNCHANGED CR!credVars
<1>1. UNCHANGED <<now, drawn, visit, told>> BY DEF Scope, Written
<1>2. LiveSecrets' = LiveSecrets BY <1>1, ScopeStep, SameLive
<1>3. Held' = Held BY ScopeStep, SameHeld
<1>4. Hopeful' = Hopeful /\ Admitted' = Admitted BY <1>1, SameVisits
<1>. QED BY <1>1, <1>2, <1>3, <1>4 DEF CR!credVars

LEMMA ReportMaps ==
    ASSUME Inv, NEW a \in Admins, Report(a)
    PROVE  CR!Next
<1>1. UNCHANGED <<table, now, drawn, visit>> /\ told' = told \cup job[a].old BY DEF Report
<1>2. LiveSecrets' = LiveSecrets BY <1>1, SameLive
<1>3. Held' = Held BY ReportStep, SameHeld
<1>4. Hopeful' = Hopeful /\ Admitted' = Admitted BY <1>1, SameVisits
<1>. DEFINE S == job[a].old
<1>5. \A s \in S : Dead(s) BY DEF Inv, SecretsInv
<1>6. ASSUME NEW s \in S PROVE s \in drawn /\ s \notin LiveSecrets /\ s \notin Held
    BY <1>5 DEF Dead, LiveSecrets, Held
<1>7. S \in SUBSET Secrets BY <1>6, SecretFacts
<1>8. CR!Announce(S)
    BY <1>1, <1>2, <1>3, <1>4, <1>6 DEF CR!Announce
<1>. QED BY <1>7, <1>8 DEF CR!Next

LEMMA QuitMaps ==
    ASSUME Inv, NEW a \in Admins, Quit(a)
    PROVE  CR!Next \/ UNCHANGED CR!credVars
<1>1. UNCHANGED <<table, now, drawn, visit, told>> BY DEF Quit
<1>2. LiveSecrets' = LiveSecrets BY <1>1, SameLive
<1>4. Hopeful' = Hopeful /\ Admitted' = Admitted BY <1>1, SameVisits
<1>. DEFINE s == job[a].secret
<1>5. Held' = Held \ {s} /\ (s # None => s \in Held /\ s \in drawn)
    BY QuitStep, LetsGo
<1>. HIDE DEF s
<1>6. CASE s = None
    <2>1. Held' = Held BY <1>5, <1>6 DEF Held
    <2>. QED BY <1>1, <1>2, <1>4, <2>1 DEF CR!credVars
<1>7. CASE s # None
    <2>1. s \in Held /\ s \in drawn /\ s \in Secrets BY <1>5, <1>7, SecretFacts
    <2>2. s \notin LiveSecrets BY <2>1, SecretFacts
    <2>3. (drawn \ (LiveSecrets \cup Held))' = (drawn \ (LiveSecrets \cup Held)) \cup {s}
        BY <1>1, <1>2, <1>5, <2>1, <2>2
    <2>4. CR!Discard(s)
        BY <1>1, <1>2, <1>4, <2>1, <2>2, <2>3 DEF CR!Discard, CR!Fresh
    <2>. QED BY <2>1, <2>4 DEF CR!Next
<1>. QED BY <1>6, <1>7

LEMMA NewTokenMaps ==
    ASSUME Inv, NEW a \in Admins, NewToken(a)
    PROVE  CR!Next
<1>. DEFINE s == job[a].secret
<1>0. \E id :
        /\ id \notin DOMAIN table /\ DOMAIN table' = DOMAIN table \cup {id}
        /\ \A i \in DOMAIN table : table'[i] = table[i]
        /\ table'[id].hash = job[a].secret /\ table'[id].revoked = FALSE
    BY NewTokenStep
<1>1. PICK id : /\ id \notin DOMAIN table /\ DOMAIN table' = DOMAIN table \cup {id}
                /\ \A i \in DOMAIN table : table'[i] = table[i]
                /\ table'[id].hash = s /\ table'[id].revoked = FALSE
    BY <1>0
<1>2. Inv' BY NewTokenStep
<1>3. Held' = Held \ {s} /\ s \in Held /\ s \in drawn
    BY NewTokenStep, LetsGo
<1>4. UNCHANGED <<now, drawn, visit, told>> BY DEF NewToken, Written
<1>5. Hopeful' = Hopeful /\ Admitted' = Admitted BY <1>4, SameVisits
<1>6. s \notin LiveSecrets /\ s \in Secrets BY <1>3, SecretFacts
<1>. HIDE DEF s
<1>7. LiveSecrets' = LiveSecrets \cup (IF InTerm(table'[id].expires) THEN {s} ELSE {})
    BY <1>1, <1>4, <1>6 DEF LiveSecrets, InTerm
<1>8. CASE InTerm(table'[id].expires)
    <2>1. LiveSecrets' = LiveSecrets \cup {s} BY <1>7, <1>8
    <2>2. (drawn \ (LiveSecrets \cup Held))' = drawn \ (LiveSecrets \cup Held)
        BY <1>3, <1>4, <2>1
    <2>3. CR!Issue(s) BY <1>3, <1>4, <1>5, <1>6, <2>1, <2>2 DEF CR!Issue, CR!Fresh
    <2>. QED BY <1>6, <2>3 DEF CR!Next
<1>9. CASE ~InTerm(table'[id].expires)
    <2>1. LiveSecrets' = LiveSecrets BY <1>7, <1>9
    <2>2. (drawn \ (LiveSecrets \cup Held))' = (drawn \ (LiveSecrets \cup Held)) \cup {s}
        BY <1>3, <1>4, <1>6, <2>1
    <2>3. CR!Discard(s) BY <1>3, <1>4, <1>5, <1>6, <2>1, <2>2 DEF CR!Discard, CR!Fresh
    <2>. QED BY <1>6, <2>3 DEF CR!Next
<1>. QED BY <1>8, <1>9

LEMMA RotateMaps ==
    ASSUME Inv, NEW a \in Admins, Rotate(a)
    PROVE  CR!Next
<1>. DEFINE s == job[a].secret
            id == job[a].id
            old == table[id].hash
<1>1. /\ DOMAIN table' = DOMAIN table /\ id \in DOMAIN table
      /\ \A i \in DOMAIN table : i # id => table'[i] = table[i]
      /\ table'[id].hash = s /\ table'[id].revoked = FALSE
      /\ table'[id].expires = table[id].expires
    BY RotateStep
<1>3. Held' = Held \ {s} /\ s \in Held /\ s \in drawn
    BY RotateStep, LetsGo
<1>4. UNCHANGED <<now, drawn, visit, told>> BY DEF Rotate, Written
<1>5. Hopeful' = Hopeful /\ Admitted' = Admitted BY <1>4, SameVisits
<1>6. s \notin LiveSecrets /\ s \in Secrets BY <1>3, SecretFacts
<1>2. \A i, j \in DOMAIN table : table[i].hash = table[j].hash => i = j
    BY DEF Inv, TableInv
<1>10. old \in Secrets /\ old \in drawn /\ old \notin Held BY <1>1, SecretFacts
<1>11. old \in LiveSecrets => InTerm(table[id].expires) BY <1>1, SecretFacts
<1>. HIDE DEF s, id, old
<1>12. old = table[id].hash BY DEF old
<1>7. LiveSecrets' = (LiveSecrets \ {old}) \cup (IF InTerm(table[id].expires) THEN {s} ELSE {})
    <2>1. ASSUME NEW t \in LiveSecrets'
          PROVE  t \in (LiveSecrets \ {old}) \cup (IF InTerm(table[id].expires) THEN {s} ELSE {})
        <3>1. PICK i \in DOMAIN table :
                /\ table'[i].hash = t /\ ~table'[i].revoked
                /\ table'[i].expires = Never \/ now <= table'[i].expires
            BY <1>1, <1>4 DEF LiveSecrets
        <3>2. CASE i = id BY <1>1, <2>1, <3>1, <3>2 DEF InTerm
        <3>3. CASE i # id
            <4>1. t \in LiveSecrets BY <1>1, <2>1, <3>1, <3>3 DEF LiveSecrets
            <4>2. t # old BY <1>1, <1>2, <1>12, <3>1, <3>3
            <4>. QED BY <4>1, <4>2
        <3>. QED BY <3>2, <3>3
    <2>2. ASSUME NEW t \in LiveSecrets, t # old PROVE t \in LiveSecrets'
        <3>1. PICK i \in DOMAIN table :
                /\ table[i].hash = t /\ ~table[i].revoked
                /\ table[i].expires = Never \/ now <= table[i].expires
            BY DEF LiveSecrets
        <3>2. i # id BY <1>12, <2>2, <3>1
        <3>. QED BY <1>1, <1>4, <2>2, <3>1, <3>2 DEF LiveSecrets
    <2>3. InTerm(table[id].expires) => s \in LiveSecrets'
        BY <1>1, <1>4, <1>6 DEF LiveSecrets, InTerm
    <2>. QED BY <2>1, <2>2, <2>3
<1>8. CASE old \in LiveSecrets
    <2>1. LiveSecrets' = (LiveSecrets \ {old}) \cup {s} BY <1>7, <1>8, <1>11
    <2>2. (drawn \ (LiveSecrets \cup Held))' = (drawn \ (LiveSecrets \cup Held)) \cup {old}
        BY <1>3, <1>4, <1>6, <1>8, <1>10, <2>1
    <2>3. CR!Replace(old, s)
        BY <1>3, <1>4, <1>5, <1>6, <1>8, <2>1, <2>2 DEF CR!Replace, CR!Fresh
    <2>. QED BY <1>6, <1>10, <2>3 DEF CR!Next
<1>9. CASE old \notin LiveSecrets /\ InTerm(table[id].expires)
    <2>1. LiveSecrets' = LiveSecrets \cup {s} BY <1>7, <1>9
    <2>2. (drawn \ (LiveSecrets \cup Held))' = drawn \ (LiveSecrets \cup Held)
        BY <1>3, <1>4, <2>1
    <2>3. CR!Issue(s) BY <1>3, <1>4, <1>5, <1>6, <2>1, <2>2 DEF CR!Issue, CR!Fresh
    <2>. QED BY <1>6, <2>3 DEF CR!Next
<1>13. CASE old \notin LiveSecrets /\ ~InTerm(table[id].expires)
    <2>1. LiveSecrets' = LiveSecrets BY <1>7, <1>13
    <2>2. (drawn \ (LiveSecrets \cup Held))' = (drawn \ (LiveSecrets \cup Held)) \cup {s}
        BY <1>3, <1>4, <1>6, <2>1
    <2>3. CR!Discard(s) BY <1>3, <1>4, <1>5, <1>6, <2>1, <2>2 DEF CR!Discard, CR!Fresh
    <2>. QED BY <1>6, <2>3 DEF CR!Next
<1>. QED BY <1>8, <1>9, <1>13

\* Secrets stop being good: those of a revoked row, those past their term.
LEMMA Withdrawal ==
    ASSUME Inv, LiveSecrets' \subseteq LiveSecrets, Held' = Held, drawn' = drawn,
           told' = told, Hopeful' \subseteq Hopeful, Admitted' = Admitted
    PROVE  CR!Next
<1>. DEFINE S == LiveSecrets \ LiveSecrets'
<1>1. /\ LiveSecrets \subseteq drawn /\ LiveSecrets \cap Held = {}
      /\ LiveSecrets \subseteq Secrets
    BY SecretFacts
<1>2. S \in SUBSET Secrets /\ S \subseteq LiveSecrets /\ LiveSecrets' = LiveSecrets \ S
    BY <1>1
<1>. HIDE DEF S
<1>3. (drawn \ (LiveSecrets \cup Held))' = (drawn \ (LiveSecrets \cup Held)) \cup S
    BY <1>1, <1>2
<1>4. CR!Withdraw(S) BY <1>2, <1>3 DEF CR!Withdraw
<1>. QED BY <1>2, <1>4 DEF CR!Next

LEMMA RevokeMaps ==
    ASSUME Inv, NEW a \in Admins, Revoke(a)
    PROVE  CR!Next
<1>1. UNCHANGED <<now, drawn, visit, told>> BY DEF Revoke, Written
<1>2. Hopeful' = Hopeful /\ Admitted' = Admitted BY <1>1, SameVisits
<1>3. Held' = Held BY RevokeStep, SameHeld
<1>4. LiveSecrets' \subseteq LiveSecrets BY <1>1, RevokeStep DEF LiveSecrets
<1>. QED BY <1>1, <1>2, <1>3, <1>4, Withdrawal

LEMMA TickMaps ==
    ASSUME Inv, Tick
    PROVE  CR!Next
<1>1. UNCHANGED <<table, drawn, job, visit, told>> /\ now' > now /\ Inv' BY TickStep
<1>2. now \in Int /\ now' \in Int BY <1>1, StoreAssumption DEF Inv, OthersInv
<1>3. \A e \in Ends : e = Never \/ now' <= e => e = Never \/ now <= e
    BY <1>1, <1>2 DEF Ends
<1>4. LiveSecrets' \subseteq LiveSecrets
    <2>1. \A i \in DOMAIN table : table[i].expires \in Ends BY SecretFacts
    <2>. QED BY <1>1, <1>3, <2>1 DEF LiveSecrets
<1>5. Hopeful' \subseteq Hopeful
    <2>1. \A c \in Clients : \A row \in visit[c].match : row.expires \in Ends
        BY DEF Inv, VisitsInv, VisitShaped, Visits
    <2>. QED BY <1>1, <1>3, <2>1 DEF Hopeful
<1>6. Admitted' = Admitted /\ Held' = Held BY <1>1 DEF Admitted, Held
<1>. QED BY <1>1, <1>4, <1>5, <1>6, Withdrawal

LEMMA LookupMaps ==
    ASSUME Inv, NEW c \in Clients, Lookup(c)
    PROVE  CR!Next
<1>1. /\ UNCHANGED <<table, now, drawn, job, told>> /\ visit[c].step = "idle"
      /\ \E s \in Secrets : \E v :
            /\ v.step = "asked" /\ v.match = Found(s)
            /\ \A d \in Clients : visit'[d] = IF d = c THEN v ELSE visit[d]
    BY LookupStep
<1>0. PICK s \in Secrets : \E v :
            /\ v.step = "asked" /\ v.match = Found(s)
            /\ \A d \in Clients : visit'[d] = IF d = c THEN v ELSE visit[d]
    BY <1>1
<1>2. PICK v :
            /\ v.step = "asked" /\ v.match = Found(s)
            /\ \A d \in Clients : visit'[d] = IF d = c THEN v ELSE visit[d]
    BY <1>0
<1>3. LiveSecrets' = LiveSecrets BY <1>1, SameLive
<1>4. Held' = Held BY <1>1 DEF Held
<1>5. Admitted' = Admitted /\ c \notin Admitted BY <1>1, <1>2 DEF Admitted
<1>6. (\E row \in Found(s) : row.expires = Never \/ now <= row.expires) <=> s \in LiveSecrets
    <2>1. \A e : (e = Never \/ now <= e) <=> InTerm(e) BY DEF InTerm
    <2>2. s \in LiveSecrets <=>
            \E id \in DOMAIN table :
                table[id].hash = s /\ ~table[id].revoked /\ InTerm(table[id].expires)
        BY <1>2 DEF LiveSecrets, InTerm
    <2>3. (\E row \in Found(s) : InTerm(row.expires)) <=>
            \E id \in Matching(s) : InTerm(table[id].expires)
        <3>1. \A row : row \in Found(s) <=>
                \E id \in Matching(s) : row = [id |-> id, expires |-> table[id].expires]
            BY DEF Found
        <3>2. \A id : [id |-> id, expires |-> table[id].expires].expires = table[id].expires
            OBVIOUS
        <3>3. ASSUME NEW row \in Found(s), InTerm(row.expires)
              PROVE  \E id \in Matching(s) : InTerm(table[id].expires)
            BY <3>1, <3>3
        <3>4. ASSUME NEW id \in Matching(s), InTerm(table[id].expires)
              PROVE  \E row \in Found(s) : InTerm(row.expires)
            <4>. DEFINE row == [id |-> id, expires |-> table[id].expires]
            <4>1. row \in Found(s) BY <3>1
            <4>2. InTerm(row.expires) BY <3>2, <3>4
            <4>. QED BY <4>1, <4>2
        <3>. QED BY <3>3, <3>4
    <2>4. \A id : id \in Matching(s) <=>
            id \in DOMAIN table /\ table[id].hash = s /\ ~table[id].revoked
        BY DEF Matching, Active, Verify
    <2>. QED BY <2>1, <2>2, <2>3, <2>4
<1>7. Hopeful' = IF s \in LiveSecrets THEN Hopeful \cup {c} ELSE Hopeful \ {c}
    BY <1>1, <1>2, <1>6 DEF Hopeful
<1>8. CR!Ask(c, s) BY <1>1, <1>3, <1>4, <1>5, <1>7 DEF CR!Ask
<1>. QED BY <1>8 DEF CR!Next

LEMMA VisitMaps ==
    ASSUME Inv, NEW c \in Clients, Accept(c) \/ Reject(c) \/ Log(c) \/ Vanish(c)
    PROVE  CR!Next
<1>1. /\ UNCHANGED <<now, drawn, job, told>>
      /\ \A d \in Clients : d # c => visit'[d] = visit[d]
    BY AcceptStep, RejectOrVanishStep, LogStep
<1>2. LiveSecrets' = LiveSecrets
    BY AcceptStep, RejectOrVanishStep, LogStep, SameLive
<1>3. Held' = Held BY <1>1 DEF Held
<1>4. CASE Accept(c)
    <2>1. /\ visit[c].step = "asked" /\ visit'[c].step = "served"
          /\ \E row \in visit[c].match : ~Expired(row.expires)
        BY <1>4, AcceptStep
    <2>2. now \in Int BY StoreAssumption DEF Inv, OthersInv
    <2>3. \A row \in visit[c].match : row.expires \in Ends
        BY DEF Inv, VisitsInv, VisitShaped, Visits
    <2>4. \A e \in Ends : ~Expired(e) => e = Never \/ now <= e
        BY <2>2 DEF Expired, Ends
    <2>5. c \in Hopeful BY <2>1, <2>3, <2>4 DEF Hopeful
    <2>6. Hopeful' = Hopeful \ {c} /\ Admitted' = Admitted \cup {c}
        BY <1>1, <2>1 DEF Hopeful, Admitted
    <2>7. CR!Admit(c) BY <1>1, <1>2, <1>3, <2>5, <2>6 DEF CR!Admit
    <2>. QED BY <2>7 DEF CR!Next
<1>5. CASE Reject(c)
    <2>1. visit'[c].step = "idle" /\ visit[c].step = "asked"
        BY <1>5, RejectOrVanishStep DEF Reject
    <2>2. Hopeful' = Hopeful \ {c} /\ Admitted' = Admitted
        BY <1>1, <2>1 DEF Hopeful, Admitted
    <2>3. CR!Refuse(c) BY <1>1, <1>2, <1>3, <2>2 DEF CR!Refuse
    <2>. QED BY <2>3 DEF CR!Next
<1>6. CASE Log(c) \/ Vanish(c)
    <2>1. visit'[c].step = "idle" /\ visit[c].step = "served"
        BY <1>6, RejectOrVanishStep, LogStep DEF Vanish
    <2>2. Admitted' = Admitted \ {c} /\ Hopeful' = Hopeful
        BY <1>1, <2>1 DEF Hopeful, Admitted
    <2>3. CR!Leave(c) BY <1>1, <1>2, <1>3, <2>2 DEF CR!Leave
    <2>. QED BY <2>3 DEF CR!Next
<1>. QED BY <1>4, <1>5, <1>6

LEMMA InitMaps == Init => CR!Init
<1>. SUFFICES ASSUME Init PROVE CR!Init OBVIOUS
<1>1. DOMAIN table = {} /\ drawn = {} /\ told = {} BY DEF Init
<1>2. LiveSecrets = {} BY <1>1 DEF LiveSecrets
<1>3. NoVisit.step = "idle" BY DEF NoVisit
<1>4. Hopeful = {} /\ Admitted = {} BY <1>3 DEF Init, Hopeful, Admitted
<1>. QED BY <1>1, <1>2, <1>4 DEF CR!Init

LEMMA StepMaps == Inv /\ [Next]_storeVars => [CR!Next]_(CR!credVars)
<1>. SUFFICES ASSUME Inv, [Next]_storeVars PROVE CR!Next \/ UNCHANGED CR!credVars
    OBVIOUS
<1>1. CASE UNCHANGED storeVars
    <2>1. UNCHANGED <<table, now, drawn, job, visit, told>> BY <1>1 DEF storeVars
    <2>2. LiveSecrets' = LiveSecrets BY <2>1, SameLive
    <2>3. Held' = Held BY <2>1 DEF Held
    <2>4. Hopeful' = Hopeful /\ Admitted' = Admitted BY <2>1, SameVisits
    <2>. QED BY <2>1, <2>2, <2>3, <2>4 DEF CR!credVars
<1>2. ASSUME NEW a \in Admins,
             \/ AskNew(a) \/ AskRotate(a) \/ AskRevoke(a) \/ AskScope(a)
             \/ AskRotateMenu(a) \/ AskRevokeMenu(a) \/ Draw(a) \/ Scope(a)
      PROVE  UNCHANGED CR!credVars
    BY <1>2, AskMaps, DrawMaps, ScopeMaps
<1>3. ASSUME NEW a \in Admins,
             NewToken(a) \/ Rotate(a) \/ Revoke(a) \/ Report(a) \/ Quit(a)
      PROVE  CR!Next \/ UNCHANGED CR!credVars
    BY <1>3, NewTokenMaps, RotateMaps, RevokeMaps, ReportMaps, QuitMaps
<1>4. ASSUME NEW c \in Clients,
             Lookup(c) \/ Accept(c) \/ Reject(c) \/ Log(c) \/ Vanish(c)
      PROVE  CR!Next
    BY <1>4, LookupMaps, VisitMaps
<1>5. CASE Tick BY <1>5, TickMaps
<1>. QED BY <1>1, <1>2, <1>3, <1>4, <1>5 DEF Next

\* Every behaviour of the tables, the commands and the requests is one that
\* Credentials allows: no withdrawn secret is good again (store.go:145), and
\* who was told of a withdrawal can rely on it.
THEOREM StoreRefinesCredentials == Spec => ImplementsCredentials
BY InitInv, NextInv, InitMaps, StepMaps, PTL DEF Spec, ImplementsCredentials, CR!Spec
=============================================================================
