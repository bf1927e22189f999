-------------------- MODULE ControlPlaneHistoryProofs --------------------
(***************************************************************************)
(* Proofs about ControlPlaneObserved: no save that was not overtaken loses *)
(* what another command wrote, and the keys match the providers while the  *)
(* commands run one at a time.                                             *)
(***************************************************************************)
EXTENDS ControlPlaneProofs

----------------------------------------------------------------------------
(* A copy of the configuration.                                            *)

\* j's copy of the configuration has all that old has, less what its command
\* removes; until then it has all.
Based(j, old) ==
    /\ old # Garbled
    /\ Trimmed(j.cmd, j.name, old, j.config)
    /\ ~NoEdit(j.todo) => Grown(old, j.config)

\* The file is read and is going to be written.
Loaded(j) == Load \notin Left(j.todo) /\ SavesConfig(j.todo)

\* What the copy of p is worth: it is based on the last complete
\* configuration, and on what the file holds.
Current(p) ==
    /\ Based(job[p], whole)
    /\ Saving(p, "config") => disk["config"] = Empty
    /\ ~Saving(p, "config") => Based(job[p], Seen("config"))

WholeSeen == (\A q \in Procs : ~Saving(q, "config")) => whole = Seen("config")
CopiesCurrent == \A p \in Procs \ overtaken : Loaded(job[p]) => Current(p)

CopyInv == Inv /\ ShapeInv /\ WholeSeen /\ CopiesCurrent

----------------------------------------------------------------------------
(* What a step does to the jobs.                                           *)

LEMMA JobAfter ==
    ASSUME Inv, NEW p \in Procs, NEW j, BecomesJob(p, j)
    PROVE  /\ job'[p] = IF j.todo = <<>> THEN Idle ELSE j
           /\ \A q \in Procs \ {p} : job'[q] = job[q]
BY DEF Inv, ControlPlaneTypeOK, BecomesJob, Settled

LEMMA BeginAfter ==
    ASSUME Inv, NEW p \in Procs, NEW cmd \in Commands, Begin(p, cmd)
    PROVE  /\ job'[p].cmd = cmd /\ job'[p].todo = Script(cmd)
           /\ \A q \in Procs \ {p} : job'[q] = job[q]
           /\ disk' = disk /\ job[p].todo = <<>> /\ cmd \in AllCommands
<1>1. job' = [job EXCEPT ![p] = [Idle EXCEPT !.cmd = cmd, !.todo = Script(cmd)]]
    BY DEF Begin
<1>2. job'[p] = [Idle EXCEPT !.cmd = cmd, !.todo = Script(cmd)]
    BY <1>1 DEF Inv, ControlPlaneTypeOK
<1>3. job'[p].cmd = cmd /\ job'[p].todo = Script(cmd) BY <1>2 DEF Idle
<1>4. \A q \in Procs \ {p} : job'[q] = job[q] BY <1>1 DEF Inv, ControlPlaneTypeOK
<1>. QED BY <1>3, <1>4, ConstantsAssumption DEF Begin

\* The step p is at.
LEMMA AtHead ==
    ASSUME Inv, NEW p \in Procs, NEW v, AtStep(p, v)
    PROVE  /\ job[p].todo # <<>> /\ job[p].todo \in Seq(Steps)
           /\ Head(job[p].todo) \in Steps /\ Head(job[p].todo)[1] = v
           /\ Rest(job[p].todo) \in Seq(Steps)
           /\ Left(job[p].todo) = {Head(job[p].todo)} \cup Left(Rest(job[p].todo))
           /\ Head(job[p].todo) = <<v, Head(job[p].todo)[2]>>
<1>1. job[p].todo \in Seq(Steps) BY JobsAreSound, JobFields
<1>2. job[p].todo # <<>> /\ Head(job[p].todo)[1] = v BY DEF AtStep
<1>3. /\ Head(job[p].todo) \in Steps /\ Rest(job[p].todo) \in Seq(Steps)
      /\ Left(job[p].todo) = {Head(job[p].todo)} \cup Left(Rest(job[p].todo))
    BY <1>1, <1>2, LeftSplit
<1>4. ASSUME NEW A, NEW B, NEW s \in A \X B PROVE s = <<s[1], s[2]>>
    OBVIOUS
<1>5. Head(job[p].todo) = <<v, Head(job[p].todo)[2]>> BY <1>2, <1>3, <1>4 DEF Steps
<1>. QED BY <1>1, <1>2, <1>3, <1>5

\* Steps of p that touch neither the configuration file nor the copy of it:
\* what is left is the rest, or a save of the keys first.
Pushed == {Save("secrets"), Keys("forget")}

Aside(p, k) ==
    /\ k.cmd = job[p].cmd /\ k.config = job[p].config /\ k.name = job[p].name
    /\ k.todo \in Seq(Steps)
    /\ Left(k.todo) \subseteq Pushed \cup Left(Rest(job[p].todo))
    /\ Left(Rest(k.todo)) \subseteq Pushed \cup Left(Rest(job[p].todo))

LEMMA PushedSteps ==
    /\ Pushed \subseteq Steps
    /\ \A s \in Pushed : /\ s[1] \notin {"load", "edit", "encode"}
                        /\ s # Save("config") /\ s # Encoding("config")
<1>1. Pushed \subseteq Steps BY StepSteps DEF Pushed
<1>2. \A s \in Pushed : s[1] \notin {"load", "edit", "encode"}
    BY DEF Pushed, Save, Keys
<1>3. \A s \in Pushed : s # Save("config") /\ s # Encoding("config")
    BY DEF Pushed, Save, Encoding, Keys
<1>. QED BY <1>1, <1>2, <1>3

LEMMA AsideRest ==
    ASSUME Inv, NEW p \in Procs, job[p].todo # <<>>,
           NEW k, k.cmd = job[p].cmd, k.config = job[p].config, k.name = job[p].name,
           k.todo = Rest(job[p].todo)
    PROVE  Aside(p, k)
<1>1. job[p].todo \in Seq(Steps) BY JobsAreSound, JobFields
<1>2. Rest(job[p].todo) \in Seq(Steps) BY <1>1, LeftSplit
<1>3. Left(Rest(k.todo)) \subseteq Left(k.todo) BY <1>2, LeftSplit
<1>. QED BY <1>2, <1>3 DEF Aside

LEMMA AsidePush ==
    ASSUME Inv, NEW p \in Procs, job[p].todo # <<>>,
           NEW k, k.cmd = job[p].cmd, k.config = job[p].config, k.name = job[p].name,
           NEW x \in Pushed, k.todo = Then(x, Rest(job[p].todo))
    PROVE  Aside(p, k)
<1>1. job[p].todo \in Seq(Steps) BY JobsAreSound, JobFields
<1>2. Rest(job[p].todo) \in Seq(Steps) BY <1>1, LeftSplit
<1>3. /\ k.todo \in Seq(Steps) /\ Rest(k.todo) = Rest(job[p].todo)
      /\ Left(k.todo) = {x} \cup Left(Rest(job[p].todo))
    BY <1>2, PushedSteps, LeftThen
<1>. QED BY <1>3 DEF Aside

LEMMA MovedSteps ==
    ASSUME NEW t \in Seq(Steps)
    PROVE  <<Save("secrets"), Keys("forget"), Save("secrets")>> \o t =
                Then(Save("secrets"), Then(Keys("forget"), Then(Save("secrets"), t)))
<1>1. \A a, b : <<a, b, a>> \o t = Then(a, Then(b, Then(a, t)))
    <2>. TAKE a, b
    <2>. DEFINE S == Steps \cup {a, b}
    <2>1. t \in Seq(S) /\ a \in S /\ b \in S OBVIOUS
    <2>. HIDE DEF S
    <2>2. <<a, b, a>> \o t = <<a>> \o (<<b, a>> \o t) BY <2>1
    <2>3. <<b, a>> \o t = Then(b, Then(a, t))
        <3>. DEFINE u == <<b, a>> \o t
        <3>1. u \in Seq(S) /\ u # <<>> BY <2>1
        <3>2. Head(u) = b /\ Tail(u) = <<a>> \o t BY <2>1
        <3>. HIDE DEF u
        <3>3. Rest(u) = Then(a, t) BY <3>1, <3>2 DEF Rest, Then
        <3>4. u = Then(b, Then(a, t)) BY <3>1, <3>2, <3>3, HeadAndRest
        <3>. QED BY <3>4 DEF u
    <2>. QED BY <2>2, <2>3 DEF Then
<1>. QED BY <1>1, Zenon

\* The steps on the key file, the price table's, and the look for a key.
LEMMA KeySteps ==
    ASSUME Inv, NEW p \in Procs,
           PutKey(p) \/ MoveKey(p) \/ ForgetKey(p) \/ DropKey(p) \/ LookUpKey(p)
                \/ LoadPrices(p)
    PROVE  /\ disk' = disk
           /\ job[p].todo # <<>>
           /\ Head(job[p].todo)[1] \in {"put", "move", "forget", "drop", "look", "table"}
           /\ \E k : BecomesJob(p, k) /\ (k = Idle \/ Aside(p, k))
<1>. DEFINE j == job[p]
<1>1. j \in Jobs BY JobsAreSound DEF SoundJob
<1>2. /\ j.todo # <<>> /\ disk' = disk
      /\ Head(j.todo)[1] \in {"put", "move", "forget", "drop", "look", "table"}
    BY DEF PutKey, MoveKey, ForgetKey, DropKey, LookUpKey, LoadPrices, AtStep
<1>3. Rest(j.todo) \in Seq(Steps) BY <1>1, RestSteps DEF Jobs
<1>4. <<Save("secrets")>> \o Rest(j.todo) = Then(Save("secrets"), Rest(j.todo))
    BY DEF Then
<1>5. Save("secrets") \in Pushed BY DEF Pushed
<1>6. ASSUME NEW t, NEW S
      PROVE  LET k == [j EXCEPT !.secrets = S, !.todo = t] IN
             k.cmd = j.cmd /\ k.config = j.config /\ k.name = j.name /\ k.todo = t
    BY <1>1 DEF Jobs
<1>7. Aside(p, Advanced(j))
    <2>1. Advanced(j) = [j EXCEPT !.todo = Rest(j.todo)] BY DEF Advanced
    <2>2. /\ Advanced(j).cmd = j.cmd /\ Advanced(j).config = j.config
          /\ Advanced(j).name = j.name /\ Advanced(j).todo = Rest(j.todo)
        BY <1>1, <2>1 DEF Jobs
    <2>. QED BY <1>2, <2>2, AsideRest
<1>8. \A S : Aside(p, [j EXCEPT !.secrets = S, !.todo = <<Save("secrets")>> \o Rest(@)])
    <2>. TAKE S
    <2>. DEFINE k == [j EXCEPT !.secrets = S, !.todo = <<Save("secrets")>> \o Rest(@)]
    <2>1. /\ k.cmd = j.cmd /\ k.config = j.config /\ k.name = j.name
          /\ k.todo = Then(Save("secrets"), Rest(j.todo))
        BY <1>1, <1>4 DEF Jobs
    <2>. HIDE DEF k
    <2>2. Aside(p, k) BY <1>2, <1>5, <2>1, AsidePush
    <2>. QED BY <2>2 DEF k
<1>9. CASE PutKey(p) \/ LookUpKey(p) \/ DropKey(p)
    <2>1. CASE PutKey(p)
        <3>. DEFINE S == Seen("secrets") \cup {j.name}
                    k == [j EXCEPT !.secrets = S, !.todo = <<Save("secrets")>> \o Rest(@)]
        <3>1. Aside(p, k) BY <1>8
        <3>2. BecomesJob(p, Idle) \/ BecomesJob(p, Advanced(j)) \/ BecomesJob(p, k)
            BY <2>1 DEF PutKey
        <3>. HIDE DEF k
        <3>. QED BY <1>2, <1>7, <3>1, <3>2
    <2>2. CASE DropKey(p)
        <3>. DEFINE S == Seen("secrets") \ {j.name}
                    k == [j EXCEPT !.secrets = S, !.todo = <<Save("secrets")>> \o Rest(@)]
        <3>1. Aside(p, k) BY <1>8
        <3>2. BecomesJob(p, Advanced(j)) \/ BecomesJob(p, k)
            BY <2>2 DEF DropKey
        <3>. HIDE DEF k
        <3>. QED BY <1>2, <1>7, <3>1, <3>2
    <2>3. CASE LookUpKey(p)
        <3>1. BecomesJob(p, Idle) \/ BecomesJob(p, Advanced(j)) BY <2>3 DEF LookUpKey
        <3>. QED BY <1>2, <1>7, <3>1
    <2>. QED BY <1>9, <2>1, <2>2, <2>3
<1>10. CASE LoadPrices(p)
    <2>1. PICK P : BecomesJob(p, Advanced([j EXCEPT !.prices = P]))
        BY <1>10 DEF LoadPrices
    <2>. DEFINE k == Advanced([j EXCEPT !.prices = P])
    <2>2. /\ k.cmd = j.cmd /\ k.config = j.config /\ k.name = j.name
          /\ k.todo = Rest(j.todo)
        BY <1>1 DEF Jobs, Advanced
    <2>. HIDE DEF k
    <2>3. Aside(p, k) BY <1>2, <2>2, AsideRest
    <2>. QED BY <1>2, <2>1, <2>3 DEF k
<1>11. CASE ForgetKey(p)
    <2>1. PICK S : BecomesJob(p, Advanced([j EXCEPT !.secrets = S]))
        BY <1>11 DEF ForgetKey
    <2>. DEFINE k == Advanced([j EXCEPT !.secrets = S])
    <2>2. /\ k.cmd = j.cmd /\ k.config = j.config /\ k.name = j.name
          /\ k.todo = Rest(j.todo)
        BY <1>1 DEF Jobs, Advanced
    <2>. HIDE DEF k
    <2>3. Aside(p, k) BY <1>2, <2>2, AsideRest
    <2>. QED BY <1>2, <2>1, <2>3 DEF k
<1>12. CASE MoveKey(p)
    <2>. DEFINE t == <<Save("secrets"), Keys("forget"), Save("secrets")>> \o Rest(j.todo)
    <2>1. t = Then(Save("secrets"), Then(Keys("forget"), Then(Save("secrets"), Rest(j.todo))))
        BY <1>3, MovedSteps
    <2>2. /\ t \in Seq(Steps) /\ Left(t) \subseteq Pushed \cup Left(Rest(j.todo))
          /\ Left(Rest(t)) \subseteq Pushed \cup Left(Rest(j.todo))
        <3>. DEFINE u == Then(Save("secrets"), Rest(j.todo))
                    v == Then(Keys("forget"), u)
        <3>1. u \in Seq(Steps) /\ Left(u) = {Save("secrets")} \cup Left(Rest(j.todo))
            BY <1>3, StepSteps, LeftThen
        <3>. HIDE DEF u
        <3>2. v \in Seq(Steps) /\ Left(v) = {Keys("forget")} \cup Left(u)
            BY <3>1, StepSteps, LeftThen
        <3>. HIDE DEF v
        <3>3. /\ Then(Save("secrets"), v) \in Seq(Steps) /\ Rest(Then(Save("secrets"), v)) = v
              /\ Left(Then(Save("secrets"), v)) = {Save("secrets")} \cup Left(v)
            BY <3>2, StepSteps, LeftThen
        <3>4. t = Then(Save("secrets"), v) BY <2>1 DEF u, v
        <3>. HIDE DEF t
        <3>. QED BY <3>1, <3>2, <3>3, <3>4 DEF Pushed
    <2>3. ASSUME NEW S PROVE Aside(p, [j EXCEPT !.secrets = S, !.todo = t])
        <3>. HIDE DEF t
        <3>. QED BY <1>1, <2>2 DEF Jobs, Aside
    <2>. QED BY <1>2, <1>7, <1>12, <2>3 DEF MoveKey
<1>. QED BY <1>2, <1>9, <1>10, <1>11, <1>12

\* A change leaves the rest of the command, or less.
LEMMA EditedTodo ==
    ASSUME NEW i, SoundJob(i), NEW e, NEW k \in Edited(e, i)
    PROVE  k.cmd = i.cmd /\ k.todo \in {i.todo, Rest(i.todo), <<>>}
<1>1. CASE e \notin Removals \cup KeyCommands
    BY <1>1, EditedQuietly DEF QuietChange
<1>2. CASE e \in Removals \ KeyCommands BY <1>2, EditedRemoval
<1>3. CASE e \in {"provider add", "provider add wizard", "init"}
    BY <1>3, EditedAdding DEF QuietChange
<1>4. CASE e = "provider key" BY <1>4, EditedKey
<1>5. CASE e = "provider remove" BY <1>5, EditedGone
<1>6. CASE e = "provider rename" BY <1>6, EditedRenamed
<1>. QED BY <1>1, <1>2, <1>3, <1>4, <1>5, <1>6 DEF KeyCommands

\* The rest of the job p is at, as a change finds it.
LEMMA RestJob ==
    ASSUME Inv, NEW p \in Procs
    PROVE  LET i == [job[p] EXCEPT !.todo = Rest(@)] IN
           /\ SoundJob(i) /\ i.cmd = job[p].cmd /\ i.config = job[p].config
           /\ i.name = job[p].name /\ i.todo = Rest(job[p].todo) /\ i.todo \in Seq(Steps)
<1>1. SoundJob(job[p]) /\ job[p].todo \in Seq(Steps) BY JobsAreSound, JobFields
<1>2. Rest(job[p].todo) \in Seq(Steps) BY <1>1, RestSteps
<1>. QED BY <1>1, <1>2, JobRest DEF SoundJob, Jobs

LEMMA ShapeStep ==
    ASSUME Inv, ShapeInv, NEW p \in Procs, NEW k, Shape(k), BecomesJob(p, k)
    PROVE  ShapeInv'
<1>1. /\ job'[p] = IF k.todo = <<>> THEN Idle ELSE k
      /\ \A q \in Procs \ {p} : job'[q] = job[q]
    BY JobAfter
<1>2. Shape(job'[p]) BY <1>1, ShapeIdle
<1>3. \A q \in Procs : Shape(job'[q]) BY <1>1, <1>2 DEF ShapeInv
<1>. QED BY <1>3 DEF ShapeInv

LEMMA ShapeAside ==
    ASSUME Inv, ShapeInv, NEW p \in Procs, job[p].todo # <<>>,
           Head(job[p].todo)[1] # "load", NEW k, Aside(p, k)
    PROVE  Shape(k) /\ (job[p].cmd \in Removals => NoEdit(k.todo))
<1>1. Shape(job[p]) /\ job[p].todo \in Seq(Steps)
    BY JobsAreSound, JobFields DEF ShapeInv
<1>2. \A s \in Pushed : s[1] # "edit" BY PushedSteps
<1>3. /\ k.cmd = job[p].cmd /\ Left(k.todo) \subseteq Pushed \cup Left(Rest(job[p].todo))
      /\ Left(Rest(k.todo)) \subseteq Pushed \cup Left(Rest(job[p].todo))
    BY DEF Aside
<1>4. \A s \in Left(Rest(k.todo)) : s[1] \notin {"load", "encode"}
    BY <1>1, <1>3, PushedSteps DEF Shape
<1>. QED BY <1>1, <1>2, <1>3, <1>4, ShapePushed

LEMMA ShapeChange ==
    ASSUME Inv, ShapeInv, NEW p \in Procs, AtStep(p, "edit"),
           NEW e, NEW k \in Edited(e, [job[p] EXCEPT !.todo = Rest(@)])
    PROVE  /\ Shape(k) /\ (job[p].cmd \in Removals => NoEdit(k.todo))
           /\ k.cmd = job[p].cmd /\ Left(k.todo) \subseteq Left(Rest(job[p].todo))
           /\ k.todo \in Seq(Steps)
<1>. DEFINE i == [job[p] EXCEPT !.todo = Rest(@)]
<1>1. SoundJob(i) /\ i.cmd = job[p].cmd /\ i.todo = Rest(job[p].todo) /\ i.todo \in Seq(Steps)
    BY RestJob
<1>. HIDE DEF i
<1>2. k.cmd = i.cmd /\ k.todo \in {i.todo, Rest(i.todo), <<>>}
    BY <1>1, EditedTodo DEF i
<1>3. /\ k.todo \in Seq(Steps) /\ Left(k.todo) \subseteq Left(i.todo)
      /\ Left(Rest(k.todo)) \subseteq Left(i.todo)
    <2>1. /\ Rest(i.todo) \in Seq(Steps) /\ Left(Rest(i.todo)) \subseteq Left(i.todo)
          /\ Left(<<>>) = {} /\ Rest(<<>>) = <<>> /\ <<>> \in Seq(Steps)
        BY <1>1, LeftSplit
    <2>2. Left(Rest(Rest(i.todo))) \subseteq Left(Rest(i.todo))
        BY <2>1, LeftSplit
    <2>. QED BY <1>1, <1>2, <2>1, <2>2
<1>4. /\ Shape(job[p]) /\ job[p].todo \in Seq(Steps) /\ job[p].todo # <<>>
      /\ Head(job[p].todo)[1] # "load"
    BY JobsAreSound, JobFields DEF ShapeInv, AtStep
<1>5. \A s \in Left(Rest(k.todo)) : s[1] \notin {"load", "encode"}
    BY <1>1, <1>3, <1>4 DEF Shape
<1>6. PICK X : /\ Left(k.todo) \subseteq X \cup Left(Rest(job[p].todo))
               /\ \A s \in X : s[1] # "edit"
    <2>1. Left(k.todo) \subseteq {} \cup Left(Rest(job[p].todo)) BY <1>1, <1>3
    <2>2. \E X : Left(k.todo) \subseteq X \cup Left(Rest(job[p].todo)) /\ X = {}
        BY <2>1, Zenon
    <2>. QED BY <2>2
<1>7. Shape(k) /\ (job[p].cmd \in Removals => NoEdit(k.todo))
    BY <1>1, <1>2, <1>4, <1>5, <1>6, ShapePushed
<1>. QED BY <1>1, <1>2, <1>3, <1>7

\* The two halves of a save.
LEMMA TruncateAfter ==
    ASSUME Inv, NEW p \in Procs, Truncate(p)
    PROVE  \E f, k : /\ AtStep(p, "save") /\ Head(job[p].todo) = Save(f)
                     /\ disk' = [disk EXCEPT ![f] = Empty]
                     /\ BecomesJob(p, k) /\ k.cmd = job[p].cmd /\ k.config = job[p].config
                     /\ k.name = job[p].name /\ k.secrets = job[p].secrets
                     /\ k.todo = Then(Encoding(f), Rest(job[p].todo))
                     /\ Encoding(f) \in Steps
<1>. DEFINE j == job[p]
            f == Head(j.todo)[2]
            k == [j EXCEPT !.todo = <<Encoding(f)>> \o Rest(@)]
<1>1. AtStep(p, "save") /\ disk' = [disk EXCEPT ![f] = Empty] /\ BecomesJob(p, k)
    BY DEF Truncate
<1>2. Head(j.todo) = <<"save", f>> /\ Head(j.todo) \in Steps BY <1>1, AtHead
<1>3. Encoding(f) \in Steps BY <1>2 DEF Encoding, Steps
<1>4. j \in Jobs BY JobsAreSound DEF SoundJob
<1>5. /\ k.cmd = j.cmd /\ k.config = j.config /\ k.name = j.name /\ k.secrets = j.secrets
      /\ k.todo = Then(Encoding(f), Rest(j.todo))
    BY <1>4 DEF Jobs, Then
<1>6. Head(j.todo) = Save(f) BY <1>2 DEF Save
<1>. HIDE DEF f, k
<1>. QED BY <1>1, <1>3, <1>5, <1>6

LEMMA EncodeAfter ==
    ASSUME Inv, NEW p \in Procs, Encode(p)
    PROVE  \E f, k : /\ AtStep(p, "encode") /\ Head(job[p].todo) = Encoding(f)
                     /\ \E new \in Written(f, disk[f], job[p][f]) :
                            disk' = [disk EXCEPT ![f] = new]
                     /\ BecomesJob(p, k) /\ k.cmd = job[p].cmd /\ k.config = job[p].config
                     /\ k.name = job[p].name /\ k.secrets = job[p].secrets
                     /\ k.todo = Rest(job[p].todo)
<1>. DEFINE j == job[p]
            f == Head(j.todo)[2]
            k == [j EXCEPT !.todo = Rest(@)]
<1>1. /\ AtStep(p, "encode") /\ BecomesJob(p, k)
      /\ \E new \in Written(f, disk[f], j[f]) : disk' = [disk EXCEPT ![f] = new]
    BY DEF Encode, Advanced
<1>2. Head(j.todo) = Encoding(f) BY <1>1, AtHead DEF Encoding
<1>4. j \in Jobs BY JobsAreSound DEF SoundJob
<1>5. /\ k.cmd = j.cmd /\ k.config = j.config /\ k.name = j.name /\ k.secrets = j.secrets
      /\ k.todo = Rest(j.todo)
    BY <1>4 DEF Jobs
<1>. HIDE DEF f, k
<1>. QED BY <1>1, <1>2, <1>5

LEMMA LoadAfter ==
    ASSUME Inv, NEW p \in Procs, LoadConfig(p)
    PROVE  /\ AtStep(p, "load") /\ disk' = disk
           /\ \/ BecomesJob(p, Idle)
              \/ /\ disk["config"] # Garbled
                 /\ \E k : /\ BecomesJob(p, k) /\ k.cmd = job[p].cmd
                           /\ k.config = Seen("config") /\ k.todo = Rest(job[p].todo)
<1>. DEFINE j == job[p]
            k == Advanced([j EXCEPT !.config = Seen("config")])
<1>1. /\ AtStep(p, "load") /\ disk' = disk
      /\ BecomesJob(p, IF disk["config"] = Garbled THEN Idle ELSE k)
    BY DEF LoadConfig
<1>2. j \in Jobs BY JobsAreSound DEF SoundJob
<1>3. k.cmd = j.cmd /\ k.config = Seen("config") /\ k.todo = Rest(j.todo)
    BY <1>2 DEF Jobs, Advanced
<1>. HIDE DEF k
<1>. QED BY <1>1, <1>3

LEMMA ShapeTruncate ==
    ASSUME Inv, ShapeInv, NEW p \in Procs, job[p].todo # <<>>,
           Head(job[p].todo)[1] # "load", NEW f, Encoding(f) \in Steps,
           NEW k, k.cmd = job[p].cmd, k.todo = Then(Encoding(f), Rest(job[p].todo))
    PROVE  Shape(k) /\ (job[p].cmd \in Removals => NoEdit(k.todo))
<1>1. /\ Shape(job[p]) /\ job[p].todo \in Seq(Steps)
      /\ Rest(job[p].todo) \in Seq(Steps)
    BY JobsAreSound, JobFields, RestSteps DEF ShapeInv
<1>2. Rest(k.todo) = Rest(job[p].todo) /\ Left(k.todo) = {Encoding(f)} \cup Left(Rest(job[p].todo))
    BY <1>1, LeftThen
<1>3. \A s \in {Encoding(f)} : s[1] # "edit" BY DEF Encoding
<1>4. \A s \in Left(Rest(k.todo)) : s[1] \notin {"load", "encode"}
    BY <1>1, <1>2 DEF Shape
<1>. QED BY <1>1, <1>2, <1>3, <1>4, ShapePushed

LEMMA ShapeNext ==
    ASSUME Inv, ShapeInv, [Next]_cpVars
    PROVE  ShapeInv'
<1>1. ASSUME NEW p \in Procs, NEW cmd \in Commands, Begin(p, cmd) PROVE ShapeInv'
    <2>1. /\ job'[p].cmd = cmd /\ job'[p].todo = Script(cmd) /\ cmd \in AllCommands
          /\ \A q \in Procs \ {p} : job'[q] = job[q]
        BY <1>1, BeginAfter
    <2>2. Shape(job'[p]) BY <2>1, ShapeBegin
    <2>3. \A q \in Procs : Shape(job'[q]) BY <2>1, <2>2 DEF ShapeInv
    <2>. QED BY <2>3 DEF ShapeInv
<1>2. ASSUME NEW p \in Procs, NEW k, k.cmd = job[p].cmd, k.todo = Rest(job[p].todo),
             BecomesJob(p, k)
      PROVE  ShapeInv'
    <2>1. Shape(job[p]) /\ job[p].todo \in Seq(Steps)
        BY JobsAreSound, JobFields DEF ShapeInv
    <2>2. Shape(k) BY <1>2, <2>1, ShapeRest
    <2>. QED BY <1>2, <2>2, ShapeStep
<1>3. ASSUME NEW p \in Procs, BecomesJob(p, Idle) PROVE ShapeInv'
    BY <1>3, ShapeIdle, ShapeStep
<1>4. ASSUME NEW p \in Procs, LoadConfig(p) PROVE ShapeInv'
    BY <1>2, <1>3, <1>4, LoadAfter
<1>5. ASSUME NEW p \in Procs, Choose(p) PROVE ShapeInv'
    <2>1. AtStep(p, "edit") BY <1>5 DEF Choose
    <2>2. PICK k \in Edited(Head(job[p].todo)[2], [job[p] EXCEPT !.todo = Rest(@)]) :
            BecomesJob(p, k)
        BY <1>5 DEF Choose
    <2>. QED BY <2>1, <2>2, ShapeChange, ShapeStep
<1>6. ASSUME NEW p \in Procs,
             PutKey(p) \/ MoveKey(p) \/ ForgetKey(p) \/ DropKey(p) \/ LookUpKey(p)
                \/ LoadPrices(p)
      PROVE  ShapeInv'
    <2>1. /\ job[p].todo # <<>>
          /\ Head(job[p].todo)[1] \in {"put", "move", "forget", "drop", "look", "table"}
          /\ \E k : BecomesJob(p, k) /\ (k = Idle \/ Aside(p, k))
        BY <1>6, KeySteps
    <2>. QED BY <2>1, ShapeAside, ShapeIdle, ShapeStep
<1>7. ASSUME NEW p \in Procs, Truncate(p) PROVE ShapeInv'
    <2>1. PICK f, k : /\ AtStep(p, "save") /\ BecomesJob(p, k) /\ k.cmd = job[p].cmd
                      /\ k.todo = Then(Encoding(f), Rest(job[p].todo)) /\ Encoding(f) \in Steps
        BY <1>7, TruncateAfter
    <2>2. job[p].todo # <<>> /\ Head(job[p].todo)[1] # "load" BY <2>1 DEF AtStep
    <2>. QED BY <2>1, <2>2, ShapeTruncate, ShapeStep
<1>8. ASSUME NEW p \in Procs, Encode(p) PROVE ShapeInv'
    BY <1>2, <1>8, EncodeAfter
<1>9. ASSUME NEW p \in Procs, Quit(p) PROVE ShapeInv'
    BY <1>3, <1>9 DEF Quit
<1>10. CASE UNCHANGED cpVars
    <2>1. job' = job BY <1>10 DEF cpVars
    <2>. QED BY <2>1 DEF ShapeInv
<1>. QED BY <1>1, <1>4, <1>5, <1>6, <1>7, <1>8, <1>9, <1>10 DEF Next

----------------------------------------------------------------------------
(* What the history says of the copies.                                    *)

LEMMA WholeNext ==
    ASSUME NEW p \in Procs, Observe(p)
    PROVE  /\ WholeSeen' /\ whole' \in {whole, Seen("config")'}
           /\ (\E q \in Procs : Saving(q, "config")') => whole' = whole
BY DEF Observe, WholeSeen

\* The process that took the step.
LEMMA OvertakenNext ==
    ASSUME NEW p \in Procs, Observe(p)
    PROVE  /\ \A q \in Procs \ {p} : job'[q].todo # <<>> /\ q \notin overtaken' =>
                q \notin overtaken /\ disk'["config"] = disk["config"]
           /\ job'[p].todo # <<>> /\ p \notin overtaken' =>
                IF AtStep(p, "load") THEN ~SavedByOther(p) ELSE p \notin overtaken
BY DEF Observe, Busy

LEMMA NothingLoaded == ASSUME NEW j, Loaded(j) PROVE j.todo # <<>>
BY LeftNone DEF Loaded, SavesConfig

LEMMA SameFile ==
    ASSUME disk'["config"] = disk["config"]
    PROVE  Seen("config")' = Seen("config")
BY DEF Seen

LEMMA OthersCurrent ==
    ASSUME CopyInv, NEW p \in Procs, Observe(p), NEW q \in Procs \ {p},
           job'[q] = job[q], q \notin overtaken', Loaded(job[q])
    PROVE  Current(q)'
<1>1. job[q].todo # <<>> BY NothingLoaded
<1>2. q \notin overtaken /\ disk'["config"] = disk["config"]
    BY <1>1, OvertakenNext
<1>3. Current(q) BY <1>2 DEF CopyInv, CopiesCurrent
<1>4. Seen("config")' = Seen("config") BY <1>2, SameFile
<1>5. Saving(q, "config")' <=> Saving(q, "config") BY DEF Saving, AtStep
<1>6. Based(job[q], whole')
    <2>1. CASE Saving(q, "config")
        BY <1>3, <1>5, <2>1, WholeNext DEF Current
    <2>2. CASE ~Saving(q, "config")
        BY <1>3, <1>4, <2>2, WholeNext DEF Current
    <2>. QED BY <2>1, <2>2
<1>7. Saving(q, "config")' => disk'["config"] = Empty BY <1>2, <1>3, <1>5 DEF Current
<1>8. ~Saving(q, "config")' => Based(job[q], Seen("config")')
    BY <1>3, <1>4, <1>5 DEF Current
<1>9. Based(job'[q], whole') /\ (~Saving(q, "config")' => Based(job'[q], Seen("config")'))
    BY <1>6, <1>8
<1>. QED BY <1>7, <1>9 DEF Current

\* The second half of a save that is next is left.
LEMMA EncodingLeft ==
    ASSUME NEW t \in Seq(Steps), t # <<>>, NEW f, Head(t)[1] = "encode", Head(t)[2] = f
    PROVE  Head(t) = Encoding(f) /\ Encoding(f) \in Left(t)
<1>1. Head(t) \in Steps /\ Head(t) \in Left(t) BY LeftSplit
<1>2. ASSUME NEW A, NEW B, NEW s \in A \X B PROVE s = <<s[1], s[2]>>
    OBVIOUS
<1>3. Head(t) = <<"encode", f>> BY <1>1, <1>2 DEF Steps
<1>. QED BY <1>1, <1>3 DEF Encoding

\* A step of p that leaves the file alone and bases the copy on it.
LEMMA OwnStep ==
    ASSUME Inv, NEW p \in Procs, Observe(p), NEW k, BecomesJob(p, k), k.todo # <<>>,
           k.todo \in Seq(Steps), Encoding("config") \notin Left(k.todo),
           disk'["config"] = disk["config"],
           Based(k, whole), Based(k, Seen("config"))
    PROVE  Current(p)'
<1>1. job'[p] = k BY JobAfter
<1>2. ~Saving(p, "config")'
    <2>. SUFFICES ASSUME Saving(p, "config")' PROVE FALSE OBVIOUS
    <2>1. Head(k.todo)[1] = "encode" /\ Head(k.todo)[2] = "config"
        BY <1>1 DEF Saving, AtStep
    <2>. QED BY <2>1, EncodingLeft
<1>3. Seen("config")' = Seen("config") BY SameFile
<1>4. Based(job'[p], whole') /\ Based(job'[p], Seen("config")')
    BY <1>1, <1>3, WholeNext
<1>. QED BY <1>2, <1>4 DEF Current

\* Nothing is loaded by a command that begins.
LEMMA ScriptNotLoaded ==
    ASSUME NEW cmd \in AllCommands, NEW j, j.todo = Script(cmd)
    PROVE  ~Loaded(j)
<1>1. PICK r : Plan(cmd, r) /\ Script(cmd) = Then(Opening(cmd), r) BY ScriptPlan
<1>2. CASE cmd # "pricing remove"
    <2>1. Opening(cmd) = Load /\ Load \in Steps BY <1>2, StepSteps DEF Opening
    <2>2. Load \in Left(j.todo) BY <1>1, <2>1, LeftThen DEF Plan
    <2>. QED BY <2>2 DEF Loaded
<1>3. CASE cmd = "pricing remove"
    <2>1. Script(cmd) = Then(LoadPriceTable, Then(Edit(cmd), Then(Save("prices"), <<>>)))
        BY <1>3, ScriptForms
    <2>2. LoadPriceTable \in Steps /\ Edit(cmd) \in Steps /\ Save("prices") \in Steps
        BY StepSteps
    <2>3. Left(<<>>) = {} /\ <<>> \in Seq(Steps) BY LeftNone
    <2>4. /\ Then(Save("prices"), <<>>) \in Seq(Steps)
          /\ Left(Then(Save("prices"), <<>>)) = {Save("prices")}
        BY <2>2, <2>3, LeftThen
    <2>5. /\ Then(Edit(cmd), Then(Save("prices"), <<>>)) \in Seq(Steps)
          /\ Left(Then(Edit(cmd), Then(Save("prices"), <<>>))) = {Edit(cmd), Save("prices")}
        BY <2>2, <2>4, LeftThen
    <2>6. Left(j.todo) = {LoadPriceTable, Edit(cmd), Save("prices")}
        BY <2>1, <2>2, <2>5, LeftThen
    <2>7. Save("config") \notin Left(j.todo) /\ Encoding("config") \notin Left(j.todo)
        BY <2>6 DEF Save, Encoding, Edit, LoadPriceTable
    <2>. QED BY <2>7 DEF Loaded, SavesConfig
<1>. QED BY <1>2, <1>3

\* What is saved later is saved by what is left now, and so for the changes.
LEMMA StillLoaded ==
    ASSUME Inv, ShapeInv, NEW p \in Procs, job[p].todo # <<>>,
           Head(job[p].todo)[1] # "load",
           NEW k, Loaded(k), NEW X, Save("config") \notin X, Encoding("config") \notin X,
           Left(k.todo) \subseteq X \cup Left(job[p].todo)
    PROVE  Loaded(job[p])
<1>1. Shape(job[p]) /\ job[p].todo \in Seq(Steps)
    BY JobsAreSound, JobFields DEF ShapeInv
<1>2. SavesConfig(job[p].todo) BY DEF Loaded, SavesConfig
<1>3. Left(job[p].todo) = {Head(job[p].todo)} \cup Left(Rest(job[p].todo))
    BY <1>1, LeftSplit
<1>4. Load[1] = "load" BY DEF Load
<1>5. Load \notin Left(job[p].todo) BY <1>1, <1>3, <1>4 DEF Shape
<1>. QED BY <1>2, <1>5 DEF Loaded

LEMMA StillBased ==
    ASSUME NEW j, NEW old, Based(j, old), NEW k, k.cmd = j.cmd, k.name = j.name,
           k.config = j.config, NEW X, \A s \in X : s[1] # "edit",
           Left(k.todo) \subseteq X \cup Left(j.todo)
    PROVE  Based(k, old)
BY DEF Based, NoEdit

\* A step that leaves the configuration alone keeps the copy current.
LEMMA AsideCurrent ==
    ASSUME CopyInv, NEW p \in Procs, Observe(p), p \notin overtaken', job[p].todo # <<>>,
           Head(job[p].todo)[1] # "load", ~Saving(p, "config"),
           disk'["config"] = disk["config"],
           NEW k, BecomesJob(p, k), k.todo # <<>>, k.todo \in Seq(Steps), Loaded(k),
           k.cmd = job[p].cmd, k.name = job[p].name, k.config = job[p].config,
           NEW X, \A s \in X : s[1] # "edit" /\ s \notin {Save("config"), Encoding("config")},
           Left(k.todo) \subseteq X \cup Left(Rest(job[p].todo))
    PROVE  Current(p)'
<1>0. Inv /\ ShapeInv BY DEF CopyInv
<1>1. job[p].todo \in Seq(Steps) /\ Shape(job[p])
    BY <1>0, JobsAreSound, JobFields DEF ShapeInv
<1>2. Left(Rest(job[p].todo)) \subseteq Left(job[p].todo) BY <1>1, LeftSplit
<1>3. job'[p] = k BY <1>0, JobAfter
<1>4. p \notin overtaken BY <1>3, OvertakenNext DEF AtStep
<1>5. Left(k.todo) \subseteq X \cup Left(job[p].todo) BY <1>2
<1>6. Loaded(job[p]) BY <1>0, <1>5, StillLoaded
<1>7. Based(job[p], whole) /\ Based(job[p], Seen("config"))
    BY <1>4, <1>6 DEF CopyInv, CopiesCurrent, Current
<1>8. Based(k, whole) /\ Based(k, Seen("config")) BY <1>5, <1>7, StillBased
<1>9. Encoding("config") \notin Left(k.todo)
    BY <1>1 DEF Shape, Encoding
<1>. QED BY <1>0, <1>8, <1>9, OwnStep

\* The change of a command that is about to make it.
LEMMA ChangeBased ==
    ASSUME Inv, ShapeInv, NEW p \in Procs, AtStep(p, "edit"),
           NEW k \in Edited(Head(job[p].todo)[2], [job[p] EXCEPT !.todo = Rest(@)]),
           NEW old, Based(job[p], old)
    PROVE  Based(k, old)
<1>. DEFINE i == [job[p] EXCEPT !.todo = Rest(@)]
            e == Head(job[p].todo)[2]
            cmd == job[p].cmd
<1>1. /\ SoundJob(i) /\ i.cmd = job[p].cmd /\ i.config = job[p].config
      /\ i.todo = Rest(job[p].todo)
    BY RestJob
<1>. HIDE DEF i
<1>2. k \in Edited(e, i) BY DEF i
<1>3. k.cmd = cmd /\ (cmd \in Removals => NoEdit(k.todo)) BY ShapeChange
<1>4. /\ job[p].todo # <<>> /\ Head(job[p].todo) \in Left(job[p].todo)
      /\ Head(job[p].todo) = <<"edit", e>> /\ Head(job[p].todo)[1] = "edit"
    BY AtHead
<1>5. ~NoEdit(job[p].todo) BY <1>4 DEF NoEdit
<1>6. old # Garbled /\ Grown(old, i.config) BY <1>1, <1>5 DEF Based
<1>7. Shape(job[p]) BY DEF ShapeInv
<1>8. CASE cmd \in Removals
    <2>1. Head(job[p].todo) = Edit(cmd) BY <1>4, <1>7, <1>8 DEF Shape
    <2>2. e = cmd BY <1>4, <2>1 DEF Edit
    <2>3. Trimmed(cmd, k.name, old, k.config)
        <3>1. CASE cmd \in Removals \ KeyCommands
            BY <1>1, <1>2, <1>6, <2>2, <3>1, EditedRemoval
        <3>2. CASE cmd = "provider remove"
            <4>1. k \in Edited("provider remove", i) BY <1>2, <2>2, <3>2
            <4>2. Trimmed("provider remove", k.name, old, k.config)
                BY <1>1, <1>6, <4>1, EditedGone
            <4>. QED BY <3>2, <4>2
        <3>3. CASE cmd = "provider rename"
            <4>1. k \in Edited("provider rename", i) BY <1>2, <2>2, <3>3
            <4>2. Trimmed("provider rename", k.name, old, k.config)
                BY <1>1, <1>6, <4>1, EditedRenamed
            <4>. QED BY <3>3, <4>2
        <3>. QED BY <1>8, <3>1, <3>2, <3>3 DEF Removals, KeyCommands
    <2>. QED BY <1>3, <1>6, <1>8, <2>3 DEF Based
<1>9. CASE cmd \notin Removals
    <2>1. e \notin Removals BY <1>4, <1>7, <1>9 DEF Shape
    <2>2. Grown(i.config, k.config)
        <3>1. CASE e \notin Removals \cup KeyCommands
            BY <1>1, <1>2, <3>1, EditedQuietly DEF QuietChange
        <3>2. CASE e \in {"provider add", "provider add wizard", "init"}
            BY <1>1, <1>2, <3>2, EditedAdding DEF QuietChange
        <3>3. CASE e = "provider key"
            <4>1. k.config = i.config BY <1>1, <1>2, <3>3, EditedKey
            <4>. QED BY <4>1, GrownSelf
        <3>. QED BY <2>1, <3>1, <3>2, <3>3 DEF Removals, KeyCommands
    <2>3. Grown(old, k.config) BY <1>6, <2>2, GrownTwice
    <2>. QED BY <1>6, <2>3, GrownTrimmed DEF Based
<1>. QED BY <1>8, <1>9

LEMMA CurrentNext ==
    ASSUME CopyInv, NEW p \in Procs, Observe(p), p \notin overtaken', Loaded(job'[p]),
           \/ \E cmd \in Commands : Begin(p, cmd)
           \/ LoadConfig(p) \/ LoadPrices(p) \/ Choose(p)
           \/ PutKey(p) \/ MoveKey(p) \/ ForgetKey(p) \/ DropKey(p) \/ LookUpKey(p)
           \/ Truncate(p) \/ Encode(p) \/ Quit(p)
    PROVE  Current(p)'
<1>0. Inv /\ ShapeInv /\ WholeSeen BY DEF CopyInv
<1>1. job'[p].todo # <<>> BY NothingLoaded
<1>2. ASSUME NEW k, BecomesJob(p, k)
      PROVE  job'[p] = k /\ k.todo # <<>> /\ Loaded(k)
    <2>1. job'[p] = IF k.todo = <<>> THEN Idle ELSE k BY <1>0, <1>2, JobAfter
    <2>2. Idle.todo = <<>> BY DEF Idle
    <2>. QED BY <1>1, <2>1, <2>2
<1>3. ~BecomesJob(p, Idle) BY <1>2 DEF Idle
<1>4. /\ job[p].todo \in Seq(Steps) /\ Rest(job[p].todo) \in Seq(Steps) /\ Shape(job[p])
    BY <1>0, JobsAreSound, JobFields, RestSteps DEF ShapeInv
<1>5. Encoding("config") \notin Left(Rest(job[p].todo)) /\ Load \notin Left(Rest(job[p].todo))
    BY <1>4 DEF Shape, Encoding, Load
<1>6. job[p].todo # <<>> => Left(job[p].todo) = {Head(job[p].todo)} \cup Left(Rest(job[p].todo))
    BY <1>4, LeftSplit
<1>7. ~AtStep(p, "load") => p \notin overtaken BY <1>1, OvertakenNext
<1>10. ASSUME NEW cmd \in Commands, Begin(p, cmd) PROVE FALSE
    <2>1. job'[p].todo = Script(cmd) /\ cmd \in AllCommands BY <1>0, <1>10, BeginAfter
    <2>. QED BY <2>1, ScriptNotLoaded
<1>11. CASE LoadConfig(p)
    <2>1. AtStep(p, "load") /\ disk' = disk /\ disk["config"] # Garbled
        BY <1>0, <1>3, <1>11, LoadAfter
    <2>2. PICK k : /\ BecomesJob(p, k) /\ k.config = Seen("config")
                   /\ k.todo = Rest(job[p].todo)
        BY <1>0, <1>3, <1>11, LoadAfter
    <2>3. ~SavedByOther(p) BY <1>1, <2>1, OvertakenNext
    <2>4. ~Saving(p, "config") BY <2>1 DEF Saving, AtStep
    <2>5. whole = Seen("config") BY <1>0, <2>3, <2>4 DEF WholeSeen, SavedByOther
    <2>6. whole # Garbled BY <1>0, <2>1, <2>5, SeenFiles, ContentsAssumption DEF Sound
    <2>7. Based(k, whole)
        BY <2>2, <2>5, <2>6, GrownSelf, GrownTrimmed DEF Based
    <2>. QED BY <1>0, <1>2, <1>4, <1>5, <2>1, <2>2, <2>5, <2>7, OwnStep
<1>12. CASE PutKey(p) \/ MoveKey(p) \/ ForgetKey(p) \/ DropKey(p) \/ LookUpKey(p)
                \/ LoadPrices(p)
    <2>1. /\ disk' = disk /\ job[p].todo # <<>>
          /\ Head(job[p].todo)[1] \in {"put", "move", "forget", "drop", "look", "table"}
        BY <1>0, <1>12, KeySteps
    <2>2. PICK k : BecomesJob(p, k) /\ Aside(p, k) BY <1>0, <1>3, <1>12, KeySteps
    <2>3. /\ Head(job[p].todo)[1] # "load" /\ ~Saving(p, "config")
        BY <2>1 DEF Saving, AtStep
    <2>4. \A s \in Pushed : s[1] # "edit" /\ s \notin {Save("config"), Encoding("config")}
        BY PushedSteps
    <2>. QED BY <1>2, <2>1, <2>2, <2>3, <2>4, AsideCurrent DEF Aside
<1>13. CASE Choose(p)
    <2>1. AtStep(p, "edit") /\ disk' = disk BY <1>13 DEF Choose
    <2>2. PICK k \in Edited(Head(job[p].todo)[2], [job[p] EXCEPT !.todo = Rest(@)]) :
            BecomesJob(p, k)
        BY <1>13 DEF Choose
    <2>3. /\ k.todo \in Seq(Steps) /\ Left(k.todo) \subseteq Left(Rest(job[p].todo))
        BY <1>0, <2>1, <2>2, ShapeChange
    <2>4. /\ job[p].todo # <<>> /\ Head(job[p].todo)[1] # "load" /\ ~Saving(p, "config")
          /\ ~AtStep(p, "load")
        BY <2>1 DEF Saving, AtStep
    <2>5. Load \notin Left(job[p].todo) BY <1>5, <1>6, <2>4 DEF Load
    <2>6. Loaded(job[p]) BY <1>2, <1>6, <2>2, <2>3, <2>4, <2>5 DEF Loaded, SavesConfig
    <2>7. Based(job[p], whole) /\ Based(job[p], Seen("config"))
        BY <1>7, <2>4, <2>6 DEF CopyInv, CopiesCurrent, Current
    <2>8. Based(k, whole) /\ Based(k, Seen("config"))
        BY <1>0, <2>1, <2>2, <2>7, ChangeBased
    <2>. QED BY <1>0, <1>2, <1>5, <2>1, <2>2, <2>3, <2>8, OwnStep
<1>14. CASE Truncate(p)
    <2>1. PICK f, k : /\ AtStep(p, "save") /\ Head(job[p].todo) = Save(f)
                      /\ disk' = [disk EXCEPT ![f] = Empty]
                      /\ BecomesJob(p, k) /\ k.cmd = job[p].cmd /\ k.config = job[p].config
                      /\ k.name = job[p].name
                      /\ k.todo = Then(Encoding(f), Rest(job[p].todo))
                      /\ Encoding(f) \in Steps
        BY <1>0, <1>14, TruncateAfter
    <2>2. /\ job[p].todo # <<>> /\ Head(job[p].todo)[1] # "load" /\ ~Saving(p, "config")
          /\ ~AtStep(p, "load")
        BY <2>1 DEF Saving, AtStep
    <2>3. /\ k.todo \in Seq(Steps) /\ Head(k.todo) = Encoding(f)
          /\ Left(k.todo) = {Encoding(f)} \cup Left(Rest(job[p].todo))
        BY <1>4, <2>1, LeftThen
    <2>4. disk \in Files BY <1>0 DEF Inv, ControlPlaneTypeOK
    <2>5. CASE f # "config"
        <3>1. disk'["config"] = disk["config"] BY <2>1, <2>4, <2>5 DEF Files
        <3>2. \A s \in {Encoding(f)} : s[1] # "edit" /\ s \notin {Save("config"), Encoding("config")}
            BY <2>5 DEF Encoding, Save
        <3>. QED BY <1>2, <2>1, <2>2, <2>3, <3>1, <3>2, AsideCurrent
    <2>6. CASE f = "config"
        <3>1. disk'["config"] = Empty BY <2>1, <2>4, <2>6 DEF Files
        <3>2. job'[p] = k BY <1>2, <2>1
        <3>3. Saving(p, "config")'
            BY <1>1, <2>3, <2>6, <3>2 DEF Saving, AtStep, Encoding
        <3>4. whole' = whole BY <3>3, WholeNext
        <3>5. Load \notin Left(job[p].todo) BY <1>5, <1>6, <2>2 DEF Load
        <3>6. SavesConfig(job[p].todo) BY <1>6, <2>1, <2>2, <2>6 DEF SavesConfig
        <3>7. Based(job[p], whole)
            BY <1>7, <2>2, <3>5, <3>6 DEF CopyInv, CopiesCurrent, Current, Loaded
        <3>8. /\ Left(k.todo) \subseteq {Encoding(f)} \cup Left(job[p].todo)
              /\ \A s \in {Encoding(f)} : s[1] # "edit"
            BY <1>6, <2>2, <2>3 DEF Encoding
        <3>9. Based(k, whole) BY <2>1, <3>7, <3>8, StillBased
        <3>. QED BY <3>1, <3>2, <3>3, <3>4, <3>9 DEF Current
    <2>. QED BY <2>5, <2>6
<1>15. CASE Encode(p)
    <2>1. PICK f, k : /\ AtStep(p, "encode") /\ Head(job[p].todo) = Encoding(f)
                      /\ \E new \in Written(f, disk[f], job[p][f]) :
                            disk' = [disk EXCEPT ![f] = new]
                      /\ BecomesJob(p, k) /\ k.cmd = job[p].cmd /\ k.config = job[p].config
                      /\ k.name = job[p].name /\ k.todo = Rest(job[p].todo)
        BY <1>0, <1>15, EncodeAfter
    <2>2. /\ job[p].todo # <<>> /\ Head(job[p].todo)[1] # "load" /\ ~AtStep(p, "load")
        BY <2>1 DEF AtStep
    <2>3. disk \in Files BY <1>0 DEF Inv, ControlPlaneTypeOK
    <2>4. PICK new \in Written(f, disk[f], job[p][f]) : disk' = [disk EXCEPT ![f] = new]
        BY <2>1
    <2>5. CASE f # "config"
        <3>1. disk'["config"] = disk["config"] BY <2>3, <2>4, <2>5 DEF Files
        <3>2. ~Saving(p, "config") BY <2>1, <2>5 DEF Saving, Encoding
        <3>3. /\ Left(k.todo) \subseteq Pushed \cup Left(Rest(job[p].todo))
              /\ \A s \in Pushed : s[1] # "edit" /\ s \notin {Save("config"), Encoding("config")}
            BY <2>1, PushedSteps
        <3>. QED BY <1>2, <1>4, <2>1, <2>2, <3>1, <3>2, <3>3, AsideCurrent
    <2>6. CASE f = "config"
        <3>1. Saving(p, "config") BY <2>1, <2>6 DEF Saving, Encoding
        <3>2. Load \notin Left(job[p].todo) BY <1>5, <1>6, <2>2 DEF Load
        <3>3. SavesConfig(job[p].todo) BY <1>6, <2>1, <2>2, <2>6 DEF SavesConfig
        <3>4. Based(job[p], whole) /\ disk["config"] = Empty
            BY <1>7, <2>2, <3>1, <3>2, <3>3 DEF CopyInv, CopiesCurrent, Current, Loaded
        <3>5. new = job[p].config BY <2>4, <2>6, <3>4 DEF Written
        <3>6. disk'["config"] = job[p].config BY <2>3, <2>4, <2>6, <3>5 DEF Files
        <3>7. job[p].config \notin {Empty, Garbled}
            BY <1>0, JobsAreSound, JobFields, ContentsAssumption DEF Sound
        <3>8. Seen("config")' = job[p].config BY <3>6, <3>7 DEF Seen
        <3>9. /\ Left(k.todo) \subseteq Pushed \cup Left(job[p].todo)
              /\ \A s \in Pushed : s[1] # "edit"
            BY <1>6, <2>1, <2>2, PushedSteps
        <3>10. Based(k, whole) BY <2>1, <3>4, <3>9, StillBased
        <3>11. Based(k, Seen("config")')
            BY <2>1, <3>7, <3>8, GrownSelf, GrownTrimmed DEF Based
        <3>12. Based(k, whole') BY <3>10, <3>11, WholeNext
        <3>13. job'[p] = k BY <1>2, <2>1
        <3>14. ~Saving(p, "config")'
            <4>. SUFFICES ASSUME Saving(p, "config")' PROVE FALSE OBVIOUS
            <4>1. Head(k.todo)[1] = "encode" /\ Head(k.todo)[2] = "config"
                BY <3>13 DEF Saving, AtStep
            <4>2. k.todo # <<>> BY <1>2, <2>1
            <4>. QED BY <1>4, <1>5, <2>1, <4>1, <4>2, EncodingLeft
        <3>. QED BY <3>11, <3>12, <3>13, <3>14 DEF Current
    <2>. QED BY <2>5, <2>6
<1>16. ~Quit(p) BY <1>3 DEF Quit
<1>. QED BY <1>10, <1>11, <1>12, <1>13, <1>14, <1>15, <1>16

\* The steps of process p.
StepOf(p) ==
    \/ \E cmd \in Commands : Begin(p, cmd)
    \/ LoadConfig(p) \/ LoadPrices(p) \/ Choose(p)
    \/ PutKey(p) \/ MoveKey(p) \/ ForgetKey(p) \/ DropKey(p) \/ LookUpKey(p)
    \/ Truncate(p) \/ Encode(p) \/ Quit(p)

LEMMA OthersStay ==
    ASSUME Inv, NEW p \in Procs, StepOf(p)
    PROVE  \A q \in Procs \ {p} : job'[q] = job[q]
<1>1. ASSUME NEW cmd \in Commands, Begin(p, cmd)
      PROVE  \A q \in Procs \ {p} : job'[q] = job[q]
    BY <1>1, BeginAfter
<1>2. ASSUME NEW k, BecomesJob(p, k) PROVE \A q \in Procs \ {p} : job'[q] = job[q]
    BY <1>2, JobAfter
<1>3. CASE \/ LoadConfig(p) \/ LoadPrices(p) \/ Choose(p) \/ PutKey(p) \/ MoveKey(p)
           \/ ForgetKey(p) \/ DropKey(p) \/ LookUpKey(p) \/ Truncate(p) \/ Encode(p) \/ Quit(p)
    <2>1. \E k : BecomesJob(p, k)
        BY <1>3, LoadAfter, KeySteps, TruncateAfter, EncodeAfter DEF Choose, Quit
    <2>. QED BY <1>2, <2>1
<1>. QED BY <1>1, <1>3 DEF StepOf

LEMMA CopyInit == ObservedInit => CopyInv
<1>. SUFFICES ASSUME ObservedInit PROVE CopyInv OBVIOUS
<1>1. Init /\ whole = Seen("config") BY DEF ObservedInit
<1>2. Inv BY <1>1, InvInit
<1>3. \A p \in Procs : job[p] = Idle BY <1>1 DEF Init
<1>4. ShapeInv BY <1>3, ShapeIdle DEF ShapeInv
<1>5. Idle.todo = <<>> BY DEF Idle
<1>6. CopiesCurrent BY <1>3, <1>5, NothingLoaded DEF CopiesCurrent
<1>. QED BY <1>1, <1>2, <1>4, <1>6 DEF CopyInv, WholeSeen

LEMMA CopyNext == CopyInv /\ [ObservedNext]_obsVars => CopyInv'
<1>. SUFFICES ASSUME CopyInv, [ObservedNext]_obsVars PROVE CopyInv' OBVIOUS
<1>1. Inv /\ ShapeInv BY DEF CopyInv
<1>2. CASE UNCHANGED obsVars
    <2>1. disk' = disk /\ job' = job /\ begun' = begun /\ whole' = whole
          /\ overtaken' = overtaken
        BY <1>2 DEF obsVars
    <2>2. Inv' /\ ShapeInv' BY <1>1, <2>1, InvNext, ShapeNext DEF cpVars
    <2>3. \A p \in Procs : Saving(p, "config")' = Saving(p, "config")
        BY <2>1 DEF Saving, AtStep
    <2>4. Seen("config")' = Seen("config") BY <2>1 DEF Seen
    <2>5. WholeSeen' BY <2>1, <2>3, <2>4 DEF CopyInv, WholeSeen
    <2>6. ASSUME NEW p \in Procs \ overtaken', Loaded(job'[p]) PROVE Current(p)'
        <3>1. Current(p) BY <2>1, <2>6 DEF CopyInv, CopiesCurrent
        <3>. QED BY <2>1, <2>3, <2>4, <3>1 DEF Current
    <2>7. CopiesCurrent' BY <2>6 DEF CopiesCurrent
    <2>. QED BY <2>2, <2>5, <2>7 DEF CopyInv
<1>3. ASSUME NEW p \in Procs, StepOf(p), Observe(p) PROVE CopyInv'
    <2>1. Next BY <1>3 DEF Next, StepOf
    <2>2. Inv' /\ ShapeInv' BY <1>1, <2>1, InvNext, ShapeNext
    <2>3. WholeSeen' BY <1>3, WholeNext
    <2>4. ASSUME NEW q \in Procs, q \notin overtaken', Loaded(job'[q]) PROVE Current(q)'
        <3>1. CASE q = p BY <1>3, <2>4, <3>1, CurrentNext DEF StepOf
        <3>2. CASE q # p
            <4>1. job'[q] = job[q] BY <1>1, <1>3, <3>2, OthersStay
            <4>. QED BY <1>3, <2>4, <3>2, <4>1, OthersCurrent
        <3>. QED BY <3>1, <3>2
    <2>5. CopiesCurrent' BY <2>4 DEF CopiesCurrent
    <2>. QED BY <2>2, <2>3, <2>5 DEF CopyInv
<1>4. ObservedNext => \E p \in Procs : StepOf(p) /\ Observe(p)
    BY DEF ObservedNext, CommandStep, StepOf
<1>. QED BY <1>2, <1>3, <1>4

\* What a save that was not overtaken writes.
LEMMA SavedKeeps ==
    ASSUME CopyInv, NEW p \in Procs, StepOf(p), Observe(p), p \notin overtaken,
           Saving(p, "config"), disk' # disk
    PROVE  Keeps(p, whole, whole')
<1>1. Inv /\ ShapeInv BY DEF CopyInv
<1>2. AtStep(p, "encode") BY DEF Saving
<1>3. Encode(p)
    <2>1. ASSUME NEW cmd \in Commands, Begin(p, cmd) PROVE FALSE
        BY <1>2, <2>1 DEF Begin, AtStep
    <2>2. ~LoadConfig(p) /\ ~Choose(p) /\ ~Truncate(p)
        BY <1>2 DEF LoadConfig, Choose, Truncate, AtStep
    <2>3. ~(PutKey(p) \/ MoveKey(p) \/ ForgetKey(p) \/ DropKey(p) \/ LookUpKey(p)
                \/ LoadPrices(p))
        BY <1>1, KeySteps
    <2>4. ~Quit(p) BY DEF Quit
    <2>. QED BY <2>1, <2>2, <2>3, <2>4 DEF StepOf
<1>4. PICK f : /\ Head(job[p].todo) = Encoding(f)
               /\ \E new \in Written(f, disk[f], job[p][f]) : disk' = [disk EXCEPT ![f] = new]
    BY <1>1, <1>3, EncodeAfter
<1>5. f = "config" BY <1>4 DEF Saving, Encoding
<1>6. /\ job[p].todo \in Seq(Steps) /\ Shape(job[p])
      /\ Left(job[p].todo) = {Head(job[p].todo)} \cup Left(Rest(job[p].todo))
    BY <1>1, <1>2, AtHead DEF ShapeInv
<1>7. Load \notin Left(job[p].todo) BY <1>4, <1>6 DEF Shape, Load, Encoding
<1>8. SavesConfig(job[p].todo) BY <1>4, <1>5, <1>6 DEF SavesConfig
<1>9. Based(job[p], whole) /\ disk["config"] = Empty
    BY <1>7, <1>8 DEF CopyInv, CopiesCurrent, Current, Loaded
<1>10. disk' = [disk EXCEPT !["config"] = job[p].config]
    BY <1>4, <1>5, <1>9 DEF Written
<1>11. disk'["config"] = job[p].config
    BY <1>1, <1>10 DEF Inv, ControlPlaneTypeOK, Files
<1>12. job[p].config \notin {Empty, Garbled}
    BY <1>1, JobsAreSound, JobFields, ContentsAssumption DEF Sound
<1>13. Seen("config")' = job[p].config BY <1>11, <1>12 DEF Seen
<1>14. whole' \in {whole, job[p].config} BY <1>13, WholeNext
<1>15. Keeps(p, whole, job[p].config) BY <1>9, <1>12, TrimmedKeeps DEF Based
<1>16. Keeps(p, whole, whole)
    BY <1>9, GrownSelf, GrownTrimmed, TrimmedKeeps DEF Based
<1>. QED BY <1>14, <1>15, <1>16

LEMMA LossStep ==
    ASSUME CopyInv, ObservedNext, NEW r \in Procs \ overtaken,
           Saving(r, "config"), ~Saving(r, "config")', disk' # disk
    PROVE  Keeps(r, whole, whole')
<1>1. PICK p \in Procs : StepOf(p) /\ Observe(p)
    BY DEF ObservedNext, CommandStep, StepOf
<1>2. r = p
    <2>. SUFFICES ASSUME r # p PROVE FALSE OBVIOUS
    <2>1. job'[r] = job[r] BY <1>1, OthersStay DEF CopyInv
    <2>. QED BY <2>1 DEF Saving, AtStep
<1>. QED BY <1>1, <1>2, SavedKeeps

\* Any number of commands, interleaved and cut short in any way: a save that
\* no other save overtook takes out of the last complete configuration only
\* what its own command removes, and never replaces a file that does not parse.
THEOREM LossAlwaysExplained == ObservedSpec => LostOnlyWhenOvertaken
<1>. DEFINE A == \A p \in Procs \ overtaken :
                    (Saving(p, "config") /\ ~Saving(p, "config")' /\ disk' # disk)
                        => Keeps(p, whole, whole')
<1>1. CopyInv /\ [ObservedNext]_obsVars => [A]_obsVars BY LossStep
<1>. QED BY <1>1, CopyInit, CopyNext, PTL DEF ObservedSpec, LostOnlyWhenOvertaken

----------------------------------------------------------------------------
(* The keys.  While the commands run one at a time, a command is a walk    *)
(* through stages: what it has left to do, its copies j, and what the      *)
(* configuration file and the key file hold (C and S) once the save under  *)
(* way is done.  m are the mishaps so far, w whether it has written.       *)

Agree(m, c, S) == Keyed(c) \subseteq S /\ (m = {} => S \subseteq Known(c))

\* The name whose key a rename takes away before it saves the configuration.
Leaving(j) == IF j.cmd = "provider rename" THEN {j.name} ELSE {}

Verb(j) == Head(j.todo)[1]

\* What the files are worth when the command is cut short here.
Safe(j, w, m, C, S) ==
    Verb(j) # "encode" => Keyed(C) \subseteq S \cup Leaving(j) /\ (w \/ Agree(m, C, S))

Quietly(t) == t \in Seq(Steps) /\ Left(t) \subseteq QuietSteps

\* Nothing is left that touches the keys or the providers' names.
Quiet(j, m, C, S) ==
    Quietly(j.todo) /\ Agree(m, C, S) /\ (Loaded(j) => Same(j.config, C))

Unread(j, m, C, S) ==
    j.cmd \in KeyCommands /\ j.todo = Script(j.cmd) /\ Agree(m, C, S)

Read(j, m, C, S) ==
    /\ j.cmd \in KeyCommands /\ j.todo = Rest(Script(j.cmd))
    /\ Agree(m, C, S) /\ Same(j.config, C)

\* A provider is added: its key first...
Adding(j, m, C, S) ==
    /\ \E t : Quietly(t) /\ j.todo = Then(Keys("put"), Then(Save("config"), t))
    /\ Agree(m, C, S)
    /\ Keyed(j.config) \subseteq S \cup (IF j.key THEN {j.name} ELSE {})
    /\ Known(C) \cup {j.name} \subseteq Known(j.config)

Storing(j, m, C, S) ==
    /\ \E t, v : /\ Quietly(t) /\ v \in {Save("secrets"), Encoding("secrets")}
                 /\ j.todo = Then(v, Then(Save("config"), t))
    /\ Keyed(C) \subseteq j.secrets \cup Leaving(j)
    /\ Agree(m, j.config, j.secrets)
    /\ Head(j.todo) = Encoding("secrets") => j.secrets = S

\* ...and then the configuration.
Stored(j, m, C, S) ==
    /\ \E t : Quietly(t) /\ j.todo = Then(Save("config"), t)
    /\ Agree(m, j.config, S)

\* A provider is removed: the configuration first...
Removing(j, m, C, S) ==
    /\ \E v \in {Save("config"), Encoding("config")} :
            j.todo = Then(v, Then(Keys("drop"), <<>>))
    /\ Keyed(j.config) \subseteq S /\ (m = {} => S \subseteq Known(j.config) \cup {j.name})
    /\ j.name \notin Known(j.config)
    /\ Head(j.todo) = Encoding("config") => C = j.config

\* ...and then its key.
Dropping(j, m, C, S) ==
    /\ j.todo = Then(Keys("drop"), <<>>)
    /\ Keyed(C) \subseteq S /\ (m = {} => S \subseteq Known(C) \cup {j.name})
    /\ j.name \notin Known(C)

Replacing(j, m, C, S) ==
    /\ j.todo = Then(Keys("put"), <<>>)
    /\ Agree(m, C, S) /\ j.key /\ j.name \in Known(C)

\* The key file is the last to be saved.
Last(j, m, C, S) ==
    /\ \E v \in {Save("secrets"), Encoding("secrets")} : j.todo = Then(v, <<>>)
    /\ Agree(m, C, j.secrets)
    /\ Head(j.todo) = Encoding("secrets") => j.secrets = S

\* A provider is renamed: both names have the key, then the new one only, and
\* then the configuration is saved.
Moving(j, m, C, S) ==
    /\ j.todo = Then(Keys("move"), Then(Save("config"), <<>>))
    /\ j.cmd = "provider rename" /\ j.name # j.new
    /\ Agree(m, C, S)
    /\ Known(C) \ {j.name} \subseteq Known(j.config) /\ j.new \in Known(j.config)
    /\ j.name \notin Keyed(j.config)
    /\ Keyed(j.config) \subseteq Keyed(C) \cup {j.new}
    /\ j.new \in Keyed(j.config) => j.name \in Keyed(C)

ForgetThen == Then(Keys("forget"), Then(Save("secrets"), Then(Save("config"), <<>>)))

Both(j, m, C, S) ==
    /\ \/ \E v \in {Save("secrets"), Encoding("secrets")} : j.todo = Then(v, ForgetThen)
       \/ j.todo = ForgetThen
    /\ j.cmd = "provider rename"
    /\ Keyed(C) \subseteq j.secrets
    /\ Agree(m, j.config, j.secrets \ {j.name})
    /\ Head(j.todo) # Save("secrets") => j.secrets = S

Stage(j, m, C, S) ==
    \/ Quiet(j, m, C, S) \/ Unread(j, m, C, S) \/ Read(j, m, C, S)
    \/ Adding(j, m, C, S) \/ Storing(j, m, C, S) \/ Stored(j, m, C, S)
    \/ Removing(j, m, C, S) \/ Dropping(j, m, C, S) \/ Replacing(j, m, C, S)
    \/ Last(j, m, C, S) \/ Moving(j, m, C, S) \/ Both(j, m, C, S)

(* What the next step makes of j, and of what the files will hold.         *)

Keeping(j, k) ==
    k.cmd = j.cmd /\ k.config = j.config /\ k.name = j.name /\ k.new = j.new /\ k.key = j.key

Loads(j, k, C) == k.cmd = j.cmd /\ k.config = C /\ k.todo = Rest(j.todo)

Passes(j, k) == Keeping(j, k) /\ k.secrets = j.secrets /\ k.todo = Rest(j.todo)

Changes(j, k) == \E i : /\ SoundJob(i) /\ i.cmd = j.cmd /\ i.config = j.config
                        /\ i.todo = Rest(j.todo) /\ k \in Edited(Head(j.todo)[2], i)

Puts(j, k, S) ==
    /\ Keeping(j, k)
    /\ IF j.key THEN /\ k.secrets = S \cup {j.name}
                     /\ k.todo = Then(Save("secrets"), Rest(j.todo))
       ELSE k.todo = Rest(j.todo)

Moves(j, k, S) ==
    /\ Keeping(j, k)
    /\ IF j.name \in S
       THEN /\ k.secrets = S \cup {j.new}
            /\ k.todo = Then(Save("secrets"), Then(Keys("forget"),
                            Then(Save("secrets"), Rest(j.todo))))
       ELSE k.todo = Rest(j.todo)

Forgets(j, k) ==
    Keeping(j, k) /\ k.secrets = j.secrets \ {j.name} /\ k.todo = Rest(j.todo)

Drops(j, k, S) ==
    /\ Keeping(j, k) /\ k.secrets = S \ {j.name}
    /\ k.todo = Then(Save("secrets"), Rest(j.todo))

Saves(j, k, C, S, D, T) ==
    \E f : /\ Head(j.todo) = Save(f) /\ Encoding(f) \in Steps
           /\ Keeping(j, k) /\ k.secrets = j.secrets
           /\ k.todo = Then(Encoding(f), Rest(j.todo))
           /\ D = (IF f = "config" THEN j.config ELSE C)
           /\ T = (IF f = "secrets" THEN j.secrets ELSE S)

Turn(j, k, C, S, D, T) ==
    /\ Verb(j) # "save" => D = C /\ T = S
    /\ Verb(j) = "load" => Loads(j, k, C)
    /\ Verb(j) \in {"table", "look", "encode"} => Passes(j, k)
    /\ Verb(j) = "edit" => Changes(j, k)
    /\ Verb(j) = "put" => Puts(j, k, S)
    /\ Verb(j) = "move" => Moves(j, k, S)
    /\ Verb(j) = "forget" => Forgets(j, k)
    /\ Verb(j) = "drop" => Drops(j, k, S)
    /\ Verb(j) = "save" => Saves(j, k, C, S, D, T)

\* p has done its step: its command is over, or at its next stage.
After(k, w, m, C, S) ==
    IF k.todo = <<>> THEN Agree(m, C, S) ELSE Stage(k, m, C, S) /\ Safe(k, w, m, C, S)

\* The stages but one whose files agree.
LEMMA AgreeSafe ==
    ASSUME NEW k, NEW w, NEW m, NEW C, NEW S, Agree(m, C, S)
    PROVE  Safe(k, w, m, C, S)
BY DEF Agree, Safe

LEMMA KeyedKnown == \A c : Keyed(c) \subseteq Known(c)
BY DEF Keyed, Known

LEMMA KeySaves ==
    /\ Save("secrets") \in Steps /\ Encoding("secrets") \in Steps
    /\ Save("config") \in Steps /\ Encoding("config") \in Steps
    /\ \A v \in {"put", "move", "forget", "drop", "look"} : Keys(v) \in Steps
BY StepSteps

LEMMA KeyVerbs ==
    /\ \A v : Keys(v)[1] = v
    /\ \A f : Save(f)[1] = "save" /\ Encoding(f)[1] = "encode"
    /\ \A f, g : Save(f) = Save(g) => f = g
    /\ \A f, g : Encoding(f) = Encoding(g) => f = g
    /\ \A f, g : Save(f) # Encoding(g)
<1>1. (\A v : Keys(v)[1] = v) /\ (\A f : Save(f)[1] = "save" /\ Encoding(f)[1] = "encode")
    BY DEF Keys, Save, Encoding
<1>2. (\A f : Save(f)[2] = f) /\ (\A f : Encoding(f)[2] = f) BY DEF Save, Encoding
<1>3. \A f, g : Save(f) = Save(g) => f = g BY <1>2
<1>4. \A f, g : Encoding(f) = Encoding(g) => f = g BY <1>2
<1>. QED BY <1>1, <1>3, <1>4

\* What is saved is encoded next.
LEMMA SavesNext ==
    ASSUME NEW j, NEW k, NEW C, NEW S, NEW D, NEW T, NEW f, NEW r \in Seq(Steps),
           Turn(j, k, C, S, D, T), Save(f) \in Steps, j.todo = Then(Save(f), r)
    PROVE  /\ Keeping(j, k) /\ k.secrets = j.secrets
           /\ k.todo = Then(Encoding(f), r) /\ Encoding(f) \in Steps
           /\ k.todo # <<>> /\ Head(k.todo) = Encoding(f) /\ Verb(k) = "encode"
           /\ D = (IF f = "config" THEN j.config ELSE C)
           /\ T = (IF f = "secrets" THEN j.secrets ELSE S)
<1>1. Head(j.todo) = Save(f) /\ Rest(j.todo) = r BY LeftThen
<1>2. Saves(j, k, C, S, D, T) BY <1>1, KeyVerbs DEF Turn, Verb
<1>3. PICK g : /\ Head(j.todo) = Save(g) /\ Encoding(g) \in Steps
               /\ Keeping(j, k) /\ k.secrets = j.secrets
               /\ k.todo = Then(Encoding(g), Rest(j.todo))
               /\ D = (IF g = "config" THEN j.config ELSE C)
               /\ T = (IF g = "secrets" THEN j.secrets ELSE S)
    BY <1>2 DEF Saves
<1>4. g = f BY <1>1, <1>3, KeyVerbs
<1>5. k.todo # <<>> /\ Head(k.todo) = Encoding(f) BY <1>1, <1>3, <1>4, LeftThen
<1>6. Verb(k) = "encode" BY <1>5, KeyVerbs DEF Verb
<1>. QED BY <1>1, <1>3, <1>4, <1>5, <1>6

\* What is encoded is done.
LEMMA EncodeNext ==
    ASSUME NEW j, NEW k, NEW C, NEW S, NEW D, NEW T, NEW f, NEW r \in Seq(Steps),
           Turn(j, k, C, S, D, T), Encoding(f) \in Steps, j.todo = Then(Encoding(f), r)
    PROVE  Passes(j, k) /\ k.todo = r /\ D = C /\ T = S
<1>1. Head(j.todo) = Encoding(f) /\ Rest(j.todo) = r BY LeftThen
<1>2. Verb(j) = "encode" BY <1>1, KeyVerbs DEF Verb
<1>. QED BY <1>1, <1>2 DEF Turn, Passes

LEMMA KeysNext ==
    ASSUME NEW j, NEW k, NEW C, NEW S, NEW D, NEW T, NEW r \in Seq(Steps),
           NEW v \in {"put", "move", "forget", "drop"},
           Turn(j, k, C, S, D, T), j.todo = Then(Keys(v), r)
    PROVE  /\ Rest(j.todo) = r /\ Head(j.todo) = Keys(v) /\ D = C /\ T = S
           /\ v = "put" => Puts(j, k, S)
           /\ v = "move" => Moves(j, k, S)
           /\ v = "forget" => Forgets(j, k)
           /\ v = "drop" => Drops(j, k, S)
<1>1. Head(j.todo) = Keys(v) /\ Rest(j.todo) = r BY KeySaves, LeftThen
<1>2. Verb(j) = v BY <1>1, KeyVerbs DEF Verb
<1>. QED BY <1>1, <1>2 DEF Turn

----------------------------------------------------------------------------
(* From stage to stage.                                                    *)

LEMMA AgreeSame ==
    ASSUME NEW m, NEW c, NEW d, NEW S, Same(c, d), Agree(m, d, S)
    PROVE  Agree(m, c, S)
BY DEF Same, Agree

LEMMA QuietAfter ==
    ASSUME NEW k, NEW w, NEW m, NEW C, NEW S, Quiet(k, m, C, S)
    PROVE  After(k, w, m, C, S)
BY AgreeSafe DEF After, Stage, Quiet

LEMMA QuietParts ==
    ASSUME NEW t, Quietly(t)
    PROVE  /\ t \in Seq(Steps) /\ Quietly(Rest(t)) /\ Quietly(Rest(Rest(t))) /\ Quietly(<<>>)
           /\ t # <<>> => /\ Left(t) = {Head(t)} \cup Left(Rest(t))
                          /\ Head(t) \in QuietSteps /\ Head(t) \in Steps
<1>1. t \in Seq(Steps) /\ Left(t) \subseteq QuietSteps BY DEF Quietly
<1>2. Rest(t) \in Seq(Steps) /\ Left(Rest(t)) \subseteq Left(t) BY <1>1, LeftSplit
<1>3. Rest(Rest(t)) \in Seq(Steps) /\ Left(Rest(Rest(t))) \subseteq Left(Rest(t))
    BY <1>2, LeftSplit
<1>4. Left(<<>>) = {} /\ <<>> \in Seq(Steps) BY LeftNone
<1>5. t # <<>> => /\ Left(t) = {Head(t)} \cup Left(Rest(t))
                  /\ Head(t) \in QuietSteps /\ Head(t) \in Steps
    BY <1>1, LeftSplit
<1>. QED BY <1>1, <1>2, <1>3, <1>4, <1>5 DEF Quietly

\* Past the load, the copy of the next job is loaded only if this one's is.
LEMMA LoadedBefore ==
    ASSUME NEW j, Shape(j), j.todo \in Seq(Steps), j.todo # <<>>, Verb(j) # "load",
           NEW k, Loaded(k), NEW X, Save("config") \notin X, Encoding("config") \notin X,
           Left(k.todo) \subseteq X \cup Left(j.todo)
    PROVE  Loaded(j)
<1>1. SavesConfig(j.todo) BY DEF Loaded, SavesConfig
<1>2. Left(j.todo) = {Head(j.todo)} \cup Left(Rest(j.todo)) BY LeftSplit
<1>3. Load[1] = "load" BY DEF Load
<1>4. Load \notin Left(j.todo) BY <1>2, <1>3 DEF Shape, Verb
<1>. QED BY <1>1, <1>4 DEF Loaded

LEMMA QuietNext ==
    ASSUME NEW j, SoundJob(j), Shape(j), j.todo # <<>>, NEW k, NEW w, NEW m,
           NEW C, NEW S, NEW D, NEW T, Quiet(j, m, C, S), Turn(j, k, C, S, D, T)
    PROVE  After(k, w, m, D, T)
<1>1. /\ j.todo \in Seq(Steps) /\ Quietly(Rest(j.todo)) /\ Quietly(Rest(Rest(j.todo)))
      /\ Quietly(<<>>) /\ Left(j.todo) = {Head(j.todo)} \cup Left(Rest(j.todo))
      /\ Head(j.todo) \in QuietSteps /\ Head(j.todo) \in Steps
    BY QuietParts DEF Quiet
<1>2. /\ Verb(j) \in {"load", "table", "edit", "look", "save", "encode"}
      /\ Verb(j) = "edit" => Head(j.todo)[2] \notin KeyCommands
      /\ Head(j.todo) # Save("secrets")
    BY <1>1 DEF QuietSteps, Verb
<1>3. Agree(m, C, S) BY DEF Quiet
<1>4. ASSUME Verb(j) # "load", NEW t, Left(t) \subseteq Left(Rest(j.todo)), k.todo = t,
             Loaded(k)
      PROVE  Loaded(j) /\ Same(j.config, C)
    <2>1. /\ Left(k.todo) \subseteq Pushed \cup Left(j.todo)
          /\ Save("config") \notin Pushed /\ Encoding("config") \notin Pushed
        BY <1>1, <1>4, PushedSteps
    <2>2. Loaded(j) BY <1>1, <1>4, <2>1, LoadedBefore
    <2>. QED BY <2>2 DEF Quiet
<1>5. CASE Verb(j) = "load"
    <2>1. Loads(j, k, C) /\ D = C /\ T = S BY <1>5 DEF Turn
    <2>2. Quiet(k, m, D, T) BY <1>1, <1>3, <2>1, SameSelf DEF Quiet, Loads
    <2>. QED BY <2>2, QuietAfter
<1>6. CASE Verb(j) \in {"table", "look", "encode"}
    <2>1. Passes(j, k) /\ D = C /\ T = S BY <1>6 DEF Turn
    <2>2. k.todo = Rest(j.todo) /\ k.config = j.config BY <2>1 DEF Passes, Keeping
    <2>3. Loaded(k) => Same(k.config, D) BY <1>4, <1>6, <2>1, <2>2
    <2>4. Quiet(k, m, D, T) BY <1>1, <1>3, <2>1, <2>2, <2>3 DEF Quiet
    <2>. QED BY <2>4, QuietAfter
<1>7. CASE Verb(j) = "edit"
    <2>1. Changes(j, k) /\ D = C /\ T = S BY <1>7 DEF Turn
    <2>. DEFINE e == Head(j.todo)[2]
    <2>2. PICK i : /\ SoundJob(i) /\ i.cmd = j.cmd /\ i.config = j.config
                   /\ i.todo = Rest(j.todo) /\ k \in Edited(e, i)
        BY <2>1 DEF Changes
    <2>3. e \notin KeyCommands BY <1>2, <1>7
    <2>4. k.todo \in {i.todo, Rest(i.todo), <<>>} /\ Same(i.config, k.config)
        <3>1. CASE e \in Removals BY <2>2, <2>3, <3>1, EditedRemoval
        <3>2. CASE e \notin Removals BY <2>2, <2>3, <3>2, EditedQuietly DEF QuietChange
        <3>. QED BY <3>1, <3>2
    <2>5. Quietly(k.todo) BY <1>1, <2>2, <2>4
    <2>6. Left(k.todo) \subseteq Left(Rest(j.todo))
        <3>1. /\ Rest(j.todo) \in Seq(Steps) /\ Left(<<>>) = {} BY <1>1, LeftSplit, LeftNone
        <3>2. Left(Rest(Rest(j.todo))) \subseteq Left(Rest(j.todo)) BY <3>1, LeftSplit
        <3>. QED BY <2>2, <2>4, <3>1, <3>2
    <2>7. Loaded(k) => Same(k.config, C) BY <1>4, <1>7, <2>2, <2>4, <2>6 DEF Same
    <2>8. Quiet(k, m, D, T) BY <1>3, <2>1, <2>5, <2>7 DEF Quiet
    <2>. QED BY <2>8, QuietAfter
<1>8. CASE Verb(j) = "save"
    <2>1. PICK f : /\ Head(j.todo) = Save(f) /\ Encoding(f) \in Steps
                   /\ Keeping(j, k) /\ k.secrets = j.secrets
                   /\ k.todo = Then(Encoding(f), Rest(j.todo))
                   /\ D = (IF f = "config" THEN j.config ELSE C)
                   /\ T = (IF f = "secrets" THEN j.secrets ELSE S)
        BY <1>8 DEF Turn, Saves
    <2>2. f # "secrets" /\ T = S /\ k.config = j.config BY <1>2, <2>1 DEF Keeping
    <2>3. /\ k.todo \in Seq(Steps) /\ Left(k.todo) = {Encoding(f)} \cup Left(Rest(j.todo))
        BY <1>1, <2>1, LeftThen DEF Quietly
    <2>4. Encoding(f) # Encoding("secrets") /\ Encoding(f) # Save("secrets")
        BY <2>2, KeyVerbs
    <2>5. Encoding(f) \in QuietSteps BY <2>1, <2>4, KeyVerbs DEF QuietSteps
    <2>6. Quietly(k.todo) BY <1>1, <2>3, <2>5 DEF Quietly
    <2>7. CASE f = "config"
        <3>1. Save("config") \in Left(j.todo) BY <1>1, <2>1, <2>7
        <3>2. Load \notin Left(j.todo)
            BY <1>1, <2>1, KeyVerbs DEF Shape, Load, Verb
        <3>3. Loaded(j) BY <3>1, <3>2 DEF Loaded, SavesConfig
        <3>4. Same(j.config, C) BY <3>3 DEF Quiet
        <3>5. Agree(m, D, T) BY <1>3, <2>1, <2>2, <2>7, <3>4, AgreeSame
        <3>6. Quiet(k, m, D, T) BY <2>1, <2>2, <2>6, <2>7, <3>5, SameSelf DEF Quiet
        <3>. QED BY <3>6, QuietAfter
    <2>8. CASE f # "config"
        <3>1. /\ Save("config") \notin {Encoding(f)} /\ Encoding("config") \notin {Encoding(f)}
            BY <2>8, KeyVerbs
        <3>2. Left(k.todo) \subseteq {Encoding(f)} \cup Left(j.todo) BY <1>1, <2>3
        <3>3. Loaded(k) => Loaded(j)
            BY <1>1, <1>8, <3>1, <3>2, LoadedBefore
        <3>4. Quiet(k, m, D, T) BY <1>3, <2>1, <2>2, <2>6, <2>8, <3>3 DEF Quiet
        <3>. QED BY <3>4, QuietAfter
    <2>. QED BY <2>7, <2>8
<1>. QED BY <1>2, <1>5, <1>6, <1>7, <1>8

LEMMA QuietTails ==
    /\ Quietly(<<>>)
    /\ \A t : Quietly(t) => /\ Quietly(Then(Save("config"), t))
                            /\ Quietly(Then(Encoding("config"), t))
                            /\ Quietly(Then(Edit("enable models"), t))
<1>1. Left(<<>>) = {} /\ <<>> \in Seq(Steps) BY LeftNone
<1>2. /\ Save("config") \in Steps /\ Encoding("config") \in Steps
      /\ Edit("enable models") \in Steps
    BY StepSteps
<1>3. /\ Save("config") \in QuietSteps /\ Encoding("config") \in QuietSteps
    BY <1>2, KeyVerbs DEF QuietSteps
<1>4. Edit("enable models") \in QuietSteps
    BY <1>2 DEF QuietSteps, Edit, KeyCommands, Save, Encoding
<1>5. ASSUME NEW x \in QuietSteps, x \in Steps, NEW t, Quietly(t) PROVE Quietly(Then(x, t))
    <2>1. /\ Then(x, t) \in Seq(Steps) /\ Left(Then(x, t)) = {x} \cup Left(t)
        BY <1>5, LeftThen DEF Quietly
    <2>. QED BY <1>5, <2>1 DEF Quietly
<1>. QED BY <1>1, <1>2, <1>3, <1>4, <1>5 DEF Quietly

LEMMA QuietSteps1 == \A t : Quietly(t) => t \in Seq(Steps)
BY DEF Quietly

\* What a command on the keys does once it has read the configuration and
\* asked.
KeyPlan(cmd, r) ==
    /\ cmd \in {"provider add", "provider add wizard", "init"} =>
            \E t : Quietly(t) /\ r = Then(Keys("put"), Then(Save("config"), t))
    /\ cmd = "provider key" => r = Then(Keys("put"), <<>>)
    /\ cmd = "provider remove" => r = Then(Save("config"), Then(Keys("drop"), <<>>))
    /\ cmd = "provider rename" => r = Then(Keys("move"), Then(Save("config"), <<>>))

LEMMA KeyScripts ==
    ASSUME NEW cmd \in KeyCommands
    PROVE  /\ Script(cmd) # <<>> /\ Head(Script(cmd)) = Load
           /\ Rest(Script(cmd)) # <<>> /\ Head(Rest(Script(cmd))) = Edit(cmd)
           /\ KeyPlan(cmd, Rest(Rest(Script(cmd))))
           /\ Rest(Rest(Script(cmd))) \in Seq(Steps)
<1>1. Quietly(<<>>) /\ Quietly(Then(Edit("enable models"), Then(Save("config"), <<>>)))
    BY QuietTails
<1>2. <<>> \in Seq(Steps) /\ Keys("put") \in Steps /\ Keys("move") \in Steps
      /\ Keys("drop") \in Steps /\ Save("config") \in Steps
    BY LeftNone, KeySaves
<1>3. \E r \in Seq(Steps) : Script(cmd) = Then(Load, Then(Edit(cmd), r)) /\ KeyPlan(cmd, r)
    <2>1. CASE cmd \in {"provider add", "init"}
        <3>. DEFINE r == Then(Keys("put"), Then(Save("config"), <<>>))
        <3>1. Script(cmd) = Then(Load, Then(Edit(cmd), r)) BY <2>1, ScriptForms
        <3>2. r \in Seq(Steps) BY <1>2, LeftThen
        <3>3. KeyPlan(cmd, r) BY <1>1, <2>1 DEF KeyPlan
        <3>. QED BY <3>1, <3>2, <3>3
    <2>2. CASE cmd = "provider add wizard"
        <3>. DEFINE t == Then(Edit("enable models"), Then(Save("config"), <<>>))
                    r == Then(Keys("put"), Then(Save("config"), t))
        <3>1. Script(cmd) = Then(Load, Then(Edit(cmd), r)) BY <2>2, ScriptForms
        <3>. HIDE DEF t
        <3>2. Quietly(t) /\ t \in Seq(Steps) BY <1>1, QuietSteps1 DEF t
        <3>3. r \in Seq(Steps) BY <1>2, <3>2, LeftThen
        <3>4. KeyPlan(cmd, r) BY <2>2, <3>2 DEF KeyPlan
        <3>. QED BY <3>1, <3>3, <3>4
    <2>3. CASE cmd = "provider key"
        <3>. DEFINE r == Then(Keys("put"), <<>>)
        <3>1. Script(cmd) = Then(Load, Then(Edit(cmd), r)) BY <2>3, ScriptForms
        <3>2. r \in Seq(Steps) BY <1>2, LeftThen
        <3>3. KeyPlan(cmd, r) BY <2>3 DEF KeyPlan
        <3>. QED BY <3>1, <3>2, <3>3
    <2>4. CASE cmd = "provider remove"
        <3>. DEFINE r == Then(Save("config"), Then(Keys("drop"), <<>>))
        <3>1. Script(cmd) = Then(Load, Then(Edit(cmd), r)) BY <2>4, ScriptForms
        <3>2. r \in Seq(Steps) BY <1>2, LeftThen
        <3>3. KeyPlan(cmd, r) BY <2>4 DEF KeyPlan
        <3>. QED BY <3>1, <3>2, <3>3
    <2>5. CASE cmd = "provider rename"
        <3>. DEFINE r == Then(Keys("move"), Then(Save("config"), <<>>))
        <3>1. Script(cmd) = Then(Load, Then(Edit(cmd), r)) BY <2>5, ScriptForms
        <3>2. r \in Seq(Steps) BY <1>2, LeftThen
        <3>3. KeyPlan(cmd, r) BY <2>5 DEF KeyPlan
        <3>. QED BY <3>1, <3>2, <3>3
    <2>. QED BY <2>1, <2>2, <2>3, <2>4, <2>5 DEF KeyCommands
<1>4. PICK r \in Seq(Steps) : Script(cmd) = Then(Load, Then(Edit(cmd), r)) /\ KeyPlan(cmd, r)
    BY <1>3
<1>5. Load \in Steps /\ Edit(cmd) \in Steps BY StepSteps DEF KeyCommands, AllCommands
<1>. DEFINE u == Then(Edit(cmd), r)
<1>6. u \in Seq(Steps) /\ u # <<>> /\ Head(u) = Edit(cmd) /\ Rest(u) = r
    BY <1>5, LeftThen
<1>. HIDE DEF u
<1>7. Script(cmd) = Then(Load, u) BY <1>4 DEF u
<1>8. Script(cmd) # <<>> /\ Head(Script(cmd)) = Load /\ Rest(Script(cmd)) = u
    BY <1>5, <1>6, <1>7, LeftThen
<1>. QED BY <1>4, <1>6, <1>8

LEMMA UnreadNext ==
    ASSUME NEW j, NEW k, NEW w, NEW m, NEW C, NEW S, NEW D, NEW T,
           Unread(j, m, C, S), Turn(j, k, C, S, D, T)
    PROVE  After(k, w, m, D, T)
<1>1. /\ j.cmd \in KeyCommands /\ j.todo = Script(j.cmd) /\ Agree(m, C, S) BY DEF Unread
<1>2. Verb(j) = "load" BY <1>1, KeyScripts DEF Verb, Load
<1>3. Loads(j, k, C) /\ D = C /\ T = S BY <1>2 DEF Turn
<1>4. Read(k, m, D, T) BY <1>1, <1>3, SameSelf DEF Read, Loads
<1>. QED BY <1>1, <1>3, <1>4, AgreeSafe DEF After, Stage

LEMMA ReadNext ==
    ASSUME NEW j, NEW k, NEW w, NEW m, NEW C, NEW S, NEW D, NEW T,
           Read(j, m, C, S), Turn(j, k, C, S, D, T)
    PROVE  After(k, w, m, D, T)
<1>. DEFINE cmd == j.cmd
            r == Rest(Rest(Script(cmd)))
<1>1. /\ cmd \in KeyCommands /\ j.todo = Rest(Script(cmd)) /\ Agree(m, C, S)
      /\ Same(j.config, C)
    BY DEF Read
<1>2. /\ Head(j.todo) = Edit(cmd) /\ KeyPlan(cmd, r) /\ r \in Seq(Steps)
    BY <1>1, KeyScripts
<1>3. Verb(j) = "edit" /\ Head(j.todo)[2] = cmd BY <1>2 DEF Verb, Edit
<1>4. Changes(j, k) /\ D = C /\ T = S BY <1>3 DEF Turn
<1>5. PICK i : /\ SoundJob(i) /\ i.cmd = cmd /\ i.config = j.config
               /\ i.todo = r /\ k \in Edited(cmd, i)
    BY <1>1, <1>3, <1>4 DEF Changes
<1>6. /\ Safe(k, w, m, D, T) BY <1>1, <1>4, AgreeSafe
<1>. HIDE DEF r
<1>7. CASE cmd \in {"provider add", "provider add wizard", "init"}
    <2>1. PICK t : Quietly(t) /\ r = Then(Keys("put"), Then(Save("config"), t))
        BY <1>2, <1>7 DEF KeyPlan
    <2>2. CASE QuietChange(i, k) /\ k.todo = Rest(i.todo)
        <3>1. Then(Save("config"), t) \in Seq(Steps) BY <2>1, QuietTails, QuietSteps1
        <3>2. Rest(r) = Then(Save("config"), t) BY <2>1, <3>1, KeySaves, LeftThen
        <3>3. Quietly(k.todo) BY <1>5, <2>1, <2>2, <3>2, QuietTails
        <3>4. Same(k.config, C) BY <1>1, <1>5, <2>2 DEF QuietChange, Same
        <3>5. Quiet(k, m, D, T) BY <1>1, <1>4, <3>3, <3>4 DEF Quiet
        <3>. QED BY <3>5, QuietAfter
    <2>3. CASE /\ k.cmd = i.cmd /\ k.todo = i.todo
               /\ Known(i.config) \cup {k.name} \subseteq Known(k.config)
               /\ Keyed(k.config) \subseteq
                    Keyed(i.config) \cup (IF k.key THEN {k.name} ELSE {})
        <3>1. Keyed(k.config) \subseteq S \cup (IF k.key THEN {k.name} ELSE {})
            BY <1>1, <1>5, <2>3 DEF Agree, Same
        <3>2. Known(C) \cup {k.name} \subseteq Known(k.config)
            BY <1>1, <1>5, <2>3 DEF Same
        <3>3. Adding(k, m, D, T)
            BY <1>1, <1>4, <1>5, <2>1, <2>3, <3>1, <3>2 DEF Adding
        <3>. QED BY <1>1, <1>4, <1>6, <3>3 DEF After, Stage
    <2>. QED BY <1>5, <1>7, <2>2, <2>3, EditedAdding
<1>8. CASE cmd = "provider key"
    <2>1. r = Then(Keys("put"), <<>>) BY <1>2, <1>8 DEF KeyPlan
    <2>2. k \in Edited("provider key", i) BY <1>5, <1>8
    <2>3. /\ k.todo = r /\ k.name \in Known(C) /\ k.key
        BY <1>1, <1>5, <2>2, EditedKey DEF Same
    <2>4. Replacing(k, m, D, T) BY <1>1, <1>4, <2>1, <2>3 DEF Replacing
    <2>. QED BY <1>1, <1>4, <1>6, <2>4 DEF After, Stage
<1>9. CASE cmd = "provider remove"
    <2>1. r = Then(Save("config"), Then(Keys("drop"), <<>>)) BY <1>2, <1>9 DEF KeyPlan
    <2>2. k \in Edited("provider remove", i) BY <1>5, <1>9
    <2>3. /\ k.todo = r /\ Known(k.config) = Known(C) \ {k.name}
          /\ Keyed(k.config) = Keyed(C) \ {k.name}
        <3>1. /\ k.todo = i.todo /\ Known(k.config) = Known(i.config) \ {k.name}
              /\ Keyed(k.config) = Keyed(i.config) \ {k.name}
            BY <1>5, <2>2, EditedGone
        <3>. QED BY <1>1, <1>5, <3>1 DEF Same
    <2>4. Head(k.todo) # Encoding("config")
        <3>1. Then(Keys("drop"), <<>>) \in Seq(Steps) BY KeySaves, LeftNone, LeftThen
        <3>2. Head(k.todo) = Save("config") BY <2>1, <2>3, <3>1, KeySaves, LeftThen
        <3>. QED BY <3>2, KeyVerbs
    <2>5. Removing(k, m, D, T) BY <1>1, <1>4, <2>1, <2>3, <2>4 DEF Removing, Agree
    <2>. QED BY <1>1, <1>4, <1>6, <2>5 DEF After, Stage
<1>10. CASE cmd = "provider rename"
    <2>1. r = Then(Keys("move"), Then(Save("config"), <<>>)) BY <1>2, <1>10 DEF KeyPlan
    <2>2. k \in Edited("provider rename", i) BY <1>5, <1>10
    <2>3. /\ k.cmd = i.cmd /\ k.todo = i.todo
          /\ k.name # k.new /\ k.new \in Known(k.config)
          /\ Known(i.config) \ {k.name} \subseteq Known(k.config)
          /\ k.name \notin Keyed(k.config)
          /\ Keyed(k.config) \subseteq Keyed(i.config) \cup {k.new}
          /\ k.new \in Keyed(k.config) => k.name \in Keyed(i.config)
        BY <1>5, <2>2, EditedRenamed
    <2>4. Keyed(i.config) = Keyed(C) /\ Known(i.config) = Known(C)
        BY <1>1, <1>5 DEF Same
    <2>5. Moving(k, m, D, T)
        BY <1>1, <1>4, <1>5, <1>10, <2>1, <2>3, <2>4 DEF Moving
    <2>. QED BY <1>1, <1>4, <1>6, <2>5 DEF After, Stage
<1>. QED BY <1>1, <1>7, <1>8, <1>9, <1>10 DEF KeyCommands

LEMMA AddingNext ==
    ASSUME NEW j, NEW k, NEW w, NEW m, NEW C, NEW S, NEW D, NEW T,
           Adding(j, m, C, S), Turn(j, k, C, S, D, T)
    PROVE  After(k, w, m, D, T)
<1>1. PICK t : Quietly(t) /\ j.todo = Then(Keys("put"), Then(Save("config"), t))
    BY DEF Adding
<1>. DEFINE r == Then(Save("config"), t)
<1>2. r \in Seq(Steps) BY <1>1, QuietTails, QuietSteps1
<1>3. Rest(j.todo) = r /\ D = C /\ T = S /\ Puts(j, k, S)
    BY <1>1, <1>2, KeysNext
<1>4. /\ Agree(m, C, S)
      /\ Keyed(j.config) \subseteq S \cup (IF j.key THEN {j.name} ELSE {})
      /\ Known(C) \cup {j.name} \subseteq Known(j.config)
    BY DEF Adding
<1>5. Safe(k, w, m, D, T) BY <1>3, <1>4, AgreeSafe
<1>6. CASE j.key
    <2>1. /\ k.config = j.config /\ k.secrets = S \cup {j.name}
          /\ k.todo = Then(Save("secrets"), r)
        BY <1>3, <1>6 DEF Puts, Keeping
    <2>2. Head(k.todo) # Encoding("secrets") BY <1>2, <2>1, KeySaves, LeftThen, KeyVerbs
    <2>3. Agree(m, k.config, k.secrets) /\ Keyed(C) \subseteq k.secrets
        BY <1>4, <1>6, <2>1 DEF Agree
    <2>4. Storing(k, m, D, T) BY <1>1, <1>3, <2>1, <2>2, <2>3 DEF Storing
    <2>. QED BY <1>3, <1>4, <1>5, <2>4 DEF After, Stage
<1>7. CASE ~j.key
    <2>1. k.config = j.config /\ k.todo = r BY <1>3, <1>7 DEF Puts, Keeping
    <2>2. Agree(m, k.config, S) BY <1>4, <1>7, <2>1 DEF Agree
    <2>3. Stored(k, m, D, T) BY <1>1, <1>3, <2>1, <2>2 DEF Stored
    <2>. QED BY <1>3, <1>4, <1>5, <2>3 DEF After, Stage
<1>. QED BY <1>6, <1>7

LEMMA StoredNext ==
    ASSUME NEW j, NEW k, NEW w, NEW m, NEW C, NEW S, NEW D, NEW T,
           Stored(j, m, C, S), Turn(j, k, C, S, D, T)
    PROVE  After(k, w, m, D, T)
<1>1. PICK t : Quietly(t) /\ j.todo = Then(Save("config"), t) BY DEF Stored
<1>2. t \in Seq(Steps) BY <1>1, QuietSteps1
<1>3. /\ k.config = j.config /\ k.todo = Then(Encoding("config"), t)
      /\ D = j.config /\ T = S
    BY <1>1, <1>2, KeySaves, SavesNext DEF Keeping
<1>4. Quiet(k, m, D, T) BY <1>1, <1>3, QuietTails, SameSelf DEF Quiet, Stored
<1>. QED BY <1>4, QuietAfter

LEMMA StoringNext ==
    ASSUME NEW j, NEW k, NEW w, NEW m, NEW C, NEW S, NEW D, NEW T,
           Storing(j, m, C, S), Turn(j, k, C, S, D, T), Verb(j) = "encode" => w
    PROVE  After(k, w, m, D, T)
<1>1. PICK t, v : /\ Quietly(t) /\ v \in {Save("secrets"), Encoding("secrets")}
                  /\ j.todo = Then(v, Then(Save("config"), t))
    BY DEF Storing
<1>. DEFINE r == Then(Save("config"), t)
<1>2. r \in Seq(Steps) BY <1>1, QuietTails, QuietSteps1
<1>3. /\ Keyed(C) \subseteq j.secrets \cup Leaving(j)
      /\ Agree(m, j.config, j.secrets)
      /\ Head(j.todo) = Encoding("secrets") => j.secrets = S
    BY DEF Storing
<1>4. CASE v = Save("secrets")
    <2>1. /\ Keeping(j, k) /\ k.secrets = j.secrets
          /\ k.todo = Then(Encoding("secrets"), r) /\ k.todo # <<>>
          /\ Verb(k) = "encode" /\ D = C /\ T = j.secrets
        BY <1>1, <1>2, <1>4, KeySaves, SavesNext
    <2>2. k.config = j.config /\ Leaving(k) = Leaving(j) BY <2>1 DEF Keeping, Leaving
    <2>3. Storing(k, m, D, T) BY <1>1, <1>3, <2>1, <2>2 DEF Storing
    <2>4. Safe(k, w, m, D, T) BY <2>1 DEF Safe
    <2>. QED BY <2>1, <2>3, <2>4 DEF After, Stage
<1>5. CASE v = Encoding("secrets")
    <2>1. Head(j.todo) = Encoding("secrets") /\ Verb(j) = "encode"
        BY <1>1, <1>2, <1>5, KeySaves, LeftThen, KeyVerbs DEF Verb
    <2>2. Passes(j, k) /\ k.todo = r /\ D = C /\ T = S
        BY <1>1, <1>2, <1>5, KeySaves, EncodeNext
    <2>3. k.config = j.config /\ Leaving(k) = Leaving(j)
        BY <2>2 DEF Passes, Keeping, Leaving
    <2>4. Stored(k, m, D, T) BY <1>1, <1>3, <2>1, <2>2, <2>3 DEF Stored
    <2>5. Safe(k, w, m, D, T) BY <1>3, <2>1, <2>2, <2>3 DEF Safe
    <2>6. r # <<>> BY <1>1, KeySaves, LeftThen, QuietSteps1
    <2>. QED BY <2>2, <2>4, <2>5, <2>6 DEF After, Stage
<1>. QED BY <1>1, <1>4, <1>5

LEMMA LastNext ==
    ASSUME NEW j, NEW k, NEW w, NEW m, NEW C, NEW S, NEW D, NEW T,
           Last(j, m, C, S), Turn(j, k, C, S, D, T)
    PROVE  After(k, w, m, D, T)
<1>1. PICK v \in {Save("secrets"), Encoding("secrets")} : j.todo = Then(v, <<>>)
    BY DEF Last
<1>2. PICK r \in Seq(Steps) : r = <<>> BY LeftNone
<1>3. /\ Agree(m, C, j.secrets)
      /\ Head(j.todo) = Encoding("secrets") => j.secrets = S
    BY DEF Last
<1>4. CASE v = Save("secrets")
    <2>0. j.todo = Then(Save("secrets"), r) BY <1>1, <1>2, <1>4
    <2>1. /\ k.secrets = j.secrets /\ k.todo = Then(Encoding("secrets"), r) /\ k.todo # <<>>
          /\ Verb(k) = "encode" /\ D = C /\ T = j.secrets
        BY <2>0, KeySaves, SavesNext
    <2>2. Last(k, m, D, T) BY <1>2, <1>3, <2>1 DEF Last
    <2>3. Safe(k, w, m, D, T) BY <2>1 DEF Safe
    <2>. QED BY <2>1, <2>2, <2>3 DEF After, Stage
<1>5. CASE v = Encoding("secrets")
    <2>0. j.todo = Then(Encoding("secrets"), r) BY <1>1, <1>2, <1>5
    <2>1. Head(j.todo) = Encoding("secrets") BY <2>0, KeySaves, LeftThen
    <2>2. k.todo = r /\ D = C /\ T = S BY <2>0, KeySaves, EncodeNext
    <2>. QED BY <1>2, <1>3, <2>1, <2>2 DEF After
<1>. QED BY <1>1, <1>4, <1>5

LEMMA ReplacingNext ==
    ASSUME NEW j, NEW k, NEW w, NEW m, NEW C, NEW S, NEW D, NEW T,
           Replacing(j, m, C, S), Turn(j, k, C, S, D, T)
    PROVE  After(k, w, m, D, T)
<1>1. j.todo = Then(Keys("put"), <<>>) /\ Agree(m, C, S) /\ j.key /\ j.name \in Known(C)
    BY DEF Replacing
<1>2. PICK r \in Seq(Steps) : r = <<>> BY LeftNone
<1>3. Rest(j.todo) = r /\ D = C /\ T = S /\ Puts(j, k, S)
    <2>1. j.todo = Then(Keys("put"), r) BY <1>1, <1>2
    <2>. QED BY <2>1, KeysNext
<1>4. k.secrets = S \cup {j.name} /\ k.todo = Then(Save("secrets"), r)
    BY <1>1, <1>3 DEF Puts
<1>5. Head(k.todo) # Encoding("secrets") BY <1>4, KeySaves, LeftThen, KeyVerbs
<1>6. Agree(m, C, k.secrets) BY <1>1, <1>4 DEF Agree
<1>7. Last(k, m, D, T) BY <1>2, <1>3, <1>4, <1>5, <1>6 DEF Last
<1>. QED BY <1>1, <1>3, <1>7, AgreeSafe DEF After, Stage

\* A step that leaves both files alone is as safe as the one before.
LEMMA SafeStays ==
    ASSUME NEW j, NEW v, NEW w, NEW m, NEW C, NEW S, Safe(j, v, m, C, S), v => w,
           Verb(j) # "encode", NEW k, k.cmd = j.cmd, k.name = j.name
    PROVE  Safe(k, w, m, C, S)
BY DEF Safe, Leaving

LEMMA RemovingNext ==
    ASSUME NEW j, NEW k, NEW w, NEW m, NEW C, NEW S, NEW D, NEW T,
           Removing(j, m, C, S), Turn(j, k, C, S, D, T), Verb(j) = "encode" => w
    PROVE  After(k, w, m, D, T)
<1>. DEFINE r == Then(Keys("drop"), <<>>)
<1>1. PICK v \in {Save("config"), Encoding("config")} : j.todo = Then(v, r)
    BY DEF Removing
<1>2. r \in Seq(Steps) /\ r # <<>> BY KeySaves, LeftNone, LeftThen
<1>3. /\ Keyed(j.config) \subseteq S /\ (m = {} => S \subseteq Known(j.config) \cup {j.name})
      /\ j.name \notin Known(j.config)
      /\ Head(j.todo) = Encoding("config") => C = j.config
    BY DEF Removing
<1>. HIDE DEF r
<1>4. CASE v = Save("config")
    <2>1. /\ Keeping(j, k) /\ k.todo = Then(Encoding("config"), r) /\ k.todo # <<>>
          /\ Verb(k) = "encode" /\ D = j.config /\ T = S
        BY <1>1, <1>2, <1>4, KeySaves, SavesNext
    <2>2. Removing(k, m, D, T) BY <1>3, <2>1 DEF Removing, Keeping, r
    <2>3. Safe(k, w, m, D, T) BY <2>1 DEF Safe
    <2>. QED BY <2>1, <2>2, <2>3 DEF After, Stage
<1>5. CASE v = Encoding("config")
    <2>1. Head(j.todo) = Encoding("config") /\ Verb(j) = "encode"
        BY <1>1, <1>2, <1>5, KeySaves, LeftThen, KeyVerbs DEF Verb
    <2>2. Passes(j, k) /\ k.todo = r /\ D = C /\ T = S
        BY <1>1, <1>2, <1>5, KeySaves, EncodeNext
    <2>3. Dropping(k, m, D, T) BY <1>3, <2>1, <2>2 DEF Dropping, Passes, Keeping, r
    <2>4. Safe(k, w, m, D, T) BY <1>3, <2>1, <2>2 DEF Safe
    <2>. QED BY <1>2, <2>2, <2>3, <2>4 DEF After, Stage
<1>. QED BY <1>1, <1>4, <1>5

LEMMA DroppingNext ==
    ASSUME NEW j, NEW k, NEW v, NEW w, NEW m, NEW C, NEW S, NEW D, NEW T,
           Dropping(j, m, C, S), Turn(j, k, C, S, D, T), Safe(j, v, m, C, S), v => w
    PROVE  After(k, w, m, D, T)
<1>1. /\ j.todo = Then(Keys("drop"), <<>>)
      /\ Keyed(C) \subseteq S /\ (m = {} => S \subseteq Known(C) \cup {j.name})
      /\ j.name \notin Known(C)
    BY DEF Dropping
<1>2. PICK r \in Seq(Steps) : r = <<>> BY LeftNone
<1>3. Rest(j.todo) = r /\ Head(j.todo) = Keys("drop") /\ D = C /\ T = S /\ Drops(j, k, S)
    <2>1. j.todo = Then(Keys("drop"), r) BY <1>1, <1>2
    <2>. QED BY <2>1, KeysNext
<1>4. Keeping(j, k) /\ k.secrets = S \ {j.name} /\ k.todo = Then(Save("secrets"), r)
    BY <1>3 DEF Drops
<1>5. Head(k.todo) # Encoding("secrets") /\ k.todo # <<>>
    BY <1>4, KeySaves, LeftThen, KeyVerbs
<1>6. Agree(m, C, k.secrets) BY <1>1, <1>4, KeyedKnown DEF Agree
<1>7. Last(k, m, D, T) BY <1>2, <1>3, <1>4, <1>5, <1>6 DEF Last
<1>8. Verb(j) # "encode" BY <1>3, KeyVerbs DEF Verb
<1>9. Safe(k, w, m, D, T)
    <2>1. k.cmd = j.cmd /\ k.name = j.name BY <1>4 DEF Keeping
    <2>2. Safe(k, w, m, C, S) BY <1>8, <2>1, SafeStays, Zenon
    <2>. QED BY <1>3, <2>2
<1>. QED BY <1>5, <1>7, <1>9 DEF After, Stage

LEMMA MovingNext ==
    ASSUME NEW j, NEW k, NEW w, NEW m, NEW C, NEW S, NEW D, NEW T,
           Moving(j, m, C, S), Turn(j, k, C, S, D, T)
    PROVE  After(k, w, m, D, T)
<1>. DEFINE r == Then(Save("config"), <<>>)
<1>1. /\ j.todo = Then(Keys("move"), r) /\ j.cmd = "provider rename" /\ j.name # j.new
      /\ Agree(m, C, S)
      /\ Known(C) \ {j.name} \subseteq Known(j.config) /\ j.new \in Known(j.config)
      /\ j.name \notin Keyed(j.config)
      /\ Keyed(j.config) \subseteq Keyed(C) \cup {j.new}
      /\ j.new \in Keyed(j.config) => j.name \in Keyed(C)
    BY DEF Moving
<1>2. r \in Seq(Steps) BY KeySaves, LeftNone, LeftThen
<1>3. Rest(j.todo) = r /\ D = C /\ T = S /\ Moves(j, k, S)
    <2>1. j.todo = Then(Keys("move"), r) BY <1>1
    <2>. HIDE DEF r
    <2>. QED BY <1>2, <2>1, KeysNext
<1>4. Keeping(j, k) BY <1>3 DEF Moves
<1>5. Safe(k, w, m, D, T) BY <1>1, <1>3, AgreeSafe
<1>6. CASE j.name \in S
    <2>1. k.secrets = S \cup {j.new} /\ k.todo = Then(Save("secrets"), ForgetThen)
        BY <1>3, <1>6 DEF Moves, ForgetThen
    <2>2. ForgetThen \in Seq(Steps) BY <1>2, KeySaves, LeftThen DEF ForgetThen
    <2>3. Head(k.todo) = Save("secrets") BY <2>1, <2>2, KeySaves, LeftThen
    <2>4. Keyed(C) \subseteq k.secrets BY <1>1, <2>1 DEF Agree
    <2>5. Agree(m, k.config, k.secrets \ {k.name})
        BY <1>1, <1>4, <2>1 DEF Agree, Keeping
    <2>6. Both(k, m, D, T)
        BY <1>1, <1>3, <1>4, <2>1, <2>3, <2>4, <2>5 DEF Both, Keeping
    <2>. QED BY <1>1, <1>3, <1>5, <2>6 DEF After, Stage
<1>7. CASE j.name \notin S
    <2>1. k.todo = r BY <1>3, <1>7 DEF Moves
    <2>2. Agree(m, k.config, S) BY <1>1, <1>4, <1>7 DEF Agree, Keeping
    <2>3. Stored(k, m, D, T) BY <1>3, <2>1, <2>2, QuietTails DEF Stored
    <2>. QED BY <1>1, <1>3, <1>5, <2>3 DEF After, Stage
<1>. QED BY <1>6, <1>7

LEMMA BothNext ==
    ASSUME NEW j, NEW k, NEW v, NEW w, NEW m, NEW C, NEW S, NEW D, NEW T,
           Both(j, m, C, S), Turn(j, k, C, S, D, T), Safe(j, v, m, C, S), v => w,
           Verb(j) = "encode" => w
    PROVE  After(k, w, m, D, T)
<1>1. /\ j.cmd = "provider rename" /\ Keyed(C) \subseteq j.secrets
      /\ Agree(m, j.config, j.secrets \ {j.name})
      /\ Head(j.todo) # Save("secrets") => j.secrets = S
    BY DEF Both
<1>. DEFINE r == Then(Save("secrets"), Then(Save("config"), <<>>))
<1>2. r \in Seq(Steps) /\ r # <<>> /\ Head(r) = Save("secrets")
    <2>1. Then(Save("config"), <<>>) \in Seq(Steps) BY KeySaves, LeftNone, LeftThen
    <2>. QED BY <2>1, KeySaves, LeftThen
<1>3. ForgetThen = Then(Keys("forget"), r) BY DEF ForgetThen
<1>. HIDE DEF r
<1>4. ForgetThen \in Seq(Steps) /\ ForgetThen # <<>> /\ Head(ForgetThen) = Keys("forget")
    BY <1>2, <1>3, KeySaves, LeftThen
<1>5. Leaving(j) = {j.name} BY <1>1 DEF Leaving
<1>6. CASE j.todo = Then(Save("secrets"), ForgetThen)
    <2>1. /\ Keeping(j, k) /\ k.secrets = j.secrets
          /\ k.todo = Then(Encoding("secrets"), ForgetThen) /\ k.todo # <<>>
          /\ Verb(k) = "encode" /\ D = C /\ T = j.secrets
        BY <1>4, <1>6, KeySaves, SavesNext
    <2>2. Both(k, m, D, T) BY <1>1, <2>1 DEF Both, Keeping
    <2>3. Safe(k, w, m, D, T) BY <2>1 DEF Safe
    <2>. QED BY <2>1, <2>2, <2>3 DEF After, Stage
<1>7. CASE j.todo = Then(Encoding("secrets"), ForgetThen)
    <2>1. Head(j.todo) = Encoding("secrets") /\ Verb(j) = "encode"
        BY <1>4, <1>7, KeySaves, LeftThen, KeyVerbs DEF Verb
    <2>2. Passes(j, k) /\ k.todo = ForgetThen /\ D = C /\ T = S
        BY <1>4, <1>7, KeySaves, EncodeNext
    <2>3. j.secrets = S BY <1>1, <2>1, KeyVerbs
    <2>4. Both(k, m, D, T) BY <1>1, <2>2, <2>3 DEF Both, Passes, Keeping
    <2>5. Safe(k, w, m, D, T) BY <1>1, <2>1, <2>2, <2>3 DEF Safe
    <2>. QED BY <1>4, <2>2, <2>4, <2>5 DEF After, Stage
<1>8. CASE j.todo = ForgetThen
    <2>1. D = C /\ T = S /\ Forgets(j, k) /\ Rest(j.todo) = r
        BY <1>2, <1>3, <1>8, KeysNext
    <2>2. Keeping(j, k) /\ k.secrets = j.secrets \ {j.name} /\ k.todo = r
        BY <2>1 DEF Forgets
    <2>3. Verb(j) = "forget" /\ j.secrets = S
        BY <1>1, <1>4, <1>8, KeyVerbs DEF Verb, Keys, Save
    <2>4. Safe(k, w, m, D, T)
        <3>1. k.cmd = j.cmd /\ k.name = j.name /\ Verb(j) # "encode" BY <2>2, <2>3 DEF Keeping
        <3>2. Safe(k, w, m, C, S) BY <3>1, SafeStays, Zenon
        <3>. QED BY <2>1, <3>2
    <2>5. Leaving(k) = {j.name} BY <1>1, <2>2 DEF Leaving, Keeping
    <2>6. /\ Keyed(C) \subseteq k.secrets \cup Leaving(k)
          /\ Agree(m, k.config, k.secrets)
        BY <1>1, <2>2, <2>5 DEF Keeping
    <2>7. Head(k.todo) # Encoding("secrets") BY <1>2, <2>2, KeyVerbs
    <2>8. Storing(k, m, D, T) BY <2>1, <2>2, <2>6, <2>7, QuietTails DEF Storing, r
    <2>. QED BY <1>2, <2>2, <2>4, <2>8 DEF After, Stage
<1>. QED BY <1>6, <1>7, <1>8 DEF Both

\* From stage to stage.
LEMMA StageNext ==
    ASSUME NEW j, SoundJob(j), Shape(j), j.todo # <<>>, NEW k, NEW v, NEW w, NEW m,
           NEW C, NEW S, NEW D, NEW T, Stage(j, m, C, S), Safe(j, v, m, C, S),
           Turn(j, k, C, S, D, T), v => w, Verb(j) = "encode" => w
    PROVE  After(k, w, m, D, T)
BY QuietNext, UnreadNext, ReadNext, AddingNext, StoringNext, StoredNext, RemovingNext,
   DroppingNext, ReplacingNext, LastNext, MovingNext, BothNext DEF Stage

----------------------------------------------------------------------------
(* How the actions of a process move its job from stage to stage.          *)

\* File f of the files d, as the next command reads it.
Reading(f, d) == IF d[f] = Empty THEN Blank[f] ELSE d[f]

\* What file f holds once the save that j is in is done.
Held(j, f, d) ==
    IF j.todo # <<>> /\ Head(j.todo) = Encoding(f) THEN j[f] ELSE Reading(f, d)

\* The steps of a command under way that do not end it.
WorkStep(p) ==
    \/ LoadConfig(p) \/ LoadPrices(p) \/ Choose(p)
    \/ PutKey(p) \/ MoveKey(p) \/ ForgetKey(p) \/ DropKey(p) \/ LookUpKey(p)
    \/ Truncate(p) \/ Encode(p)

\* j and k hold what the files say, and j does not save.
LEMMA HeldSame ==
    ASSUME NEW j, NEW k, NEW d, NEW C, NEW S, NEW D, NEW T,
           Verb(j) # "encode", k.todo # <<>> => Verb(k) # "encode",
           C = Held(j, "config", d), S = Held(j, "secrets", d),
           D = Held(k, "config", d), T = Held(k, "secrets", d)
    PROVE  /\ D = C /\ T = S
           /\ C = Reading("config", d) /\ S = Reading("secrets", d)
<1>1. Head(j.todo) # Encoding("config") /\ Head(j.todo) # Encoding("secrets")
    BY KeyVerbs DEF Verb
<1>2. k.todo # <<>> => Head(k.todo) # Encoding("config") /\ Head(k.todo) # Encoding("secrets")
    BY KeyVerbs DEF Verb
<1>. QED BY <1>1, <1>2 DEF Held

\* Where p is, and what is left after that.
LEMMA AtVerb ==
    ASSUME Inv, ShapeInv, NEW p \in Procs, NEW v, AtStep(p, v)
    PROVE  /\ job[p].todo # <<>> /\ Verb(job[p]) = v
           /\ Rest(job[p].todo) \in Seq(Steps)
           /\ Rest(job[p].todo) # <<>> => Head(Rest(job[p].todo))[1] # "encode"
<1>1. /\ job[p].todo # <<>> /\ Head(job[p].todo)[1] = v /\ Rest(job[p].todo) \in Seq(Steps)
    BY AtHead
<1>2. Rest(job[p].todo) # <<>> => Head(Rest(job[p].todo)) \in Left(Rest(job[p].todo))
    BY <1>1, LeftSplit
<1>3. \A s \in Left(Rest(job[p].todo)) : s[1] \notin {"load", "encode"}
    BY DEF ShapeInv, Shape
<1>. QED BY <1>1, <1>2, <1>3 DEF Verb

LEMMA ThenVerb ==
    ASSUME NEW k, NEW x \in Steps, NEW t \in Seq(Steps), k.todo = Then(x, t)
    PROVE  k.todo # <<>> /\ Head(k.todo) = x /\ Verb(k) = x[1]
BY LeftThen DEF Verb

\* The job of p after a step that changes no file.
LEMMA TurnAside ==
    ASSUME Inv, ShapeInv, NEW p \in Procs,
           LoadConfig(p) \/ LoadPrices(p) \/ Choose(p) \/ LookUpKey(p) \/ ForgetKey(p),
           disk["config"] # Garbled, disk["secrets"] # Garbled
    PROVE  \E k : BecomesJob(p, k) /\ Turn(job[p], k, Held(job[p], "config", disk),
                Held(job[p], "secrets", disk), Held(k, "config", disk), Held(k, "secrets", disk))
<1>. DEFINE j == job[p]
            C == Held(j, "config", disk)
            S == Held(j, "secrets", disk)
            D(k) == Held(k, "config", disk)
            T(k) == Held(k, "secrets", disk)
<1>0. SoundJob(j) /\ j \in Jobs BY JobsAreSound DEF SoundJob
<1>1. CASE LoadConfig(p)
    <2>. DEFINE k == Advanced([j EXCEPT !.config = Seen("config")])
    <2>1. AtStep(p, "load") /\ BecomesJob(p, k) BY <1>1 DEF LoadConfig
    <2>2. /\ Verb(j) = "load"
          /\ Rest(j.todo) # <<>> => Head(Rest(j.todo))[1] # "encode"
        BY <2>1, AtVerb
    <2>3. k.cmd = j.cmd /\ k.config = Seen("config") /\ k.todo = Rest(j.todo)
        BY <1>0 DEF Advanced, Jobs
    <2>. HIDE DEF k, j
    <2>4. Verb(j) # "encode" /\ (k.todo # <<>> => Verb(k) # "encode") BY <2>2, <2>3 DEF Verb
    <2>5. D(k) = C /\ T(k) = S /\ C = Reading("config", disk) BY <2>4, HeldSame
    <2>6. Loads(j, k, C) BY <2>3, <2>5 DEF Loads, Reading, Seen
    <2>. HIDE DEF C, S, D, T
    <2>7. Turn(j, k, C, S, D(k), T(k)) BY <2>2, <2>5, <2>6 DEF Turn
    <2>. QED BY <2>1, <2>7 DEF C, S, D, T, j
<1>2. ASSUME NEW k, BecomesJob(p, k), Passes(j, k),
             AtStep(p, "table") \/ AtStep(p, "look")
      PROVE  Turn(j, k, C, S, D(k), T(k))
    <2>1. /\ Verb(j) \in {"table", "look"}
          /\ Rest(j.todo) # <<>> => Head(Rest(j.todo))[1] # "encode"
        BY <1>2, AtVerb
    <2>. HIDE DEF j
    <2>2. Verb(j) # "encode" /\ (k.todo # <<>> => Verb(k) # "encode")
        BY <1>2, <2>1 DEF Verb, Passes
    <2>3. D(k) = C /\ T(k) = S BY <2>2, HeldSame
    <2>. HIDE DEF C, S, D, T
    <2>. QED BY <1>2, <2>1, <2>3 DEF Turn
<1>3. CASE LoadPrices(p)
    <2>. DEFINE k == Advanced([j EXCEPT !.prices =
                        IF disk["prices"] = Garbled THEN {} ELSE Seen("prices")])
    <2>1. AtStep(p, "table") /\ BecomesJob(p, k) BY <1>3 DEF LoadPrices
    <2>2. Passes(j, k) BY <1>0 DEF Advanced, Jobs, Passes, Keeping
    <2>. HIDE DEF k
    <2>3. Turn(j, k, C, S, D(k), T(k)) BY <1>2, <2>1, <2>2
    <2>. QED BY <2>1, <2>3
<1>4. CASE LookUpKey(p)
    <2>. DEFINE k == Advanced(j)
    <2>1. AtStep(p, "look") /\ BecomesJob(p, k) BY <1>4 DEF LookUpKey
    <2>2. Passes(j, k) BY <1>0 DEF Advanced, Jobs, Passes, Keeping
    <2>. HIDE DEF k
    <2>3. Turn(j, k, C, S, D(k), T(k)) BY <1>2, <2>1, <2>2
    <2>. QED BY <2>1, <2>3
<1>5. CASE ForgetKey(p)
    <2>. DEFINE k == Advanced([j EXCEPT !.secrets = @ \ {j.name}])
    <2>1. AtStep(p, "forget") /\ BecomesJob(p, k) BY <1>5 DEF ForgetKey
    <2>2. /\ Verb(j) = "forget"
          /\ Rest(j.todo) # <<>> => Head(Rest(j.todo))[1] # "encode"
        BY <2>1, AtVerb
    <2>3. Forgets(j, k) BY <1>0 DEF Advanced, Jobs, Forgets, Keeping
    <2>. HIDE DEF k, j
    <2>4. Verb(j) # "encode" /\ (k.todo # <<>> => Verb(k) # "encode")
        BY <2>2, <2>3 DEF Verb, Forgets
    <2>5. D(k) = C /\ T(k) = S BY <2>4, HeldSame
    <2>. HIDE DEF C, S, D, T
    <2>6. Turn(j, k, C, S, D(k), T(k)) BY <2>2, <2>3, <2>5 DEF Turn
    <2>. QED BY <2>1, <2>6 DEF C, S, D, T, j
<1>6. CASE Choose(p)
    <2>. DEFINE i == [j EXCEPT !.todo = Rest(@)]
    <2>1. AtStep(p, "edit") BY <1>6 DEF Choose
    <2>2. PICK k \in Edited(Head(j.todo)[2], i) : BecomesJob(p, k) BY <1>6 DEF Choose
    <2>3. SoundJob(i) /\ i.cmd = j.cmd /\ i.config = j.config /\ i.todo = Rest(j.todo)
        BY RestJob
    <2>4. Changes(j, k) BY <2>2, <2>3 DEF Changes
    <2>5. k.todo \in {i.todo, Rest(i.todo), <<>>} BY <2>2, <2>3, EditedTodo
    <2>6. Verb(j) = "edit" /\ i.todo \in Seq(Steps) BY <2>1, <2>3, AtVerb
    <2>7. \A s \in Left(i.todo) : s[1] # "encode" BY <2>3 DEF ShapeInv, Shape
    <2>. HIDE DEF i, j
    <2>8. Rest(i.todo) \in Seq(Steps) /\ Left(Rest(i.todo)) \subseteq Left(i.todo)
        BY <2>6, LeftSplit
    <2>9. k.todo # <<>> => k.todo \in Seq(Steps) /\ Left(k.todo) \subseteq Left(i.todo)
        BY <2>5, <2>6, <2>8
    <2>10. k.todo # <<>> => Head(k.todo) \in Left(i.todo) BY <2>9, LeftSplit
    <2>11. Verb(j) # "encode" /\ (k.todo # <<>> => Verb(k) # "encode")
        BY <2>6, <2>7, <2>10 DEF Verb
    <2>12. D(k) = C /\ T(k) = S BY <2>11, HeldSame
    <2>. HIDE DEF C, S, D, T
    <2>13. Turn(j, k, C, S, D(k), T(k)) BY <2>6, <2>4, <2>12 DEF Turn
    <2>. QED BY <2>2, <2>13 DEF C, S, D, T, j
<1>. QED BY <1>1, <1>3, <1>4, <1>5, <1>6

\* The job of p after it has put, moved or dropped a key.
LEMMA TurnKey ==
    ASSUME Inv, ShapeInv, NEW p \in Procs, PutKey(p) \/ MoveKey(p) \/ DropKey(p),
           disk["config"] # Garbled, disk["secrets"] # Garbled
    PROVE  \E k : BecomesJob(p, k) /\ Turn(job[p], k, Held(job[p], "config", disk),
                Held(job[p], "secrets", disk), Held(k, "config", disk), Held(k, "secrets", disk))
<1>. DEFINE j == job[p]
            C == Held(j, "config", disk)
            S == Held(j, "secrets", disk)
            D(k) == Held(k, "config", disk)
            T(k) == Held(k, "secrets", disk)
            R == Seen("secrets")
<1>0. SoundJob(j) /\ j \in Jobs BY JobsAreSound DEF SoundJob
<1>1. R = Reading("secrets", disk) BY DEF Seen, Reading
\* What all three have in common.
<1>2. ASSUME NEW v \in {"put", "move", "drop"}, AtStep(p, v), NEW k,
             \/ k.todo = Rest(j.todo)
             \/ \E t \in Seq(Steps) : k.todo = Then(Save("secrets"), t),
             v = "put" => Puts(j, k, R), v = "move" => Moves(j, k, R),
             v = "drop" => Drops(j, k, R)
      PROVE  Turn(j, k, C, S, D(k), T(k))
    <2>1. /\ Verb(j) = v
          /\ Rest(j.todo) # <<>> => Head(Rest(j.todo))[1] # "encode"
        BY <1>2, AtVerb
    <2>2. \A t \in Seq(Steps) : k.todo = Then(Save("secrets"), t) => Verb(k) = "save"
        BY ThenVerb, KeySaves, KeyVerbs
    <2>3. k.todo # <<>> => Verb(k) # "encode" BY <1>2, <2>1, <2>2 DEF Verb
    <2>. HIDE DEF j, R
    <2>4. Verb(j) # "encode" BY <2>1
    <2>5. D(k) = C /\ T(k) = S /\ S = R BY <2>3, <2>4, <1>1, HeldSame
    <2>. HIDE DEF C, S, D, T
    <2>. QED BY <1>2, <2>1, <2>5 DEF Turn
<1>3. CASE PutKey(p)
    <2>1. AtStep(p, "put") /\ Rest(j.todo) \in Seq(Steps) BY <1>3, AtVerb DEF PutKey
    <2>2. CASE j.key
        <3>. DEFINE k == [j EXCEPT !.secrets = R \cup {j.name},
                                   !.todo = <<Save("secrets")>> \o Rest(@)]
        <3>1. BecomesJob(p, k) BY <1>3, <2>2 DEF PutKey
        <3>2. Puts(j, k, R) /\ k.todo = Then(Save("secrets"), Rest(j.todo))
            BY <1>0, <2>2 DEF Jobs, Puts, Keeping, Then
        <3>. HIDE DEF k
        <3>3. Turn(j, k, C, S, D(k), T(k)) BY <1>2, <2>1, <3>2
        <3>. QED BY <3>1, <3>3
    <2>3. CASE ~j.key
        <3>. DEFINE k == Advanced(j)
        <3>1. BecomesJob(p, k) BY <1>3, <2>3 DEF PutKey
        <3>2. Puts(j, k, R) /\ k.todo = Rest(j.todo)
            BY <1>0, <2>3 DEF Jobs, Puts, Keeping, Advanced
        <3>. HIDE DEF k
        <3>3. Turn(j, k, C, S, D(k), T(k)) BY <1>2, <2>1, <3>2
        <3>. QED BY <3>1, <3>3
    <2>. QED BY <2>2, <2>3
<1>4. CASE MoveKey(p)
    <2>1. AtStep(p, "move") /\ Rest(j.todo) \in Seq(Steps) BY <1>4, AtVerb DEF MoveKey
    <2>2. CASE j.name \in R
        <3>. DEFINE k == [j EXCEPT !.secrets = R \cup {j.new},
                              !.todo = <<Save("secrets"), Keys("forget"),
                                         Save("secrets")>> \o Rest(@)]
                    t == Then(Keys("forget"), Then(Save("secrets"), Rest(j.todo)))
        <3>1. BecomesJob(p, k) BY <1>4, <2>2 DEF MoveKey
        <3>2. k.todo = Then(Save("secrets"), t) BY <1>0, <2>1, MovedSteps DEF Jobs
        <3>3. Moves(j, k, R) BY <1>0, <2>2, <3>2 DEF Jobs, Moves, Keeping
        <3>4. t \in Seq(Steps) BY <2>1, KeySaves, LeftThen
        <3>. HIDE DEF k, t
        <3>5. Turn(j, k, C, S, D(k), T(k)) BY <1>2, <2>1, <3>2, <3>3, <3>4
        <3>. QED BY <3>1, <3>5
    <2>3. CASE j.name \notin R
        <3>. DEFINE k == Advanced(j)
        <3>1. BecomesJob(p, k) BY <1>4, <2>3 DEF MoveKey
        <3>2. Moves(j, k, R) /\ k.todo = Rest(j.todo)
            BY <1>0, <2>3 DEF Jobs, Moves, Keeping, Advanced
        <3>. HIDE DEF k
        <3>3. Turn(j, k, C, S, D(k), T(k)) BY <1>2, <2>1, <3>2
        <3>. QED BY <3>1, <3>3
    <2>. QED BY <2>2, <2>3
<1>5. CASE DropKey(p)
    <2>. DEFINE k == [j EXCEPT !.secrets = R \ {j.name},
                               !.todo = <<Save("secrets")>> \o Rest(@)]
    <2>1. AtStep(p, "drop") /\ Rest(j.todo) \in Seq(Steps) BY <1>5, AtVerb DEF DropKey
    <2>2. BecomesJob(p, k) BY <1>5 DEF DropKey
    <2>3. Drops(j, k, R) /\ k.todo = Then(Save("secrets"), Rest(j.todo))
        BY <1>0 DEF Jobs, Drops, Keeping, Then
    <2>. HIDE DEF k
    <2>4. Turn(j, k, C, S, D(k), T(k)) BY <1>2, <2>1, <2>3
    <2>. QED BY <2>2, <2>4
<1>. QED BY <1>3, <1>4, <1>5

\* The job of p after it has emptied a file, and after it has filled it.
LEMMA TurnTruncate ==
    ASSUME Inv, ShapeInv, NEW p \in Procs, Truncate(p)
    PROVE  \E k : BecomesJob(p, k) /\ Turn(job[p], k, Held(job[p], "config", disk),
                Held(job[p], "secrets", disk), Held(k, "config", disk'), Held(k, "secrets", disk'))
<1>. DEFINE j == job[p]
<1>0. SoundJob(j) /\ j \in Jobs BY JobsAreSound DEF SoundJob
<1>1. AtStep(p, "save") BY DEF Truncate
<1>2. PICK f : f = Head(j.todo)[2] OBVIOUS
<1>3. Head(j.todo) = Save(f) /\ Rest(j.todo) \in Seq(Steps) BY <1>1, <1>2, AtHead DEF Save
<1>4. Encoding(f) \in Steps
    <2>1. PICK g : Encoding(g) \in Steps /\ Head(j.todo) = Save(g) BY TruncateAfter
    <2>. QED BY <2>1, <1>3, KeyVerbs
<1>. DEFINE k == [j EXCEPT !.todo = <<Encoding(f)>> \o Rest(@)]
<1>5. BecomesJob(p, k) /\ disk' = [disk EXCEPT ![f] = Empty] BY <1>2 DEF Truncate
<1>6. /\ Keeping(j, k) /\ k.secrets = j.secrets
      /\ k.todo = Then(Encoding(f), Rest(j.todo))
      /\ k["config"] = j.config /\ k["secrets"] = j.secrets
    BY <1>0 DEF Jobs, Keeping, Then
<1>7. DOMAIN disk = {"config", "secrets", "prices"}
    BY DEF Inv, ControlPlaneTypeOK, Files
<1>8. \A g \in {"config", "secrets"} : g # f => disk'[g] = disk[g] BY <1>5, <1>7
<1>. HIDE DEF k, j
<1>9. k.todo # <<>> /\ Head(k.todo) = Encoding(f) BY <1>3, <1>4, <1>6, LeftThen
<1>10. \A g : Head(j.todo) # Encoding(g) BY <1>3, KeyVerbs
<1>11. \A g : Head(k.todo) = Encoding(g) <=> f = g BY <1>9, KeyVerbs
<1>12. Held(k, "config", disk') = (IF f = "config" THEN j.config ELSE Held(j, "config", disk))
    BY <1>6, <1>8, <1>9, <1>10, <1>11 DEF Held, Reading
<1>13. Held(k, "secrets", disk') = (IF f = "secrets" THEN j.secrets ELSE Held(j, "secrets", disk))
    BY <1>6, <1>8, <1>9, <1>10, <1>11 DEF Held, Reading
<1>. DEFINE C == Held(j, "config", disk)
            S == Held(j, "secrets", disk)
            D == Held(k, "config", disk')
            T == Held(k, "secrets", disk')
<1>14. D = (IF f = "config" THEN j.config ELSE C) /\ T = (IF f = "secrets" THEN j.secrets ELSE S)
    BY <1>12, <1>13
<1>. HIDE DEF C, S, D, T
<1>15. Saves(j, k, C, S, D, T) BY <1>3, <1>4, <1>6, <1>14 DEF Saves
<1>16. Verb(j) = "save" BY <1>3, KeyVerbs DEF Verb
<1>17. Turn(j, k, C, S, D, T) BY <1>15, <1>16 DEF Turn
<1>. QED BY <1>5, <1>17 DEF C, S, D, T, j

LEMMA TurnEncode ==
    ASSUME Inv, ShapeInv, NEW p \in Procs, Encode(p),
           \A f \in {"config", "secrets"} : Head(job[p].todo) = Encoding(f) => disk[f] = Empty
    PROVE  \E k : BecomesJob(p, k) /\ Turn(job[p], k, Held(job[p], "config", disk),
                Held(job[p], "secrets", disk), Held(k, "config", disk'), Held(k, "secrets", disk'))
<1>. DEFINE j == job[p]
<1>0. SoundJob(j) /\ j \in Jobs BY JobsAreSound DEF SoundJob
<1>1. AtStep(p, "encode") BY DEF Encode
<1>2. PICK f : f = Head(j.todo)[2] OBVIOUS
<1>3. Head(j.todo) = Encoding(f) BY <1>1, <1>2, AtHead DEF Encoding
<1>. DEFINE k == Advanced(j)
<1>4. BecomesJob(p, k) BY DEF Encode
<1>5. PICK new \in Written(f, disk[f], j[f]) : disk' = [disk EXCEPT ![f] = new]
    BY <1>2 DEF Encode
<1>6. Passes(j, k) /\ k.todo = Rest(j.todo) BY <1>0 DEF Jobs, Passes, Keeping, Advanced
<1>7. j.todo # <<>> /\ (Rest(j.todo) # <<>> => Head(Rest(j.todo))[1] # "encode")
    BY <1>1, AtVerb
<1>8. DOMAIN disk = {"config", "secrets", "prices"}
    BY DEF Inv, ControlPlaneTypeOK, Files
<1>9. \A g \in {"config", "secrets"} : g # f => disk'[g] = disk[g] BY <1>5, <1>8
<1>10. j["config"] # Empty /\ j["secrets"] # Empty
    BY <1>0, JobFields, ContentsAssumption DEF Sound
<1>11. \A g \in {"config", "secrets"} : g = f => disk'[g] = j[g]
    <2>1. ASSUME f \in {"config", "secrets"} PROVE new = j[f]
        <3>1. disk[f] = Empty BY <1>3, <2>1
        <3>. QED BY <1>5, <3>1 DEF Written
    <2>. QED BY <2>1, <1>5, <1>8
<1>. HIDE DEF k, j
<1>12. \A g : k.todo # <<>> => Head(k.todo) # Encoding(g) BY <1>6, <1>7, KeyVerbs
<1>13. \A g : Head(j.todo) = Encoding(g) <=> f = g BY <1>3, KeyVerbs
<1>. DEFINE C == Held(j, "config", disk)
            S == Held(j, "secrets", disk)
            D == Held(k, "config", disk')
            T == Held(k, "secrets", disk')
<1>14. D = C BY <1>7, <1>9, <1>10, <1>11, <1>12, <1>13 DEF Held, Reading
<1>15. T = S BY <1>7, <1>9, <1>10, <1>11, <1>12, <1>13 DEF Held, Reading
<1>. HIDE DEF C, S, D, T
<1>16. Verb(j) = "encode" BY <1>3, KeyVerbs DEF Verb
<1>17. Turn(j, k, C, S, D, T) BY <1>6, <1>14, <1>15, <1>16 DEF Turn
<1>. QED BY <1>4, <1>17 DEF C, S, D, T, j

----------------------------------------------------------------------------
(* The files while the commands run one at a time.                         *)

KeyFiles == {"config", "secrets"}

\* While nothing is out of order: a file that j saves is empty until it is
\* saved, and a file that j is going to save did parse.
Tidy(j, d) ==
    /\ \A f \in KeyFiles : j.todo # <<>> /\ Head(j.todo) = Encoding(f) => d[f] = Empty
    /\ Loaded(j) => d["config"] # Garbled
    /\ SavesKeys(j.todo) => d["secrets"] # Garbled

LEMMA TidyOver == \A j, d : j.todo = <<>> => Tidy(j, d)
BY LeftNone, NothingLoaded DEF Tidy, SavesKeys

\* A step that saves nothing keeps the files tidy.
LEMMA TidyAside ==
    ASSUME Inv, ShapeInv, NEW p \in Procs, job[p].todo # <<>>, Tidy(job[p], disk),
           Verb(job[p]) # "load" \/ disk["config"] # Garbled,
           NEW k, k.todo \in Seq(Steps),
           Left(k.todo) \subseteq Pushed \cup Left(Rest(job[p].todo)),
           disk["secrets"] = Garbled => k.todo = Rest(job[p].todo)
    PROVE  Tidy(k, disk)
<1>. DEFINE j == job[p]
<1>1. /\ j.todo \in Seq(Steps) /\ Left(Rest(j.todo)) \subseteq Left(j.todo)
      /\ \A s \in Left(Rest(j.todo)) : s[1] \notin {"load", "encode"}
    BY JobsAreSound, JobFields, LeftSplit DEF ShapeInv, Shape
<1>2. k.todo # <<>> => Head(k.todo) \in Left(k.todo) BY LeftSplit
<1>3. \A f : k.todo # <<>> => Head(k.todo) # Encoding(f)
    BY <1>1, <1>2, PushedSteps, KeyVerbs
<1>4. Loaded(k) => disk["config"] # Garbled
    <2>1. CASE Verb(j) # "load"
        <3>1. Left(k.todo) \subseteq Pushed \cup Left(j.todo) BY <1>1
        <3>2. Save("config") \notin Pushed /\ Encoding("config") \notin Pushed
            BY PushedSteps
        <3>3. Loaded(k) => Loaded(j) BY <2>1, <3>1, <3>2, StillLoaded DEF Verb
        <3>. QED BY <3>3 DEF Tidy
    <2>. QED BY <2>1
<1>5. SavesKeys(k.todo) => disk["secrets"] # Garbled
    <2>1. CASE k.todo = Rest(j.todo)
        <3>1. SavesKeys(k.todo) => SavesKeys(j.todo) BY <1>1, <2>1 DEF SavesKeys
        <3>. QED BY <3>1 DEF Tidy
    <2>. QED BY <2>1
<1>. QED BY <1>3, <1>4, <1>5 DEF Tidy

\* A key file that does not parse is left alone.
LEMMA KeysGarbled ==
    ASSUME Inv, NEW p \in Procs,
           PutKey(p) \/ MoveKey(p) \/ ForgetKey(p) \/ DropKey(p) \/ LookUpKey(p)
                \/ LoadPrices(p),
           disk["secrets"] = Garbled
    PROVE  job'[p].todo = <<>> \/ job'[p].todo = Rest(job[p].todo)
<1>. DEFINE j == job[p]
<1>0. j \in Jobs BY JobsAreSound DEF SoundJob
<1>1. \E k : BecomesJob(p, k) /\ (k = Idle \/ k.todo = Rest(j.todo))
    <2>1. Advanced(j).todo = Rest(j.todo) BY <1>0 DEF Jobs, Advanced
    <2>2. \A S : Advanced([j EXCEPT !.secrets = S]).todo = Rest(j.todo)
        BY <1>0 DEF Jobs, Advanced
    <2>3. \A P : Advanced([j EXCEPT !.prices = P]).todo = Rest(j.todo)
        BY <1>0 DEF Jobs, Advanced
    <2>4. CASE PutKey(p) BY <2>4 DEF PutKey
    <2>5. CASE MoveKey(p) BY <2>1, <2>5 DEF MoveKey
    <2>6. CASE ForgetKey(p)
        <3>1. BecomesJob(p, Advanced([j EXCEPT !.secrets = j.secrets \ {j.name}]))
            BY <2>6, <1>0 DEF ForgetKey, Jobs
        <3>. QED BY <3>1, <2>2
    <2>7. CASE DropKey(p) BY <2>1, <2>7 DEF DropKey
    <2>8. CASE LookUpKey(p) BY <2>8 DEF LookUpKey
    <2>9. CASE LoadPrices(p) BY <2>3, <2>9 DEF LoadPrices
    <2>. QED BY <2>4, <2>5, <2>6, <2>7, <2>8, <2>9
<1>2. Idle.todo = <<>> BY DEF Idle
<1>. QED BY <1>1, <1>2, JobAfter

\* The two files do not come to be garbled.
Unspoilt == \A f \in KeyFiles : disk'[f] # Garbled => disk[f] # Garbled

\* The file that is emptied, or filled.
LEMMA FileChanged ==
    ASSUME Inv, NEW f, NEW new, disk' = [disk EXCEPT ![f] = new]
    PROVE  \A g \in KeyFiles : disk'[g] = IF g = f THEN new ELSE disk[g]
BY DEF Inv, ControlPlaneTypeOK, Files, KeyFiles

LEMMA TidyTruncate ==
    ASSUME Inv, ShapeInv, NEW p \in Procs, Truncate(p), Tidy(job[p], disk)
    PROVE  Tidy(job'[p], disk') /\ Unspoilt
<1>. DEFINE j == job[p]
<1>1. PICK f, k : /\ AtStep(p, "save") /\ Head(j.todo) = Save(f)
                  /\ disk' = [disk EXCEPT ![f] = Empty]
                  /\ BecomesJob(p, k) /\ k.cmd = j.cmd
                  /\ k.todo = Then(Encoding(f), Rest(j.todo))
                  /\ Encoding(f) \in Steps
    BY TruncateAfter
<1>2. /\ j.todo # <<>> /\ j.todo \in Seq(Steps) /\ Rest(j.todo) \in Seq(Steps)
      /\ Left(j.todo) = {Save(f)} \cup Left(Rest(j.todo))
    BY <1>1, AtHead
<1>3. \A s \in Left(Rest(j.todo)) : s[1] \notin {"load", "encode"}
    BY DEF ShapeInv, Shape
<1>4. k.todo # <<>> /\ Head(k.todo) = Encoding(f)
      /\ Left(k.todo) = {Encoding(f)} \cup Left(Rest(j.todo))
    BY <1>1, <1>2, LeftThen
<1>5. job'[p] = k BY <1>1, <1>4, JobAfter
<1>6. \A g \in KeyFiles : disk'[g] = IF g = f THEN Empty ELSE disk[g]
    BY <1>1 DEF Inv, ControlPlaneTypeOK, Files, KeyFiles
<1>7. Load \notin Left(j.todo) BY <1>2, <1>3 DEF Load, Save
<1>8. f = "config" => Loaded(j) BY <1>2, <1>7 DEF Loaded, SavesConfig
<1>9. f = "secrets" => SavesKeys(j.todo) BY <1>2 DEF SavesKeys
<1>10. Unspoilt
    <2>1. ASSUME NEW g \in KeyFiles, g = f PROVE disk[g] # Garbled
        BY <2>1, <1>8, <1>9 DEF KeyFiles, Tidy
    <2>. QED BY <2>1, <1>6 DEF Unspoilt
<1>11. \A g \in KeyFiles : Head(k.todo) = Encoding(g) => disk'[g] = Empty
    BY <1>4, <1>6, KeyVerbs
<1>12. Loaded(k) => disk'["config"] # Garbled
    <2>1. CASE f = "config" BY <2>1, <1>6, ContentsAssumption DEF KeyFiles
    <2>2. CASE f # "config"
        <3>1. Encoding(f) # Encoding("config") /\ Encoding(f) # Save("config")
            BY <2>2, KeyVerbs
        <3>2. Loaded(k) => SavesConfig(j.todo) BY <1>2, <1>4, <3>1 DEF Loaded, SavesConfig
        <3>3. Loaded(k) => disk["config"] # Garbled BY <3>2, <1>7 DEF Loaded, Tidy
        <3>. QED BY <3>3, <2>2, <1>6 DEF KeyFiles
    <2>. QED BY <2>1, <2>2
<1>13. SavesKeys(k.todo) => disk'["secrets"] # Garbled
    <2>1. CASE f = "secrets" BY <2>1, <1>6, ContentsAssumption DEF KeyFiles
    <2>2. CASE f # "secrets"
        <3>1. Encoding(f) # Encoding("secrets") /\ Encoding(f) # Save("secrets")
            BY <2>2, KeyVerbs
        <3>2. SavesKeys(k.todo) => SavesKeys(j.todo) BY <1>2, <1>4, <3>1 DEF SavesKeys
        <3>3. SavesKeys(k.todo) => disk["secrets"] # Garbled BY <3>2 DEF Tidy
        <3>. QED BY <3>3, <2>2, <1>6 DEF KeyFiles
    <2>. QED BY <2>1, <2>2
<1>. QED BY <1>5, <1>10, <1>11, <1>12, <1>13 DEF Tidy

LEMMA TidyEncode ==
    ASSUME Inv, ShapeInv, NEW p \in Procs, Encode(p), Tidy(job[p], disk)
    PROVE  Tidy(job'[p], disk') /\ Unspoilt
<1>. DEFINE j == job[p]
<1>1. PICK f, k : /\ AtStep(p, "encode") /\ Head(j.todo) = Encoding(f)
                  /\ \E new \in Written(f, disk[f], j[f]) : disk' = [disk EXCEPT ![f] = new]
                  /\ BecomesJob(p, k) /\ k.cmd = j.cmd /\ k.todo = Rest(j.todo)
    BY EncodeAfter
<1>2. /\ j.todo # <<>> /\ j.todo \in Seq(Steps) /\ Rest(j.todo) \in Seq(Steps)
      /\ Left(j.todo) = {Encoding(f)} \cup Left(Rest(j.todo))
    BY <1>1, AtHead
<1>3. \A s \in Left(Rest(j.todo)) : s[1] \notin {"load", "encode"}
    BY DEF ShapeInv, Shape
<1>4. PICK new \in Written(f, disk[f], j[f]) : disk' = [disk EXCEPT ![f] = new]
    BY <1>1
<1>5. \A g \in KeyFiles : disk'[g] = IF g = f THEN new ELSE disk[g] BY <1>4, FileChanged
<1>6. f \in KeyFiles => disk[f] = Empty BY <1>1, <1>2 DEF Tidy
<1>7. f \in KeyFiles => new = j[f] BY <1>4, <1>6 DEF Written
<1>8. j["config"] # Garbled /\ j["secrets"] # Garbled
    BY JobsAreSound, JobFields, ContentsAssumption DEF Sound
<1>9. f \in KeyFiles => new # Garbled BY <1>7, <1>8 DEF KeyFiles
<1>10. Unspoilt BY <1>5, <1>6, ContentsAssumption DEF Unspoilt
<1>11. \A g \in KeyFiles : disk[g] # Garbled => disk'[g] # Garbled BY <1>5, <1>9
<1>12. job'[p].todo = Rest(j.todo) \/ job'[p].todo = <<>> BY <1>1, JobAfter DEF Idle
<1>13. CASE job'[p].todo = <<>> BY <1>13, <1>10, TidyOver
<1>14. CASE job'[p].todo = Rest(j.todo)
    <2>. DEFINE l == job'[p]
    <2>1. l.todo # <<>> => Head(l.todo) \in Left(Rest(j.todo)) BY <1>2, <1>14, LeftSplit
    <2>2. \A g : l.todo # <<>> => Head(l.todo) # Encoding(g) BY <2>1, <1>3, KeyVerbs
    <2>3. Loaded(l) => disk'["config"] # Garbled
        <3>1. Load \notin Left(j.todo) BY <1>2, <1>3 DEF Load, Encoding
        <3>2. Loaded(l) => Loaded(j) BY <3>1, <1>2, <1>14 DEF Loaded, SavesConfig
        <3>. QED BY <3>2, <1>11 DEF Tidy, KeyFiles
    <2>4. SavesKeys(l.todo) => disk'["secrets"] # Garbled
        <3>1. SavesKeys(l.todo) => SavesKeys(j.todo) BY <1>2, <1>14 DEF SavesKeys
        <3>. QED BY <3>1, <1>11 DEF Tidy, KeyFiles
    <2>. QED BY <1>10, <2>2, <2>3, <2>4 DEF Tidy
<1>. QED BY <1>12, <1>13, <1>14

\* The files stay tidy.
LEMMA TidyNext ==
    ASSUME Inv, ShapeInv, NEW p \in Procs, WorkStep(p), Tidy(job[p], disk)
    PROVE  Tidy(job'[p], disk') /\ Unspoilt
<1>. DEFINE j == job[p]
            l == job'[p]
<1>0. Idle.todo = <<>> BY DEF Idle
<1>1. CASE LoadConfig(p)
    <2>1. AtStep(p, "load") /\ disk' = disk BY <1>1, LoadAfter
    <2>2. Unspoilt BY <2>1 DEF Unspoilt
    <2>3. j.todo # <<>> /\ Rest(j.todo) \in Seq(Steps) BY <2>1, AtVerb
    <2>4. l.todo = <<>> \/ (disk["config"] # Garbled /\ l.todo = Rest(j.todo))
        BY <1>0, <1>1, LoadAfter, JobAfter
    <2>5. CASE l.todo = <<>> BY <2>2, <2>5, TidyOver
    <2>6. CASE disk["config"] # Garbled /\ l.todo = Rest(j.todo)
        <3>1. PICK k : k = l OBVIOUS
        <3>2. Tidy(k, disk) BY <2>3, <2>6, <3>1, TidyAside
        <3>. QED BY <2>1, <2>2, <3>1, <3>2
    <2>. QED BY <2>4, <2>5, <2>6
<1>2. CASE PutKey(p) \/ MoveKey(p) \/ ForgetKey(p) \/ DropKey(p) \/ LookUpKey(p)
                \/ LoadPrices(p)
    <2>1. /\ disk' = disk /\ j.todo # <<>>
          /\ Head(j.todo)[1] \in {"put", "move", "forget", "drop", "look", "table"}
        BY <1>2, KeySteps
    <2>2. Unspoilt BY <2>1 DEF Unspoilt
    <2>3. l.todo = <<>> \/ Aside(p, l)
        <3>1. PICK k : BecomesJob(p, k) /\ (k = Idle \/ Aside(p, k)) BY <1>2, KeySteps
        <3>2. l = Idle \/ (Aside(p, k) /\ l = k)
            <4>1. l = IF k.todo = <<>> THEN Idle ELSE k BY <3>1, JobAfter
            <4>. QED BY <3>1, <4>1
        <3>3. l = Idle => l.todo = <<>> BY <1>0
        <3>4. l = k /\ Aside(p, k) => Aside(p, l) BY DEF Aside
        <3>. QED BY <3>2, <3>3, <3>4
    <2>4. CASE l.todo = <<>> BY <2>2, <2>4, TidyOver
    <2>5. CASE l.todo # <<>> /\ Aside(p, l)
        <3>1. PICK k : k = l OBVIOUS
        <3>2. /\ k.todo \in Seq(Steps)
              /\ Left(k.todo) \subseteq Pushed \cup Left(Rest(j.todo))
            BY <2>5, <3>1 DEF Aside
        <3>3. disk["secrets"] = Garbled => k.todo = Rest(j.todo)
            BY <1>2, <2>5, <3>1, KeysGarbled
        <3>4. Verb(j) # "load" BY <2>1 DEF Verb
        <3>5. Tidy(k, disk) BY <2>1, <3>2, <3>3, <3>4, TidyAside
        <3>. QED BY <2>1, <2>2, <3>1, <3>5
    <2>. QED BY <2>3, <2>4, <2>5
<1>3. CASE Choose(p)
    <2>1. AtStep(p, "edit") /\ disk' = disk BY <1>3 DEF Choose
    <2>2. Unspoilt BY <2>1 DEF Unspoilt
    <2>. DEFINE i == [j EXCEPT !.todo = Rest(@)]
    <2>3. PICK k \in Edited(Head(j.todo)[2], i) : BecomesJob(p, k) BY <1>3 DEF Choose
    <2>4. SoundJob(i) /\ i.todo = Rest(j.todo) BY RestJob
    <2>5. k.todo \in {i.todo, Rest(i.todo), <<>>} BY <2>3, <2>4, EditedTodo
    <2>6. l.todo = <<>> \/ l.todo = k.todo BY <1>0, <2>3, JobAfter
    <2>7. j.todo # <<>> /\ Rest(j.todo) \in Seq(Steps) /\ Verb(j) # "load"
        BY <2>1, AtVerb
    <2>8. Rest(Rest(j.todo)) \in Seq(Steps)
          /\ Left(Rest(Rest(j.todo))) \subseteq Left(Rest(j.todo))
        BY <2>7, LeftSplit
    <2>9. CASE l.todo = <<>> BY <2>2, <2>9, TidyOver
    <2>10. CASE l.todo \in {Rest(j.todo), Rest(Rest(j.todo))}
        <3>1. SavesKeys(l.todo) => SavesKeys(j.todo)
            <4>1. Left(Rest(j.todo)) \subseteq Left(j.todo)
                BY <2>7, LeftSplit, JobsAreSound, JobFields
            <4>. QED BY <4>1, <2>8, <2>10 DEF SavesKeys
        <3>2. \A s \in Left(Rest(j.todo)) : s[1] \notin {"load", "encode"}
            BY DEF ShapeInv, Shape
        <3>3. l.todo \in Seq(Steps) /\ Left(l.todo) \subseteq Left(Rest(j.todo))
            BY <2>7, <2>8, <2>10
        <3>4. l.todo # <<>> => Head(l.todo) \in Left(Rest(j.todo)) BY <3>3, LeftSplit
        <3>5. \A g : l.todo # <<>> => Head(l.todo) # Encoding(g) BY <3>2, <3>4, KeyVerbs
        <3>6. Loaded(l) => Loaded(j)
            <4>1. Left(Rest(j.todo)) \subseteq Left(j.todo)
                BY <2>7, LeftSplit, JobsAreSound, JobFields
            <4>2. Left(l.todo) \subseteq Pushed \cup Left(j.todo) BY <3>3, <4>1
            <4>3. Save("config") \notin Pushed /\ Encoding("config") \notin Pushed
                BY PushedSteps
            <4>4. PICK m : m = l OBVIOUS
            <4>5. Loaded(m) => Loaded(j) BY <2>7, <4>2, <4>3, <4>4, StillLoaded DEF Verb
            <4>. QED BY <4>4, <4>5
        <3>7. Tidy(l, disk) BY <3>1, <3>5, <3>6 DEF Tidy
        <3>. QED BY <2>1, <2>2, <3>7
    <2>. QED BY <2>4, <2>5, <2>6, <2>9, <2>10
<1>. QED BY <1>1, <1>2, <1>3, TidyTruncate, TidyEncode DEF WorkStep

----------------------------------------------------------------------------
(* The invariant of the keys.                                              *)

\* What KeysMatchProviders asks of the past, and of the files themselves.
InOrder == mishaps \cap {"overlap", "torn", "provider rename"} = {}

Clean == InOrder /\ disk["config"] # Garbled /\ disk["secrets"] # Garbled

\* p is at a stage, and the files are worth something if it ends here.
AtStage(p) ==
    LET C == Held(job[p], "config", disk)
        S == Held(job[p], "secrets", disk)
    IN  Stage(job[p], mishaps, C, S) /\ Safe(job[p], p \in written, mishaps, C, S)

Alone == "overlap" \notin mishaps => \A p, q \in Procs : Busy(p) /\ Busy(q) => p = q
AllTidy == InOrder => \A p \in Procs : Tidy(job[p], disk)
AtRest == Clean /\ (\A p \in Procs : ~Busy(p)) =>
              Agree(mishaps, Seen("config"), Seen("secrets"))
AtWork == Clean => \A p \in Procs : Busy(p) => AtStage(p)

KeyInv == Inv /\ ShapeInv /\ Alone /\ AllTidy /\ AtRest /\ AtWork

LEMMA WorkBusy ==
    ASSUME Inv, NEW p \in Procs, WorkStep(p)
    PROVE  Busy(p)
BY KeySteps DEF WorkStep, LoadConfig, LoadPrices, Choose, Truncate, Encode, AtStep, Busy

LEMMA WorkOthers ==
    ASSUME Inv, NEW p \in Procs, WorkStep(p) \/ Quit(p)
    PROVE  Next /\ \A q \in Procs \ {p} : job'[q] = job[q]
<1>1. StepOf(p) BY DEF WorkStep, StepOf
<1>2. Next BY DEF WorkStep, Next
<1>. QED BY <1>1, <1>2, OthersStay

\* The job of p after a step in order.
LEMMA TurnOf ==
    ASSUME Inv, ShapeInv, NEW p \in Procs, WorkStep(p), Tidy(job[p], disk),
           disk["config"] # Garbled, disk["secrets"] # Garbled
    PROVE  \E k : BecomesJob(p, k) /\ Turn(job[p], k, Held(job[p], "config", disk),
                Held(job[p], "secrets", disk), Held(k, "config", disk'), Held(k, "secrets", disk'))
<1>1. CASE LoadConfig(p) \/ LoadPrices(p) \/ Choose(p) \/ LookUpKey(p) \/ ForgetKey(p)
    <2>1. disk' = disk
        BY <1>1 DEF LoadConfig, LoadPrices, Choose, LookUpKey, ForgetKey
    <2>. QED BY <1>1, <2>1, TurnAside
<1>2. CASE PutKey(p) \/ MoveKey(p) \/ DropKey(p)
    <2>1. disk' = disk BY <1>2 DEF PutKey, MoveKey, DropKey
    <2>. QED BY <1>2, <2>1, TurnKey
<1>3. CASE Truncate(p) BY <1>3, TurnTruncate
<1>4. CASE Encode(p)
    <2>1. job[p].todo # <<>> BY <1>4 DEF Encode, AtStep
    <2>2. \A f \in {"config", "secrets"} : Head(job[p].todo) = Encoding(f) => disk[f] = Empty
        BY <2>1 DEF Tidy, KeyFiles
    <2>. QED BY <1>4, <2>2, TurnEncode
<1>. QED BY <1>1, <1>2, <1>3, <1>4 DEF WorkStep

LEMMA WorkKeys ==
    ASSUME KeyInv, NEW p \in Procs, WorkStep(p), mishaps' = mishaps, Observe(p)
    PROVE  KeyInv'
<1>1. Inv /\ ShapeInv /\ Busy(p) BY WorkBusy DEF KeyInv
<1>2. Next /\ \A q \in Procs \ {p} : job'[q] = job[q] BY <1>1, WorkOthers
<1>3. Inv' /\ ShapeInv' BY <1>1, <1>2, InvNext, ShapeNext
<1>4. \A q \in Procs \ {p} : Busy(q)' <=> Busy(q) BY <1>2 DEF Busy
<1>5. Alone' BY <1>1, <1>4 DEF KeyInv, Alone
<1>6. InOrder' <=> InOrder BY DEF InOrder
<1>7. InOrder => \A q \in Procs \ {p} : ~Busy(q)
    <2>1. InOrder => "overlap" \notin mishaps BY DEF InOrder
    <2>. QED BY <1>1, <2>1 DEF KeyInv, Alone
<1>8. ASSUME InOrder PROVE (\A q \in Procs : Tidy(job'[q], disk')) /\ Unspoilt
    <2>1. Tidy(job'[p], disk') /\ Unspoilt
        BY <1>1, <1>8, TidyNext DEF KeyInv, AllTidy
    <2>2. ASSUME NEW q \in Procs \ {p} PROVE Tidy(job'[q], disk')
        BY <1>2, <1>7, <1>8, TidyOver DEF Busy
    <2>. QED BY <2>1, <2>2
<1>9. AllTidy' BY <1>6, <1>8 DEF AllTidy
<1>10. Clean' => Clean BY <1>6, <1>8 DEF Clean, Unspoilt, KeyFiles
<1>11. ASSUME Clean' PROVE AtRest' /\ AtWork'
    <2>1. Clean /\ InOrder BY <1>10, <1>11 DEF Clean
    <2>2. disk["config"] # Garbled /\ disk["secrets"] # Garbled BY <2>1 DEF Clean
    <2>3. Tidy(job[p], disk) BY <2>1 DEF KeyInv, AllTidy
    <2>. DEFINE j == job[p]
                C == Held(job[p], "config", disk)
                S == Held(job[p], "secrets", disk)
                v == p \in written
                w == p \in written \/ AtStep(p, "encode")
    <2>4. PICK k : BecomesJob(p, k) /\ Turn(j, k, C, S,
                        Held(k, "config", disk'), Held(k, "secrets", disk'))
        BY <1>1, <2>2, <2>3, TurnOf
    <2>. DEFINE D == Held(k, "config", disk')
                T == Held(k, "secrets", disk')
    <2>5. SoundJob(j) /\ Shape(j) /\ j.todo # <<>>
        BY <1>1, JobsAreSound DEF ShapeInv, Busy
    <2>6. Stage(j, mishaps, C, S) /\ Safe(j, v, mishaps, C, S)
        BY <1>1, <2>1 DEF KeyInv, AtWork, AtStage
    <2>7. v => w OBVIOUS
    <2>8. Verb(j) = "encode" => w BY <2>5 DEF AtStep, Verb
    <2>9. Turn(j, k, C, S, D, T) BY <2>4
    <2>10. After(k, w, mishaps, D, T)
        <3>. HIDE DEF j, C, S, D, T, v, w
        <3>. QED BY <2>5, <2>6, <2>7, <2>8, <2>9, StageNext
    <2>11. job'[p] = IF k.todo = <<>> THEN Idle ELSE k BY <1>1, <2>4, JobAfter
    <2>12. CASE k.todo = <<>>
        <3>1. Idle.todo = <<>> BY DEF Idle
        <3>2. \A q \in Procs : ~Busy(q)' BY <1>4, <1>7, <2>1, <2>11, <2>12, <3>1 DEF Busy
        <3>3. D = Seen("config")' /\ T = Seen("secrets")'
            BY <2>12 DEF Held, Reading, Seen
        <3>4. Agree(mishaps, D, T) BY <2>10, <2>12 DEF After
        <3>5. Agree(mishaps', Seen("config")', Seen("secrets")') BY <3>3, <3>4
        <3>. QED BY <3>2, <3>5 DEF AtRest, AtWork
    <2>13. CASE k.todo # <<>>
        <3>1. job'[p] = k /\ Busy(p)' BY <2>11, <2>13 DEF Busy
        <3>2. Stage(k, mishaps, D, T) /\ Safe(k, w, mishaps, D, T)
            BY <2>10, <2>13 DEF After
        <3>3. w <=> p \in written' BY <3>1 DEF Observe
        <3>4. Safe(k, p \in written', mishaps, D, T) BY <3>2, <3>3 DEF Safe
        <3>5. AtStage(p)' BY <3>1, <3>2, <3>4 DEF AtStage
        <3>6. \A q \in Procs : Busy(q)' => q = p BY <1>4, <1>7, <2>1
        <3>. QED BY <3>1, <3>5, <3>6 DEF AtRest, AtWork
    <2>. QED BY <2>12, <2>13
<1>12. AtRest' /\ AtWork' BY <1>11 DEF AtRest, AtWork
<1>. QED BY <1>3, <1>5, <1>9, <1>12 DEF KeyInv

\* A command that touches no key begins quietly.
LEMMA BeginStage ==
    ASSUME NEW cmd \in AllCommands, NEW j, j.cmd = cmd, j.todo = Script(cmd),
           NEW m, NEW C, NEW S, Agree(m, C, S)
    PROVE  Stage(j, m, C, S)
<1>1. CASE cmd \in KeyCommands BY <1>1 DEF Stage, Unread
<1>2. CASE cmd \notin KeyCommands
    <2>1. PICK r : Plan(cmd, r) /\ Script(cmd) = Then(Opening(cmd), r) BY ScriptPlan
    <2>2. r \in Seq(Steps) /\ Left(r) \subseteq QuietSteps
        BY <1>2, <2>1 DEF Plan, Planned
    <2>3. Opening(cmd) \in Steps BY StepSteps DEF Opening
    <2>4. Opening(cmd) \in QuietSteps
        <3>1. Opening(cmd) \in {<<"load", "config">>, <<"table", "prices">>}
            BY DEF Opening, Load, LoadPriceTable
        <3>2. Opening(cmd)[1] \in {"load", "table"} BY <3>1
        <3>3. Opening(cmd) # Save("secrets") /\ Opening(cmd) # Encoding("secrets")
            BY <3>1 DEF Save, Encoding
        <3>. QED BY <2>3, <3>2, <3>3 DEF QuietSteps
    <2>5. /\ j.todo \in Seq(Steps) /\ Left(j.todo) = {Opening(cmd)} \cup Left(r)
        BY <2>1, <2>2, <2>3, LeftThen
    <2>6. Quietly(j.todo) BY <2>2, <2>4, <2>5 DEF Quietly
    <2>7. ~Loaded(j) BY ScriptNotLoaded
    <2>. QED BY <2>6, <2>7 DEF Stage, Quiet
<1>. QED BY <1>1, <1>2

\* A script begins with a load.
LEMMA BeginHead ==
    ASSUME NEW cmd \in AllCommands, NEW j, j.todo = Script(cmd)
    PROVE  /\ \A f : Head(j.todo) # Encoding(f)
           /\ ~SavesKeys(j.todo)
<1>1. PICK r : Plan(cmd, r) /\ Script(cmd) = Then(Opening(cmd), r) BY ScriptPlan
<1>2. Opening(cmd) \in Steps /\ Opening(cmd)[1] \in {"load", "table"}
    BY StepSteps DEF Opening, Load, LoadPriceTable
<1>3. /\ Head(j.todo) = Opening(cmd) /\ Left(j.todo) = {Opening(cmd)} \cup Left(r)
    BY <1>1, <1>2, LeftThen DEF Plan
<1>4. \A s \in Left(r) : s # Save("secrets") /\ s # Encoding("secrets")
    BY <1>1, KeyVerbs DEF Plan, Planned
<1>5. \A f : Opening(cmd) # Encoding(f) /\ Opening(cmd) # Save(f) BY <1>2, KeyVerbs
<1>. QED BY <1>3, <1>4, <1>5 DEF SavesKeys

LEMMA BeginKeys ==
    ASSUME KeyInv, NEW p \in Procs, NEW cmd \in Commands, Begin(p, cmd),
           mishaps' = mishaps \cup Overlap(p), Observe(p)
    PROVE  KeyInv'
<1>1. Inv /\ ShapeInv BY DEF KeyInv
<1>2. /\ job'[p].cmd = cmd /\ job'[p].todo = Script(cmd) /\ cmd \in AllCommands
      /\ \A q \in Procs \ {p} : job'[q] = job[q]
      /\ disk' = disk /\ ~Busy(p)
    BY <1>1, BeginAfter DEF Busy
<1>3. Next BY DEF Next
<1>4. Inv' /\ ShapeInv' BY <1>1, <1>3, InvNext, ShapeNext
<1>5. "overlap" \notin mishaps' =>
        /\ mishaps' = mishaps
        /\ \A q \in Procs \ {p} : ~Busy(q)
    BY DEF Overlap
<1>6. \A q \in Procs \ {p} : Busy(q)' <=> Busy(q) BY <1>2 DEF Busy
<1>7. Alone' BY <1>5, <1>6 DEF Alone
<1>8. InOrder' => InOrder /\ mishaps' = mishaps /\ \A q \in Procs : ~Busy(q)
    BY <1>2, <1>5 DEF InOrder
<1>9. PICK j : j = job'[p] OBVIOUS
<1>10. Tidy(j, disk)
    <2>1. ~Loaded(j) BY <1>2, <1>9, ScriptNotLoaded
    <2>2. (\A f : Head(j.todo) # Encoding(f)) /\ ~SavesKeys(j.todo)
        BY <1>2, <1>9, BeginHead
    <2>. QED BY <2>1, <2>2 DEF Tidy
<1>11. AllTidy'
    <2>1. ASSUME InOrder', NEW q \in Procs PROVE Tidy(job'[q], disk')
        <3>1. CASE q = p BY <1>2, <1>9, <1>10, <3>1
        <3>2. CASE q # p
            <4>1. job'[q].todo = <<>> BY <1>2, <1>8, <2>1, <3>2 DEF Busy
            <4>. QED BY <4>1, TidyOver
        <3>. QED BY <3>1, <3>2
    <2>. QED BY <2>1 DEF AllTidy
<1>12. ASSUME Clean' PROVE AtRest' /\ AtWork'
    <2>1. /\ Clean /\ mishaps' = mishaps /\ \A q \in Procs : ~Busy(q)
        BY <1>2, <1>8, <1>12 DEF Clean
    <2>2. Agree(mishaps, Seen("config"), Seen("secrets")) BY <2>1 DEF KeyInv, AtRest
    <2>. DEFINE C == Held(j, "config", disk)
                S == Held(j, "secrets", disk)
    <2>3. \A f : Head(j.todo) # Encoding(f) BY <1>2, <1>9, BeginHead
    <2>4. C = Seen("config") /\ S = Seen("secrets") BY <2>3 DEF Held, Reading, Seen
    <2>5. Agree(mishaps, C, S) BY <2>2, <2>4
    <2>6. j.cmd = cmd /\ j.todo = Script(cmd) BY <1>2, <1>9
    <2>7. Stage(j, mishaps, C, S)
        <3>. HIDE DEF C, S
        <3>. QED BY <1>2, <2>5, <2>6, BeginStage
    <2>8. Safe(j, p \in written', mishaps, C, S) BY <2>5 DEF Safe, Agree
    <2>9. AtStage(p)' BY <1>2, <1>9, <2>1, <2>7, <2>8 DEF AtStage
    <2>10. \A q \in Procs : Busy(q)' => q = p BY <1>6, <2>1
    <2>11. Busy(p)'
        <3>1. PICK r : Plan(cmd, r) /\ Script(cmd) = Then(Opening(cmd), r)
            BY <1>2, ScriptPlan
        <3>2. Script(cmd) # <<>>
            BY <3>1, StepSteps, LeftThen DEF Plan, Opening
        <3>. QED BY <1>2, <3>2 DEF Busy
    <2>. QED BY <2>9, <2>10, <2>11 DEF AtRest, AtWork
<1>13. AtRest' /\ AtWork' BY <1>12 DEF AtRest, AtWork
<1>. QED BY <1>4, <1>7, <1>11, <1>13 DEF KeyInv

LEMMA QuitKeys ==
    ASSUME KeyInv, NEW p \in Procs, Quit(p), mishaps' = mishaps \cup CutShort(p), Observe(p)
    PROVE  KeyInv'
<1>1. Inv /\ ShapeInv BY DEF KeyInv
<1>2. /\ Busy(p) /\ disk' = disk /\ job'[p].todo = <<>>
      /\ \A q \in Procs \ {p} : job'[q] = job[q]
    BY <1>1, JobAfter DEF Quit, Busy, Idle
<1>3. Next BY DEF Next
<1>4. Inv' /\ ShapeInv' BY <1>1, <1>3, InvNext, ShapeNext
<1>5. \A q \in Procs : Busy(q)' => q # p /\ Busy(q) BY <1>2 DEF Busy
<1>6. Alone' BY <1>5 DEF KeyInv, Alone
<1>7. InOrder' => InOrder BY DEF InOrder
<1>8. InOrder => \A q \in Procs \ {p} : ~Busy(q)
    <2>1. InOrder => "overlap" \notin mishaps BY DEF InOrder
    <2>. QED BY <1>2, <2>1 DEF KeyInv, Alone
<1>9. AllTidy'
    <2>1. ASSUME InOrder', NEW q \in Procs PROVE Tidy(job'[q], disk')
        <3>1. job'[q].todo = <<>> BY <1>2, <1>7, <1>8, <2>1 DEF Busy
        <3>. QED BY <3>1, TidyOver
    <2>. QED BY <2>1 DEF AllTidy
<1>10. ASSUME Clean' PROVE AtRest' /\ AtWork'
    <2>1. Clean /\ InOrder BY <1>2, <1>7, <1>10 DEF Clean
    <2>2. \A q \in Procs : ~Busy(q)' BY <1>5, <1>8, <2>1
    <2>. DEFINE j == job[p]
                C == Held(j, "config", disk)
                S == Held(j, "secrets", disk)
    <2>3. Safe(j, p \in written, mishaps, C, S)
        BY <1>2, <2>1 DEF KeyInv, AtWork, AtStage
    <2>4. ~AtStep(p, "encode") BY <1>10 DEF Clean, InOrder, CutShort
    <2>5. j.todo # <<>> /\ Verb(j) # "encode" BY <1>2, <2>4 DEF AtStep, Verb, Busy
    <2>6. Head(j.todo) # Encoding("config") /\ Head(j.todo) # Encoding("secrets")
        BY <2>5, KeyVerbs DEF Verb
    <2>7. C = Seen("config") /\ S = Seen("secrets") BY <2>6 DEF Held, Reading, Seen
    <2>8. /\ Keyed(C) \subseteq S \cup Leaving(j)
          /\ p \in written \/ Agree(mishaps, C, S)
        BY <2>3, <2>5 DEF Safe
    <2>9. Agree(mishaps', C, S)
        <3>1. CASE p \in written
            <4>1. mishaps' # {} /\ j.cmd # "provider rename"
                BY <1>10, <3>1 DEF Clean, InOrder, CutShort
            <4>. QED BY <2>8, <4>1 DEF Leaving, Agree
        <3>2. CASE p \notin written
            <4>1. mishaps' = mishaps BY <2>4, <3>2 DEF CutShort
            <4>. QED BY <2>8, <3>2, <4>1
        <3>. QED BY <3>1, <3>2
    <2>10. Seen("config")' = Seen("config") /\ Seen("secrets")' = Seen("secrets")
        BY <1>2 DEF Seen
    <2>11. AtRest' BY <2>7, <2>9, <2>10 DEF AtRest
    <2>. QED BY <2>2, <2>11 DEF AtWork
<1>11. AtRest' /\ AtWork' BY <1>10 DEF AtRest, AtWork
<1>. QED BY <1>4, <1>6, <1>9, <1>11 DEF KeyInv

LEMMA KeyInit == ObservedInit => KeyInv
<1>. SUFFICES ASSUME ObservedInit PROVE KeyInv OBVIOUS
<1>1. Init /\ mishaps = {} BY DEF ObservedInit
<1>2. Inv BY <1>1, InvInit
<1>3. \A p \in Procs : job[p] = Idle BY <1>1 DEF Init
<1>4. ShapeInv BY <1>3, ShapeIdle DEF ShapeInv
<1>5. \A p \in Procs : job[p].todo = <<>> /\ ~Busy(p)
    <2>1. Idle.todo = <<>> BY DEF Idle
    <2>. QED BY <1>3, <2>1 DEF Busy
<1>6. Alone BY <1>5 DEF Alone
<1>7. AllTidy BY <1>5, TidyOver DEF AllTidy
<1>8. AtWork BY <1>5 DEF AtWork
<1>9. AtRest
    <2>. SUFFICES ASSUME Clean PROVE Agree(mishaps, Seen("config"), Seen("secrets"))
        BY DEF AtRest
    <2>1. disk \in Seeds BY <1>1 DEF Init
    <2>2. disk.config # Garbled /\ disk.secrets # Garbled BY DEF Clean
    <2>3. Seen("config") = (IF disk.config = Empty THEN Blank.config ELSE disk.config)
        BY DEF Seen, Blank
    <2>4. Seen("secrets") = (IF disk.secrets = Empty THEN Blank.secrets ELSE disk.secrets)
        BY DEF Seen, Blank
    <2>5. /\ Keyed(Seen("config")) \subseteq Seen("secrets")
          /\ Seen("secrets") \subseteq Known(Seen("config"))
        BY <2>1, <2>2, <2>3, <2>4, SeedsAgree
    <2>. QED BY <2>5 DEF Agree
<1>. QED BY <1>2, <1>4, <1>6, <1>7, <1>8, <1>9 DEF KeyInv

LEMMA KeyNext == KeyInv /\ [ObservedNext]_obsVars => KeyInv'
<1>. SUFFICES ASSUME KeyInv, [ObservedNext]_obsVars PROVE KeyInv' OBVIOUS
<1>1. CASE UNCHANGED obsVars
    <2>1. /\ disk' = disk /\ job' = job /\ begun' = begun
          /\ written' = written /\ mishaps' = mishaps
        BY <1>1 DEF obsVars
    <2>2. Inv' /\ ShapeInv' BY <2>1, InvNext, ShapeNext DEF KeyInv, cpVars
    <2>3. \A p \in Procs : Busy(p)' <=> Busy(p) BY <2>1 DEF Busy
    <2>4. Alone' BY <2>1, <2>3 DEF KeyInv, Alone
    <2>5. AllTidy' BY <2>1 DEF KeyInv, AllTidy, InOrder
    <2>6. Clean' <=> Clean BY <2>1 DEF Clean, InOrder
    <2>7. AtRest' BY <2>1, <2>3, <2>6 DEF KeyInv, AtRest, Seen
    <2>8. ASSUME NEW p \in Procs, AtStage(p) PROVE AtStage(p)'
        BY <2>1, <2>8 DEF AtStage
    <2>9. AtWork' BY <2>3, <2>6, <2>8 DEF KeyInv, AtWork
    <2>. QED BY <2>2, <2>4, <2>5, <2>7, <2>9 DEF KeyInv
<1>2. CASE ObservedNext
    <2>1. PICK p \in Procs :
            /\ \/ /\ \E cmd \in Commands : Begin(p, cmd)
                  /\ mishaps' = mishaps \cup Overlap(p)
               \/ WorkStep(p) /\ mishaps' = mishaps
               \/ Quit(p) /\ mishaps' = mishaps \cup CutShort(p)
            /\ Observe(p)
        BY <1>2 DEF ObservedNext, CommandStep, WorkStep
    <2>. QED BY <2>1, BeginKeys, WorkKeys, QuitKeys
<1>. QED BY <1>1, <1>2

\* A save of another file leaves the keys as they are.
LEMMA OtherSave ==
    ASSUME NEW j, NEW m, NEW C, NEW S, Stage(j, m, C, S), Verb(j) = "encode",
           \A f \in KeyFiles : Head(j.todo) # Encoding(f)
    PROVE  Agree(m, C, S)
<1>0. "config" \in KeyFiles /\ "secrets" \in KeyFiles BY DEF KeyFiles
<1>1. \A v \in {"put", "move", "forget", "drop"}, t \in Seq(Steps) : j.todo # Then(Keys(v), t)
    BY ThenVerb, KeySaves, KeyVerbs
<1>2. \A f \in KeyFiles, t \in Seq(Steps) : j.todo # Then(Save(f), t)
    BY ThenVerb, KeySaves, KeyVerbs DEF KeyFiles
<1>3. \A f \in KeyFiles, t \in Seq(Steps) : j.todo # Then(Encoding(f), t)
    BY ThenVerb, KeySaves DEF KeyFiles
<1>4. /\ <<>> \in Seq(Steps) /\ \A t : Quietly(t) => t \in Seq(Steps)
      /\ \A t \in Seq(Steps) : /\ Then(Save("config"), t) \in Seq(Steps)
                               /\ Then(Save("secrets"), t) \in Seq(Steps)
                               /\ Then(Keys("drop"), t) \in Seq(Steps)
    BY LeftNone, QuietSteps1, KeySaves, LeftThen
<1>5. ForgetThen \in Seq(Steps)
    BY <1>4, KeySaves, LeftThen DEF ForgetThen
<1>6. ~Unread(j, m, C, S) /\ ~Read(j, m, C, S)
    <2>1. ASSUME Unread(j, m, C, S) PROVE FALSE
        <3>1. Head(j.todo) = Load BY <2>1, KeyScripts DEF Unread
        <3>. QED BY <3>1 DEF Verb, Load
    <2>2. ASSUME Read(j, m, C, S) PROVE FALSE
        <3>1. PICK cmd : Head(j.todo) = Edit(cmd) BY <2>2, KeyScripts DEF Read
        <3>. QED BY <3>1 DEF Verb, Edit
    <2>. QED BY <2>1, <2>2
<1>7. ~Adding(j, m, C, S) /\ ~Storing(j, m, C, S) /\ ~Stored(j, m, C, S)
    BY <1>0, <1>1, <1>2, <1>3, <1>4 DEF Adding, Storing, Stored
<1>8. ~Removing(j, m, C, S) /\ ~Dropping(j, m, C, S) /\ ~Replacing(j, m, C, S)
    BY <1>0, <1>1, <1>2, <1>3, <1>4 DEF Removing, Dropping, Replacing
<1>9. ~Last(j, m, C, S) /\ ~Moving(j, m, C, S)
    BY <1>0, <1>1, <1>2, <1>3, <1>4 DEF Last, Moving
<1>10. ~Both(j, m, C, S)
    <2>1. j.todo # ForgetThen
        <3>1. Then(Save("secrets"), Then(Save("config"), <<>>)) \in Seq(Steps) BY <1>4
        <3>. QED BY <1>1, <3>1 DEF ForgetThen
    <2>. QED BY <1>0, <1>2, <1>3, <1>5, <2>1 DEF Both
<1>11. Quiet(j, m, C, S) BY <1>6, <1>7, <1>8, <1>9, <1>10 DEF Stage
<1>. QED BY <1>11 DEF Quiet

\* What the files hold while a command is at work.
LEMMA WorkingKeys ==
    ASSUME KeyInv, Clean, KeysReadable, NEW p \in Procs, Busy(p)
    PROVE  \A n \in Keyed(Seen("config")) : n \in Seen("secrets") \/ Renaming(n)
<1>. DEFINE j == job[p]
            C == Held(j, "config", disk)
            S == Held(j, "secrets", disk)
<1>1. Stage(j, mishaps, C, S) /\ Safe(j, p \in written, mishaps, C, S)
    BY DEF KeyInv, AtWork, AtStage
<1>2. \A f \in KeyFiles : Head(j.todo) # Encoding(f)
    <2>1. ASSUME NEW f \in KeyFiles, Head(j.todo) = Encoding(f) PROVE Saving(p, f)
        BY <2>1 DEF Saving, AtStep, Busy, Encoding
    <2>. QED BY <2>1 DEF KeysReadable, KeyFiles
<1>3. C = Seen("config") /\ S = Seen("secrets")
    BY <1>2 DEF KeyFiles, Held, Reading, Seen
<1>4. CASE Verb(j) # "encode"
    <2>1. Keyed(C) \subseteq S \cup Leaving(j) BY <1>1, <1>4 DEF Safe
    <2>2. \A n \in Leaving(j) : Renaming(n) BY DEF Leaving, Renaming
    <2>. QED BY <1>3, <2>1, <2>2
<1>5. CASE Verb(j) = "encode"
    <2>1. Agree(mishaps, C, S)
        <3>. HIDE DEF C, S, j
        <3>. QED BY <1>1, <1>2, <1>5, OtherSave
    <2>. QED BY <1>3, <2>1 DEF Agree
<1>. QED BY <1>4, <1>5

LEMMA KeysMatch == KeyInv => KeysMatchProviders
<1>. SUFFICES ASSUME KeyInv, KeysReadable PROVE
        /\ mishaps \cap {"overlap", "torn", "provider rename"} = {} =>
              \A n \in Keyed(Seen("config")) : n \in Seen("secrets") \/ Renaming(n)
        /\ (mishaps = {} /\ \A p \in Procs : ~Busy(p)) =>
              Seen("secrets") \subseteq Known(Seen("config"))
    BY DEF KeysMatchProviders
<1>1. disk["secrets"] # Garbled /\ disk["config"] # Garbled BY DEF KeysReadable
<1>2. InOrder => Clean BY <1>1 DEF Clean
<1>3. ASSUME InOrder
      PROVE  \A n \in Keyed(Seen("config")) : n \in Seen("secrets") \/ Renaming(n)
    <2>1. CASE \A p \in Procs : ~Busy(p)
        <3>1. Agree(mishaps, Seen("config"), Seen("secrets"))
            BY <1>2, <1>3, <2>1 DEF KeyInv, AtRest
        <3>. QED BY <3>1 DEF Agree
    <2>2. CASE \E p \in Procs : Busy(p) BY <1>2, <1>3, <2>2, WorkingKeys
    <2>. QED BY <2>1, <2>2
<1>4. ASSUME mishaps = {}, \A p \in Procs : ~Busy(p)
      PROVE  Seen("secrets") \subseteq Known(Seen("config"))
    <2>1. InOrder BY <1>4 DEF InOrder
    <2>2. Agree(mishaps, Seen("config"), Seen("secrets"))
        BY <1>2, <1>4, <2>1 DEF KeyInv, AtRest
    <2>. QED BY <1>4, <2>2 DEF Agree
<1>. QED BY <1>3, <1>4 DEF InOrder

\* Any number of commands, each of which may be cut short: while they run one
\* at a time, and none tears a file or dies in a rename, every provider that
\* was given a key has it under its name; when none was cut short, no key
\* outlives its provider.
THEOREM KeysAlwaysMatch == ObservedSpec => []KeysMatchProviders
<1>. QED BY KeyInit, KeyNext, KeysMatch, PTL DEF ObservedSpec

=============================================================================
