------------------------ MODULE ControlPlaneProofs ------------------------
(***************************************************************************)
(* Every file and every copy a command works on is well formed, and its    *)
(* active route and default saver exist, whatever the processes, the names *)
(* and the number of commands.  Then, for the proofs about the history of  *)
(* the files, what the commands have to do and what their changes take out *)
(* of a configuration.                                                     *)
(***************************************************************************)
EXTENDS ControlPlaneObserved, FiniteSetTheorems, TLAPS

\* A configuration, a job, that the proof carries from step to step.
Sound(c) == c \in Configs /\ Resolves(c)
SoundJob(j) == j \in Jobs /\ Sound(j.config)

----------------------------------------------------------------------------
(* Tables: partial functions by name.                                      *)

\* Put keeps a table a table.
LEMMA PutTable ==
    ASSUME NEW S, NEW V, NEW f \in Tables(S, V), NEW x \in S, NEW v \in V
    PROVE  Put(f, x, v) \in Tables(S, V)
<1>1. PICK K \in SUBSET S : f \in [K -> V] BY DEF Tables
<1>2. Put(f, x, v) \in [K \cup {x} -> V] BY <1>1 DEF Put
<1>3. K \cup {x} \in SUBSET S BY <1>1
<1>. QED BY <1>1, <1>2, <1>3 DEF Tables

\* Without keeps a table a table.
LEMMA WithoutTable ==
    ASSUME NEW S, NEW V, NEW f \in Tables(S, V), NEW x
    PROVE  Without(f, x) \in Tables(S, V)
<1>1. PICK K \in SUBSET S : f \in [K -> V] BY DEF Tables
<1>2. Without(f, x) \in [K \ {x} -> V] BY <1>1 DEF Without
<1>3. K \ {x} \in SUBSET S BY <1>1
<1>. QED BY <1>1, <1>2, <1>3 DEF Tables

\* What a table holds.
LEMMA TableEntry ==
    ASSUME NEW S, NEW V, NEW f \in Tables(S, V)
    PROVE  /\ DOMAIN f \subseteq S
           /\ \A x \in DOMAIN f : f[x] \in V
BY DEF Tables

\* A function on some of the names is a table.
LEMMA TableIntro ==
    ASSUME NEW S, NEW V, NEW K \in SUBSET S, NEW f \in [K -> V]
    PROVE  f \in Tables(S, V)
BY DEF Tables

----------------------------------------------------------------------------
(* One field of a configuration is replaced at a time.                     *)

LEMMA SoundRoutes ==
    ASSUME NEW c, Sound(c), NEW v \in Tables(Routes, ModelLists),
           NEW r \in DOMAIN v \cup {None}
    PROVE  Sound([c EXCEPT !.routes = v, !.active = r])
<1>1. r \in Routes \cup {None} BY TableEntry
<1>. QED BY <1>1 DEF Sound, Configs, Resolves

LEMMA SoundProviders ==
    ASSUME NEW c, Sound(c),
           NEW v \in Tables(Providers, ProviderFacts)
    PROVE  Sound([c EXCEPT !.providers = v])
BY DEF Sound, Configs, Resolves

LEMMA SoundSavers ==
    ASSUME NEW c, Sound(c), NEW v \in SUBSET Savers, NEW s \in v \cup {None}
    PROVE  Sound([c EXCEPT !.savers = v, !.saverDefault = s])
BY DEF Sound, Configs, Resolves

LEMMA SoundAccess ==
    ASSUME NEW c, Sound(c), NEW v \in SUBSET Rules
    PROVE  Sound([c EXCEPT !.access = v])
BY DEF Sound, Configs, Resolves

LEMMA SoundSettings ==
    ASSUME NEW c, Sound(c), NEW v \in Settings
    PROVE  Sound([c EXCEPT !.settings = v])
BY DEF Sound, Configs, Resolves

LEMMA SoundDefault == Sound(Default)
<1>1. [n \in {} |-> 0] \in Tables(Providers, ProviderFacts)
    BY DEF Tables, ProviderFacts
<1>2. [r \in {} |-> {}] \in Tables(Routes, ModelLists)
    BY DEF Tables
<1>. QED BY <1>1, <1>2, ConstantsAssumption DEF Sound, Configs, Resolves, Default

----------------------------------------------------------------------------
(* The commands on routes, savers, rules and settings.                     *)

LEMMA FieldsOf ==
    ASSUME NEW c, Sound(c)
    PROVE  /\ c.routes \in Tables(Routes, ModelLists)
           /\ c.providers \in Tables(Providers, ProviderFacts)
           /\ c.active \in DOMAIN c.routes \cup {None}
           /\ c.savers \in SUBSET Savers
           /\ c.saverDefault \in c.savers \cup {None}
           /\ c.access \in SUBSET Rules
           /\ DOMAIN c.routes \subseteq Routes
           /\ DOMAIN c.providers \subseteq Providers
           /\ \A r \in DOMAIN c.routes : c.routes[r] \in ModelLists
           /\ \A n \in DOMAIN c.providers :
                c.providers[n] \in ProviderFacts
<1>1. /\ c.routes \in Tables(Routes, ModelLists)
      /\ c.providers \in Tables(Providers, ProviderFacts)
    BY DEF Sound, Configs
<1>2. /\ c.savers \in SUBSET Savers /\ c.access \in SUBSET Rules
      /\ c.active \in DOMAIN c.routes \cup {None}
      /\ c.saverDefault \in c.savers \cup {None}
    BY DEF Sound, Configs, Resolves
<1>3. /\ DOMAIN c.routes \subseteq Routes
      /\ \A r \in DOMAIN c.routes : c.routes[r] \in ModelLists
    BY <1>1, TableEntry
<1>4. /\ DOMAIN c.providers \subseteq Providers
      /\ \A n \in DOMAIN c.providers :
            c.providers[n] \in ProviderFacts
    BY <1>1, TableEntry
<1>. QED BY <1>1, <1>2, <1>3, <1>4

\* A route is added or replaced; the active route stays or becomes this one.
LEMMA SoundPutRoute ==
    ASSUME NEW c, Sound(c), NEW r \in Routes, NEW ms \in ModelLists
    PROVE  /\ Sound(Activate([c EXCEPT !.routes = Put(@, r, ms)], r))
           /\ Sound([c EXCEPT !.routes = Put(@, r, ms)])
           /\ Sound([c EXCEPT !.routes = Put(@, r, ms), !.active = r])
<1>. DEFINE v == Put(c.routes, r, ms)
<1>1. v \in Tables(Routes, ModelLists) /\ DOMAIN v = DOMAIN c.routes \cup {r}
    <2>1. c.routes \in Tables(Routes, ModelLists) BY FieldsOf
    <2>2. v \in Tables(Routes, ModelLists) BY <2>1, PutTable
    <2>. QED BY <2>2 DEF Put
<1>2. c.active \in DOMAIN v \cup {None} BY <1>1, FieldsOf
<1>3. c = [c EXCEPT !.active = c.active] BY DEF Sound, Configs
<1>. HIDE DEF v
<1>4. Sound([c EXCEPT !.routes = v, !.active = r]) BY <1>1, SoundRoutes
<1>5. Sound([c EXCEPT !.routes = v, !.active = c.active]) BY <1>1, <1>2, SoundRoutes
<1>6. [c EXCEPT !.routes = v] = [c EXCEPT !.routes = v, !.active = c.active]
    BY DEF Sound, Configs
<1>7. \/ Activate([c EXCEPT !.routes = v], r) = [c EXCEPT !.routes = v, !.active = r]
      \/ Activate([c EXCEPT !.routes = v], r) = [c EXCEPT !.routes = v, !.active = c.active]
    BY DEF Sound, Configs, Activate
<1>. QED BY <1>4, <1>5, <1>6, <1>7 DEF v

LEMMA RouteCommands ==
    ASSUME NEW c, Sound(c), NEW d,
           d \in RouteAdd(c) \cup RouteAddWizard(c) \cup RouteRemove(c)
                    \cup RouteUse(c) \cup RouteEditWizard(c)
    PROVE  Sound(d)
<1>1. CASE d \in RouteAdd(c)
    <2>1. PICK r \in Routes, ms \in Typed \cup {{None}} \cup Choices(Listed(c)) :
            d = Activate([c EXCEPT !.routes = Put(@, r, ms)], r)
        BY <1>1 DEF RouteAdd
    <2>2. ms \in ModelLists
        BY FieldsOf, ConstantsAssumption DEF Choices, Listed, ModelLists
    <2>. QED BY <2>1, <2>2, SoundPutRoute
<1>2. CASE d \in RouteAddWizard(c)
    <2>1. Choices(Listed(c)) \subseteq ModelLists
        BY FieldsOf DEF Choices, Listed, ModelLists
    <2>2. PICK r \in Routes, ms \in Choices(Listed(c)) :
            d = Activate([c EXCEPT !.routes = Put(@, r, ms)], r)
        BY <1>2 DEF RouteAddWizard
    <2>. QED BY <2>1, <2>2, SoundPutRoute
<1>3. CASE d \in RouteRemove(c)
    <2>0. PICK r \in DOMAIN c.routes : \E h \in Heirs(c, r) :
                d = [c EXCEPT !.routes = Without(@, r), !.active = h]
        BY <1>3 DEF RouteRemove
    <2>1. PICK h \in Heirs(c, r) :
                d = [c EXCEPT !.routes = Without(@, r), !.active = h]
        BY <2>0
    <2>2. /\ Without(c.routes, r) \in Tables(Routes, ModelLists)
          /\ DOMAIN Without(c.routes, r) = DOMAIN c.routes \ {r}
        <3>1. c.routes \in Tables(Routes, ModelLists) BY FieldsOf
        <3>2. Without(c.routes, r) \in Tables(Routes, ModelLists)
            BY <3>1, WithoutTable
        <3>. QED BY <3>2 DEF Without
    <2>3. h \in (DOMAIN c.routes \ {r}) \cup {None}
        BY FieldsOf DEF Heirs
    <2>. QED BY <2>1, <2>2, <2>3, SoundRoutes
<1>4. CASE d \in RouteUse(c)
    <2>1. PICK r \in DOMAIN c.routes : d = [c EXCEPT !.active = r]
        BY <1>4 DEF RouteUse
    <2>2. d = [c EXCEPT !.routes = c.routes, !.active = r]
        BY <2>1 DEF Sound, Configs
    <2>3. c.routes \in Tables(Routes, ModelLists) BY FieldsOf
    <2>. QED BY <2>2, <2>3, SoundRoutes
<1>5. CASE d \in RouteEditWizard(c)
    <2>0. PICK r \in DOMAIN c.routes : \E ms \in Reworked(c, r) :
                d = [c EXCEPT !.routes = Put(@, r, ms)]
        BY <1>5 DEF RouteEditWizard
    <2>1. PICK ms \in Reworked(c, r) : d = [c EXCEPT !.routes = Put(@, r, ms)]
        BY <2>0
    <2>2. r \in Routes BY FieldsOf
    <2>3. ms \in ModelLists
        BY FieldsOf DEF Reworked, Choices, Listed, ModelLists
    <2>. QED BY <2>1, <2>2, <2>3, SoundPutRoute
<1>. QED BY <1>1, <1>2, <1>3, <1>4, <1>5

LEMMA SaverCommands ==
    ASSUME NEW c, Sound(c), NEW d,
           d \in SaverAdd(c) \cup SaverAddWizard(c) \cup SaverDefault(c) \cup SaverRemove(c)
    PROVE  Sound(d)
<1>0. c.savers \in SUBSET Savers /\ c.saverDefault \in c.savers \cup {None}
    BY FieldsOf
<1>1. CASE d \in SaverAdd(c) \cup SaverAddWizard(c)
    <2>1. PICK s \in Savers : d = [c EXCEPT !.savers = @ \cup {s}]
        BY <1>1 DEF SaverAdd, SaverAddWizard
    <2>2. d = [c EXCEPT !.savers = c.savers \cup {s}, !.saverDefault = c.saverDefault]
        BY <2>1 DEF Sound, Configs
    <2>. QED BY <1>0, <2>2, SoundSavers
<1>2. CASE d \in SaverDefault(c)
    <2>1. PICK s \in c.savers : d = [c EXCEPT !.saverDefault = s]
        BY <1>2 DEF SaverDefault
    <2>2. d = [c EXCEPT !.savers = c.savers, !.saverDefault = s]
        BY <2>1 DEF Sound, Configs
    <2>. QED BY <1>0, <2>2, SoundSavers
<1>3. CASE d \in SaverRemove(c)
    <2>1. PICK s \in c.savers :
            d = [c EXCEPT !.savers = @ \ {s},
                          !.saverDefault = IF @ = s THEN None ELSE @]
        BY <1>3 DEF SaverRemove
    <2>2. PICK t : /\ d = [c EXCEPT !.savers = c.savers \ {s}, !.saverDefault = t]
                   /\ t = IF c.saverDefault = s THEN None ELSE c.saverDefault
        BY <2>1
    <2>3. t \in (c.savers \ {s}) \cup {None} BY <1>0, <2>2
    <2>. QED BY <1>0, <2>2, <2>3, SoundSavers
<1>. QED BY <1>1, <1>2, <1>3

LEMMA OtherCommands ==
    ASSUME NEW c, Sound(c), NEW d,
           d \in AccessAllow(c) \cup AccessDeny(c) \cup AccessRemoveWizard(c)
                \cup AccessClear(c) \cup ConfigSet(c) \cup StartSettings(c)
                \cup InitDomain(c)
    PROVE  Sound(d)
<1>1. PICK v : \/ v \in SUBSET Rules /\ d = [c EXCEPT !.access = v]
               \/ v \in Settings /\ d = [c EXCEPT !.settings = v]
    BY FieldsOf DEF AccessAllow, AccessDeny, AccessRemoveWizard, AccessClear,
        ConfigSet, StartSettings, InitDomain, Rules
<1>. QED BY <1>1, SoundAccess, SoundSettings

LEMMA SoundWithProvider ==
    ASSUME NEW c, Sound(c), NEW n \in Providers, NEW k \in ProviderFacts
    PROVE  Sound(WithProvider(c, n, k))
<1>1. Put(c.providers, n, k) \in Tables(Providers, ProviderFacts)
    BY FieldsOf, PutTable
<1>. QED BY <1>1, SoundProviders DEF WithProvider

LEMMA SoundModels ==
    ASSUME NEW c, Sound(c), NEW d \in ModelsRefresh(c)
    PROVE  Sound(d)
<1>1. PICK lists \in [DOMAIN c.providers -> BOOLEAN] :
        d = [c EXCEPT !.providers =
                [n \in DOMAIN @ |-> [keyed |-> @[n].keyed, listed |-> lists[n]]]]
    BY DEF ModelsRefresh
<1>. DEFINE v == [n \in DOMAIN c.providers |->
                    [keyed |-> c.providers[n].keyed, listed |-> lists[n]]]
<1>2. v \in [DOMAIN c.providers -> ProviderFacts]
    BY FieldsOf DEF ProviderFacts
<1>3. v \in Tables(Providers, ProviderFacts)
    BY <1>2, FieldsOf, TableIntro
<1>4. d = [c EXCEPT !.providers = v] BY <1>1
<1>. HIDE DEF v
<1>. QED BY <1>3, <1>4, SoundProviders

LEMMA SoundRenamed ==
    ASSUME NEW c, Sound(c), NEW n \in DOMAIN c.providers, NEW m \in Providers
    PROVE  Sound(Renamed(c, n, m))
<1>. DEFINE v == Put(Without(c.providers, n), m, c.providers[n])
            w == [r \in DOMAIN c.routes |->
                    IF n \in c.routes[r] THEN (c.routes[r] \ {n}) \cup {m}
                    ELSE c.routes[r]]
<1>1. v \in Tables(Providers, ProviderFacts)
    BY FieldsOf, PutTable, WithoutTable
<1>2. w \in [DOMAIN c.routes -> ModelLists] BY FieldsOf DEF ModelLists
<1>3. w \in Tables(Routes, ModelLists) BY <1>2, FieldsOf, TableIntro
<1>4. DOMAIN w = DOMAIN c.routes OBVIOUS
<1>5. Renamed(c, n, m) = [c EXCEPT !.providers = v, !.routes = w] BY DEF Renamed
<1>. HIDE DEF v, w
<1>. DEFINE d == [c EXCEPT !.providers = v]
<1>6. Sound(d) BY <1>1, SoundProviders
<1>7. d.active = c.active BY DEF Sound, Configs
<1>8. Renamed(c, n, m) = [d EXCEPT !.routes = w, !.active = c.active]
    BY <1>5 DEF Sound, Configs
<1>9. c.active \in DOMAIN w \cup {None} BY <1>4, FieldsOf
<1>. HIDE DEF d
<1>10. Sound([d EXCEPT !.routes = w, !.active = c.active])
    BY <1>3, <1>6, <1>9, SoundRoutes
<1>. QED BY <1>8, <1>10
----------------------------------------------------------------------------
(* What a command makes of its job.                                        *)

LEMMA JobFields ==
    ASSUME NEW j, SoundJob(j)
    PROVE  /\ j.todo \in Seq(Steps) /\ Sound(j.config)
           /\ j.name \in Providers \cup {None} /\ j.secrets \in KeySets
           /\ j.prices \in PriceTables
BY DEF SoundJob, Jobs

\* A copy replaced, names picked, a step dropped.
LEMMA JobConfig ==
    ASSUME NEW j, SoundJob(j), NEW c, Sound(c)
    PROVE  SoundJob([j EXCEPT !.config = c])
BY DEF SoundJob, Jobs, Sound

LEMMA JobNames ==
    ASSUME NEW j, SoundJob(j), NEW n \in Providers, NEW m \in Providers,
           NEW k \in BOOLEAN
    PROVE  /\ SoundJob([j EXCEPT !.name = n])
           /\ SoundJob([j EXCEPT !.name = n, !.new = m])
           /\ SoundJob([j EXCEPT !.name = n, !.key = k])
BY DEF SoundJob, Jobs

LEMMA JobTodo ==
    ASSUME NEW j, SoundJob(j), NEW t \in Seq(Steps)
    PROVE  SoundJob([j EXCEPT !.todo = t])
BY DEF SoundJob, Jobs

LEMMA JobKeys ==
    ASSUME NEW j, SoundJob(j), NEW K \in KeySets
    PROVE  SoundJob([j EXCEPT !.secrets = K])
BY DEF SoundJob, Jobs

LEMMA JobPrices ==
    ASSUME NEW j, SoundJob(j), NEW P \in PriceTables
    PROVE  SoundJob([j EXCEPT !.prices = P])
BY DEF SoundJob, Jobs

LEMMA SoundIdle == SoundJob(Idle)
<1>1. <<>> \in Seq(Steps) OBVIOUS
<1>2. Default \in Configs BY SoundDefault DEF Sound
<1>3. Idle \in Jobs BY <1>1, <1>2 DEF Idle, Jobs, KeySets, PriceTables
<1>4. Idle.config = Default BY DEF Idle
<1>. QED BY <1>3, <1>4, SoundDefault DEF SoundJob

LEMMA RestSteps ==
    ASSUME NEW t \in Seq(Steps)
    PROVE  Rest(t) \in Seq(Steps)
BY DEF Rest

LEMMA JobRest ==
    ASSUME NEW j, SoundJob(j)
    PROVE  SoundJob([j EXCEPT !.todo = Rest(@)])
BY JobFields, JobTodo, RestSteps

LEMMA SoundSettled == ASSUME NEW j, SoundJob(j) PROVE SoundJob(Settled(j))
BY SoundIdle DEF Settled

LEMMA StepSteps ==
    /\ Load \in Steps /\ LoadPriceTable \in Steps
    /\ \A f \in {"config", "secrets", "prices"} : Save(f) \in Steps /\ Encoding(f) \in Steps
    /\ \A v \in {"put", "move", "forget", "drop", "look"} : Keys(v) \in Steps
    /\ \A e \in AllCommands \cup {"pick", "refresh?", "enable models", "refresh models"} :
            Edit(e) \in Steps
BY DEF Steps, Load, LoadPriceTable, Save, Encoding, Keys, Edit

\* The sequences the scripts are made of.
LEMMA ShortSteps ==
    ASSUME NEW a \in Steps, NEW b \in Steps, NEW c \in Steps, NEW d \in Steps,
           NEW e \in Steps, NEW f \in Steps
    PROVE  /\ <<a, b, c, d, e>> \in Seq(Steps) /\ <<a, b, c, d, e, f>> \in Seq(Steps)
           /\ <<a>> \in Seq(Steps) /\ <<a, b>> \in Seq(Steps)
           /\ <<a, b, c>> \in Seq(Steps) /\ <<a, b, c, d>> \in Seq(Steps)
OBVIOUS

LEMMA ScriptSteps ==
    ASSUME NEW cmd \in AllCommands
    PROVE  Script(cmd) \in Seq(Steps)
<1>1. /\ Load \in Steps /\ Save("config") \in Steps /\ Save("prices") \in Steps
      /\ LoadPriceTable \in Steps /\ Edit(cmd) \in Steps
      /\ Edit("pick") \in Steps /\ Edit("refresh?") \in Steps
      /\ Edit("enable models") \in Steps /\ Edit("refresh models") \in Steps
      /\ Edit("provider remove") \in Steps
      /\ Keys("put") \in Steps /\ Keys("look") \in Steps
      /\ Keys("move") \in Steps /\ Keys("drop") \in Steps
    BY StepSteps DEF AllCommands
<1>2. /\ <<Load, Edit(cmd), Save("config")>> \in Seq(Steps)
      /\ <<Load, Keys("look"), Edit(cmd), Save("config")>> \in Seq(Steps)
      /\ <<Load, Edit(cmd), Keys("put"), Save("config")>> \in Seq(Steps)
      /\ <<Load, Edit("pick"), Keys("look"), Edit(cmd)>> \in Seq(Steps)
      /\ <<Load, Edit(cmd), Keys("move"), Save("config")>> \in Seq(Steps)
      /\ <<Load, Edit(cmd), Keys("put")>> \in Seq(Steps)
      /\ <<Load, LoadPriceTable, Edit(cmd), Save("prices")>> \in Seq(Steps)
      /\ <<LoadPriceTable, Edit(cmd), Save("prices")>> \in Seq(Steps)
      /\ <<Load, Edit("provider remove"), Save("config"), Keys("drop")>> \in Seq(Steps)
      /\ <<Keys("look"), Edit("refresh models"), Save("config")>> \in Seq(Steps)
    BY <1>1, ShortSteps
<1>3. <<Load, Edit("pick"), Keys("look"), Edit(cmd), Save("config")>> \in Seq(Steps)
    BY <1>1, ShortSteps
<1>4. <<Load, Edit(cmd), Keys("put"), Save("config"), Edit("enable models"), Save("config")>> \in Seq(Steps)
    BY <1>1, ShortSteps
<1>5. /\ <<Load, Edit("pick")>> \o RefreshSteps \in Seq(Steps)
      /\ <<Load, Edit("pick"), Save("config"), Edit("refresh?")>> \o RefreshSteps \in Seq(Steps)
    <2>1. RefreshSteps \in Seq(Steps) BY <1>2 DEF RefreshSteps
    <2>2. <<Load, Edit("pick")>> \in Seq(Steps) BY <1>1, ShortSteps
    <2>3. <<Load, Edit("pick"), Save("config"), Edit("refresh?")>> \in Seq(Steps) BY <1>1, ShortSteps
    <2>. QED BY <2>1, <2>2, <2>3
<1>6. ProviderRemoveSteps \in Seq(Steps) BY <1>2 DEF ProviderRemoveSteps
<1>7. <<>> \in Seq(Steps) OBVIOUS
<1>. QED BY <1>2, <1>3, <1>4, <1>5, <1>6, <1>7 DEF Script

----------------------------------------------------------------------------
(* The commands that work on more than the configuration.                  *)

LEMMA SoundTurned ==
    ASSUME NEW j, SoundJob(j), NEW configs, \A c \in configs : Sound(c),
           NEW k \in Turned(j, configs)
    PROVE  SoundJob(k)
BY JobConfig DEF Turned

\* A job whose copy, names and key change together.
LEMMA JobAll ==
    ASSUME NEW j, SoundJob(j), NEW c, Sound(c), NEW n \in Providers,
           NEW m \in Providers, NEW k \in BOOLEAN
    PROVE  /\ SoundJob([j EXCEPT !.config = c, !.name = n])
           /\ SoundJob([j EXCEPT !.config = c, !.name = n, !.new = m])
           /\ SoundJob([j EXCEPT !.config = c, !.name = n, !.key = k])
BY DEF SoundJob, Jobs, Sound

LEMMA SoundCatalog ==
    ASSUME NEW j, SoundJob(j), NEW lists \in SUBSET BOOLEAN,
           NEW k \in WithCatalog(j, lists)
    PROVE  SoundJob(k)
<1>1. PICK n \in {j.name} \cap DOMAIN j.config.providers, l \in lists :
        k = [j EXCEPT !.config =
                WithProvider(@, n, [@.providers[n] EXCEPT !.listed = l])]
    BY DEF WithCatalog
<1>2. Sound(j.config) BY JobFields
<1>3. n \in Providers /\ [j.config.providers[n] EXCEPT !.listed = l] \in ProviderFacts
    BY <1>1, <1>2, FieldsOf DEF ProviderFacts
<1>4. Sound(WithProvider(j.config, n, [j.config.providers[n] EXCEPT !.listed = l]))
    BY <1>2, <1>3, SoundWithProvider
<1>. QED BY <1>1, <1>4, JobConfig

LEMMA SoundWithRoute ==
    ASSUME NEW c, Sound(c), NEW r \in Routes, NEW ms \in Typed, NEW v \in Settings
    PROVE  Sound(WithRoute(c, r, ms, v))
<1>. DEFINE d == [c EXCEPT !.routes = Put(@, r, ms), !.active = r]
<1>1. ms \in ModelLists BY ConstantsAssumption DEF ModelLists
<1>2. Sound(d) BY <1>1, SoundPutRoute
<1>3. Sound([d EXCEPT !.settings = v]) BY <1>2, SoundSettings
<1>4. WithRoute(c, r, ms, v) = [d EXCEPT !.settings = v]
    BY DEF WithRoute, Sound, Configs
<1>. QED BY <1>3, <1>4

LEMMA SoundNew ==
    ASSUME NEW j, SoundJob(j), NEW names \in SUBSET Providers,
           NEW facts \in SUBSET ProviderFacts, NEW k \in NewProvider(j, names, facts)
    PROVE  SoundJob(k)
<1>0. PICK f \in facts : \E n \in names :
        k = [j EXCEPT !.config = WithProvider(@, n, f), !.name = n, !.key = f.keyed]
    BY DEF NewProvider
<1>1. PICK n \in names :
        k = [j EXCEPT !.config = WithProvider(@, n, f), !.name = n, !.key = f.keyed]
    BY <1>0
<1>2. Sound(WithProvider(j.config, n, f)) BY JobFields, SoundWithProvider
<1>3. f.keyed \in BOOLEAN BY DEF ProviderFacts
<1>. QED BY <1>1, <1>2, <1>3, JobAll

LEMMA SoundProviderEdits ==
    ASSUME NEW j, SoundJob(j), NEW k,
           k \in ProviderAdd(j) \cup ProviderAddWizard(j) \cup PickProvider(j)
                \cup ProviderTest(j) \cup EnableModels(j) \cup RefreshModels(j)
                \cup ProviderChooseModels(j) \cup ProviderRemove(j)
                \cup ProviderRename(j) \cup ProviderRotateKey(j)
    PROVE  SoundJob(k)
<1>0. Sound(j.config) /\ DOMAIN j.config.providers \subseteq Providers
    BY JobFields, FieldsOf
<1>1. CASE k \in ProviderAdd(j) \cup ProviderAddWizard(j)
    <2>1. [keyed : BOOLEAN, listed : {FALSE}] \subseteq ProviderFacts
        BY DEF ProviderFacts
    <2>. QED BY <1>1, <2>1, SoundNew DEF ProviderAdd, ProviderAddWizard
<1>2. CASE k \in PickProvider(j)
    BY <1>0, <1>2, JobNames DEF PickProvider
<1>3. CASE k \in ProviderTest(j) \cup EnableModels(j) \cup RefreshModels(j)
    BY <1>3, SoundCatalog, JobRest DEF ProviderTest, EnableModels, RefreshModels
<1>4. CASE k \in ProviderChooseModels(j)
    <2>1. PICK n \in Listed(j.config) : k \in WithCatalog([j EXCEPT !.name = n], {TRUE})
        BY <1>4 DEF ProviderChooseModels
    <2>2. SoundJob([j EXCEPT !.name = n]) BY <1>0, <2>1, JobNames DEF Listed
    <2>. QED BY <2>1, <2>2, SoundCatalog
<1>5. CASE k \in ProviderRemove(j)
    <2>1. PICK n \in DOMAIN j.config.providers :
            k = [j EXCEPT !.config.providers = Without(@, n), !.name = n]
        BY <1>5 DEF ProviderRemove
    <2>. DEFINE v == Without(j.config.providers, n)
                c == [j.config EXCEPT !.providers = v]
    <2>2. j.config.providers \in Tables(Providers, ProviderFacts) BY <1>0, FieldsOf
    <2>3. v \in Tables(Providers, ProviderFacts) BY <2>2, WithoutTable
    <2>4. Sound(c) BY <1>0, <2>3, SoundProviders
    <2>5. k = [j EXCEPT !.config = c, !.name = n] BY <2>1 DEF SoundJob, Jobs
    <2>. HIDE DEF c
    <2>. QED BY <1>0, <2>4, <2>5, JobAll
<1>6. CASE k \in ProviderRename(j)
    <2>1. PICK n \in DOMAIN j.config.providers, m \in Providers :
            k = [j EXCEPT !.config = Renamed(@, n, m), !.name = n, !.new = m]
        BY <1>6 DEF ProviderRename
    <2>. QED BY <1>0, <2>1, SoundRenamed, JobAll
<1>7. CASE k \in ProviderRotateKey(j)
    <2>1. PICK n \in Providers : k = [j EXCEPT !.name = n, !.key = TRUE]
        BY <1>0, <1>7 DEF ProviderRotateKey
    <2>2. TRUE \in BOOLEAN OBVIOUS
    <2>. QED BY <2>1, <2>2, JobNames
<1>. QED BY <1>1, <1>2, <1>3, <1>4, <1>5, <1>6, <1>7

LEMMA SoundInit ==
    ASSUME NEW j, SoundJob(j), NEW k \in InitNew(j) \cup InitKnown(j)
    PROVE  SoundJob(k)
<1>1. ASSUME NEW c, Sound(c), NEW d \in InitRoute(c) PROVE Sound(d)
    <2>1. PICK r \in Routes, ms \in Typed, v \in Settings : d = WithRoute(c, r, ms, v)
        BY <1>1 DEF InitRoute
    <2>. QED BY <1>1, <2>1, SoundWithRoute
<1>2. CASE k \in InitNew(j)
    <2>1. PICK i \in NewProvider(j, Providers \ DOMAIN j.config.providers, ProviderFacts) :
            k \in Turned(i, InitRoute(i.config))
        BY <1>2 DEF InitNew
    <2>2. SoundJob(i) BY <2>1, SoundNew
    <2>3. \A d \in InitRoute(i.config) : Sound(d) BY <1>1, <2>2, JobFields
    <2>. QED BY <2>1, <2>2, <2>3, SoundTurned
<1>3. CASE k \in InitKnown(j)
    <2>1. k \in Turned([j EXCEPT !.todo = Rest(@)], InitRoute(j.config))
        BY <1>3 DEF InitKnown
    <2>2. \A d \in InitRoute(j.config) : Sound(d) BY <1>1, JobFields
    <2>. QED BY <2>1, <2>2, JobRest, SoundTurned
<1>. QED BY <1>2, <1>3

LEMMA SoundPricing ==
    ASSUME NEW j, SoundJob(j), NEW k \in PricingSet(j) \cup PricingRemove(j)
    PROVE  SoundJob(k)
<1>1. PICK P \in PriceTables : k = [j EXCEPT !.prices = P]
    BY JobFields DEF PriceTables, PricingSet, PricingRemove
<1>. QED BY <1>1, JobPrices

\* Whatever a command is asked to do, its job stays sound.
LEMMA SoundEdited ==
    ASSUME NEW j, SoundJob(j), NEW e, NEW k \in Edited(e, j)
    PROVE  SoundJob(k)
<1>. DEFINE c == j.config
            X == RouteAdd(c) \cup RouteAddWizard(c) \cup RouteRemove(c)
                    \cup RouteUse(c) \cup RouteEditWizard(c)
            Y == SaverAdd(c) \cup SaverAddWizard(c) \cup SaverDefault(c)
                    \cup SaverRemove(c)
            Z == AccessAllow(c) \cup AccessDeny(c) \cup AccessRemoveWizard(c)
                    \cup AccessClear(c) \cup ConfigSet(c) \cup StartSettings(c)
                    \cup InitDomain(c)
            P == ProviderAdd(j) \cup ProviderAddWizard(j) \cup PickProvider(j)
                    \cup ProviderTest(j) \cup EnableModels(j) \cup RefreshModels(j)
                    \cup ProviderChooseModels(j) \cup ProviderRemove(j)
                    \cup ProviderRename(j) \cup ProviderRotateKey(j)
<1>1. Sound(c) BY JobFields
<1>2. \A d \in X \cup Y \cup Z \cup ModelsRefresh(c) : Sound(d)
    BY <1>1, RouteCommands, SaverCommands, OtherCommands, SoundModels
<1>3. CASE \E configs \in SUBSET (X \cup Y \cup Z \cup ModelsRefresh(c)) :
                k \in Turned(j, configs)
    BY <1>2, <1>3, SoundTurned
<1>4. CASE k \in P BY <1>4, SoundProviderEdits
<1>5. CASE k \in InitNew(j) \cup InitKnown(j) BY <1>5, SoundInit
<1>6. CASE k \in PricingSet(j) \cup PricingRemove(j) BY <1>6, SoundPricing
<1>7. CASE k \in {j, [j EXCEPT !.todo = <<>>]}
    <2>1. <<>> \in Seq(Steps) OBVIOUS
    <2>. QED BY <1>7, <2>1, JobTodo
<1>8. \/ \E configs \in {RouteAdd(c), RouteAddWizard(c), RouteRemove(c),
                RouteUse(c), RouteEditWizard(c), SaverAdd(c), SaverAddWizard(c),
                SaverDefault(c), SaverRemove(c), AccessAllow(c), AccessDeny(c),
                AccessRemoveWizard(c), AccessClear(c), ConfigSet(c),
                StartSettings(c), InitDomain(c), ModelsRefresh(c)} :
            k \in Turned(j, configs)
      \/ k \in P
      \/ k \in InitNew(j) \cup InitKnown(j)
      \/ k \in PricingSet(j) \cup PricingRemove(j)
      \/ k \in {j, [j EXCEPT !.todo = <<>>]}
    BY DEF Edited
<1>9. \A configs \in {RouteAdd(c), RouteAddWizard(c), RouteRemove(c),
                RouteUse(c), RouteEditWizard(c), SaverAdd(c), SaverAddWizard(c),
                SaverDefault(c), SaverRemove(c), AccessAllow(c), AccessDeny(c),
                AccessRemoveWizard(c), AccessClear(c), ConfigSet(c),
                StartSettings(c), InitDomain(c), ModelsRefresh(c)} :
            configs \in SUBSET (X \cup Y \cup Z \cup ModelsRefresh(c))
    OBVIOUS
<1>. QED BY <1>3, <1>4, <1>5, <1>6, <1>7, <1>8, <1>9

----------------------------------------------------------------------------
(* The steps.                                                              *)

Inv == ControlPlaneTypeOK /\ DefaultsResolve

LEMMA JobsAreSound ==
    ASSUME Inv, NEW p \in Procs
    PROVE  SoundJob(job[p])
BY DEF Inv, ControlPlaneTypeOK, DefaultsResolve, SoundJob, Sound, Jobs

LEMMA SeenFiles ==
    ASSUME Inv
    PROVE  /\ disk["config"] # Garbled => Sound(Seen("config"))
           /\ disk["secrets"] # Garbled => Seen("secrets") \in KeySets
           /\ disk["prices"] # Garbled => Seen("prices") \in PriceTables
<1>1. /\ disk["config"] \in Configs \cup {Empty, Garbled}
      /\ disk["secrets"] \in KeySets \cup {Empty, Garbled}
      /\ disk["prices"] \in PriceTables \cup {Empty, Garbled}
    BY DEF Inv, ControlPlaneTypeOK, Files
<1>2. /\ Blank["config"] = Default /\ Blank["secrets"] = {} /\ Blank["prices"] = {}
    BY DEF Blank
<1>3. disk["config"] \notin {Empty, Garbled} => Sound(disk["config"])
    BY <1>1 DEF Inv, DefaultsResolve, Sound
<1>4. {} \in KeySets BY DEF KeySets
<1>5. disk["config"] # Garbled => Sound(Seen("config"))
    BY <1>2, <1>3, SoundDefault DEF Seen
<1>6. disk["secrets"] # Garbled => Seen("secrets") \in KeySets
    BY <1>1, <1>2, <1>4 DEF Seen
<1>7. disk["prices"] # Garbled => Seen("prices") \in PriceTables
    <2>1. {} \in PriceTables BY DEF PriceTables
    <2>2. CASE disk["prices"] = Empty
        <3>1. Seen("prices") = {} BY <1>2, <2>2 DEF Seen
        <3>. QED BY <2>1, <3>1
    <2>3. CASE disk["prices"] # Empty
        <3>1. Seen("prices") = disk["prices"] BY <2>3 DEF Seen
        <3>. QED BY <1>1, <2>3, <3>1
    <2>. QED BY <2>2, <2>3
<1>. QED BY <1>5, <1>6, <1>7

\* A step that gives p a sound job and leaves the files alone.
LEMMA JobStep ==
    ASSUME Inv, NEW p \in Procs, NEW j, SoundJob(j), BecomesJob(p, j), UNCHANGED disk
    PROVE  Inv'
<1>1. SoundJob(Settled(j)) BY SoundSettled
<1>2. job' = [job EXCEPT ![p] = Settled(j)] /\ begun' = begun /\ disk' = disk
    BY DEF BecomesJob
<1>3. job' \in [Procs -> Jobs] /\ \A q \in Procs : Resolves(job'[q].config)
    BY <1>1, <1>2 DEF Inv, ControlPlaneTypeOK, DefaultsResolve, SoundJob, Sound
<1>. QED BY <1>2, <1>3 DEF Inv, ControlPlaneTypeOK, DefaultsResolve, Resolves

\* A step that writes file f and gives p a sound job.
LEMMA DiskStep ==
    ASSUME Inv, NEW p \in Procs, NEW j, SoundJob(j), BecomesJob(p, j),
           NEW f, NEW new, disk' = [disk EXCEPT ![f] = new],
           f = "config" => new \in {Empty, Garbled} \/ Sound(new),
           f = "secrets" => new \in KeySets \cup {Empty, Garbled},
           f = "prices" => new \in PriceTables \cup {Empty, Garbled}
    PROVE  Inv'
<1>1. SoundJob(Settled(j)) BY SoundSettled
<1>2. job' = [job EXCEPT ![p] = Settled(j)] /\ begun' = begun
    BY DEF BecomesJob
<1>3. job' \in [Procs -> Jobs] /\ \A q \in Procs : Resolves(job'[q].config)
    BY <1>1, <1>2 DEF Inv, ControlPlaneTypeOK, DefaultsResolve, SoundJob, Sound
<1>4. disk \in Files BY DEF Inv, ControlPlaneTypeOK
<1>5. CASE f = "config"
    <2>1. disk' \in Files BY <1>4, <1>5 DEF Files, Sound
    <2>2. disk'["config"] = new BY <1>4, <1>5 DEF Files
    <2>. QED BY <1>2, <1>3, <1>5, <2>1, <2>2
            DEF Inv, ControlPlaneTypeOK, DefaultsResolve, Resolves, Sound
<1>6. CASE f # "config"
    <2>1. disk' \in Files BY <1>4, <1>6 DEF Files
    <2>2. disk'["config"] = disk["config"] BY <1>4, <1>6 DEF Files
    <2>. QED BY <1>2, <1>3, <2>1, <2>2
            DEF Inv, ControlPlaneTypeOK, DefaultsResolve, Resolves
<1>. QED BY <1>5, <1>6

\* The active route and the default saver exist, and every file and copy is
\* well formed, initially and after every step.
LEMMA InvInit == Init => Inv
<1>. SUFFICES ASSUME Init PROVE Inv OBVIOUS
<1>1. disk \in Files /\ (disk["config"] \notin {Empty, Garbled} => Resolves(disk["config"]))
    <2>1. disk.config = disk["config"] OBVIOUS
    <2>. QED BY <2>1, ConstantsAssumption DEF Init
<1>2. begun \in 0 .. MaxCommands BY ConstantsAssumption DEF Init
<1>3. job \in [Procs -> Jobs] /\ \A p \in Procs : Resolves(job[p].config)
    BY SoundIdle DEF Init, SoundJob, Sound
<1>. QED BY <1>1, <1>2, <1>3 DEF Inv, ControlPlaneTypeOK, DefaultsResolve

LEMMA HeadStep ==
    ASSUME NEW s \in Seq(Steps), s # <<>>
    PROVE  Tail(s) \in Seq(Steps) /\ Rest(s) \in Seq(Steps)
BY DEF Rest

LEMMA InvNext == Inv /\ [Next]_cpVars => Inv'
<1>. SUFFICES ASSUME Inv, [Next]_cpVars PROVE Inv' OBVIOUS
<1>1. ASSUME NEW p \in Procs, NEW cmd \in Commands, Begin(p, cmd) PROVE Inv'
    <2>. DEFINE j == [Idle EXCEPT !.cmd = cmd, !.todo = Script(cmd)]
    <2>1. Script(cmd) \in Seq(Steps) /\ cmd \in AllCommands
        BY ScriptSteps, ConstantsAssumption
    <2>2. SoundJob(j) BY <2>1, SoundIdle DEF SoundJob, Jobs
    <2>. HIDE DEF j
    <2>3. job' = [job EXCEPT ![p] = j] /\ disk' = disk /\ begun' = begun + 1
          /\ begun < MaxCommands
        BY <1>1 DEF Begin, j
    <2>4. job' \in [Procs -> Jobs] /\ \A q \in Procs : Resolves(job'[q].config)
        BY <2>2, <2>3 DEF Inv, ControlPlaneTypeOK, DefaultsResolve, SoundJob, Sound
    <2>5. begun' \in 0 .. MaxCommands
        BY <2>3, ConstantsAssumption DEF Inv, ControlPlaneTypeOK
    <2>. QED BY <2>3, <2>4, <2>5 DEF Inv, ControlPlaneTypeOK, DefaultsResolve, Resolves
<1>2. ASSUME NEW p \in Procs, LoadConfig(p) PROVE Inv'
    <2>1. CASE disk["config"] = Garbled
        BY <1>2, <2>1, SoundIdle, JobStep DEF LoadConfig
    <2>2. CASE disk["config"] # Garbled
        <3>. DEFINE i == [job[p] EXCEPT !.config = Seen("config")]
        <3>1. SoundJob(i) BY <2>2, SeenFiles, JobsAreSound, JobConfig
        <3>2. BecomesJob(p, Advanced(i)) /\ UNCHANGED disk BY <1>2, <2>2 DEF LoadConfig
        <3>. HIDE DEF i
        <3>3. SoundJob(Advanced(i)) BY <3>1, JobRest DEF Advanced
        <3>. QED BY <3>2, <3>3, JobStep
    <2>. QED BY <2>1, <2>2
<1>3. ASSUME NEW p \in Procs, LoadPrices(p) PROVE Inv'
    <2>. DEFINE t == IF disk["prices"] = Garbled THEN {} ELSE Seen("prices")
                i == [job[p] EXCEPT !.prices = t]
    <2>1. t \in PriceTables BY SeenFiles DEF PriceTables
    <2>2. SoundJob(i) BY <2>1, JobsAreSound, JobPrices
    <2>3. BecomesJob(p, Advanced(i)) /\ UNCHANGED disk BY <1>3 DEF LoadPrices
    <2>. HIDE DEF i
    <2>4. SoundJob(Advanced(i)) BY <2>2, JobRest DEF Advanced
    <2>. QED BY <2>3, <2>4, JobStep
<1>4. ASSUME NEW p \in Procs, Choose(p) PROVE Inv'
    <2>1. SoundJob([job[p] EXCEPT !.todo = Rest(@)]) BY JobsAreSound, JobRest
    <2>2. PICK j \in Edited(Head(job[p].todo)[2], [job[p] EXCEPT !.todo = Rest(@)]) :
            BecomesJob(p, j)
        BY <1>4 DEF Choose
    <2>3. SoundJob(j) BY <2>1, <2>2, SoundEdited
    <2>. QED BY <1>4, <2>2, <2>3, JobStep DEF Choose
<1>5. ASSUME NEW p \in Procs, PutKey(p) \/ MoveKey(p) \/ ForgetKey(p)
                                \/ DropKey(p) \/ LookUpKey(p)
      PROVE  Inv'
    <2>1. SoundJob(job[p]) /\ job[p].todo \in Seq(Steps) BY JobsAreSound, JobFields
    <2>2. SoundJob(Advanced(job[p])) BY <2>1, JobRest DEF Advanced
    <2>3. ASSUME NEW K \in KeySets, NEW t \in Seq(Steps)
          PROVE  SoundJob([job[p] EXCEPT !.secrets = K, !.todo = t])
        BY <2>1, <2>3 DEF SoundJob, Jobs
    <2>4. /\ Save("secrets") \in Steps /\ Keys("forget") \in Steps
          /\ Rest(job[p].todo) \in Seq(Steps)
        BY <2>1, StepSteps, RestSteps
    <2>5. /\ <<Save("secrets")>> \o Rest(job[p].todo) \in Seq(Steps)
          /\ <<Save("secrets"), Keys("forget"), Save("secrets")>> \o Rest(job[p].todo)
                \in Seq(Steps)
        BY <2>4
    <2>6. /\ job[p].name \in Providers \cup {None} /\ job[p].new \in Providers \cup {None}
          /\ job[p].secrets \in KeySets
        BY <2>1 DEF SoundJob, Jobs
    <2>7. disk["secrets"] # Garbled => \A n \in Providers \cup {None} :
            Seen("secrets") \cup {n} \in KeySets /\ Seen("secrets") \ {n} \in KeySets
        BY SeenFiles DEF KeySets
    <2>8. \E j : SoundJob(j) /\ BecomesJob(p, j) /\ UNCHANGED disk
        <3>1. CASE PutKey(p)
            BY <3>1, <2>2, <2>3, <2>5, <2>6, <2>7, SoundIdle DEF PutKey
        <3>2. CASE MoveKey(p)
            BY <3>2, <2>2, <2>3, <2>5, <2>6, <2>7 DEF MoveKey
        <3>3. CASE ForgetKey(p)
            <4>. DEFINE i == [job[p] EXCEPT !.secrets = @ \ {job[p].name}]
            <4>1. job[p].secrets \ {job[p].name} \in KeySets BY <2>6 DEF KeySets
            <4>2. SoundJob(i) BY <2>1, <4>1, JobKeys
            <4>3. BecomesJob(p, Advanced(i)) /\ UNCHANGED disk BY <3>3 DEF ForgetKey
            <4>. HIDE DEF i
            <4>. QED BY <4>2, <4>3, JobRest DEF Advanced
        <3>4. CASE DropKey(p)
            BY <3>4, <2>2, <2>3, <2>5, <2>6, <2>7 DEF DropKey
        <3>5. CASE LookUpKey(p)
            BY <3>5, <2>2, SoundIdle DEF LookUpKey
        <3>. QED BY <1>5, <3>1, <3>2, <3>3, <3>4, <3>5
    <2>. QED BY <2>8, JobStep
<1>6. ASSUME NEW p \in Procs, Truncate(p) PROVE Inv'
    <2>. DEFINE f == Head(job[p].todo)[2]
                j == [job[p] EXCEPT !.todo = <<Encoding(f)>> \o Rest(@)]
    <2>1. SoundJob(job[p]) /\ job[p].todo \in Seq(Steps) /\ job[p].todo # <<>>
        BY <1>6, JobsAreSound, JobFields DEF Truncate, AtStep
    <2>2. SoundJob(j)
        <3>1. Head(job[p].todo) \in Steps BY <2>1
        <3>2. Encoding(f) \in Steps BY <3>1 DEF Encoding, Steps
        <3>3. <<Encoding(f)>> \o Rest(job[p].todo) \in Seq(Steps)
            BY <2>1, <3>2, RestSteps
        <3>. QED BY <2>1, <3>3, JobTodo
    <2>3. disk' = [disk EXCEPT ![f] = Empty] /\ BecomesJob(p, j)
        BY <1>6 DEF Truncate
    <2>4. Empty \in {Empty, Garbled} OBVIOUS
    <2>5. Empty \in KeySets \cup {Empty, Garbled} BY <2>4
    <2>6. Empty \in PriceTables \cup {Empty, Garbled} BY <2>4
    <2>. HIDE DEF f, j
    <2>. QED BY <2>2, <2>3, <2>4, <2>5, <2>6, DiskStep
<1>7. ASSUME NEW p \in Procs, Encode(p) PROVE Inv'
    <2>. DEFINE f == Head(job[p].todo)[2]
                i == job[p]
    <2>1. SoundJob(i) BY JobsAreSound
    <2>2. SoundJob(Advanced(i)) BY <2>1, JobRest DEF Advanced
    <2>3. PICK new \in Written(f, disk[f], i[f]) : disk' = [disk EXCEPT ![f] = new]
        BY <1>7 DEF Encode
    <2>4. \/ new \in {i[f], Garbled}
          \/ /\ f # "config" /\ disk[f] # Garbled /\ disk[f] # Empty
             /\ \E rest \in SUBSET disk[f] : new = i[f] \cup rest
        BY <2>3 DEF Written
    <2>7. /\ disk["secrets"] \in KeySets \cup {Empty, Garbled}
          /\ disk["prices"] \in PriceTables \cup {Empty, Garbled}
        BY DEF Inv, ControlPlaneTypeOK, Files
    <2>5. BecomesJob(p, Advanced(i)) BY <1>7 DEF Encode
    <2>6. /\ f = "config" => new = Garbled \/ Sound(new)
          /\ f = "secrets" => new \in KeySets \cup {Garbled}
          /\ f = "prices" => new \in PriceTables \cup {Garbled}
        <3>1. /\ i["config"] = i.config /\ i["secrets"] = i.secrets
              /\ i["prices"] = i.prices
            OBVIOUS
        <3>2. /\ Sound(i.config) /\ i.secrets \in KeySets
              /\ i.prices \in PriceTables
            BY <2>1, JobFields
        <3>. HIDE DEF i, f
        <3>3. CASE f = "config" BY <2>4, <3>1, <3>2, <3>3
        <3>4. CASE f = "secrets"
            <4>1. CASE new \in {i[f], Garbled} BY <3>1, <3>2, <3>4, <4>1
            <4>2. CASE new \notin {i[f], Garbled}
                <5>1. PICK rest \in SUBSET disk["secrets"] : new = i.secrets \cup rest
                    BY <2>4, <3>1, <3>4, <4>2
                <5>2. disk["secrets"] \in KeySets BY <2>4, <2>7, <3>4, <4>2
                <5>. QED BY <3>2, <3>4, <5>1, <5>2 DEF KeySets
            <4>. QED BY <4>1, <4>2
        <3>5. CASE f = "prices"
            <4>1. CASE new \in {i[f], Garbled} BY <3>1, <3>2, <3>5, <4>1
            <4>2. CASE new \notin {i[f], Garbled}
                <5>1. PICK rest \in SUBSET disk["prices"] : new = i.prices \cup rest
                    BY <2>4, <3>1, <3>5, <4>2
                <5>2. disk["prices"] \in PriceTables BY <2>4, <2>7, <3>5, <4>2
                <5>. QED BY <3>2, <3>5, <5>1, <5>2 DEF PriceTables
            <4>. QED BY <4>1, <4>2
        <3>. QED BY <3>3, <3>4, <3>5
    <2>. HIDE DEF f, i
    <2>. QED BY <2>2, <2>3, <2>5, <2>6, DiskStep
<1>8. ASSUME NEW p \in Procs, Quit(p) PROVE Inv'
    BY <1>8, SoundIdle, JobStep DEF Quit
<1>9. CASE UNCHANGED cpVars
    BY <1>9 DEF cpVars, Inv, ControlPlaneTypeOK, DefaultsResolve, Resolves
<1>. QED BY <1>1, <1>2, <1>3, <1>4, <1>5, <1>6, <1>7, <1>8, <1>9 DEF Next

\* Every file is a complete content, emptied or garbled, and no command works
\* on anything but a complete configuration.
THEOREM ControlPlaneTypeCorrect == Spec => []ControlPlaneTypeOK
<1>1. Inv => ControlPlaneTypeOK BY DEF Inv
<1>. QED BY <1>1, InvInit, InvNext, PTL DEF Spec

\* The active route and the default saver of the file, and of every copy a
\* command is about to save over it, always exist: no interleaving, overlap
\* or crash of any number of commands leaves a name that points nowhere.
THEOREM DefaultsAlwaysResolve == Spec => []DefaultsResolve
<1>1. Inv => DefaultsResolve BY DEF Inv
<1>. QED BY <1>1, InvInit, InvNext, PTL DEF Spec

----------------------------------------------------------------------------
(* What a command has left to do: its steps as a sequence and as a set.    *)

Left(t) == {t[i] : i \in DOMAIN t}
Then(x, t) == <<x>> \o t

\* Nothing left to do.
LEMMA LeftNone == Left(<<>>) = {} /\ Rest(<<>>) = <<>> /\ <<>> \in Seq(Steps)
BY DEF Left, Rest

LEMMA LeftThen ==
    ASSUME NEW x \in Steps, NEW t \in Seq(Steps)
    PROVE  /\ Then(x, t) \in Seq(Steps) /\ Then(x, t) # <<>>
           /\ Head(Then(x, t)) = x /\ Rest(Then(x, t)) = t
           /\ Left(Then(x, t)) = {x} \cup Left(t)
<1>. DEFINE u == <<x>> \o t
<1>1. u \in Seq(Steps) /\ u # <<>> /\ Head(u) = x /\ Tail(u) = t
    OBVIOUS
<1>2. /\ Len(u) = Len(t) + 1 /\ u[1] = x
      /\ \A i \in 1 .. Len(t) : u[i + 1] = t[i]
    OBVIOUS
<1>3. DOMAIN u = 1 .. Len(u) /\ DOMAIN t = 1 .. Len(t) /\ Len(t) \in Nat
    OBVIOUS
<1>. HIDE DEF u
<1>4. Left(u) \subseteq {x} \cup Left(t)
    <2>. SUFFICES ASSUME NEW i \in 1 .. Len(t) + 1 PROVE u[i] \in {x} \cup Left(t)
        BY <1>2, <1>3 DEF Left
    <2>1. CASE i = 1 BY <1>2, <2>1
    <2>2. CASE i # 1
        <3>1. i - 1 \in 1 .. Len(t) /\ (i - 1) + 1 = i BY <1>3, <2>2
        <3>. QED BY <1>2, <1>3, <3>1 DEF Left
    <2>. QED BY <2>1, <2>2
<1>5. {x} \cup Left(t) \subseteq Left(u)
    <2>1. x \in Left(u) BY <1>2, <1>3 DEF Left
    <2>2. ASSUME NEW i \in 1 .. Len(t) PROVE t[i] \in Left(u)
        <3>1. i + 1 \in DOMAIN u BY <1>2, <1>3
        <3>. QED BY <1>2, <3>1 DEF Left
    <2>. QED BY <1>3, <2>1, <2>2 DEF Left
<1>. QED BY <1>1, <1>4, <1>5 DEF u, Then, Rest

LEMMA LeftSplit ==
    ASSUME NEW t \in Seq(Steps)
    PROVE  /\ Left(<<>>) = {} /\ Rest(<<>>) = <<>> /\ <<>> \in Seq(Steps)
           /\ Rest(t) \in Seq(Steps) /\ Left(t) \subseteq Steps
           /\ Left(Rest(t)) \subseteq Left(t)
           /\ t # <<>> => Head(t) \in Steps /\ t = Then(Head(t), Rest(t))
                            /\ Left(t) = {Head(t)} \cup Left(Rest(t))
<1>1. Left(<<>>) = {} /\ Rest(<<>>) = <<>> /\ <<>> \in Seq(Steps)
    BY DEF Left, Rest
<1>2. CASE t = <<>> BY <1>1, <1>2
<1>3. CASE t # <<>>
    <2>1. Head(t) \in Steps /\ Tail(t) \in Seq(Steps) /\ t = <<Head(t)>> \o Tail(t)
        BY <1>3
    <2>2. Rest(t) = Tail(t) BY <1>3 DEF Rest
    <2>3. t = Then(Head(t), Rest(t)) BY <2>1, <2>2 DEF Then
    <2>4. Left(t) = {Head(t)} \cup Left(Rest(t))
        BY <2>1, <2>2, <2>3, LeftThen
    <2>5. Left(t) \subseteq Steps BY DEF Left
    <2>. QED BY <1>1, <2>1, <2>2, <2>3, <2>4, <2>5
<1>. QED BY <1>2, <1>3

\* The scripts, one step after the other.
LEMMA HeadAndRest ==
    ASSUME NEW S, NEW t \in Seq(S), t # <<>>, NEW x, NEW u, Head(t) = x, Rest(t) = u
    PROVE  t = Then(x, u)
BY DEF Then, Rest

LEMMA OneStep == ASSUME NEW a PROVE <<a>> = Then(a, <<>>)
BY DEF Then

LEMMA TwoSteps ==
    ASSUME NEW a, NEW b
    PROVE  <<a, b>> = Then(a, <<b>>)
<1>1. /\ <<a, b>> \in Seq({a, b}) /\ <<a, b>> # <<>>
      /\ Head(<<a, b>>) = a
    OBVIOUS
<1>2. Rest(<<a, b>>) = <<b>> BY DEF Rest
<1>. QED BY <1>1, <1>2, HeadAndRest

LEMMA ThreeSteps ==
    ASSUME NEW a, NEW b, NEW c
    PROVE  <<a, b, c>> = Then(a, <<b, c>>)
<1>1. /\ <<a, b, c>> \in Seq({a, b, c}) /\ <<a, b, c>> # <<>>
      /\ Head(<<a, b, c>>) = a
    OBVIOUS
<1>2. Rest(<<a, b, c>>) = <<b, c>> BY DEF Rest
<1>. QED BY <1>1, <1>2, HeadAndRest

LEMMA FourSteps ==
    ASSUME NEW a, NEW b, NEW c, NEW d
    PROVE  <<a, b, c, d>> = Then(a, <<b, c, d>>)
<1>1. /\ <<a, b, c, d>> \in Seq({a, b, c, d}) /\ <<a, b, c, d>> # <<>>
      /\ Head(<<a, b, c, d>>) = a
    OBVIOUS
<1>2. Rest(<<a, b, c, d>>) = <<b, c, d>> BY DEF Rest
<1>. QED BY <1>1, <1>2, HeadAndRest

LEMMA FiveSteps ==
    ASSUME NEW a, NEW b, NEW c, NEW d, NEW e
    PROVE  <<a, b, c, d, e>> = Then(a, <<b, c, d, e>>)
<1>1. /\ <<a, b, c, d, e>> \in Seq({a, b, c, d, e}) /\ <<a, b, c, d, e>> # <<>>
      /\ Head(<<a, b, c, d, e>>) = a
    OBVIOUS
<1>2. Rest(<<a, b, c, d, e>>) = <<b, c, d, e>> BY DEF Rest
<1>. QED BY <1>1, <1>2, HeadAndRest

LEMMA SixSteps ==
    ASSUME NEW a, NEW b, NEW c, NEW d, NEW e, NEW f
    PROVE  <<a, b, c, d, e, f>> = Then(a, <<b, c, d, e, f>>)
<1>1. /\ <<a, b, c, d, e, f>> \in Seq({a, b, c, d, e, f}) /\ <<a, b, c, d, e, f>> # <<>>
      /\ Head(<<a, b, c, d, e, f>>) = a
    OBVIOUS
<1>2. Rest(<<a, b, c, d, e, f>>) = <<b, c, d, e, f>> BY DEF Rest
<1>. QED BY <1>1, <1>2, HeadAndRest

LEMMA ConcatTwo ==
    ASSUME NEW a \in Steps, NEW b \in Steps, NEW t \in Seq(Steps)
    PROVE  <<a, b>> \o t = Then(a, Then(b, t))
<1>. DEFINE u == <<a, b>> \o t
<1>1. u \in Seq(Steps) /\ u # <<>> OBVIOUS
<1>2. Head(u) = a /\ Tail(u) = <<b>> \o t OBVIOUS
<1>. HIDE DEF u
<1>3. Rest(u) = Then(b, t) BY <1>1, <1>2 DEF Rest, Then
<1>4. u = Then(a, Then(b, t)) BY <1>1, <1>2, <1>3, LeftSplit
<1>. QED BY <1>4 DEF u

LEMMA ConcatFour ==
    ASSUME NEW t \in Seq(Steps), NEW a, NEW b, NEW c, NEW d
    PROVE  <<a, b, c, d>> \o t = Then(a, Then(b, <<c, d>> \o t))
<1>. DEFINE S == Steps \cup {a, b, c, d}
<1>1. t \in Seq(S) /\ a \in S /\ b \in S /\ c \in S /\ d \in S OBVIOUS
<1>. HIDE DEF S
<1>2. <<a, b, c, d>> \o t = <<a>> \o (<<b, c, d>> \o t) BY <1>1
<1>3. <<b, c, d>> \o t = <<b>> \o (<<c, d>> \o t) BY <1>1
<1>. QED BY <1>2, <1>3 DEF Then

SavesConfig(t) == {Save("config"), Encoding("config")} \cap Left(t) # {}
SavesKeys(t) == {Save("secrets"), Encoding("secrets")} \cap Left(t) # {}

Removals == {"route remove", "saver remove", "provider remove",
             "provider rename", "access remove", "access clear"}

KeyCommands == {"provider add", "provider add wizard", "init", "provider key",
                "provider remove", "provider rename"}

LEMMA ScriptForms ==
    /\ \A cmd \in Edits :
            Script(cmd) = Then(Load, Then(Edit(cmd), Then(Save("config"), <<>>)))
    /\ Script("models") = Then(Load, Then(Keys("look"), Then(Edit("models"), Then(Save("config"), <<>>))))
    /\ Script("provider add") = Then(Load, Then(Edit("provider add"),
            Then(Keys("put"), Then(Save("config"), <<>>))))
    /\ Script("provider add wizard") = Then(Load, Then(Edit("provider add wizard"),
            Then(Keys("put"), Then(Save("config"),
                Then(Edit("enable models"), Then(Save("config"), <<>>))))))
    /\ Script("provider test") = Then(Load, Then(Edit("pick"), Then(Keys("look"),
            Then(Edit("provider test"), Then(Save("config"), <<>>)))))
    /\ Script("provider refresh") = Then(Load, Then(Edit("pick"), Then(Keys("look"),
            Then(Edit("refresh models"), Then(Save("config"), <<>>)))))
    /\ Script("provider models") = Then(Load, Then(Edit("provider models"),
            Then(Save("config"), <<>>)))
    /\ Script("provider url") = Then(Load, Then(Edit("pick"), Then(Save("config"),
            Then(Edit("refresh?"), Then(Keys("look"), Then(Edit("refresh models"),
                Then(Save("config"), <<>>)))))))
    /\ Script("provider remove") = Then(Load, Then(Edit("provider remove"),
            Then(Save("config"), Then(Keys("drop"), <<>>))))
    /\ Script("provider rename") = Then(Load, Then(Edit("provider rename"),
            Then(Keys("move"), Then(Save("config"), <<>>))))
    /\ Script("provider key") = Then(Load, Then(Edit("provider key"),
            Then(Keys("put"), <<>>)))
    /\ Script("init") = Then(Load, Then(Edit("init"),
            Then(Keys("put"), Then(Save("config"), <<>>))))
    /\ Script("pricing set") = Then(Load, Then(LoadPriceTable,
            Then(Edit("pricing set"), Then(Save("prices"), <<>>))))
    /\ Script("pricing remove") = Then(LoadPriceTable,
            Then(Edit("pricing remove"), Then(Save("prices"), <<>>)))
<1>0. \A cmd \in AllCommands \cup {"pick", "refresh?", "enable models", "refresh models"} :
        Edit(cmd) \in Steps
    BY StepSteps
<1>1. ASSUME NEW cmd \in Edits
      PROVE Script(cmd) = Then(Load, Then(Edit(cmd), Then(Save("config"), <<>>)))
    <2>1. Script(cmd) = <<Load, Edit(cmd), Save("config")>> BY DEF Script, Edits
    <2>2. <<Load, Edit(cmd), Save("config")>> = Then(Load, <<Edit(cmd), Save("config")>>)
        BY ThreeSteps
    <2>3. <<Edit(cmd), Save("config")>> = Then(Edit(cmd), <<Save("config")>>) BY TwoSteps
    <2>4. <<Save("config")>> = Then(Save("config"), <<>>) BY OneStep
    <2>. QED BY <2>1, <2>2, <2>3, <2>4
<1>2. Script("models") =
            Then(Load, Then(Keys("look"), Then(Edit("models"),
            Then(Save("config"), <<>>))))
    <2>1. Script("models") =
            <<Load, Keys("look"), Edit("models"), Save("config")>>
        BY DEF Script, Edits
    <2>2. <<Load, Keys("look"), Edit("models"), Save("config")>>
            = Then(Load,
                <<Keys("look"), Edit("models"), Save("config")>>)
        BY FourSteps
    <2>3. <<Keys("look"), Edit("models"), Save("config")>>
            = Then(Keys("look"),
                <<Edit("models"), Save("config")>>)
        BY ThreeSteps
    <2>4. <<Edit("models"), Save("config")>>
            = Then(Edit("models"),
                <<Save("config")>>)
        BY TwoSteps
    <2>5. <<Save("config")>>
            = Then(Save("config"),
                <<>>)
        BY OneStep
    <2>. QED BY <2>1, <2>2, <2>3, <2>4, <2>5
<1>3. Script("provider add") =
            Then(Load, Then(Edit("provider add"), Then(Keys("put"),
            Then(Save("config"), <<>>))))
    <2>1. Script("provider add") =
            <<Load, Edit("provider add"), Keys("put"), Save("config")>>
        BY DEF Script, Edits
    <2>2. <<Load, Edit("provider add"), Keys("put"), Save("config")>>
            = Then(Load,
                <<Edit("provider add"), Keys("put"), Save("config")>>)
        BY FourSteps
    <2>3. <<Edit("provider add"), Keys("put"), Save("config")>>
            = Then(Edit("provider add"),
                <<Keys("put"), Save("config")>>)
        BY ThreeSteps
    <2>4. <<Keys("put"), Save("config")>>
            = Then(Keys("put"),
                <<Save("config")>>)
        BY TwoSteps
    <2>5. <<Save("config")>>
            = Then(Save("config"),
                <<>>)
        BY OneStep
    <2>. QED BY <2>1, <2>2, <2>3, <2>4, <2>5
<1>4. Script("provider add wizard") =
            Then(Load, Then(Edit("provider add wizard"), Then(Keys("put"),
            Then(Save("config"), Then(Edit("enable models"),
            Then(Save("config"), <<>>))))))
    <2>1. Script("provider add wizard") =
            <<Load, Edit("provider add wizard"), Keys("put"), Save("config"),
            Edit("enable models"), Save("config")>>
        BY DEF Script, Edits
    <2>2. <<Load, Edit("provider add wizard"), Keys("put"), Save("config"),
            Edit("enable models"), Save("config")>>
            = Then(Load,
                <<Edit("provider add wizard"), Keys("put"), Save("config"),
                Edit("enable models"), Save("config")>>)
        BY SixSteps
    <2>3. <<Edit("provider add wizard"), Keys("put"), Save("config"),
            Edit("enable models"), Save("config")>>
            = Then(Edit("provider add wizard"),
                <<Keys("put"), Save("config"), Edit("enable models"),
                Save("config")>>)
        BY FiveSteps
    <2>4. <<Keys("put"), Save("config"), Edit("enable models"),
            Save("config")>>
            = Then(Keys("put"),
                <<Save("config"), Edit("enable models"), Save("config")>>)
        BY FourSteps
    <2>5. <<Save("config"), Edit("enable models"), Save("config")>>
            = Then(Save("config"),
                <<Edit("enable models"), Save("config")>>)
        BY ThreeSteps
    <2>6. <<Edit("enable models"), Save("config")>>
            = Then(Edit("enable models"),
                <<Save("config")>>)
        BY TwoSteps
    <2>7. <<Save("config")>>
            = Then(Save("config"),
                <<>>)
        BY OneStep
    <2>. QED BY <2>1, <2>2, <2>3, <2>4, <2>5, <2>6, <2>7
<1>5. Script("provider test") =
            Then(Load, Then(Edit("pick"), Then(Keys("look"),
            Then(Edit("provider test"), Then(Save("config"), <<>>)))))
    <2>1. Script("provider test") =
            <<Load, Edit("pick"), Keys("look"), Edit("provider test"),
            Save("config")>>
        BY DEF Script, Edits
    <2>2. <<Load, Edit("pick"), Keys("look"), Edit("provider test"),
            Save("config")>>
            = Then(Load,
                <<Edit("pick"), Keys("look"), Edit("provider test"),
                Save("config")>>)
        BY FiveSteps
    <2>3. <<Edit("pick"), Keys("look"), Edit("provider test"),
            Save("config")>>
            = Then(Edit("pick"),
                <<Keys("look"), Edit("provider test"), Save("config")>>)
        BY FourSteps
    <2>4. <<Keys("look"), Edit("provider test"), Save("config")>>
            = Then(Keys("look"),
                <<Edit("provider test"), Save("config")>>)
        BY ThreeSteps
    <2>5. <<Edit("provider test"), Save("config")>>
            = Then(Edit("provider test"),
                <<Save("config")>>)
        BY TwoSteps
    <2>6. <<Save("config")>>
            = Then(Save("config"),
                <<>>)
        BY OneStep
    <2>. QED BY <2>1, <2>2, <2>3, <2>4, <2>5, <2>6
<1>6. Script("provider models") =
            Then(Load, Then(Edit("provider models"), Then(Save("config"),
            <<>>)))
    <2>1. Script("provider models") =
            <<Load, Edit("provider models"), Save("config")>>
        BY DEF Script, Edits
    <2>2. <<Load, Edit("provider models"), Save("config")>>
            = Then(Load,
                <<Edit("provider models"), Save("config")>>)
        BY ThreeSteps
    <2>3. <<Edit("provider models"), Save("config")>>
            = Then(Edit("provider models"),
                <<Save("config")>>)
        BY TwoSteps
    <2>4. <<Save("config")>>
            = Then(Save("config"),
                <<>>)
        BY OneStep
    <2>. QED BY <2>1, <2>2, <2>3, <2>4
<1>7. Script("provider remove") =
            Then(Load, Then(Edit("provider remove"), Then(Save("config"),
            Then(Keys("drop"), <<>>))))
    <2>1. Script("provider remove") =
            <<Load, Edit("provider remove"), Save("config"), Keys("drop")>>
        BY DEF Script, Edits, ProviderRemoveSteps
    <2>2. <<Load, Edit("provider remove"), Save("config"), Keys("drop")>>
            = Then(Load,
                <<Edit("provider remove"), Save("config"), Keys("drop")>>)
        BY FourSteps
    <2>3. <<Edit("provider remove"), Save("config"), Keys("drop")>>
            = Then(Edit("provider remove"),
                <<Save("config"), Keys("drop")>>)
        BY ThreeSteps
    <2>4. <<Save("config"), Keys("drop")>>
            = Then(Save("config"),
                <<Keys("drop")>>)
        BY TwoSteps
    <2>5. <<Keys("drop")>>
            = Then(Keys("drop"),
                <<>>)
        BY OneStep
    <2>. QED BY <2>1, <2>2, <2>3, <2>4, <2>5
<1>8. Script("provider rename") =
            Then(Load, Then(Edit("provider rename"), Then(Keys("move"),
            Then(Save("config"), <<>>))))
    <2>1. Script("provider rename") =
            <<Load, Edit("provider rename"), Keys("move"), Save("config")>>
        BY DEF Script, Edits
    <2>2. <<Load, Edit("provider rename"), Keys("move"), Save("config")>>
            = Then(Load,
                <<Edit("provider rename"), Keys("move"), Save("config")>>)
        BY FourSteps
    <2>3. <<Edit("provider rename"), Keys("move"), Save("config")>>
            = Then(Edit("provider rename"),
                <<Keys("move"), Save("config")>>)
        BY ThreeSteps
    <2>4. <<Keys("move"), Save("config")>>
            = Then(Keys("move"),
                <<Save("config")>>)
        BY TwoSteps
    <2>5. <<Save("config")>>
            = Then(Save("config"),
                <<>>)
        BY OneStep
    <2>. QED BY <2>1, <2>2, <2>3, <2>4, <2>5
<1>9. Script("provider key") =
            Then(Load, Then(Edit("provider key"), Then(Keys("put"), <<>>)))
    <2>1. Script("provider key") =
            <<Load, Edit("provider key"), Keys("put")>>
        BY DEF Script, Edits
    <2>2. <<Load, Edit("provider key"), Keys("put")>>
            = Then(Load,
                <<Edit("provider key"), Keys("put")>>)
        BY ThreeSteps
    <2>3. <<Edit("provider key"), Keys("put")>>
            = Then(Edit("provider key"),
                <<Keys("put")>>)
        BY TwoSteps
    <2>4. <<Keys("put")>>
            = Then(Keys("put"),
                <<>>)
        BY OneStep
    <2>. QED BY <2>1, <2>2, <2>3, <2>4
<1>10. Script("init") =
            Then(Load, Then(Edit("init"), Then(Keys("put"),
            Then(Save("config"), <<>>))))
    <2>1. Script("init") =
            <<Load, Edit("init"), Keys("put"), Save("config")>>
        BY DEF Script, Edits
    <2>2. <<Load, Edit("init"), Keys("put"), Save("config")>>
            = Then(Load,
                <<Edit("init"), Keys("put"), Save("config")>>)
        BY FourSteps
    <2>3. <<Edit("init"), Keys("put"), Save("config")>>
            = Then(Edit("init"),
                <<Keys("put"), Save("config")>>)
        BY ThreeSteps
    <2>4. <<Keys("put"), Save("config")>>
            = Then(Keys("put"),
                <<Save("config")>>)
        BY TwoSteps
    <2>5. <<Save("config")>>
            = Then(Save("config"),
                <<>>)
        BY OneStep
    <2>. QED BY <2>1, <2>2, <2>3, <2>4, <2>5
<1>11. Script("pricing set") =
            Then(Load, Then(LoadPriceTable, Then(Edit("pricing set"),
            Then(Save("prices"), <<>>))))
    <2>1. Script("pricing set") =
            <<Load, LoadPriceTable, Edit("pricing set"), Save("prices")>>
        BY DEF Script, Edits
    <2>2. <<Load, LoadPriceTable, Edit("pricing set"), Save("prices")>>
            = Then(Load,
                <<LoadPriceTable, Edit("pricing set"), Save("prices")>>)
        BY FourSteps
    <2>3. <<LoadPriceTable, Edit("pricing set"), Save("prices")>>
            = Then(LoadPriceTable,
                <<Edit("pricing set"), Save("prices")>>)
        BY ThreeSteps
    <2>4. <<Edit("pricing set"), Save("prices")>>
            = Then(Edit("pricing set"),
                <<Save("prices")>>)
        BY TwoSteps
    <2>5. <<Save("prices")>>
            = Then(Save("prices"),
                <<>>)
        BY OneStep
    <2>. QED BY <2>1, <2>2, <2>3, <2>4, <2>5
<1>12. Script("pricing remove") =
            Then(LoadPriceTable, Then(Edit("pricing remove"),
            Then(Save("prices"), <<>>)))
    <2>1. Script("pricing remove") =
            <<LoadPriceTable, Edit("pricing remove"), Save("prices")>>
        BY DEF Script, Edits
    <2>2. <<LoadPriceTable, Edit("pricing remove"), Save("prices")>>
            = Then(LoadPriceTable,
                <<Edit("pricing remove"), Save("prices")>>)
        BY ThreeSteps
    <2>3. <<Edit("pricing remove"), Save("prices")>>
            = Then(Edit("pricing remove"),
                <<Save("prices")>>)
        BY TwoSteps
    <2>4. <<Save("prices")>>
            = Then(Save("prices"),
                <<>>)
        BY OneStep
    <2>. QED BY <2>1, <2>2, <2>3, <2>4
<1>13. RefreshSteps = Then(Keys("look"), Then(Edit("refresh models"), Then(Save("config"), <<>>)))
       /\ RefreshSteps \in Seq(Steps)
    <2>1. \A a, b, c \in Steps : <<a, b, c>> \in Seq(Steps) OBVIOUS
    <2>2. RefreshSteps \in Seq(Steps) BY <2>1, <1>0, StepSteps DEF RefreshSteps
    <2>3. <<Keys("look"), Edit("refresh models"), Save("config")>> = Then(Keys("look"), <<Edit("refresh models"), Save("config")>>) BY ThreeSteps
    <2>4. <<Edit("refresh models"), Save("config")>> = Then(Edit("refresh models"), <<Save("config")>>) BY TwoSteps
    <2>5. <<Save("config")>> = Then(Save("config"), <<>>) BY OneStep
    <2>. QED BY <2>2, <2>3, <2>4, <2>5 DEF RefreshSteps
<1>14. /\ Load \in Steps /\ Save("config") \in Steps
       /\ Edit("pick") \in Steps /\ Edit("refresh?") \in Steps
    BY <1>0, StepSteps
<1>15. Script("provider refresh") = Then(Load, Then(Edit("pick"), Then(Keys("look"),
            Then(Edit("refresh models"), Then(Save("config"), <<>>)))))
    <2>1. Script("provider refresh") = <<Load, Edit("pick")>> \o RefreshSteps
        BY DEF Script, Edits
    <2>2. Script("provider refresh") = Then(Load, Then(Edit("pick"), RefreshSteps))
        BY <2>1, <1>13, <1>14, ConcatTwo
    <2>. QED BY <2>2, <1>13
<1>16. Script("provider url") = Then(Load, Then(Edit("pick"), Then(Save("config"),
            Then(Edit("refresh?"), Then(Keys("look"), Then(Edit("refresh models"),
                Then(Save("config"), <<>>)))))))
    <2>1. Script("provider url") =
            <<Load, Edit("pick"), Save("config"), Edit("refresh?")>> \o RefreshSteps
        BY DEF Script, Edits
    <2>2. <<Load, Edit("pick"), Save("config"), Edit("refresh?")>> \o RefreshSteps
            = Then(Load, Then(Edit("pick"),
                    <<Save("config"), Edit("refresh?")>> \o RefreshSteps))
        <3>1. \A a, b, c, d : <<a, b, c, d>> \o RefreshSteps
                    = Then(a, Then(b, <<c, d>> \o RefreshSteps))
            BY <1>13, ConcatFour
        <3>. QED BY <3>1, Zenon
    <2>3. <<Save("config"), Edit("refresh?")>> \o RefreshSteps
            = Then(Save("config"), Then(Edit("refresh?"), RefreshSteps))
        BY <1>13, <1>14, ConcatTwo
    <2>. QED BY <2>1, <2>2, <2>3, <1>13
<1>. QED BY <1>1, <1>2, <1>3, <1>4, <1>5, <1>6, <1>7, <1>8, <1>9, <1>10, <1>11, <1>12, <1>15, <1>16

\* The commands, by what they do first and what they do then.
QuietSteps == {s \in Steps :
    /\ s[1] \in {"load", "table", "edit", "look", "save", "encode"}
    /\ s[1] = "edit" => s[2] \notin KeyCommands
    /\ s \notin {Save("secrets"), Encoding("secrets")}}

\* A step that may be left once the file is read.
Planned(cmd, s) ==
    /\ s \in Steps /\ s[1] \notin {"load", "encode"} /\ s # Save("secrets")
    /\ s[1] = "edit" => IF cmd \in Removals THEN s = Edit(cmd) ELSE s[2] \notin Removals
    /\ cmd \notin KeyCommands => s \in QuietSteps

Plan(cmd, t) == t \in Seq(Steps) /\ \A s \in Left(t) : Planned(cmd, s)
NoEdit(t) == \A s \in Left(t) : s[1] # "edit"

Opening(cmd) == IF cmd = "pricing remove" THEN LoadPriceTable ELSE Load

LEMMA PlanThen ==
    ASSUME NEW cmd, NEW x, NEW t, Planned(cmd, x), Plan(cmd, t)
    PROVE  Plan(cmd, Then(x, t))
<1>1. x \in Steps /\ t \in Seq(Steps) BY DEF Planned, Plan
<1>2. Then(x, t) \in Seq(Steps) /\ Left(Then(x, t)) = {x} \cup Left(t)
    BY <1>1, LeftThen
<1>. QED BY <1>2 DEF Plan

LEMMA PlanNone == \A cmd : Plan(cmd, <<>>)
<1>1. Left(<<>>) = {} BY DEF Left
<1>2. <<>> \in Seq(Steps) OBVIOUS
<1>. QED BY <1>1, <1>2 DEF Plan

LEMMA NoEditThen ==
    ASSUME NEW x \in Steps, NEW t \in Seq(Steps), x[1] # "edit", NoEdit(t)
    PROVE  NoEdit(Then(x, t))
<1>1. Left(Then(x, t)) = {x} \cup Left(t) BY LeftThen
<1>. QED BY <1>1 DEF NoEdit

LEMMA PlannedSteps ==
    ASSUME NEW cmd \in AllCommands
    PROVE  /\ Planned(cmd, Save("config")) /\ Planned(cmd, Save("prices"))
           /\ Planned(cmd, Keys("look")) /\ Planned(cmd, LoadPriceTable)
           /\ Planned(cmd, Edit(cmd))
           /\ cmd \in KeyCommands =>
                Planned(cmd, Keys("put")) /\ Planned(cmd, Keys("move")) /\ Planned(cmd, Keys("drop"))
           /\ cmd \notin Removals => \A e \in {"pick", "refresh?", "enable models", "refresh models"} :
                    Planned(cmd, Edit(e))
<1>1. /\ Planned(cmd, Save("config")) /\ Planned(cmd, Save("prices"))
      /\ Planned(cmd, Keys("look")) /\ Planned(cmd, LoadPriceTable)
    BY DEF Planned, QuietSteps, Steps, Save, Keys, LoadPriceTable, Encoding
<1>2. Planned(cmd, Edit(cmd))
    BY DEF Planned, QuietSteps, Steps, Save, Edit, Encoding
<1>3. cmd \in KeyCommands =>
                Planned(cmd, Keys("put")) /\ Planned(cmd, Keys("move")) /\ Planned(cmd, Keys("drop"))
    BY DEF Planned, Steps, Save, Keys
<1>4. ASSUME cmd \notin Removals,
             NEW e \in {"pick", "refresh?", "enable models", "refresh models"}
      PROVE  Planned(cmd, Edit(e))
    BY <1>4 DEF Planned, QuietSteps, Steps, Save, Edit, Encoding, Removals, KeyCommands
<1>. QED BY <1>1, <1>2, <1>3, <1>4

LEMMA ScriptPlan ==
    ASSUME NEW cmd \in AllCommands
    PROVE  \E r : Plan(cmd, r) /\ Script(cmd) = Then(Opening(cmd), r)
<1>0. /\ Planned(cmd, Save("config")) /\ Planned(cmd, Save("prices"))
      /\ Planned(cmd, Keys("look")) /\ Planned(cmd, LoadPriceTable)
      /\ Planned(cmd, Edit(cmd)) /\ Plan(cmd, <<>>)
    BY PlannedSteps, PlanNone
<1>1. CASE cmd \in Edits
    <2>1. Script(cmd) = Then(Opening(cmd), Then(Edit(cmd), Then(Save("config"), <<>>)))
        BY <1>1, ScriptForms DEF Opening, Edits
    <2>2. Plan(cmd, Then(Edit(cmd), Then(Save("config"), <<>>)))
        BY <1>0, PlanThen, Zenon
    <2>. QED BY <2>1, <2>2
<1>2. CASE cmd = "models"
    <2>1. Script(cmd) = Then(Opening(cmd), Then(Keys("look"), Then(Edit(cmd), Then(Save("config"), <<>>))))
        BY <1>2, ScriptForms DEF Opening
    <2>2. Plan(cmd, Then(Keys("look"), Then(Edit(cmd), Then(Save("config"), <<>>))))
        BY <1>0, PlanThen, Zenon
    <2>. QED BY <2>1, <2>2
<1>3. CASE cmd = "provider add"
    <2>1. Script(cmd) = Then(Opening(cmd), Then(Edit(cmd), Then(Keys("put"), Then(Save("config"), <<>>))))
        BY <1>3, ScriptForms DEF Opening
    <2>2. Planned(cmd, Keys("put"))
        BY <1>3, PlannedSteps DEF KeyCommands
    <2>3. Plan(cmd, Then(Edit(cmd), Then(Keys("put"), Then(Save("config"), <<>>))))
        BY <1>0, <2>2, PlanThen, Zenon
    <2>. QED BY <2>1, <2>3
<1>4. CASE cmd = "provider add wizard"
    <2>1. Script(cmd) = Then(Opening(cmd), Then(Edit(cmd), Then(Keys("put"), Then(Save("config"),
            Then(Edit("enable models"), Then(Save("config"), <<>>))))))
        BY <1>4, ScriptForms DEF Opening
    <2>2. Planned(cmd, Keys("put")) /\ Planned(cmd, Edit("enable models"))
        BY <1>4, PlannedSteps DEF KeyCommands, Removals
    <2>3. Plan(cmd, Then(Edit(cmd), Then(Keys("put"), Then(Save("config"),
            Then(Edit("enable models"), Then(Save("config"), <<>>))))))
        BY <1>0, <2>2, PlanThen, Zenon
    <2>. QED BY <2>1, <2>3
<1>5. CASE cmd = "provider test"
    <2>1. Script(cmd) = Then(Opening(cmd), Then(Edit("pick"), Then(Keys("look"), Then(Edit(cmd),
            Then(Save("config"), <<>>)))))
        BY <1>5, ScriptForms DEF Opening
    <2>2. Planned(cmd, Edit("pick"))
        BY <1>5, PlannedSteps DEF Removals
    <2>3. Plan(cmd, Then(Edit("pick"), Then(Keys("look"), Then(Edit(cmd),
            Then(Save("config"), <<>>)))))
        BY <1>0, <2>2, PlanThen, Zenon
    <2>. QED BY <2>1, <2>3
<1>6. CASE cmd = "provider refresh"
    <2>1. Script(cmd) = Then(Opening(cmd), Then(Edit("pick"), Then(Keys("look"), Then(Edit("refresh models"),
            Then(Save("config"), <<>>)))))
        BY <1>6, ScriptForms DEF Opening
    <2>2. Planned(cmd, Edit("pick")) /\ Planned(cmd, Edit("refresh models"))
        BY <1>6, PlannedSteps DEF Removals
    <2>3. Plan(cmd, Then(Edit("pick"), Then(Keys("look"), Then(Edit("refresh models"),
            Then(Save("config"), <<>>)))))
        BY <1>0, <2>2, PlanThen, Zenon
    <2>. QED BY <2>1, <2>3
<1>7. CASE cmd = "provider models"
    <2>1. Script(cmd) = Then(Opening(cmd), Then(Edit(cmd), Then(Save("config"), <<>>)))
        BY <1>7, ScriptForms DEF Opening
    <2>2. Plan(cmd, Then(Edit(cmd), Then(Save("config"), <<>>)))
        BY <1>0, PlanThen, Zenon
    <2>. QED BY <2>1, <2>2
<1>8. CASE cmd = "provider url"
    <2>1. Script(cmd) = Then(Opening(cmd), Then(Edit("pick"), Then(Save("config"), Then(Edit("refresh?"),
            Then(Keys("look"), Then(Edit("refresh models"),
            Then(Save("config"), <<>>)))))))
        BY <1>8, ScriptForms DEF Opening
    <2>2. Planned(cmd, Edit("pick")) /\ Planned(cmd, Edit("refresh?")) /\ Planned(cmd, Edit("refresh models"))
        BY <1>8, PlannedSteps DEF Removals
    <2>3. Plan(cmd, Then(Edit("pick"), Then(Save("config"), Then(Edit("refresh?"),
            Then(Keys("look"), Then(Edit("refresh models"),
            Then(Save("config"), <<>>)))))))
        BY <1>0, <2>2, PlanThen, Zenon
    <2>. QED BY <2>1, <2>3
<1>9. CASE cmd = "provider remove"
    <2>1. Script(cmd) = Then(Opening(cmd), Then(Edit(cmd), Then(Save("config"), Then(Keys("drop"), <<>>))))
        BY <1>9, ScriptForms DEF Opening
    <2>2. Planned(cmd, Keys("drop"))
        BY <1>9, PlannedSteps DEF KeyCommands
    <2>3. Plan(cmd, Then(Edit(cmd), Then(Save("config"), Then(Keys("drop"), <<>>))))
        BY <1>0, <2>2, PlanThen, Zenon
    <2>. QED BY <2>1, <2>3
<1>10. CASE cmd = "provider rename"
    <2>1. Script(cmd) = Then(Opening(cmd), Then(Edit(cmd), Then(Keys("move"), Then(Save("config"), <<>>))))
        BY <1>10, ScriptForms DEF Opening
    <2>2. Planned(cmd, Keys("move"))
        BY <1>10, PlannedSteps DEF KeyCommands
    <2>3. Plan(cmd, Then(Edit(cmd), Then(Keys("move"), Then(Save("config"), <<>>))))
        BY <1>0, <2>2, PlanThen, Zenon
    <2>. QED BY <2>1, <2>3
<1>11. CASE cmd = "provider key"
    <2>1. Script(cmd) = Then(Opening(cmd), Then(Edit(cmd), Then(Keys("put"), <<>>)))
        BY <1>11, ScriptForms DEF Opening
    <2>2. Planned(cmd, Keys("put"))
        BY <1>11, PlannedSteps DEF KeyCommands
    <2>3. Plan(cmd, Then(Edit(cmd), Then(Keys("put"), <<>>)))
        BY <1>0, <2>2, PlanThen, Zenon
    <2>. QED BY <2>1, <2>3
<1>12. CASE cmd = "init"
    <2>1. Script(cmd) = Then(Opening(cmd), Then(Edit(cmd), Then(Keys("put"), Then(Save("config"), <<>>))))
        BY <1>12, ScriptForms DEF Opening
    <2>2. Planned(cmd, Keys("put"))
        BY <1>12, PlannedSteps DEF KeyCommands
    <2>3. Plan(cmd, Then(Edit(cmd), Then(Keys("put"), Then(Save("config"), <<>>))))
        BY <1>0, <2>2, PlanThen, Zenon
    <2>. QED BY <2>1, <2>3
<1>13. CASE cmd = "pricing set"
    <2>1. Script(cmd) = Then(Opening(cmd), Then(LoadPriceTable, Then(Edit(cmd), Then(Save("prices"), <<>>))))
        BY <1>13, ScriptForms DEF Opening
    <2>2. Plan(cmd, Then(LoadPriceTable, Then(Edit(cmd), Then(Save("prices"), <<>>))))
        BY <1>0, PlanThen, Zenon
    <2>. QED BY <2>1, <2>2
<1>14. CASE cmd = "pricing remove"
    <2>1. Script(cmd) = Then(Opening(cmd), Then(Edit(cmd), Then(Save("prices"), <<>>)))
        BY <1>14, ScriptForms DEF Opening
    <2>2. Plan(cmd, Then(Edit(cmd), Then(Save("prices"), <<>>)))
        BY <1>0, PlanThen, Zenon
    <2>. QED BY <2>1, <2>2
<1>. QED BY <1>1, <1>2, <1>3, <1>4, <1>5, <1>6, <1>7, <1>8, <1>9, <1>10, <1>11, <1>12, <1>13, <1>14 DEF AllCommands

----------------------------------------------------------------------------
(* The shape of what is left to do.                                        *)

\* The shape of what a command has left to do: only the next step may be the
\* load or the second half of a save, and a command that removes something has
\* that one change to make, next or after the load.
Shape(j) ==
    /\ \A s \in Left(Rest(j.todo)) : s[1] \notin {"load", "encode"}
    /\ j.cmd \in Removals => \A s \in Left(j.todo) : s[1] = "edit" =>
            s = Edit(j.cmd) /\ j.todo \in {Script(j.cmd), Rest(Script(j.cmd))}
    /\ j.cmd \notin Removals =>
            \A s \in Left(j.todo) : s[1] = "edit" => s[2] \notin Removals

ShapeInv == \A p \in Procs : Shape(job[p])

LEMMA RemovalScript ==
    ASSUME NEW cmd \in Removals
    PROVE  \E t \in Seq(Steps) : /\ Script(cmd) = Then(Load, Then(Edit(cmd), t))
                                 /\ NoEdit(t) /\ Edit(cmd) \in Steps
<1>1. /\ Save("config") \in Steps /\ Keys("drop") \in Steps /\ Keys("move") \in Steps
    BY StepSteps
<1>2. Edit(cmd) \in Steps BY StepSteps DEF Removals, AllCommands, Edits
<1>3. <<>> \in Seq(Steps) /\ NoEdit(<<>>) BY LeftNone DEF NoEdit
<1>4. /\ Save("config")[1] # "edit" /\ Keys("drop")[1] # "edit" /\ Keys("move")[1] # "edit"
    BY DEF Save, Keys
<1>5. /\ Then(Save("config"), <<>>) \in Seq(Steps) /\ NoEdit(Then(Save("config"), <<>>))
      /\ Then(Keys("drop"), <<>>) \in Seq(Steps) /\ NoEdit(Then(Keys("drop"), <<>>))
    BY <1>1, <1>3, <1>4, LeftThen, NoEditThen
<1>6. /\ Then(Save("config"), Then(Keys("drop"), <<>>)) \in Seq(Steps)
      /\ NoEdit(Then(Save("config"), Then(Keys("drop"), <<>>)))
      /\ Then(Keys("move"), Then(Save("config"), <<>>)) \in Seq(Steps)
      /\ NoEdit(Then(Keys("move"), Then(Save("config"), <<>>)))
    BY <1>1, <1>4, <1>5, LeftThen, NoEditThen
<1>7. CASE cmd \in Edits
    <2>1. Script(cmd) = Then(Load, Then(Edit(cmd), Then(Save("config"), <<>>)))
        BY <1>7, ScriptForms
    <2>. QED BY <1>2, <1>5, <2>1
<1>8. CASE cmd = "provider remove"
    <2>1. Script(cmd) = Then(Load, Then(Edit(cmd), Then(Save("config"), Then(Keys("drop"), <<>>))))
        BY <1>8, ScriptForms
    <2>. QED BY <1>2, <1>6, <2>1
<1>9. CASE cmd = "provider rename"
    <2>1. Script(cmd) = Then(Load, Then(Edit(cmd), Then(Keys("move"), Then(Save("config"), <<>>))))
        BY <1>9, ScriptForms
    <2>. QED BY <1>2, <1>6, <2>1
<1>. QED BY <1>7, <1>8, <1>9 DEF Removals, Edits

\* Where the change of a removal is in its script.
LEMMA RemovalTwice ==
    ASSUME NEW cmd \in Removals
    PROVE  /\ Script(cmd) # <<>> /\ Head(Script(cmd)) = Load
           /\ Rest(Script(cmd)) # <<>> /\ Head(Rest(Script(cmd))) = Edit(cmd)
           /\ NoEdit(Rest(Rest(Script(cmd))))
           /\ Script(cmd) \in Seq(Steps) /\ Rest(Script(cmd)) \in Seq(Steps)
<1>1. PICK t \in Seq(Steps) : /\ Script(cmd) = Then(Load, Then(Edit(cmd), t))
                              /\ NoEdit(t) /\ Edit(cmd) \in Steps
    BY RemovalScript
<1>2. Load \in Steps BY StepSteps
<1>. DEFINE u == Then(Edit(cmd), t)
<1>3. u \in Seq(Steps) /\ u # <<>> /\ Head(u) = Edit(cmd) /\ Rest(u) = t
    BY <1>1, LeftThen
<1>. HIDE DEF u
<1>4. /\ Then(Load, u) \in Seq(Steps) /\ Then(Load, u) # <<>>
      /\ Head(Then(Load, u)) = Load /\ Rest(Then(Load, u)) = u
    BY <1>2, <1>3, LeftThen
<1>5. Script(cmd) = Then(Load, u) BY <1>1 DEF u
<1>. QED BY <1>1, <1>3, <1>4, <1>5

LEMMA ShapeIdle == Shape(Idle)
<1>1. Idle.todo = <<>> /\ Idle.cmd = "none" BY DEF Idle
<1>2. Left(<<>>) = {} /\ Rest(<<>>) = <<>> BY LeftNone
<1>. QED BY <1>1, <1>2 DEF Shape, Removals

LEMMA ShapeBegin ==
    ASSUME NEW cmd \in AllCommands, NEW j, j.cmd = cmd, j.todo = Script(cmd)
    PROVE  Shape(j)
<1>1. PICK r : Plan(cmd, r) /\ Script(cmd) = Then(Opening(cmd), r) BY ScriptPlan
<1>2. Opening(cmd) \in Steps /\ Opening(cmd)[1] # "edit"
    BY StepSteps DEF Opening, Load, LoadPriceTable
<1>3. Rest(j.todo) = r /\ Left(j.todo) = {Opening(cmd)} \cup Left(r)
    BY <1>1, <1>2, LeftThen DEF Plan
<1>4. \A s \in Left(r) : Planned(cmd, s) BY <1>1 DEF Plan
<1>. QED BY <1>2, <1>3, <1>4 DEF Shape, Planned

\* One step done.
LEMMA ShapeRest ==
    ASSUME NEW j, Shape(j), j.todo \in Seq(Steps),
           NEW k, k.cmd = j.cmd, k.todo = Rest(j.todo)
    PROVE  Shape(k)
<1>1. /\ Left(Rest(k.todo)) \subseteq Left(k.todo) /\ Left(k.todo) \subseteq Left(j.todo)
    BY LeftSplit
<1>2. \A s \in Left(Rest(k.todo)) : s[1] \notin {"load", "encode"}
    BY <1>1 DEF Shape
<1>3. ASSUME k.cmd \in Removals, NEW s \in Left(k.todo), s[1] = "edit"
      PROVE  s = Edit(k.cmd) /\ k.todo \in {Script(k.cmd), Rest(Script(k.cmd))}
    <2>1. s = Edit(j.cmd) /\ j.todo \in {Script(j.cmd), Rest(Script(j.cmd))}
        BY <1>1, <1>3 DEF Shape
    <2>2. j.todo # Rest(Script(j.cmd))
        BY <1>3, RemovalTwice DEF NoEdit
    <2>. QED BY <2>1, <2>2
<1>4. ASSUME k.cmd \notin Removals, NEW s \in Left(k.todo), s[1] = "edit"
      PROVE  s[2] \notin Removals
    BY <1>1, <1>4 DEF Shape
<1>. QED BY <1>2, <1>3, <1>4 DEF Shape

\* Once past the load, no step brings another change with it, and the change
\* of a removal is made once.
LEMMA ShapePushed ==
    ASSUME NEW j, Shape(j), j.todo \in Seq(Steps), j.todo # <<>>,
           Head(j.todo)[1] # "load",
           NEW k, k.cmd = j.cmd, NEW X, \A s \in X : s[1] # "edit",
           Left(k.todo) \subseteq X \cup Left(Rest(j.todo)),
           \A s \in Left(Rest(k.todo)) : s[1] \notin {"load", "encode"}
    PROVE  Shape(k) /\ (j.cmd \in Removals => NoEdit(k.todo))
<1>1. Left(Rest(j.todo)) \subseteq Left(j.todo) BY LeftSplit
<1>2. ASSUME j.cmd \in Removals, NEW s \in Left(k.todo), s[1] = "edit" PROVE FALSE
    <2>1. s \in Left(Rest(j.todo)) BY <1>2
    <2>2. j.todo \in {Script(j.cmd), Rest(Script(j.cmd))} BY <1>1, <1>2, <2>1 DEF Shape
    <2>3. Load[1] = "load" BY DEF Load
    <2>. QED BY <1>2, <2>1, <2>2, <2>3, RemovalTwice DEF NoEdit
<1>3. ASSUME j.cmd \notin Removals, NEW s \in Left(k.todo), s[1] = "edit"
      PROVE  s[2] \notin Removals
    BY <1>1, <1>3 DEF Shape
<1>. QED BY <1>2, <1>3 DEF Shape, NoEdit

----------------------------------------------------------------------------
(* What the changes of a command take out of a configuration.              *)

\* Nothing is taken out of old.
Grown(old, new) ==
    /\ DOMAIN old.routes \subseteq DOMAIN new.routes
    /\ DOMAIN old.providers \subseteq DOMAIN new.providers
    /\ old.savers \subseteq new.savers
    /\ old.access \subseteq new.access

\* The same providers, with and without a key.
Same(c, d) == Keyed(c) = Keyed(d) /\ Known(c) = Known(d)

Single(S) == \E x : S = {x}

\* Keeps, for two configurations that parse.
Trimmed(cmd, name, old, new) ==
    /\ \/ DOMAIN old.routes \subseteq DOMAIN new.routes
       \/ cmd = "route remove" /\ Single(DOMAIN old.routes \ DOMAIN new.routes)
    /\ \/ DOMAIN old.providers \subseteq DOMAIN new.providers
       \/ /\ cmd \in {"provider remove", "provider rename"}
          /\ DOMAIN old.providers \ DOMAIN new.providers = {name}
    /\ \/ old.savers \subseteq new.savers
       \/ cmd = "saver remove" /\ Single(old.savers \ new.savers)
    /\ \/ old.access \subseteq new.access
       \/ cmd \in {"access remove", "access clear"}

LEMMA TrimmedKeeps ==
    ASSUME NEW p, NEW old, NEW new, old # Garbled, new # Garbled,
           Trimmed(job[p].cmd, job[p].name, old, new)
    PROVE  Keeps(p, old, new)
<1>1. \A S : Single(S) => Cardinality(S) = 1 BY FS_Singleton DEF Single
<1>. QED BY <1>1 DEF Trimmed, Keeps

LEMMA GrownTrimmed ==
    ASSUME NEW cmd, NEW name, NEW old, NEW new, Grown(old, new)
    PROVE  Trimmed(cmd, name, old, new)
BY DEF Grown, Trimmed

LEMMA GrownTwice ==
    ASSUME NEW c, NEW d, NEW e, Grown(c, d), Grown(d, e)
    PROVE  Grown(c, e)
BY DEF Grown

LEMMA GrownSelf == ASSUME NEW c PROVE Grown(c, c)
BY DEF Grown

----------------------------------------------------------------------------
(* What the changes take out and put in.                                   *)

\* One field is replaced: the others stay.
LEMMA FieldChange ==
    ASSUME NEW c, Sound(c)
    PROVE  /\ \A v, r : LET d == [c EXCEPT !.routes = v, !.active = r] IN
                /\ d.routes = v /\ d.providers = c.providers
                /\ d.savers = c.savers /\ d.access = c.access
           /\ \A v : LET d == [c EXCEPT !.routes = v] IN
                /\ d.routes = v /\ d.providers = c.providers
                /\ d.savers = c.savers /\ d.access = c.access
           /\ \A r : LET d == [c EXCEPT !.active = r] IN
                /\ d.routes = c.routes /\ d.providers = c.providers
                /\ d.savers = c.savers /\ d.access = c.access
           /\ \A v, s : LET d == [c EXCEPT !.savers = v, !.saverDefault = s] IN
                /\ d.routes = c.routes /\ d.providers = c.providers
                /\ d.savers = v /\ d.access = c.access
           /\ \A v : LET d == [c EXCEPT !.savers = v] IN
                /\ d.routes = c.routes /\ d.providers = c.providers
                /\ d.savers = v /\ d.access = c.access
           /\ \A s : LET d == [c EXCEPT !.saverDefault = s] IN
                /\ d.routes = c.routes /\ d.providers = c.providers
                /\ d.savers = c.savers /\ d.access = c.access
           /\ \A v : LET d == [c EXCEPT !.access = v] IN
                /\ d.routes = c.routes /\ d.providers = c.providers
                /\ d.savers = c.savers /\ d.access = v
           /\ \A v : LET d == [c EXCEPT !.settings = v] IN
                /\ d.routes = c.routes /\ d.providers = c.providers
                /\ d.savers = c.savers /\ d.access = c.access
           /\ \A v : LET d == [c EXCEPT !.providers = v] IN
                /\ d.routes = c.routes /\ d.providers = v
                /\ d.savers = c.savers /\ d.access = c.access
BY DEF Sound, Configs

\* The changes that take nothing out and leave the providers alone.
LEMMA KeptByRoutes ==
    ASSUME NEW c, Sound(c), NEW d,
           d \in RouteAdd(c) \cup RouteAddWizard(c) \cup RouteUse(c) \cup RouteEditWizard(c)
    PROVE  Grown(c, d) /\ Same(c, d)
<1>1. /\ d.providers = c.providers /\ d.savers = c.savers /\ d.access = c.access
      /\ DOMAIN c.routes \subseteq DOMAIN d.routes
    <2>1. CASE d \in RouteAdd(c) \cup RouteAddWizard(c)
        <3>1. PICK r, ms : d = Activate([c EXCEPT !.routes = Put(@, r, ms)], r)
            BY <2>1 DEF RouteAdd, RouteAddWizard
        <3>2. DOMAIN Put(c.routes, r, ms) = DOMAIN c.routes \cup {r} BY DEF Put
        <3>. QED BY <3>1, <3>2 DEF Activate, Sound, Configs
    <2>2. CASE d \in RouteUse(c)
        <3>1. PICK r : d = [c EXCEPT !.active = r] BY <2>2 DEF RouteUse
        <3>. QED BY <3>1, FieldChange
    <2>3. CASE d \in RouteEditWizard(c)
        <3>0. PICK r \in DOMAIN c.routes : \E ms \in Reworked(c, r) :
                    d = [c EXCEPT !.routes = Put(@, r, ms)]
            BY <2>3 DEF RouteEditWizard
        <3>1. PICK ms : d = [c EXCEPT !.routes = Put(@, r, ms)]
            BY <3>0
        <3>2. DOMAIN Put(c.routes, r, ms) = DOMAIN c.routes \cup {r} BY DEF Put
        <3>. QED BY <3>1, <3>2, FieldChange
    <2>. QED BY <2>1, <2>2, <2>3
<1>. QED BY <1>1 DEF Grown, Same, Keyed, Known

LEMMA KeptByOthers ==
    ASSUME NEW c, Sound(c), NEW d,
           d \in SaverAdd(c) \cup SaverAddWizard(c) \cup SaverDefault(c)
                \cup AccessAllow(c) \cup AccessDeny(c) \cup ConfigSet(c)
                \cup StartSettings(c) \cup InitDomain(c)
    PROVE  Grown(c, d) /\ Same(c, d)
<1>1. /\ d.providers = c.providers /\ d.routes = c.routes
      /\ c.savers \subseteq d.savers /\ c.access \subseteq d.access
    <2>1. CASE d \in SaverAdd(c) \cup SaverAddWizard(c)
        <3>1. PICK s : d = [c EXCEPT !.savers = @ \cup {s}]
            BY <2>1 DEF SaverAdd, SaverAddWizard
        <3>. QED BY <3>1, FieldChange
    <2>2. CASE d \in SaverDefault(c)
        <3>1. PICK s : d = [c EXCEPT !.saverDefault = s] BY <2>2 DEF SaverDefault
        <3>. QED BY <3>1, FieldChange
    <2>3. CASE d \in AccessAllow(c) \cup AccessDeny(c)
        <3>1. PICK x : d = [c EXCEPT !.access = @ \cup {x}]
            BY <2>3 DEF AccessAllow, AccessDeny
        <3>. QED BY <3>1, FieldChange
    <2>4. CASE d \in ConfigSet(c) \cup StartSettings(c) \cup InitDomain(c)
        <3>1. PICK v : d = [c EXCEPT !.settings = v]
            BY <2>4 DEF ConfigSet, StartSettings, InitDomain
        <3>. QED BY <3>1, FieldChange
    <2>. QED BY <2>1, <2>2, <2>3, <2>4
<1>. QED BY <1>1 DEF Grown, Same, Keyed, Known

LEMMA KeptByModels ==
    ASSUME NEW c, Sound(c), NEW d \in ModelsRefresh(c)
    PROVE  Grown(c, d) /\ Same(c, d)
<1>1. PICK lists \in [DOMAIN c.providers -> BOOLEAN] :
        d = [c EXCEPT !.providers =
                [n \in DOMAIN @ |-> [keyed |-> @[n].keyed, listed |-> lists[n]]]]
    BY DEF ModelsRefresh
<1>. DEFINE v == [n \in DOMAIN c.providers |->
                    [keyed |-> c.providers[n].keyed, listed |-> lists[n]]]
<1>2. DOMAIN v = DOMAIN c.providers /\ \A n \in DOMAIN v : v[n].keyed = c.providers[n].keyed
    OBVIOUS
<1>3. d = [c EXCEPT !.providers = v] BY <1>1
<1>. HIDE DEF v
<1>4. d.providers = v /\ d.routes = c.routes /\ d.savers = c.savers /\ d.access = c.access
    BY <1>3, FieldChange
<1>. QED BY <1>2, <1>4 DEF Grown, Same, Keyed, Known

\* A provider is added or given other facts.
LEMMA ProviderPut ==
    ASSUME NEW c, Sound(c), NEW n, NEW k
    PROVE  LET d == WithProvider(c, n, k) IN
           /\ Grown(c, d) /\ Known(d) = Known(c) \cup {n}
           /\ Keyed(d) \subseteq Keyed(c) \cup (IF k.keyed THEN {n} ELSE {})
           /\ n \in Known(c) /\ k.keyed = c.providers[n].keyed => Same(c, d)
<1>. DEFINE v == Put(c.providers, n, k)
            d == WithProvider(c, n, k)
<1>1. /\ DOMAIN v = DOMAIN c.providers \cup {n}
      /\ \A m \in DOMAIN v : v[m] = IF m = n THEN k ELSE c.providers[m]
    BY DEF Put
<1>2. d = [c EXCEPT !.providers = v] BY DEF WithProvider
<1>. HIDE DEF v, d
<1>3. d.providers = v /\ d.routes = c.routes /\ d.savers = c.savers /\ d.access = c.access
    BY <1>2, FieldChange
<1>4. Grown(c, d) /\ Known(d) = Known(c) \cup {n} BY <1>1, <1>3 DEF Grown, Known
<1>5. Keyed(d) \subseteq Keyed(c) \cup (IF k.keyed THEN {n} ELSE {})
    BY <1>1, <1>3 DEF Keyed
<1>6. n \in Known(c) /\ k.keyed = c.providers[n].keyed => Same(c, d)
    BY <1>1, <1>3, <1>4 DEF Keyed, Known, Same
<1>. QED BY <1>4, <1>5, <1>6 DEF d

\* What a removal takes out of a copy that has all of old.
LEMMA RemovalTrims ==
    ASSUME NEW c, Sound(c), NEW old, Grown(old, c), NEW name, NEW d, NEW e,
           \/ e = "route remove" /\ d \in RouteRemove(c)
           \/ e = "saver remove" /\ d \in SaverRemove(c)
           \/ e = "access remove" /\ d \in AccessRemoveWizard(c)
           \/ e = "access clear" /\ d \in AccessClear(c)
    PROVE  Trimmed(e, name, old, d) /\ Same(c, d)
<1>1. CASE e = "route remove"
    <2>0. PICK r \in DOMAIN c.routes : \E h \in Heirs(c, r) :
                d = [c EXCEPT !.routes = Without(@, r), !.active = h]
        BY <1>1 DEF RouteRemove
    <2>1. PICK h : d = [c EXCEPT !.routes = Without(@, r), !.active = h]
        BY <2>0
    <2>2. DOMAIN Without(c.routes, r) = DOMAIN c.routes \ {r} BY DEF Without
    <2>3. /\ d.routes = Without(c.routes, r) /\ d.providers = c.providers
          /\ d.savers = c.savers /\ d.access = c.access
        BY <2>1 DEF Sound, Configs
    <2>4. \/ DOMAIN old.routes \subseteq DOMAIN d.routes
          \/ DOMAIN old.routes \ DOMAIN d.routes = {r}
        BY <2>2, <2>3 DEF Grown
    <2>. QED BY <1>1, <2>3, <2>4 DEF Grown, Trimmed, Same, Keyed, Known, Single
<1>2. CASE e = "saver remove"
    <2>1. PICK s \in c.savers :
            d = [c EXCEPT !.savers = @ \ {s},
                          !.saverDefault = IF @ = s THEN None ELSE @]
        BY <1>2 DEF SaverRemove
    <2>2. PICK t : d = [c EXCEPT !.savers = c.savers \ {s}, !.saverDefault = t]
        BY <2>1
    <2>3. /\ d.routes = c.routes /\ d.providers = c.providers
          /\ d.savers = c.savers \ {s} /\ d.access = c.access
        BY <2>2 DEF Sound, Configs
    <2>4. old.savers \subseteq d.savers \/ old.savers \ d.savers = {s}
        BY <2>3 DEF Grown
    <2>. QED BY <1>2, <2>3, <2>4 DEF Grown, Trimmed, Same, Keyed, Known, Single
<1>3. CASE e \in {"access remove", "access clear"}
    <2>1. PICK v : d = [c EXCEPT !.access = v]
        BY <1>3 DEF AccessRemoveWizard, AccessClear
    <2>2. /\ d.routes = c.routes /\ d.providers = c.providers /\ d.savers = c.savers
        BY <2>1 DEF Sound, Configs
    <2>. QED BY <1>3, <2>2 DEF Grown, Trimmed, Same, Keyed, Known
<1>. QED BY <1>1, <1>2, <1>3

\* The parts of a job are replaced one by one.
LEMMA JobChange ==
    ASSUME NEW j, j \in Jobs
    PROVE  /\ \A c : LET k == [j EXCEPT !.config = c] IN
                k.cmd = j.cmd /\ k.todo = j.todo /\ k.config = c
                /\ k.name = j.name /\ k.key = j.key /\ k.new = j.new /\ k.secrets = j.secrets
           /\ \A c, n, b : LET k == [j EXCEPT !.config = c, !.name = n, !.key = b] IN
                k.cmd = j.cmd /\ k.todo = j.todo /\ k.config = c /\ k.name = n /\ k.key = b
           /\ \A c, n, m : LET k == [j EXCEPT !.config = c, !.name = n, !.new = m] IN
                k.cmd = j.cmd /\ k.todo = j.todo /\ k.config = c /\ k.name = n /\ k.new = m
           /\ \A c, n : LET k == [j EXCEPT !.config = c, !.name = n] IN
                k.cmd = j.cmd /\ k.todo = j.todo /\ k.config = c /\ k.name = n
           /\ \A n, b : LET k == [j EXCEPT !.name = n, !.key = b] IN
                k.cmd = j.cmd /\ k.todo = j.todo /\ k.config = j.config /\ k.name = n /\ k.key = b
           /\ \A n : LET k == [j EXCEPT !.name = n] IN
                k.cmd = j.cmd /\ k.todo = j.todo /\ k.config = j.config /\ k.name = n
           /\ \A t : LET k == [j EXCEPT !.todo = t] IN
                k.cmd = j.cmd /\ k.todo = t /\ k.config = j.config
                /\ k.name = j.name /\ k.key = j.key /\ k.new = j.new /\ k.secrets = j.secrets
           /\ \A t, S : LET k == [j EXCEPT !.secrets = S, !.todo = t] IN
                k.cmd = j.cmd /\ k.todo = t /\ k.config = j.config
                /\ k.name = j.name /\ k.key = j.key /\ k.new = j.new /\ k.secrets = S
           /\ \A P : LET k == [j EXCEPT !.prices = P] IN
                k.cmd = j.cmd /\ k.todo = j.todo /\ k.config = j.config
                /\ k.name = j.name /\ k.key = j.key /\ k.new = j.new /\ k.secrets = j.secrets
BY DEF Jobs

\* A change that leaves the command and its providers alone.
QuietChange(i, k) ==
    /\ k.cmd = i.cmd /\ k.todo \in {i.todo, Rest(i.todo), <<>>}
    /\ Grown(i.config, k.config) /\ Same(i.config, k.config)

LEMMA QuietTurned ==
    ASSUME NEW i, SoundJob(i), NEW configs,
           \A c \in configs : Grown(i.config, c) /\ Same(i.config, c),
           NEW k \in Turned(i, configs)
    PROVE  QuietChange(i, k)
<1>1. PICK c \in configs : k = [i EXCEPT !.config = c] BY DEF Turned
<1>2. k.cmd = i.cmd /\ k.todo = i.todo /\ k.config = c
    BY <1>1, JobChange DEF SoundJob
<1>. QED BY <1>2 DEF QuietChange

LEMMA SameSelf == ASSUME NEW c PROVE Grown(c, c) /\ Same(c, c)
BY DEF Grown, Same

LEMMA QuietCatalog ==
    ASSUME NEW j, SoundJob(j), NEW lists \in SUBSET BOOLEAN,
           NEW k \in WithCatalog(j, lists)
    PROVE  QuietChange(j, k)
<1>1. PICK n \in {j.name} \cap DOMAIN j.config.providers, l \in lists :
        k = [j EXCEPT !.config =
                WithProvider(@, n, [@.providers[n] EXCEPT !.listed = l])]
    BY DEF WithCatalog
<1>. DEFINE f == [j.config.providers[n] EXCEPT !.listed = l]
<1>2. Sound(j.config) /\ j \in Jobs BY DEF SoundJob
<1>3. j.config.providers[n] \in ProviderFacts BY <1>1, <1>2, FieldsOf
<1>4. f.keyed = j.config.providers[n].keyed BY <1>3 DEF ProviderFacts
<1>5. k = [j EXCEPT !.config = WithProvider(j.config, n, f)] BY <1>1
<1>6. k.cmd = j.cmd /\ k.todo = j.todo /\ k.config = WithProvider(j.config, n, f)
    BY <1>2, <1>5, JobChange
<1>7. n \in Known(j.config) BY <1>1 DEF Known
<1>. HIDE DEF f
<1>. QED BY <1>2, <1>4, <1>6, <1>7, ProviderPut DEF QuietChange

LEMMA InitRouteKept ==
    ASSUME NEW c, Sound(c), NEW d \in InitRoute(c)
    PROVE  Grown(c, d) /\ Same(c, d)
<1>1. PICK r \in Routes, ms \in Typed, v \in Settings : d = WithRoute(c, r, ms, v)
    BY DEF InitRoute
<1>2. /\ d.routes = Put(c.routes, r, ms) /\ d.providers = c.providers
      /\ d.savers = c.savers /\ d.access = c.access
    BY <1>1 DEF WithRoute, Sound, Configs
<1>3. DOMAIN Put(c.routes, r, ms) = DOMAIN c.routes \cup {r} BY DEF Put
<1>. QED BY <1>2, <1>3 DEF Grown, Same, Keyed, Known

QuietProviderEdits(i) ==
    PickProvider(i) \cup ProviderTest(i) \cup EnableModels(i) \cup RefreshModels(i)
        \cup ProviderChooseModels(i) \cup PricingSet(i) \cup PricingRemove(i)
        \cup InitKnown(i) \cup {i, [i EXCEPT !.todo = <<>>]}

LEMMA QuietProviders ==
    ASSUME NEW i, SoundJob(i), NEW k \in QuietProviderEdits(i)
    PROVE  QuietChange(i, k)
<1>0. Sound(i.config) /\ i \in Jobs BY DEF SoundJob
<1>1. CASE k \in PickProvider(i)
    <2>1. PICK n : k = [i EXCEPT !.name = n] BY <1>1 DEF PickProvider
    <2>2. k.cmd = i.cmd /\ k.todo = i.todo /\ k.config = i.config BY <1>0, <2>1, JobChange
    <2>. QED BY <2>2, SameSelf DEF QuietChange
<1>2. CASE k = [i EXCEPT !.todo = Rest(@)] \/ k = [i EXCEPT !.todo = <<>>]
    <2>1. PICK t \in {Rest(i.todo), <<>>} : k = [i EXCEPT !.todo = t] BY <1>2
    <2>2. k.cmd = i.cmd /\ k.todo = t /\ k.config = i.config
        BY <1>0, <2>1, JobChange
    <2>. QED BY <2>2, SameSelf DEF QuietChange
<1>3. CASE k \in ProviderTest(i) \cup EnableModels(i) \cup RefreshModels(i)
    BY <1>2, <1>3, QuietCatalog DEF ProviderTest, EnableModels, RefreshModels
<1>4. CASE k \in ProviderChooseModels(i)
    <2>1. PICK n \in Listed(i.config) : k \in WithCatalog([i EXCEPT !.name = n], {TRUE})
        BY <1>4 DEF ProviderChooseModels
    <2>. DEFINE h == [i EXCEPT !.name = n]
    <2>2. n \in Providers BY <1>0, <2>1, FieldsOf DEF Listed
    <2>3. SoundJob(h) BY <2>2, JobNames
    <2>4. h.cmd = i.cmd /\ h.todo = i.todo /\ h.config = i.config BY <1>0, JobChange
    <2>. HIDE DEF h
    <2>5. k \in WithCatalog(h, {TRUE}) BY <2>1 DEF h
    <2>6. QuietChange(h, k) BY <2>3, <2>5, QuietCatalog
    <2>. QED BY <2>4, <2>6 DEF QuietChange
<1>5. CASE k \in PricingSet(i) \cup PricingRemove(i)
    <2>1. PICK P : k = [i EXCEPT !.prices = P] BY <1>5 DEF PricingSet, PricingRemove
    <2>2. k.cmd = i.cmd /\ k.todo = i.todo /\ k.config = i.config BY <1>0, <2>1, JobChange
    <2>. QED BY <2>2, SameSelf DEF QuietChange
<1>6. CASE k = i BY <1>6, SameSelf DEF QuietChange
<1>7. CASE k \in InitKnown(i)
    <2>. DEFINE h == [i EXCEPT !.todo = Rest(@)]
    <2>1. PICK c \in InitRoute(i.config) : k = [h EXCEPT !.config = c]
        BY <1>7 DEF InitKnown, Turned
    <2>2. h.cmd = i.cmd /\ h.todo = Rest(i.todo) /\ h.config = i.config BY <1>0, JobChange
    <2>3. SoundJob(h) BY JobRest
    <2>. HIDE DEF h
    <2>4. k.cmd = h.cmd /\ k.todo = h.todo /\ k.config = c
        BY <2>1, <2>3, JobChange DEF SoundJob
    <2>5. Grown(i.config, c) /\ Same(i.config, c)
        BY <1>0, <2>1, InitRouteKept
    <2>. QED BY <2>2, <2>4, <2>5 DEF QuietChange
<1>. QED BY <1>1, <1>2, <1>3, <1>4, <1>5, <1>6, <1>7 DEF QuietProviderEdits

\* A change to anything but the providers' names and keys, and that removes
\* nothing, is a quiet one.
LEMMA EditedQuietly ==
    ASSUME NEW i, SoundJob(i), NEW e, e \notin Removals \cup KeyCommands,
           NEW k \in Edited(e, i)
    PROVE  QuietChange(i, k)
<1>. DEFINE c == i.config
<1>0. Sound(c) BY DEF SoundJob
<1>1. CASE \E configs \in {RouteAdd(c), RouteAddWizard(c), RouteUse(c), RouteEditWizard(c)} :
            k \in Turned(i, configs)
    BY <1>0, <1>1, KeptByRoutes, QuietTurned
<1>2. CASE \E configs \in {SaverAdd(c), SaverAddWizard(c), SaverDefault(c), AccessAllow(c),
                AccessDeny(c), ConfigSet(c), StartSettings(c), InitDomain(c)} :
            k \in Turned(i, configs)
    BY <1>0, <1>2, KeptByOthers, QuietTurned
<1>3. CASE k \in Turned(i, ModelsRefresh(c))
    BY <1>0, <1>3, KeptByModels, QuietTurned
<1>4. CASE k \in QuietProviderEdits(i)
    BY <1>4, QuietProviders
<1>5. \/ \E configs \in {RouteAdd(c), RouteAddWizard(c), RouteUse(c), RouteEditWizard(c)} :
            k \in Turned(i, configs)
      \/ \E configs \in {SaverAdd(c), SaverAddWizard(c), SaverDefault(c), AccessAllow(c),
                AccessDeny(c), ConfigSet(c), StartSettings(c), InitDomain(c)} :
            k \in Turned(i, configs)
      \/ k \in Turned(i, ModelsRefresh(c))
      \/ k \in QuietProviderEdits(i)
    BY DEF Edited, Removals, KeyCommands, QuietProviderEdits
<1>. QED BY <1>1, <1>2, <1>3, <1>4, <1>5

\* A removal from the routes, the savers or the rules.
LEMMA EditedRemoval ==
    ASSUME NEW i, SoundJob(i), NEW e \in Removals \ KeyCommands, NEW k \in Edited(e, i)
    PROVE  /\ k.cmd = i.cmd /\ k.todo = i.todo /\ Same(i.config, k.config)
           /\ \A old : Grown(old, i.config) => Trimmed(e, k.name, old, k.config)
<1>. DEFINE c == i.config
<1>0. Sound(c) /\ i \in Jobs BY DEF SoundJob
<1>1. PICK configs : /\ k \in Turned(i, configs)
                     /\ \/ e = "route remove" /\ configs = RouteRemove(c)
                        \/ e = "saver remove" /\ configs = SaverRemove(c)
                        \/ e = "access remove" /\ configs = AccessRemoveWizard(c)
                        \/ e = "access clear" /\ configs = AccessClear(c)
    <2>1. CASE e = "route remove" BY <2>1 DEF Edited
    <2>2. CASE e = "saver remove" BY <2>2 DEF Edited
    <2>3. CASE e = "access remove" BY <2>3 DEF Edited
    <2>4. CASE e = "access clear" BY <2>4 DEF Edited
    <2>. QED BY <2>1, <2>2, <2>3, <2>4 DEF Removals, KeyCommands
<1>2. PICK d \in configs : k = [i EXCEPT !.config = d] BY <1>1 DEF Turned
<1>3. k.cmd = i.cmd /\ k.todo = i.todo /\ k.config = d BY <1>0, <1>2, JobChange
<1>4. \A old : Grown(old, c) => Trimmed(e, k.name, old, d) /\ Same(c, d)
    BY <1>0, <1>1, <1>2, RemovalTrims
<1>5. Grown(c, c) BY GrownSelf
<1>. QED BY <1>3, <1>4, <1>5

\* A provider is added: by provider add, its wizard, or init.
LEMMA EditedAdding ==
    ASSUME NEW i, SoundJob(i), NEW e \in {"provider add", "provider add wizard", "init"},
           NEW k \in Edited(e, i)
    PROVE  \/ QuietChange(i, k) /\ k.todo = Rest(i.todo) /\ e = "init"
           \/ /\ k.cmd = i.cmd /\ k.todo = i.todo /\ Grown(i.config, k.config)
              /\ Known(i.config) \cup {k.name} \subseteq Known(k.config)
              /\ Keyed(k.config) \subseteq
                    Keyed(i.config) \cup (IF k.key THEN {k.name} ELSE {})
<1>0. Sound(i.config) /\ i \in Jobs BY DEF SoundJob
<1>1. ASSUME NEW names, NEW facts, NEW h \in NewProvider(i, names, facts)
      PROVE  /\ h.cmd = i.cmd /\ h.todo = i.todo /\ Grown(i.config, h.config)
             /\ Known(i.config) \cup {h.name} \subseteq Known(h.config)
             /\ Keyed(h.config) \subseteq
                    Keyed(i.config) \cup (IF h.key THEN {h.name} ELSE {})
    <2>0. PICK f \in facts : \E n \in names :
            h = [i EXCEPT !.config = WithProvider(@, n, f), !.name = n, !.key = f.keyed]
        BY <1>1 DEF NewProvider
    <2>1. PICK n \in names :
            h = [i EXCEPT !.config = WithProvider(@, n, f), !.name = n, !.key = f.keyed]
        BY <2>0
    <2>2. /\ h.cmd = i.cmd /\ h.todo = i.todo /\ h.config = WithProvider(i.config, n, f)
          /\ h.name = n /\ h.key = f.keyed
        BY <1>0, <2>1 DEF Jobs
    <2>. DEFINE d == WithProvider(i.config, n, f)
    <2>3. /\ Grown(i.config, d) /\ Known(d) = Known(i.config) \cup {n}
          /\ Keyed(d) \subseteq Keyed(i.config) \cup (IF f.keyed THEN {n} ELSE {})
        BY <1>0, ProviderPut
    <2>. HIDE DEF d
    <2>. QED BY <2>2, <2>3 DEF d
<1>2. CASE e \in {"provider add", "provider add wizard"}
    <2>1. \E names, facts : k \in NewProvider(i, names, facts)
        BY <1>2 DEF Edited, ProviderAdd, ProviderAddWizard
    <2>. QED BY <1>1, <2>1
<1>3. CASE e = "init" /\ k \in InitKnown(i)
    <2>1. QuietChange(i, k)
        BY <1>3, QuietProviders DEF QuietProviderEdits
    <2>2. PICK c : k = [[i EXCEPT !.todo = Rest(@)] EXCEPT !.config = c]
        BY <1>3 DEF InitKnown, Turned
    <2>3. k.todo = Rest(i.todo) BY <1>0, <2>2 DEF Jobs
    <2>. QED BY <1>3, <2>1, <2>3
<1>4. CASE e = "init" /\ k \in InitNew(i)
    <2>1. PICK h \in NewProvider(i, Providers \ DOMAIN i.config.providers, ProviderFacts) :
            k \in Turned(h, InitRoute(h.config))
        BY <1>4 DEF InitNew
    <2>2. SoundJob(h) BY <2>1, SoundNew
    <2>3. PICK c \in InitRoute(h.config) : k = [h EXCEPT !.config = c] BY <2>1 DEF Turned
    <2>4. /\ k.cmd = h.cmd /\ k.todo = h.todo /\ k.config = c
          /\ k.name = h.name /\ k.key = h.key
        BY <2>2, <2>3 DEF SoundJob, Jobs
    <2>5. Grown(h.config, c) /\ Same(h.config, c)
        BY <2>2, <2>3, InitRouteKept DEF SoundJob
    <2>6. Grown(i.config, c) BY <1>1, <2>1, <2>5, GrownTwice
    <2>7. /\ h.cmd = i.cmd /\ h.todo = i.todo
          /\ Known(i.config) \cup {h.name} \subseteq Known(h.config)
          /\ Keyed(h.config) \subseteq
                    Keyed(i.config) \cup (IF h.key THEN {h.name} ELSE {})
        BY <1>1, <2>1
    <2>. QED BY <2>4, <2>5, <2>6, <2>7 DEF Same
<1>5. e = "init" => k \in InitNew(i) \cup InitKnown(i) BY DEF Edited
<1>. QED BY <1>2, <1>3, <1>4, <1>5

LEMMA EditedKey ==
    ASSUME NEW i, SoundJob(i), NEW k \in Edited("provider key", i)
    PROVE  /\ k.cmd = i.cmd /\ k.todo = i.todo /\ k.config = i.config
           /\ k.name \in Known(i.config) /\ k.key
<1>1. PICK n \in DOMAIN i.config.providers : k = [i EXCEPT !.name = n, !.key = TRUE]
    BY DEF Edited, ProviderRotateKey
<1>2. i \in Jobs BY DEF SoundJob
<1>. QED BY <1>1, <1>2 DEF Jobs, Known

LEMMA EditedGone ==
    ASSUME NEW i, SoundJob(i), NEW k \in Edited("provider remove", i)
    PROVE  /\ k.cmd = i.cmd /\ k.todo = i.todo
           /\ Known(k.config) = Known(i.config) \ {k.name}
           /\ Keyed(k.config) = Keyed(i.config) \ {k.name}
           /\ \A old : Grown(old, i.config) =>
                Trimmed("provider remove", k.name, old, k.config)
<1>0. Sound(i.config) /\ i \in Jobs BY DEF SoundJob
<1>1. PICK n \in DOMAIN i.config.providers :
        k = [i EXCEPT !.config.providers = Without(@, n), !.name = n]
    BY DEF Edited, ProviderRemove
<1>. DEFINE v == Without(i.config.providers, n)
            c == [i.config EXCEPT !.providers = v]
<1>2. k = [i EXCEPT !.config = c, !.name = n] BY <1>0, <1>1 DEF Jobs
<1>3. c.providers = v /\ c.routes = i.config.routes /\ c.savers = i.config.savers
      /\ c.access = i.config.access
    BY <1>0 DEF Sound, Configs
<1>. HIDE DEF c
<1>4. k.cmd = i.cmd /\ k.todo = i.todo /\ k.config = c /\ k.name = n
    BY <1>0, <1>2 DEF Jobs
<1>5. DOMAIN v = DOMAIN i.config.providers \ {n}
      /\ \A m \in DOMAIN v : v[m] = i.config.providers[m]
    BY DEF Without
<1>. HIDE DEF v
<1>6. /\ Known(c) = Known(i.config) \ {n} /\ Keyed(c) = Keyed(i.config) \ {n}
    BY <1>3, <1>5 DEF Known, Keyed
<1>7. ASSUME NEW old, Grown(old, i.config) PROVE Trimmed("provider remove", n, old, c)
    <2>1. \/ DOMAIN old.providers \subseteq DOMAIN c.providers
          \/ DOMAIN old.providers \ DOMAIN c.providers = {n}
        BY <1>3, <1>5, <1>7 DEF Grown
    <2>. QED BY <1>3, <1>7, <2>1 DEF Grown, Trimmed
<1>. QED BY <1>4, <1>6, <1>7

LEMMA EditedRenamed ==
    ASSUME NEW i, SoundJob(i), NEW k \in Edited("provider rename", i)
    PROVE  /\ k.cmd = i.cmd /\ k.todo = i.todo
           /\ k.name # k.new /\ k.new \in Known(k.config)
           /\ Known(i.config) \ {k.name} \subseteq Known(k.config)
           /\ k.name \notin Keyed(k.config)
           /\ Keyed(k.config) \subseteq Keyed(i.config) \cup {k.new}
           /\ k.new \in Keyed(k.config) => k.name \in Keyed(i.config)
           /\ \A old : Grown(old, i.config) =>
                Trimmed("provider rename", k.name, old, k.config)
<1>0. Sound(i.config) /\ i \in Jobs BY DEF SoundJob
<1>1. PICK n \in DOMAIN i.config.providers, m \in Providers \ DOMAIN i.config.providers :
        k = [i EXCEPT !.config = Renamed(@, n, m), !.name = n, !.new = m]
    BY DEF Edited, ProviderRename
<1>. DEFINE v == Put(Without(i.config.providers, n), m, i.config.providers[n])
            w == [r \in DOMAIN i.config.routes |->
                    IF n \in i.config.routes[r]
                    THEN (i.config.routes[r] \ {n}) \cup {m} ELSE i.config.routes[r]]
            c == [i.config EXCEPT !.providers = v, !.routes = w]
<1>2. k = [i EXCEPT !.config = c, !.name = n, !.new = m] BY <1>1 DEF Renamed
<1>3. c.providers = v /\ c.routes = w /\ c.savers = i.config.savers
      /\ c.access = i.config.access
    BY <1>0 DEF Sound, Configs
<1>. HIDE DEF c
<1>4. k.cmd = i.cmd /\ k.todo = i.todo /\ k.config = c /\ k.name = n /\ k.new = m
    BY <1>0, <1>2 DEF Jobs
<1>5. /\ DOMAIN v = (DOMAIN i.config.providers \ {n}) \cup {m}
      /\ v[m] = i.config.providers[n]
      /\ \A x \in DOMAIN v \ {m} : v[x] = i.config.providers[x]
    BY DEF Put, Without
<1>6. DOMAIN w = DOMAIN i.config.routes OBVIOUS
<1>. HIDE DEF v, w
<1>7. /\ n # m /\ m \in Known(c) /\ Known(i.config) \ {n} \subseteq Known(c)
      /\ n \notin Keyed(c) /\ Keyed(c) \subseteq Keyed(i.config) \cup {m}
      /\ m \in Keyed(c) => n \in Keyed(i.config)
    BY <1>1, <1>3, <1>5 DEF Known, Keyed
<1>8. ASSUME NEW old, Grown(old, i.config) PROVE Trimmed("provider rename", n, old, c)
    <2>1. \/ DOMAIN old.providers \subseteq DOMAIN c.providers
          \/ DOMAIN old.providers \ DOMAIN c.providers = {n}
        BY <1>1, <1>3, <1>5, <1>8 DEF Grown
    <2>. QED BY <1>3, <1>6, <1>8, <2>1 DEF Grown, Trimmed
<1>. QED BY <1>4, <1>7, <1>8

=============================================================================
