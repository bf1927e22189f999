---------------------------- MODULE ControlPlane ----------------------------
(***************************************************************************)
(* The eco commands that change config.toml, secrets.toml and pricing.toml *)
(* (internal/cli, internal/config, internal/secrets, internal/cost).  Every *)
(* command reads a whole file, asks, changes its copy and writes the whole *)
(* file back; nothing locks a file, and a save empties it before it fills  *)
(* it.  Several eco processes run side by side, and each may end anywhere: *)
(* killed, interrupted at a prompt, or stopped by an error.                *)
(*                                                                         *)
(* Names are model values.  A route is the set of providers its models     *)
(* name, None standing for a model nobody has; its mode, its saver and the *)
(* order of its models are left out.  A provider is whether it was given a *)
(* key and whether its catalog lists models.  The scalar settings (server, *)
(* security, health) are one value.  A file is written by one call, which  *)
(* the encoder does for files below its buffer of 4 KiB.  The wizards that *)
(* go on to another wizard (init to the first provider and the first       *)
(* route, a new provider to its prices) begin its command next.            *)
(***************************************************************************)
EXTENDS Naturals, Sequences

CONSTANTS Procs,        \* the eco processes
          Providers, Routes, Savers, Cidrs, Settings,
          Typed,        \* the model lists a user types: sets of providers
          None,         \* the empty name
          Empty,        \* a file that is missing or emptied by a save
          Garbled,      \* a file that does not parse
          DefaultSettings,
          Commands,     \* the commands that are run
          MaxCommands,  \* bound: how many commands are begun in all
          Seeds         \* the contents of the three files to start from

VARIABLES disk,         \* what the three files hold
          job,          \* the command each process is at
          begun         \* how many commands were begun

cpVars == <<disk, job, begun>>

----------------------------------------------------------------------------
(* The configuration and what the commands make of it: each operator is    *)
(* the set of configurations a command may turn c into.                    *)

Put(f, x, v) == [y \in DOMAIN f \cup {x} |-> IF y = x THEN v ELSE f[y]]
Without(f, x) == [y \in DOMAIN f \ {x} |-> f[y]]

ProviderFacts == [keyed : BOOLEAN, listed : BOOLEAN]

Default == [providers |-> [n \in {} |-> 0], routes |-> [r \in {} |-> {}],
            active |-> None, savers |-> {}, saverDefault |-> None,
            access |-> {}, settings |-> DefaultSettings]

\* The providers whose catalog the pickers offer.
Listed(c) == {n \in DOMAIN c.providers : c.providers[n].listed}

Choices(S) == SUBSET S \ {{}}

\* A new route becomes the active one when there is none.
Activate(c, r) == [c EXCEPT !.active = IF @ = None THEN r ELSE @]

\* Nothing checks the models given by flags; without them they are picked
\* from the catalogs, except that "single" chosen at the prompt takes its
\* empty flag for the model and never asks.
RouteAdd(c) ==
    {Activate([c EXCEPT !.routes = Put(@, r, ms)], r) :
        r \in Routes \ DOMAIN c.routes,
        ms \in Typed \cup {{None}} \cup Choices(Listed(c))}

RouteAddWizard(c) ==
    {Activate([c EXCEPT !.routes = Put(@, r, ms)], r) :
        r \in Routes \ DOMAIN c.routes, ms \in Choices(Listed(c))}

\* The successor of a removed active route is whichever the map yields.
Heirs(c, r) == IF c.active # r THEN {c.active}
               ELSE IF DOMAIN c.routes = {r} THEN {None}
               ELSE DOMAIN c.routes \ {r}

RouteRemove(c) ==
    UNION {{[c EXCEPT !.routes = Without(@, r), !.active = h] : h \in Heirs(c, r)} :
        r \in DOMAIN c.routes}

RouteUse(c) == {[c EXCEPT !.active = r] : r \in DOMAIN c.routes}

\* New models, a mode (which may cut the models to one), or a saver hop.
Reworked(c, r) ==
    Choices(Listed(c)) \cup {{m} : m \in c.routes[r]} \cup {c.routes[r]}

RouteEditWizard(c) ==
    UNION {{[c EXCEPT !.routes = Put(@, r, ms)] : ms \in Reworked(c, r)} :
        r \in DOMAIN c.routes}

\* Only the prompt refuses a name that is taken: a saver named on the
\* command line replaces the one of that name.
SaverAdd(c) == {[c EXCEPT !.savers = @ \cup {s}] : s \in Savers}

SaverAddWizard(c) == {[c EXCEPT !.savers = @ \cup {s}] : s \in Savers \ c.savers}

SaverDefault(c) == {[c EXCEPT !.saverDefault = s] : s \in c.savers}

\* Mutant: the default saver stays when the saver goes.
BugSaverRemove(c) == {[c EXCEPT !.savers = @ \ {s}] : s \in c.savers}

SaverRemove(c) ==
    {[c EXCEPT !.savers = @ \ {s}, !.saverDefault = IF @ = s THEN None ELSE @] :
        s \in c.savers}

Rules == {"allow", "deny"} \X Cidrs

AccessAllow(c) == {[c EXCEPT !.access = @ \cup {<<"allow", n>>}] : n \in Cidrs}
AccessDeny(c) == {[c EXCEPT !.access = @ \cup {<<"deny", n>>}] : n \in Cidrs}
AccessRemoveWizard(c) == {[c EXCEPT !.access = @ \ {rule}] : rule \in c.access}
AccessClear(c) == {[c EXCEPT !.access = {}]}

ConfigSet(c) == {[c EXCEPT !.settings = v] : v \in Settings}

\* eco start saves only what its flags and prompts changed.
StartSettings(c) == {[c EXCEPT !.settings = v] : v \in Settings \ {c.settings}}

\* The first step of the init wizard: domain and loopback host.
InitDomain(c) == {[c EXCEPT !.settings = v] : v \in Settings}

WithProvider(c, n, facts) == [c EXCEPT !.providers = Put(@, n, facts)]

\* One provider, or all, are asked for their catalog; those that do not
\* answer keep the old one, and the file is saved all the same.
ModelsRefresh(c) ==
    {[c EXCEPT !.providers =
        [n \in DOMAIN @ |-> [keyed |-> @[n].keyed, listed |-> lists[n]]]] :
            lists \in [DOMAIN c.providers -> BOOLEAN]}

Renamed(c, n, m) ==
    [c EXCEPT !.providers = Put(Without(@, n), m, @[n]),
              !.routes = [r \in DOMAIN @ |->
                  IF n \in @[r] THEN (@[r] \ {n}) \cup {m} ELSE @[r]]]

----------------------------------------------------------------------------
(* A command under way: what is left to do, and its copies of the files.   *)

Rest(s) == IF s = <<>> THEN <<>> ELSE Tail(s)

Idle == [cmd |-> "none", todo |-> <<>>, config |-> Default, secrets |-> {},
         prices |-> {}, name |-> None, new |-> None, key |-> FALSE]

Load == <<"load", "config">>
LoadPriceTable == <<"table", "prices">>
Edit(e) == <<"edit", e>>
Keys(verb) == <<verb, "secrets">>
Save(f) == <<"save", f>>
Encoding(f) == <<"encode", f>>

\* The commands that load config.toml, ask, and save it.
Edits == {"route add", "route add wizard", "route remove", "use", "route edit",
          "saver add", "saver add wizard", "saver default", "saver remove",
          "access allow", "access deny", "access remove", "access clear",
          "config set", "start", "init wizard"}

AllCommands == Edits \cup
    {"models", "provider add", "provider add wizard", "provider test",
     "provider refresh", "provider models", "provider url", "provider remove",
     "provider rename", "provider key", "init", "pricing set", "pricing remove"}

RefreshSteps == <<Keys("look"), Edit("refresh models"), Save("config")>>

\* Mutant: the key goes before the provider does.
BugProviderRemoveSteps ==
    <<Load, Edit("provider remove"), Keys("drop"), Save("config")>>

ProviderRemoveSteps ==
    <<Load, Edit("provider remove"), Save("config"), Keys("drop")>>

\* What each command does, in the order of its code.
Script(cmd) ==
    CASE cmd \in Edits -> <<Load, Edit(cmd), Save("config")>>
      [] cmd = "models" -> <<Load, Keys("look"), Edit(cmd), Save("config")>>
      [] cmd = "provider add" -> <<Load, Edit(cmd), Keys("put"), Save("config")>>
      [] cmd = "provider add wizard" ->
            <<Load, Edit(cmd), Keys("put"), Save("config"),
              Edit("enable models"), Save("config")>>
      [] cmd = "provider test" ->
            <<Load, Edit("pick"), Keys("look"), Edit(cmd), Save("config")>>
      [] cmd = "provider refresh" -> <<Load, Edit("pick")>> \o RefreshSteps
      [] cmd = "provider models" -> <<Load, Edit(cmd), Save("config")>>
      [] cmd = "provider url" ->
            <<Load, Edit("pick"), Save("config"), Edit("refresh?")>> \o RefreshSteps
      [] cmd = "provider remove" -> ProviderRemoveSteps
      [] cmd = "provider rename" -> <<Load, Edit(cmd), Keys("move"), Save("config")>>
      [] cmd = "provider key" -> <<Load, Edit(cmd), Keys("put")>>
      [] cmd = "init" -> <<Load, Edit(cmd), Keys("put"), Save("config")>>
      [] cmd = "pricing set" -> <<Load, LoadPriceTable, Edit(cmd), Save("prices")>>
      [] cmd = "pricing remove" -> <<LoadPriceTable, Edit(cmd), Save("prices")>>
      [] OTHER -> <<>>

(* What a command makes of its copies, one set of possible outcomes each.  *)

Turned(j, configs) == {[j EXCEPT !.config = c] : c \in configs}

NewProvider(j, names, facts) ==
    UNION {{[j EXCEPT !.config = WithProvider(@, n, k), !.name = n, !.key = k.keyed] :
                n \in names} : k \in facts}

\* A name given as an argument is not checked against the providers.
ProviderAdd(j) == NewProvider(j, Providers, ProviderFacts)

ProviderAddWizard(j) ==
    NewProvider(j, Providers \ DOMAIN j.config.providers,
                [keyed : BOOLEAN, listed : {FALSE}])

PickProvider(j) == {[j EXCEPT !.name = n] : n \in DOMAIN j.config.providers}

\* The provider picked before, which the copy has, gets another catalog.
WithCatalog(j, lists) ==
    {[j EXCEPT !.config =
        WithProvider(@, n, [@.providers[n] EXCEPT !.listed = listed])] :
            n \in {j.name} \cap DOMAIN j.config.providers, listed \in lists}

ProviderTest(j) == WithCatalog(j, BOOLEAN)

\* A catalog that is not answered, or is empty, saves nothing.
EnableModels(j) == WithCatalog(j, BOOLEAN) \cup {[j EXCEPT !.todo = Rest(@)]}
RefreshModels(j) == WithCatalog(j, {TRUE}) \cup {[j EXCEPT !.todo = Rest(@)]}

ProviderChooseModels(j) ==
    UNION {WithCatalog([j EXCEPT !.name = n], {TRUE}) : n \in Listed(j.config)}

ProviderRemove(j) ==
    {[j EXCEPT !.config.providers = Without(@, n), !.name = n] :
        n \in DOMAIN j.config.providers}

ProviderRename(j) ==
    {[j EXCEPT !.config = Renamed(@, n[1], n[2]), !.name = n[1], !.new = n[2]] :
        n \in (DOMAIN j.config.providers) \X (Providers \ DOMAIN j.config.providers)}

ProviderRotateKey(j) ==
    {[j EXCEPT !.name = n, !.key = TRUE] : n \in DOMAIN j.config.providers}

\* init overwrites the route of its name, makes it the active one, and sets
\* the domain and the host.
WithRoute(c, r, ms, v) ==
    [c EXCEPT !.routes = Put(@, r, ms), !.active = r, !.settings = v]

InitRoute(c) == UNION {{WithRoute(c, r, ms, v) : ms \in Typed, v \in Settings} :
                           r \in Routes}

InitNew(j) ==
    UNION {Turned(k, InitRoute(k.config)) :
        k \in NewProvider(j, Providers \ DOMAIN j.config.providers, ProviderFacts)}

\* A provider that is configured keeps its key, and no key file is opened.
InitKnown(j) ==
    IF DOMAIN j.config.providers = {} THEN {}
    ELSE Turned([j EXCEPT !.todo = Rest(@)], InitRoute(j.config))

PricingSet(j) == {[j EXCEPT !.prices = @ \cup {n}] : n \in Providers}
PricingRemove(j) == {[j EXCEPT !.prices = @ \ {n}] : n \in j.prices}

Edited(e, j) ==
    CASE e = "route add" -> Turned(j, RouteAdd(j.config))
      [] e = "route add wizard" -> Turned(j, RouteAddWizard(j.config))
      [] e = "route remove" -> Turned(j, RouteRemove(j.config))
      [] e = "use" -> Turned(j, RouteUse(j.config))
      [] e = "route edit" -> Turned(j, RouteEditWizard(j.config))
      [] e = "saver add" -> Turned(j, SaverAdd(j.config))
      [] e = "saver add wizard" -> Turned(j, SaverAddWizard(j.config))
      [] e = "saver default" -> Turned(j, SaverDefault(j.config))
      [] e = "saver remove" -> Turned(j, SaverRemove(j.config))
      [] e = "access allow" -> Turned(j, AccessAllow(j.config))
      [] e = "access deny" -> Turned(j, AccessDeny(j.config))
      [] e = "access remove" -> Turned(j, AccessRemoveWizard(j.config))
      [] e = "access clear" -> Turned(j, AccessClear(j.config))
      [] e = "config set" -> Turned(j, ConfigSet(j.config))
      [] e = "start" -> Turned(j, StartSettings(j.config))
      [] e = "init wizard" -> Turned(j, InitDomain(j.config))
      [] e = "models" -> Turned(j, ModelsRefresh(j.config))
      [] e = "provider add" -> ProviderAdd(j)
      [] e = "provider add wizard" -> ProviderAddWizard(j)
      [] e = "enable models" -> EnableModels(j)
      [] e = "provider test" -> ProviderTest(j)
      [] e = "provider models" -> ProviderChooseModels(j)
      [] e = "pick" -> PickProvider(j)
      [] e = "refresh models" -> RefreshModels(j)
      [] e = "refresh?" -> {j, [j EXCEPT !.todo = <<>>]}
      [] e = "provider remove" -> ProviderRemove(j)
      [] e = "provider rename" -> ProviderRename(j)
      [] e = "provider key" -> ProviderRotateKey(j)
      [] e = "init" -> InitNew(j) \cup InitKnown(j)
      [] e = "pricing set" -> PricingSet(j)
      [] e = "pricing remove" -> PricingRemove(j)
      [] OTHER -> {}

----------------------------------------------------------------------------
(* The steps of a command.                                                 *)

Blank == [config |-> Default, secrets |-> {}, prices |-> {}]

\* A missing or an emptied file reads as the defaults.
Seen(f) == IF disk[f] = Empty THEN Blank[f] ELSE disk[f]

\* A job with nothing left to do is over, and its copies are gone.
Settled(j) == IF j.todo = <<>> THEN Idle ELSE j

AtStep(p, verb) == job[p].todo # <<>> /\ Head(job[p].todo)[1] = verb

Advanced(j) == [j EXCEPT !.todo = Rest(@)]

BecomesJob(p, j) == job' = [job EXCEPT ![p] = Settled(j)] /\ UNCHANGED begun

Init == disk \in Seeds /\ job = [p \in Procs |-> Idle] /\ begun = 0

Begin(p, cmd) ==
    /\ job[p].todo = <<>> /\ begun < MaxCommands
    /\ job' = [job EXCEPT ![p] = [Idle EXCEPT !.cmd = cmd, !.todo = Script(cmd)]]
    /\ begun' = begun + 1
    /\ UNCHANGED disk

\* Mutant: the parse error is dropped, and the defaults are used.
BugLoadConfigDefaults(p) ==
    /\ AtStep(p, "load")
    /\ BecomesJob(p, Advanced([job[p] EXCEPT !.config =
                        IF disk["config"] = Garbled THEN Default ELSE Seen("config")]))
    /\ UNCHANGED disk

\* Mutant: the parse error is dropped, and what was decoded so far is used.
BugLoadConfigUnchecked(p) ==
    /\ AtStep(p, "load")
    /\ BecomesJob(p, Advanced([job[p] EXCEPT !.config = Seen("config")]))
    /\ UNCHANGED disk

\* requireConfig: a file that does not parse ends the command.
LoadConfig(p) ==
    /\ AtStep(p, "load")
    /\ BecomesJob(p, IF disk["config"] = Garbled THEN Idle
                     ELSE Advanced([job[p] EXCEPT !.config = Seen("config")]))
    /\ UNCHANGED disk

\* GetPrices: a table that does not parse reads as an empty one.
LoadPrices(p) ==
    /\ AtStep(p, "table")
    /\ BecomesJob(p, Advanced([job[p] EXCEPT !.prices =
                        IF disk["prices"] = Garbled THEN {} ELSE Seen("prices")]))
    /\ UNCHANGED disk

\* The prompts, and what the answers make of the copies.
Choose(p) ==
    /\ AtStep(p, "edit")
    /\ \E j \in Edited(Head(job[p].todo)[2],
                        [job[p] EXCEPT !.todo = Rest(@)]) : BecomesJob(p, j)
    /\ UNCHANGED disk

\* A key is stored in the file read just before; without one only the
\* reading is left of the step.
PutKey(p) ==
    /\ AtStep(p, "put")
    /\ BecomesJob(p,
          IF disk["secrets"] = Garbled THEN Idle
          ELSE IF job[p].key
          THEN [job[p] EXCEPT !.secrets = Seen("secrets") \cup {job[p].name},
                              !.todo = <<Save("secrets")>> \o Rest(@)]
          ELSE Advanced(job[p]))
    /\ UNCHANGED disk

\* Rename: errors of the key file are ignored.
MoveKey(p) ==
    /\ AtStep(p, "move")
    /\ BecomesJob(p,
          IF disk["secrets"] # Garbled /\ job[p].name \in Seen("secrets")
          THEN [job[p] EXCEPT !.secrets = Seen("secrets") \cup {job[p].new},
                              !.todo = <<Save("secrets"), Keys("forget"),
                                         Save("secrets")>> \o Rest(@)]
          ELSE Advanced(job[p]))
    /\ UNCHANGED disk

ForgetKey(p) ==
    /\ AtStep(p, "forget")
    /\ BecomesJob(p, Advanced([job[p] EXCEPT !.secrets = @ \ {job[p].name}]))
    /\ UNCHANGED disk

\* Remove: the errors are ignored here too.
DropKey(p) ==
    /\ AtStep(p, "drop")
    /\ BecomesJob(p,
          IF disk["secrets"] = Garbled THEN Advanced(job[p])
          ELSE [job[p] EXCEPT !.secrets = Seen("secrets") \ {job[p].name},
                              !.todo = <<Save("secrets")>> \o Rest(@)])
    /\ UNCHANGED disk

LookUpKey(p) ==
    /\ AtStep(p, "look")
    /\ BecomesJob(p, IF disk["secrets"] = Garbled THEN Idle ELSE Advanced(job[p]))
    /\ UNCHANGED disk

\* saveLocked empties the file when it opens it...
Truncate(p) ==
    /\ AtStep(p, "save")
    /\ LET f == Head(job[p].todo)[2] IN
        /\ disk' = [disk EXCEPT ![f] = Empty]
        /\ BecomesJob(p, [job[p] EXCEPT !.todo = <<Encoding(f)>> \o Rest(@)])

\* ...and writes from its start.  When another save has filled the file in
\* between, the end of a longer text stays behind the shorter one.  What ends
\* the configuration is always the health section, which does not parse twice
\* or adds nothing; the key and price files are lists, and entries of the
\* older one may remain.
Written(f, old, new) ==
    IF old \in {Empty, new} THEN {new}
    ELSE IF f = "config" \/ old = Garbled THEN {new, Garbled}
    ELSE {new \cup rest : rest \in SUBSET old} \cup {Garbled}

Encode(p) ==
    /\ AtStep(p, "encode")
    /\ LET f == Head(job[p].todo)[2] IN
        /\ \E new \in Written(f, disk[f], job[p][f]) : disk' = [disk EXCEPT ![f] = new]
        /\ BecomesJob(p, Advanced(job[p]))

\* The command ends here: killed, interrupted, declined or in error.
Quit(p) ==
    /\ job[p].todo # <<>>
    /\ BecomesJob(p, Idle)
    /\ UNCHANGED disk

Next == \E p \in Procs :
    \/ \E cmd \in Commands : Begin(p, cmd)
    \/ LoadConfig(p) \/ LoadPrices(p) \/ Choose(p)
    \/ PutKey(p) \/ MoveKey(p) \/ ForgetKey(p) \/ DropKey(p) \/ LookUpKey(p)
    \/ Truncate(p) \/ Encode(p) \/ Quit(p)

Spec == Init /\ [][Next]_cpVars

----------------------------------------------------------------------------
Tables(S, values) == UNION {[K -> values] : K \in SUBSET S}

ModelLists == SUBSET (Providers \cup {None})

Configs == [providers : Tables(Providers, ProviderFacts),
            routes : Tables(Routes, ModelLists),
            active : Routes \cup {None}, savers : SUBSET Savers,
            saverDefault : Savers \cup {None}, access : SUBSET Rules,
            settings : Settings]

KeySets == SUBSET (Providers \cup {None})
PriceTables == SUBSET Providers

Files == [config : Configs \cup {Empty, Garbled},
          secrets : KeySets \cup {Empty, Garbled},
          prices : PriceTables \cup {Empty, Garbled}]

Steps == {"load", "table", "edit", "put", "move", "forget", "drop", "look",
          "save", "encode"}
    \X (AllCommands \cup {"config", "secrets", "prices", "pick", "refresh?",
                          "enable models", "refresh models"})

Jobs == [cmd : AllCommands \cup {"none"}, todo : Seq(Steps), config : Configs,
         secrets : KeySets, prices : PriceTables,
         name : Providers \cup {None}, new : Providers \cup {None},
         key : BOOLEAN]

\* Type invariant: no command is left with a copy that did not parse, and
\* every file is a complete content, emptied, or garbled.
ControlPlaneTypeOK ==
    /\ disk \in Files /\ job \in [Procs -> Jobs] /\ begun \in 0 .. MaxCommands

Resolves(c) == /\ c.active \in DOMAIN c.routes \cup {None}
               /\ c.saverDefault \in c.savers \cup {None}

\* The active route and the default saver always name an entry that exists,
\* on disk and in every copy a command works on: the removals reset them
\* (route.go:345, saver.go:284), and although a save may bring back or undo
\* what another command did, it does so for the entry and the name at once.
DefaultsResolve ==
    /\ disk["config"] \notin {Empty, Garbled} => Resolves(disk["config"])
    /\ \A p \in Procs : Resolves(job[p].config)

ASSUME ConstantsAssumption ==
    /\ DefaultSettings \in Settings /\ MaxCommands \in Nat
    /\ Typed \subseteq SUBSET Providers
    /\ Seeds \subseteq Files
    /\ \A d \in Seeds : d.config \notin {Empty, Garbled} => Resolves(d.config)
    /\ Commands \subseteq AllCommands

\* A file that is empty or does not parse is no complete content.
ASSUME ContentsAssumption ==
    /\ Empty # Garbled
    /\ Empty \notin Configs /\ Garbled \notin Configs
    /\ \A K \in KeySets \cup PriceTables : K \notin {Empty, Garbled}

=============================================================================
