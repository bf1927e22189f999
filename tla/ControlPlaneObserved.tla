----------------------- MODULE ControlPlaneObserved -----------------------
(***************************************************************************)
(* ControlPlane with a history of what no file keeps: the configuration    *)
(* that was complete last, the processes whose copy another's save has     *)
(* overtaken, those that have written something, and what went wrong.      *)
(***************************************************************************)
EXTENDS ControlPlane, FiniteSets

VARIABLES whole,        \* the last complete configuration
          overtaken,    \* processes whose load or copy met another's save
          written,      \* processes whose command has saved something
          mishaps       \* "overlap", "torn", and the commands cut short

obsVars == <<disk, job, begun, whole, overtaken, written, mishaps>>

Busy(p) == job[p].todo # <<>>

\* p is between the two halves of a save of file f.
Saving(p, f) == AtStep(p, "encode") /\ Head(job[p].todo)[2] = f

SavedByOther(p) == \E q \in Procs \ {p} : Saving(q, "config")

\* What the history makes of a step of process p.
Observe(p) ==
    /\ whole' = IF \E q \in Procs : Saving(q, "config")' THEN whole
                ELSE Seen("config")'
    /\ overtaken' = {q \in Procs :
          /\ Busy(q)'
          /\ IF q = p /\ AtStep(p, "load") THEN SavedByOther(p)
             ELSE q \in overtaken \/ (q # p /\ disk'["config"] # disk["config"])}
    /\ written' = {q \in Procs :
          Busy(q)' /\ (q \in written \/ (q = p /\ AtStep(p, "encode")))}

CommandStep(p) ==
    /\ \/ LoadConfig(p) \/ LoadPrices(p) \/ Choose(p)
       \/ PutKey(p) \/ MoveKey(p) \/ ForgetKey(p) \/ DropKey(p) \/ LookUpKey(p)
       \/ Truncate(p) \/ Encode(p)
    /\ UNCHANGED mishaps

Overlap(p) == IF \E q \in Procs \ {p} : Busy(q) THEN {"overlap"} ELSE {}

\* A command that ends with a file emptied, or with only some of its saves.
CutShort(p) ==
    (IF AtStep(p, "encode") THEN {"torn"} ELSE {})
        \cup (IF p \in written THEN {job[p].cmd} ELSE {})

ObservedInit ==
    /\ Init
    /\ whole = Seen("config") /\ overtaken = {} /\ written = {} /\ mishaps = {}

ObservedNext == \E p \in Procs :
    /\ \/ /\ \E cmd \in Commands : Begin(p, cmd)
          /\ mishaps' = mishaps \cup Overlap(p)
       \/ CommandStep(p)
       \/ Quit(p) /\ mishaps' = mishaps \cup CutShort(p)
    /\ Observe(p)

ObservedSpec == ObservedInit /\ [][ObservedNext]_obsVars

----------------------------------------------------------------------------
\* p moves the key of a provider: between its first save and its last, the
\* key file and the configuration disagree about the name.
Renaming(n) == \E p \in Procs : job[p].cmd = "provider rename" /\ job[p].name = n

\* The providers that were given a key, and the providers there are.
Keyed(c) == {n \in DOMAIN c.providers : c.providers[n].keyed}
Known(c) == DOMAIN c.providers

KeysReadable ==
    /\ disk["secrets"] # Garbled /\ disk["config"] # Garbled
    /\ \A p \in Procs, f \in {"config", "secrets"} : ~Saving(p, f)

\* The two files agree although no command writes both at once.  While the
\* commands run one at a time and none tears a file or dies in a rename,
\* every provider that was given a key has it under its name: a provider is
\* added key first and removed key last (provider.go), so that one cut short
\* leaves a key too many and never one too few.  When none was cut short
\* either, no key outlives its provider.
KeysMatchProviders ==
    KeysReadable =>
      /\ mishaps \cap {"overlap", "torn", "provider rename"} = {} =>
            \A n \in Keyed(Seen("config")) : n \in Seen("secrets") \/ Renaming(n)
      /\ (mishaps = {} /\ \A p \in Procs : ~Busy(p)) =>
            Seen("secrets") \subseteq Known(Seen("config"))

\* The files to start from hold a key for every provider that was given one,
\* and no other: a first run's do, and so do those a finished command leaves.
ASSUME SeedsAgree ==
    \A d \in Seeds : d.config # Garbled /\ d.secrets # Garbled =>
        LET c == IF d.config = Empty THEN Blank.config ELSE d.config
            S == IF d.secrets = Empty THEN Blank.secrets ELSE d.secrets
        IN  Keyed(c) \subseteq S /\ S \subseteq Known(c)

\* What a command may take out of the configuration it loaded.
Keeps(p, old, new) ==
    /\ old = Garbled => new = Garbled
    /\ old # Garbled =>
        /\ new # Garbled
        /\ \/ DOMAIN old.routes \subseteq DOMAIN new.routes
           \/ /\ job[p].cmd = "route remove"
              /\ Cardinality(DOMAIN old.routes \ DOMAIN new.routes) = 1
        /\ \/ DOMAIN old.providers \subseteq DOMAIN new.providers
           \/ /\ job[p].cmd \in {"provider remove", "provider rename"}
              /\ DOMAIN old.providers \ DOMAIN new.providers = {job[p].name}
        /\ \/ old.savers \subseteq new.savers
           \/ /\ job[p].cmd = "saver remove"
              /\ Cardinality(old.savers \ new.savers) = 1
        /\ \/ old.access \subseteq new.access
           \/ job[p].cmd \in {"access remove", "access clear"}

\* The files have no lock, so a save may undo another command's.  It does so
\* only when the other's save overlaps the time from this command's load to its
\* own save: a save that was not overtaken takes out of the last complete
\* configuration (through every torn or overlapping save before it) only what
\* its command removes, and never replaces a file that does not parse.
LostOnlyWhenOvertaken ==
    [][\A p \in Procs \ overtaken :
            (Saving(p, "config") /\ ~Saving(p, "config")' /\ disk' # disk)
                => Keeps(p, whole, whole')]_obsVars
=============================================================================
