------------------------------- MODULE Daemon -------------------------------
(***************************************************************************)
(* The life cycle of the daemon: its port, its PID file, and the processes *)
(* that start, stop and restart it (internal/cli/server.go) and run it     *)
(* (Server.Run).  Each reads the file, looks at a process, signals it and  *)
(* removes the file in separate steps, without a lock.                     *)
(*                                                                         *)
(* A new process gets an identifier that no file and no process knows.     *)
(* Waits are bounded in the code by seconds; here they may end at any      *)
(* moment.                                                                 *)
(***************************************************************************)
EXTENDS Integers

CONSTANTS Pids,         \* the identifiers of processes, in their order
          Ports, DefaultPort, None,
          Absent,       \* no PID file
          Empty,        \* one without an identifier
          MaxEvents,    \* bound: commands, signals and crashes in all
          MaxDisturbing \* bound: those that find a process at work

ASSUME DaemonAssumption ==
    /\ Pids \subseteq Nat /\ {None, Absent, Empty} \cap Pids = {}
    /\ DefaultPort \in Ports /\ None \notin Ports
    /\ MaxEvents \in Nat /\ MaxDisturbing \in Nat

VARIABLES proc,         \* the processes
          configured,   \* the port in the configuration
          file,         \* the PID file: Absent, Empty, or the identifier in it
          writers,      \* the processes that have the present file open
          listener,     \* the process that listens on a port
          events,
          disturbing    \* how many of them found a process at work

daemonVars == <<proc, configured, file, writers, listener, events, disturbing>>

----------------------------------------------------------------------------
NoProc == [cmd |-> "none", st |-> "none", port |-> None, target |-> None,
           parent |-> None, child |-> None, menu |-> FALSE, signalled |-> FALSE]

Init ==
    /\ proc = [p \in Pids |-> NoProc] /\ configured = DefaultPort
    /\ file = Absent /\ writers = {} /\ listener = [t \in Ports |-> None]
    /\ events = 0 /\ disturbing = 0

st(p) == proc[p].st

Exists(p) == st(p) # "none"

Busy(p) == st(p) \notin {"none", "menu", "serve", "zombie"} \/ proc[p].signalled

Free(p) ==
    /\ ~Exists(p) /\ file # p /\ p \notin writers
    /\ \A q \in Pids : proc[q].target # p

\* The lowest of the identifiers to take.
Fresh(p) == Free(p) /\ \A q \in Pids : q < p => ~Free(q)

\* An event from outside.
Event ==
    /\ events < MaxEvents /\ events' = events + 1
    /\ disturbing' = disturbing + (IF \E q \in Pids : Busy(q) THEN 1 ELSE 0)
    /\ disturbing' <= MaxDisturbing

Released(P) == [t \in Ports |-> IF listener[t] \in P THEN None ELSE listener[t]]

\* Process p moves on, and forgets the process it looked at or signalled.
To(p, s) ==
    [proc EXCEPT ![p].st = s,
                 ![p].target = IF s \in {"term", "poll"} THEN @ ELSE None]

\* The end of process q.  It stays visible to signals until its parent ends:
\* nobody waits for a detached child.
Ended(q, P) ==
    [r \in Pids |->
        IF r = q
        THEN [NoProc EXCEPT !.st = IF P[q].parent = None THEN "none" ELSE "zombie",
                            !.parent = P[q].parent, !.child = P[q].child]
        ELSE IF P[r].parent # q THEN P[r]
        ELSE [P[r] EXCEPT !.parent = None, !.st = IF @ = "zombie" THEN "none" ELSE @]]

\* The command of p is over; a menu asks for the next one.
Over(p) ==
    IF proc[p].menu
    THEN [proc EXCEPT ![p] = [NoProc EXCEPT !.st = "menu", !.menu = TRUE,
                                            !.child = proc[p].child]]
    ELSE Ended(p, proc)

----------------------------------------------------------------------------
(* The commands.                                                           *)

Commands == {"start", "detach", "stop", "restart", "doctor"}

Started(cmd, port, parent, menu) ==
    [NoProc EXCEPT !.cmd = cmd, !.st = IF cmd = "doctor" THEN "probePort" ELSE "read",
                   !.port = port, !.parent = parent, !.menu = menu]

Begin(p) ==
    /\ Event
    /\ st(p) = "menu" \/ Fresh(p)
    /\ \E cmd \in Commands, menu \in BOOLEAN :
        /\ st(p) = "menu" => menu
        /\ menu => /\ cmd \in {"detach", "stop", "restart"}
                   /\ \A q \in Pids \ {p} : ~proc[q].menu   \* bound: one menu
        /\ proc' = [proc EXCEPT ![p] = Started(cmd, None, None, menu)]
    /\ UNCHANGED <<configured, file, writers, listener>>

LeaveMenu(p) ==
    /\ st(p) = "menu"
    /\ proc' = Ended(p, proc)
    /\ UNCHANGED <<configured, file, writers, listener, events, disturbing>>

\* The step that follows each of those that lead up to serving.
BugFollows == [look |-> "open", open |-> "write", write |-> "bind", bind |-> "arm"]

Follows == [look |-> "bind", bind |-> "open", open |-> "write", write |-> "arm"]

readPID(p) ==
    /\ st(p) = "read"
    /\ proc' = [proc EXCEPT ![p].st = "look",
                            ![p].target = IF file \in Pids THEN file ELSE None]
    /\ UNCHANGED <<configured, file, writers, listener, events, disturbing>>

Alive(p) == proc[p].target # None /\ Exists(proc[p].target)

\* A port on the command line (detach gives its child one) is saved.
PortsOf(p) ==
    IF proc[p].port # None THEN {proc[p].port}
    ELSE IF proc[p].menu THEN {configured} ELSE Ports

GoOn(p) ==
    \E t \in PortsOf(p) :
        /\ configured' = t
        /\ proc' = [To(p, IF proc[p].cmd = "start" THEN Follows.look ELSE "spawn")
                        EXCEPT ![p].port = t]

\* Mutant: start does not look for another daemon.
BugStartLook(p) ==
    /\ st(p) = "look" /\ proc[p].cmd \in {"start", "detach"}
    /\ GoOn(p)
    /\ UNCHANGED <<file, writers, listener, events, disturbing>>

StartLook(p) ==
    /\ st(p) = "look" /\ proc[p].cmd \in {"start", "detach"}
    /\ \/ Alive(p) /\ proc' = Over(p) /\ UNCHANGED configured
       \/ ~Alive(p) /\ GoOn(p)
    /\ UNCHANGED <<file, writers, listener, events, disturbing>>

StopLook(p) ==
    /\ st(p) = "look" /\ proc[p].cmd \in {"stop", "restart"}
    /\ proc' = To(p, IF Alive(p) THEN "term" ELSE "remove")
    /\ UNCHANGED <<configured, file, writers, listener, events, disturbing>>

\* Mutant: restart ends with what stop returns.
BugStopped(p) == Over(p)

\* Stop is done, restart goes on whatever came of it.
Stopped(p) == IF proc[p].cmd = "restart" THEN To(p, "spawn") ELSE Over(p)

\* A termination signal: kills a process that has not asked for it yet, is
\* waited for by one that serves, and is lost on one that shuts down.
Handles == {"serve", "drain", "clean"}

Signalled(q, P) ==
    IF st(q) \in Handles THEN [P EXCEPT ![q].signalled = (st(q) = "serve")]
    ELSE Ended(q, P)

sendTermSignal(p) ==
    LET q == proc[p].target IN
    /\ st(p) = "term"
    /\ \/ /\ Alive(p)
          /\ proc' = Signalled(q, To(p, "poll"))
          /\ listener' = IF st(q) \in Handles THEN listener ELSE Released({q})
       \/ /\ ~Alive(p)
          /\ proc' = Stopped(p)
          /\ UNCHANGED listener
    /\ UNCHANGED <<configured, file, writers, events, disturbing>>

Poll(p) ==
    /\ st(p) = "poll" /\ ~Alive(p)
    /\ proc' = To(p, "remove")
    /\ UNCHANGED <<configured, file, writers, listener, events, disturbing>>

\* The five seconds are over.
sendKillSignal(p) ==
    LET q == proc[p].target IN
    /\ st(p) = "poll" /\ Alive(p)
    /\ proc' = Ended(q, To(p, "remove"))
    /\ listener' = Released({q})
    /\ UNCHANGED <<configured, file, writers, events, disturbing>>

Removed == file' = Absent /\ writers' = {}

Remove(p) ==
    /\ st(p) = "remove"
    /\ Removed
    /\ proc' = Stopped(p)
    /\ UNCHANGED <<configured, listener, events, disturbing>>

\* startDetached: the child is the same program, with start and the port that
\* was just saved, or is in the configuration.
Spawn(p) ==
    /\ st(p) = "spawn"
    /\ \E q \in Pids :
        /\ Fresh(q)
        /\ proc' = [To(p, "wait") EXCEPT ![p].child = q,
                        ![q] = Started("start", IF proc[p].cmd = "restart" THEN configured
                                                ELSE proc[p].port, p, FALSE)]
    /\ UNCHANGED <<configured, file, writers, listener, events, disturbing>>

\* A PID file that names a living process, or a second and a half without.
WaitOver(p) ==
    /\ st(p) = "wait"
    /\ proc' = Over(p)
    /\ UNCHANGED <<configured, file, writers, listener, events, disturbing>>

\* doctor tries the port itself: it listens for a moment.
ProbePort(p) ==
    /\ st(p) = "probePort"
    /\ \/ /\ listener[configured] = None
          /\ listener' = [listener EXCEPT ![configured] = p] /\ proc' = To(p, "release")
       \/ /\ listener[configured] # None
          /\ proc' = Ended(p, proc) /\ UNCHANGED listener
    /\ UNCHANGED <<configured, file, writers, events, disturbing>>

Release(p) ==
    /\ st(p) = "release"
    /\ listener' = Released({p}) /\ proc' = Ended(p, proc)
    /\ UNCHANGED <<configured, file, writers, events, disturbing>>

----------------------------------------------------------------------------
(* Server.Run.                                                             *)

Bind(p) ==
    LET t == proc[p].port IN
    /\ st(p) = "bind"
    /\ \/ /\ listener[t] = None
          /\ listener' = [listener EXCEPT ![t] = p] /\ proc' = To(p, Follows.bind)
       \/ /\ listener[t] # None
          /\ proc' = Ended(p, proc) /\ UNCHANGED listener
    /\ UNCHANGED <<configured, file, writers, events, disturbing>>

\* os.WriteFile empties the file or makes a new one...
OpenPID(p) ==
    /\ st(p) = "open"
    /\ file' = Empty /\ writers' = writers \cup {p}
    /\ proc' = To(p, Follows.open)
    /\ UNCHANGED <<configured, listener, events, disturbing>>

\* ...and writes to that file, which may have been removed since.
WritePID(p) ==
    /\ st(p) = "write"
    /\ file' = IF p \in writers THEN p ELSE file
    /\ writers' = writers \ {p}
    /\ proc' = To(p, Follows.write)
    /\ UNCHANGED <<configured, listener, events, disturbing>>

\* signal.Notify; requests are served since the port is bound.
Arm(p) ==
    /\ st(p) = "arm"
    /\ proc' = To(p, "serve")
    /\ UNCHANGED <<configured, file, writers, listener, events, disturbing>>

\* Shutdown closes the port at once and waits for the requests.
Shutdown(p) ==
    /\ st(p) = "serve" /\ proc[p].signalled
    /\ proc' = [proc EXCEPT ![p].st = "drain", ![p].signalled = FALSE]
    /\ listener' = Released({p})
    /\ UNCHANGED <<configured, file, writers, events, disturbing>>

Drained(p) ==
    /\ st(p) = "drain"
    /\ proc' = To(p, "clean")
    /\ UNCHANGED <<configured, file, writers, listener, events, disturbing>>

\* The file goes, whomever it names.
Clean(p) ==
    /\ st(p) = "clean"
    /\ Removed
    /\ proc' = Ended(p, proc)
    /\ UNCHANGED <<configured, listener, events, disturbing>>

----------------------------------------------------------------------------
(* What befalls a process.                                                 *)

\* Ctrl+C, a supervisor.
Interrupt(p) ==
    /\ Event
    /\ st(p) = "serve"
    /\ proc' = [proc EXCEPT ![p].signalled = TRUE]
    /\ UNCHANGED <<configured, file, writers, listener>>

ServeFails(p) ==
    /\ Event
    /\ st(p) = "serve"
    /\ proc' = [proc EXCEPT ![p].st = "clean", ![p].signalled = FALSE]
    /\ listener' = Released({p})
    /\ UNCHANGED <<configured, file, writers>>

\* No configuration, no database, no program to run.
Fails(p) ==
    /\ Event
    /\ st(p) \in {"bind", "spawn"}
    /\ proc' = Over(p)
    /\ UNCHANGED <<configured, file, writers, listener>>

Crash(p) ==
    /\ Event
    /\ st(p) \notin {"none", "zombie"}
    /\ proc' = Ended(p, proc)
    /\ listener' = Released({p})
    /\ UNCHANGED <<configured, file, writers>>

\* What a process does of its own accord.
Step(p) ==
    \/ readPID(p) \/ StartLook(p) \/ StopLook(p) \/ sendTermSignal(p) \/ Poll(p)
    \/ sendKillSignal(p) \/ Remove(p) \/ Spawn(p) \/ WaitOver(p)
    \/ ProbePort(p) \/ Release(p)
    \/ Bind(p) \/ OpenPID(p) \/ WritePID(p) \/ Arm(p)
    \/ Shutdown(p) \/ Drained(p) \/ Clean(p)

Next ==
    \E p \in Pids :
        \/ Step(p)
        \/ Begin(p) \/ LeaveMenu(p)
        \/ Interrupt(p) \/ ServeFails(p) \/ Fails(p) \/ Crash(p)

Spec == Init /\ [][Next]_daemonVars

FairSpec == Spec /\ \A p \in Pids : WF_daemonVars(Step(p))

----------------------------------------------------------------------------
Serving(p) == st(p) \in {"arm", "serve"}

\* The file names a process only from the moment it has its port, so a start
\* that finds the port taken leaves the name of the daemon that has it alone,
\* whatever commands, signals and crashes mix.
PidFileNamesBinder ==
    \A p \in Pids :
        file = p /\ st(p) \notin {"drain", "clean", "zombie", "none"} => listener[proc[p].port] = p

\* As long as no command, signal or crash meets a process between two of its
\* steps, every daemon that serves is the one the PID file names, the one that
\* stop, restart and status find: there is one at most, and a file that a
\* crash left behind, or a zombie, does not hide it.
ServingDaemonIsNamed ==
    disturbing = 0 => \A p \in Pids : Serving(p) => file = p

\* A restart ends with the daemon it started serving, whether it found one
\* serving, none, or the file of one that crashed, whatever the old one takes
\* to shut down, unless something disturbs it.
RestartServes ==
    \A p \in Pids :
        st(p) = "read" /\ proc[p].cmd = "restart" ~>
            \/ disturbing > 0
            \/ proc[p].child # None /\ Serving(proc[p].child) /\ file = proc[p].child
=============================================================================
