---------------------------- MODULE DaemonProofs ----------------------------
(***************************************************************************)
(* Theorems about Daemon, for any number of processes, ports, commands,    *)
(* signals and crashes.                                                    *)
(*                                                                         *)
(* The invariant: a process between the bind and the shutdown listens on   *)
(* its port, and the PID file names a process only once it is past the     *)
(* writing of it; a new process never gets the identifier in the file.     *)
(***************************************************************************)
EXTENDS Daemon, TLAPS

States == {"none", "zombie", "menu", "read", "look", "term", "poll", "remove",
           "spawn", "wait", "probePort", "release", "bind", "open", "write",
           "arm", "serve", "drain", "clean"}

Processes == [cmd : Commands \cup {"none"}, st : States, port : Ports \cup {None},
              target : Pids \cup {None}, parent : Pids \cup {None},
              child : Pids \cup {None}, menu : BOOLEAN, signalled : BOOLEAN]

\* The types of the variables.
DaemonTypeOK ==
    /\ proc \in [Pids -> Processes]
    /\ configured \in Ports
    /\ file \in Pids \cup {Absent, Empty}
    /\ writers \subseteq Pids
    /\ listener \in [Ports -> Pids \cup {None}]
    /\ events \in Nat /\ disturbing \in Nat

\* What a process has by the state it is in.
Bound(s) == s \in {"open", "write", "arm", "serve"}
Nameable(s) == s \in {"arm", "serve", "drain", "clean", "none", "zombie"}

HoldsPort(r) ==
    /\ st(r) = "bind" => proc[r].port \in Ports
    /\ Bound(st(r)) => proc[r].port \in Ports /\ listener[proc[r].port] = r

NamedLate(r) == file = r => Nameable(st(r))

IInv == DaemonTypeOK /\ \A r \in Pids : HoldsPort(r) /\ NamedLate(r)

\* P becomes Q, and process r is where it was, or is reaped.
Keeps(P, Q, r) ==
    /\ Q[r].port = P[r].port
    /\ Q[r].st = P[r].st \/ (P[r].st = "zombie" /\ Q[r].st = "none")

----------------------------------------------------------------------------
(* What the operators on processes yield.                                  *)

LEMMA NoProcTyped == NoProc \in Processes
  BY DEF NoProc, Processes, States

LEMMA LeftTyped ==
  ASSUME NEW s \in States, NEW a \in Pids \cup {None}, NEW c \in Pids \cup {None}
  PROVE  /\ [NoProc EXCEPT !.st = s, !.parent = a, !.child = c] \in Processes
         /\ [NoProc EXCEPT !.st = s, !.parent = a, !.child = c].st = s
  BY NoProcTyped DEF Processes

LEMMA ToTyped ==
  ASSUME proc \in [Pids -> Processes], NEW p \in Pids, NEW s \in States
  PROVE  /\ To(p, s) \in [Pids -> Processes]
         /\ To(p, s)[p].st = s /\ To(p, s)[p].port = proc[p].port
         /\ \A r \in Pids \ {p} : To(p, s)[r] = proc[r]
  <1> DEFINE f == [proc[p] EXCEPT !.st = s,
                                  !.target = IF s \in {"term", "poll"} THEN @ ELSE None]
  <1>1. proc[p] \in Processes
    OBVIOUS
  <1>2. f \in Processes /\ f.st = s /\ f.port = proc[p].port
    BY <1>1 DEF Processes
  <1>3. To(p, s) = [proc EXCEPT ![p] = f]
    BY <1>1 DEF To, Processes
  <1> HIDE DEF f
  <1> QED BY <1>2, <1>3

LEMMA EndedTyped ==
  ASSUME NEW P \in [Pids -> Processes], NEW q \in Pids
  PROVE  /\ Ended(q, P) \in [Pids -> Processes]
         /\ Ended(q, P)[q].st \in {"none", "zombie"}
         /\ \A r \in Pids \ {q} : Keeps(P, Ended(q, P), r)
  <1> DEFINE e(r) ==
        IF r = q
        THEN [NoProc EXCEPT !.st = IF P[q].parent = None THEN "none" ELSE "zombie",
                            !.parent = P[q].parent, !.child = P[q].child]
        ELSE IF P[r].parent # q THEN P[r]
        ELSE [P[r] EXCEPT !.parent = None, !.st = IF @ = "zombie" THEN "none" ELSE @]
  <1>1. \A r \in Pids : P[r] \in Processes
    OBVIOUS
  <1>2. e(q) \in Processes /\ e(q).st \in {"none", "zombie"}
    <2> DEFINE s == IF P[q].parent = None THEN "none" ELSE "zombie"
    <2>1. s \in States /\ s \in {"none", "zombie"}
      BY DEF States
    <2>2. P[q].parent \in Pids \cup {None} /\ P[q].child \in Pids \cup {None}
      BY <1>1 DEF Processes
    <2>3. e(q) = [NoProc EXCEPT !.st = s, !.parent = P[q].parent, !.child = P[q].child]
      OBVIOUS
    <2> HIDE DEF s, e
    <2>4. /\ [NoProc EXCEPT !.st = s, !.parent = P[q].parent, !.child = P[q].child] \in Processes
          /\ [NoProc EXCEPT !.st = s, !.parent = P[q].parent, !.child = P[q].child].st = s
      BY <2>1, <2>2, LeftTyped
    <2> QED BY <2>1, <2>3, <2>4
  <1>3. ASSUME NEW r \in Pids, r # q
        PROVE  /\ e(r) \in Processes /\ e(r).port = P[r].port
               /\ e(r).st = P[r].st \/ (P[r].st = "zombie" /\ e(r).st = "none")
    BY <1>1, <1>3 DEF Processes, States
  <1>4. Ended(q, P) = [r \in Pids |-> e(r)]
    BY DEF Ended
  <1> HIDE DEF e
  <1> QED BY <1>2, <1>3, <1>4 DEF Keeps

LEMMA OverTyped ==
  ASSUME proc \in [Pids -> Processes], NEW p \in Pids
  PROVE  /\ Over(p) \in [Pids -> Processes]
         /\ Over(p)[p].st \in {"none", "zombie", "menu"}
         /\ \A r \in Pids \ {p} : Keeps(proc, Over(p), r)
  <1> DEFINE f == [NoProc EXCEPT !.st = "menu", !.menu = TRUE, !.child = proc[p].child]
  <1>1. f \in Processes /\ f.st = "menu"
    <2>1. proc[p] \in Processes
      OBVIOUS
    <2> QED BY <2>1, NoProcTyped DEF Processes, States
  <1>2. CASE proc[p].menu
    <2>1. Over(p) = [proc EXCEPT ![p] = f]
      BY <1>2 DEF Over
    <2> HIDE DEF f
    <2> QED BY <1>1, <2>1 DEF Keeps
  <1>3. CASE ~proc[p].menu
    BY <1>3, EndedTyped DEF Over
  <1> QED BY <1>2, <1>3

LEMMA StoppedTyped ==
  ASSUME proc \in [Pids -> Processes], NEW p \in Pids
  PROVE  /\ Stopped(p) \in [Pids -> Processes]
         /\ Stopped(p)[p].st \in {"none", "zombie", "menu", "spawn"}
         /\ \A r \in Pids \ {p} : Keeps(proc, Stopped(p), r)
  <1>1. "spawn" \in States
    BY DEF States
  <1> QED BY <1>1, ToTyped, OverTyped DEF Stopped, Keeps

LEMMA ReleasedTyped ==
  ASSUME listener \in [Ports -> Pids \cup {None}], NEW p \in Pids, None \notin Pids
  PROVE  /\ Released({p}) \in [Ports -> Pids \cup {None}]
         /\ \A t \in Ports, r \in Pids \ {p} : listener[t] = r => Released({p})[t] = r
  BY DEF Released

LEMMA StartedTyped ==
  ASSUME NEW cmd \in Commands, NEW port \in Ports \cup {None},
         NEW parent \in Pids \cup {None}, NEW menu \in BOOLEAN
  PROVE  /\ Started(cmd, port, parent, menu) \in Processes
         /\ Started(cmd, port, parent, menu).st \in {"read", "probePort"}
  <1> DEFINE s == IF cmd = "doctor" THEN "probePort" ELSE "read"
  <1>1. s \in {"read", "probePort"} /\ s \in States
    BY DEF States
  <1>2. Started(cmd, port, parent, menu) =
          [NoProc EXCEPT !.cmd = cmd, !.st = s, !.port = port, !.parent = parent, !.menu = menu]
    BY DEF Started
  <1> HIDE DEF s
  <1>3. Started(cmd, port, parent, menu) \in Processes
    BY <1>1, <1>2, NoProcTyped DEF Processes
  <1>4. Started(cmd, port, parent, menu).st = s
    BY <1>2, NoProcTyped DEF Processes
  <1> QED BY <1>1, <1>3, <1>4

----------------------------------------------------------------------------
(* Every step keeps the invariant.                                         *)

LEMMA InitInv == Init => IInv
  BY DaemonAssumption, NoProcTyped
  DEF Init, IInv, DaemonTypeOK, HoldsPort, NamedLate, NoProc, Bound, st

\* It is enough to look at the processes C that a step moves.
LEMMA Frame ==
  ASSUME IInv, DaemonTypeOK', NEW C \in SUBSET Pids,
         \A r \in Pids \ C : Keeps(proc, proc', r),
         \A r \in Pids \ C, t \in Ports : listener[t] = r => listener'[t] = r,
         file' \notin Pids \/ file' = file \/ file' \in C,
         \A r \in C : HoldsPort(r)' /\ NamedLate(r)'
  PROVE  IInv'
  <1>1. ASSUME NEW r \in Pids \ C
        PROVE  HoldsPort(r)' /\ NamedLate(r)'
    <2>1. Keeps(proc, proc', r) /\ HoldsPort(r) /\ NamedLate(r)
      BY <1>1 DEF IInv
    <2>2. file' = r => file = r
      BY <1>1
    <2> QED BY <1>1, <2>1, <2>2 DEF Keeps, HoldsPort, NamedLate, Bound, Nameable, st
  <1> QED BY <1>1 DEF IInv

LEMMA FrameOne ==
  ASSUME IInv, DaemonTypeOK', NEW p \in Pids,
         \A r \in Pids \ {p} : Keeps(proc, proc', r),
         \A r \in Pids \ {p}, t \in Ports : listener[t] = r => listener'[t] = r,
         file' \notin Pids \/ file' = file \/ file' = p,
         HoldsPort(p)' /\ NamedLate(p)'
  PROVE  IInv'
  <1> DEFINE C == {p}
  <1>1. C \in SUBSET Pids /\ \A r \in C : r = p
    OBVIOUS
  <1>2. \A r \in C : HoldsPort(r)' /\ NamedLate(r)'
    OBVIOUS
  <1>3. file' \notin Pids \/ file' = file \/ file' \in C
    OBVIOUS
  <1>4. \A r \in Pids \ C : Keeps(proc, proc', r)
    OBVIOUS
  <1>5. \A r \in Pids \ C, t \in Ports : listener[t] = r => listener'[t] = r
    OBVIOUS
  <1> HIDE DEF C
  <1> QED BY <1>1, <1>2, <1>3, <1>4, <1>5, Frame

\* A process that only moves on, to a state in which it owes nothing new.
LEMMA MovesOn ==
  ASSUME IInv, NEW p \in Pids, NEW s \in States, proc' = To(p, s),
         s = "bind" => proc[p].port \in Ports,
         Bound(s) => Bound(st(p)),
         file = p => Nameable(s),
         UNCHANGED <<configured, file, writers, listener, events, disturbing>>
  PROVE  IInv'
  <1>1. proc \in [Pids -> Processes]
    BY DEF IInv, DaemonTypeOK
  <1>2. /\ proc' \in [Pids -> Processes] /\ proc'[p].st = s /\ proc'[p].port = proc[p].port
        /\ \A r \in Pids \ {p} : Keeps(proc, proc', r)
    BY <1>1, ToTyped DEF Keeps
  <1>3. DaemonTypeOK'
    BY <1>2 DEF IInv, DaemonTypeOK
  <1>4. HoldsPort(p) /\ NamedLate(p)
    BY DEF IInv
  <1>5. HoldsPort(p)' /\ NamedLate(p)'
    BY <1>2, <1>4 DEF HoldsPort, NamedLate, Bound, st
  <1> QED BY <1>2, <1>3, <1>5, FrameOne

\* A process that is over, and no longer listens.
LEMMA Ends ==
  ASSUME IInv, NEW p \in Pids, proc' \in [Pids -> Processes],
         proc'[p].st \in {"none", "zombie", "menu", "spawn"},
         \A r \in Pids \ {p} : Keeps(proc, proc', r),
         file' \in {file, Absent},
         file' = p => proc'[p].st \in {"none", "zombie"},
         listener' \in {listener, Released({p})},
         writers' \subseteq Pids, configured' = configured,
         events' \in Nat, disturbing' \in Nat
  PROVE  IInv'
  <1>1. /\ listener' \in [Ports -> Pids \cup {None}]
        /\ \A r \in Pids \ {p}, t \in Ports : listener[t] = r => listener'[t] = r
    BY DaemonAssumption, ReleasedTyped DEF IInv, DaemonTypeOK
  <1>2. DaemonTypeOK' /\ (file' \notin Pids \/ file' = file)
    BY <1>1, DaemonAssumption DEF IInv, DaemonTypeOK
  <1>3. HoldsPort(p)' /\ NamedLate(p)'
    BY DEF HoldsPort, NamedLate, Bound, Nameable, st
  <1> QED BY <1>1, <1>2, <1>3, FrameOne

\* A process that kills the one it looked at.
LEMMA KillsTarget ==
  ASSUME IInv, NEW p \in Pids, NEW q \in Pids, NEW s \in {"poll", "remove"},
         st(p) \in {"term", "poll"},
         proc' = Ended(q, To(p, s)), listener' = Released({q}),
         UNCHANGED <<configured, file, writers, events, disturbing>>
  PROVE  IInv'
  <1> DEFINE C == {p, q}
             P == To(p, s)
  <1>1. proc \in [Pids -> Processes] /\ s \in States /\ HoldsPort(p) /\ NamedLate(p)
    BY DEF IInv, DaemonTypeOK, States
  <1>2. /\ P \in [Pids -> Processes] /\ P[p].st = s
        /\ \A r \in Pids \ {p} : P[r] = proc[r]
    BY <1>1, ToTyped
  <1> HIDE DEF P
  <1>3. /\ proc' \in [Pids -> Processes] /\ proc'[q].st \in {"none", "zombie"}
        /\ \A r \in Pids \ {q} : Keeps(P, proc', r)
    <2>1. proc' = Ended(q, P)
      BY DEF P
    <2> QED BY <1>2, <2>1, EndedTyped
  <1>4. \A r \in Pids \ C : Keeps(proc, proc', r)
    BY <1>2, <1>3 DEF Keeps
  <1>5. /\ listener' \in [Ports -> Pids \cup {None}]
        /\ \A r \in Pids \ C, t \in Ports : listener[t] = r => listener'[t] = r
    BY DaemonAssumption, ReleasedTyped DEF IInv, DaemonTypeOK
  <1>6. DaemonTypeOK'
    BY <1>3, <1>5 DEF IInv, DaemonTypeOK
  <1>7. proc'[p].st \in {"none", "zombie", s} /\ file # p
    BY <1>1, <1>2, <1>3 DEF Keeps, NamedLate, Nameable
  <1>8. \A r \in C : HoldsPort(r)' /\ NamedLate(r)'
    BY <1>3, <1>7 DEF HoldsPort, NamedLate, Bound, Nameable, st
  <1>9. C \in SUBSET Pids /\ file' = file
    OBVIOUS
  <1> HIDE DEF C
  <1> QED BY <1>4, <1>5, <1>6, <1>8, <1>9, Frame

LEMMA EventTyped == ASSUME IInv, Event PROVE events' \in Nat /\ disturbing' \in Nat
  BY DEF Event, IInv, DaemonTypeOK

LEMMA StepInv ==
  ASSUME IInv, NEW p \in Pids, Step(p)
  PROVE  IInv'
  <1> USE DaemonAssumption
  <1>1. /\ proc \in [Pids -> Processes] /\ proc[p] \in Processes /\ configured \in Ports
        /\ HoldsPort(p) /\ NamedLate(p)
    BY DEF IInv, DaemonTypeOK
  <1>2. /\ {"look", "term", "poll", "remove", "spawn", "wait", "release", "bind",
            "open", "write", "arm", "serve", "drain", "clean"} \subseteq States
        /\ file \in Pids \cup {Absent, Empty} /\ writers \subseteq Pids
        /\ listener \in [Ports -> Pids \cup {None}] /\ events \in Nat /\ disturbing \in Nat
    BY DEF States, IInv, DaemonTypeOK
  <1>3. CASE readPID(p)
    <2>1. /\ proc' \in [Pids -> Processes] /\ proc'[p].st = "look"
          /\ \A r \in Pids \ {p} : Keeps(proc, proc', r)
      BY <1>1, <1>2, <1>3 DEF readPID, Keeps, Processes
    <2>2. DaemonTypeOK'
      BY <2>1, <1>1, <1>2, <1>3 DEF DaemonTypeOK, readPID
    <2>3. HoldsPort(p)' /\ NamedLate(p)'
      BY <1>1, <1>3, <2>1 DEF HoldsPort, NamedLate, Bound, Nameable, st, readPID
    <2> QED BY <1>3, <2>1, <2>2, <2>3, FrameOne DEF readPID
  <1>4. CASE StartLook(p)
    <2>1. CASE Alive(p)
      BY <1>1, <1>2, <1>4, <2>1, OverTyped, Ends
      DEF StartLook, NamedLate, Nameable, st
    <2>2. CASE ~Alive(p)
      <3>1. PICK t \in PortsOf(p) :
              /\ configured' = t
              /\ proc' = [To(p, IF proc[p].cmd = "start" THEN "bind" ELSE "spawn")
                            EXCEPT ![p].port = t]
        BY <1>4, <2>2 DEF StartLook, GoOn, Follows
      <3>2. t \in Ports
        BY <1>1 DEF PortsOf, Processes
      <3> DEFINE s == IF proc[p].cmd = "start" THEN "bind" ELSE "spawn"
      <3>3. s \in States /\ s \in {"bind", "spawn"}
        BY <1>2
      <3>4. proc' = [To(p, s) EXCEPT ![p].port = t]
        BY <3>1
      <3> HIDE DEF s
      <3>5. To(p, s) \in [Pids -> Processes] /\ To(p, s)[p].st = s
            /\ \A r \in Pids \ {p} : To(p, s)[r] = proc[r]
        BY <1>1, <3>3, ToTyped
      <3>6. /\ proc' \in [Pids -> Processes] /\ proc'[p].st = s /\ proc'[p].port = t
            /\ \A r \in Pids \ {p} : Keeps(proc, proc', r)
        BY <3>2, <3>4, <3>5 DEF Processes, Keeps
      <3>7. DaemonTypeOK'
        BY <1>2, <1>4, <3>1, <3>2, <3>6 DEF DaemonTypeOK, StartLook
      <3>8. HoldsPort(p)' /\ NamedLate(p)'
        BY <1>1, <1>4, <3>2, <3>3, <3>6 DEF HoldsPort, NamedLate, Bound, Nameable, st, StartLook
      <3> QED BY <1>4, <3>6, <3>7, <3>8, FrameOne DEF StartLook
    <2> QED BY <2>1, <2>2
  <1>5. CASE StopLook(p)
    BY <1>1, <1>2, <1>5, MovesOn DEF StopLook, NamedLate, Nameable, Bound, st
  <1>6. CASE Poll(p)
    BY <1>1, <1>2, <1>6, MovesOn DEF Poll, NamedLate, Nameable, Bound, st
  <1>7. CASE Remove(p)
    BY <1>1, <1>2, <1>7, StoppedTyped, Ends DEF Remove, Removed, st
  <1>8. CASE WaitOver(p)
    BY <1>1, <1>2, <1>8, OverTyped, Ends DEF WaitOver, NamedLate, Nameable, st
  <1>9. CASE Arm(p)
    BY <1>1, <1>2, <1>9, MovesOn DEF Arm, NamedLate, Nameable, Bound, st
  <1>10. CASE Drained(p)
    BY <1>1, <1>2, <1>10, MovesOn DEF Drained, NamedLate, Nameable, Bound, st
  <1>11. CASE Clean(p)
    BY <1>1, <1>2, <1>11, EndedTyped, Ends DEF Clean, Removed
  <1>12. CASE Release(p)
    BY <1>1, <1>2, <1>12, EndedTyped, Ends DEF Release
  <1>13. CASE Shutdown(p)
    <2>1. /\ proc' \in [Pids -> Processes] /\ proc'[p].st = "drain"
          /\ \A r \in Pids \ {p} : Keeps(proc, proc', r)
      BY <1>1, <1>2, <1>13 DEF Shutdown, Keeps, Processes
    <2>2. /\ listener' \in [Ports -> Pids \cup {None}]
          /\ \A r \in Pids \ {p}, t \in Ports : listener[t] = r => listener'[t] = r
      BY <1>2, <1>13, ReleasedTyped DEF Shutdown
    <2>3. DaemonTypeOK'
      BY <2>1, <2>2, <1>1, <1>2, <1>13 DEF DaemonTypeOK, Shutdown
    <2>4. HoldsPort(p)' /\ NamedLate(p)'
      BY <2>1 DEF HoldsPort, NamedLate, Bound, Nameable, st
    <2> QED BY <1>13, <2>1, <2>2, <2>3, <2>4, FrameOne DEF Shutdown
  <1>14. CASE ProbePort(p)
    <2>1. CASE listener[configured] # None
      <3>1. /\ proc' = Ended(p, proc)
            /\ UNCHANGED <<configured, file, writers, listener, events, disturbing>>
        BY <1>14, <2>1 DEF ProbePort
      <3> QED BY <1>1, <1>2, <3>1, EndedTyped, Ends
    <2>2. CASE listener[configured] = None
      <3>1. /\ proc' = To(p, "release") /\ listener' = [listener EXCEPT ![configured] = p]
            /\ UNCHANGED <<configured, file, writers, events, disturbing>> /\ st(p) = "probePort"
        BY <1>14, <2>2 DEF ProbePort
      <3>2. /\ proc' \in [Pids -> Processes] /\ proc'[p].st = "release"
            /\ \A r \in Pids \ {p} : Keeps(proc, proc', r)
        BY <1>1, <1>2, <3>1, ToTyped DEF Keeps
      <3>3. /\ listener' \in [Ports -> Pids \cup {None}]
            /\ \A r \in Pids \ {p}, t \in Ports : listener[t] = r => listener'[t] = r
        BY <1>1, <1>2, <2>2, <3>1
      <3>4. DaemonTypeOK'
        BY <1>1, <1>2, <3>1, <3>2, <3>3 DEF DaemonTypeOK
      <3>5. HoldsPort(p)' /\ NamedLate(p)'
        BY <1>1, <3>1, <3>2 DEF HoldsPort, NamedLate, Bound, Nameable, st
      <3> QED BY <3>1, <3>2, <3>3, <3>4, <3>5, FrameOne
    <2> QED BY <2>1, <2>2
  <1>15. CASE Bind(p)
    <2> DEFINE t == proc[p].port
    <2>1. t \in Ports
      BY <1>1, <1>15 DEF Bind, HoldsPort
    <2>2. CASE listener[t] # None
      <3>1. /\ proc' = Ended(p, proc)
            /\ UNCHANGED <<configured, file, writers, listener, events, disturbing>>
        BY <1>15, <2>2 DEF Bind
      <3> QED BY <1>1, <1>2, <3>1, EndedTyped, Ends
    <2>3. CASE listener[t] = None
      <3>1. /\ proc' = To(p, "open") /\ listener' = [listener EXCEPT ![t] = p]
            /\ UNCHANGED <<configured, file, writers, events, disturbing>> /\ st(p) = "bind"
        BY <1>15, <2>3 DEF Bind, Follows
      <3>2. /\ proc' \in [Pids -> Processes] /\ proc'[p].st = "open" /\ proc'[p].port = t
            /\ \A r \in Pids \ {p} : Keeps(proc, proc', r)
        BY <1>1, <1>2, <3>1, ToTyped DEF Keeps
      <3> HIDE DEF t
      <3>3. /\ listener' \in [Ports -> Pids \cup {None}]
            /\ \A r \in Pids \ {p}, u \in Ports : listener[u] = r => listener'[u] = r
            /\ listener'[t] = p
        BY <1>1, <1>2, <2>1, <2>3, <3>1
      <3>4. DaemonTypeOK'
        BY <1>1, <1>2, <3>1, <3>2, <3>3 DEF DaemonTypeOK
      <3>5. HoldsPort(p)' /\ NamedLate(p)'
        BY <1>1, <2>1, <3>1, <3>2, <3>3 DEF HoldsPort, NamedLate, Bound, Nameable, st
      <3> QED BY <3>1, <3>2, <3>3, <3>4, <3>5, FrameOne
    <2> QED BY <2>2, <2>3
  <1>16. CASE OpenPID(p)
    <2>1. /\ proc' = To(p, "write") /\ file' = Empty /\ writers' = writers \cup {p}
          /\ UNCHANGED <<configured, listener, events, disturbing>> /\ st(p) = "open"
      BY <1>16 DEF OpenPID, Follows
    <2>2. /\ proc' \in [Pids -> Processes] /\ proc'[p].st = "write" /\ proc'[p].port = proc[p].port
          /\ \A r \in Pids \ {p} : Keeps(proc, proc', r)
      BY <1>1, <1>2, <2>1, ToTyped DEF Keeps
    <2>3. DaemonTypeOK' /\ file' \notin Pids
      BY <1>1, <1>2, <2>1, <2>2 DEF DaemonTypeOK
    <2>4. HoldsPort(p)' /\ NamedLate(p)'
      BY <1>1, <2>1, <2>2, <2>3 DEF HoldsPort, NamedLate, Bound, Nameable, st
    <2> QED BY <2>1, <2>2, <2>3, <2>4, FrameOne
  <1>17. CASE WritePID(p)
    <2>1. /\ proc' = To(p, "arm") /\ file' \in {p, file} /\ writers' = writers \ {p}
          /\ UNCHANGED <<configured, listener, events, disturbing>> /\ st(p) = "write"
      BY <1>17 DEF WritePID, Follows
    <2>2. /\ proc' \in [Pids -> Processes] /\ proc'[p].st = "arm" /\ proc'[p].port = proc[p].port
          /\ \A r \in Pids \ {p} : Keeps(proc, proc', r)
      BY <1>1, <1>2, <2>1, ToTyped DEF Keeps
    <2>3. DaemonTypeOK'
      BY <1>1, <1>2, <2>1, <2>2 DEF DaemonTypeOK
    <2>4. HoldsPort(p)' /\ NamedLate(p)'
      BY <1>1, <2>1, <2>2 DEF HoldsPort, NamedLate, Bound, Nameable, st
    <2> QED BY <2>1, <2>2, <2>3, <2>4, FrameOne
  <1>18. CASE sendTermSignal(p)
    <2> DEFINE q == proc[p].target
    <2>1. CASE ~Alive(p)
      <3>1. /\ proc' = Stopped(p) /\ st(p) = "term"
            /\ UNCHANGED <<configured, file, writers, listener, events, disturbing>>
        BY <1>18, <2>1 DEF sendTermSignal
      <3>2. file # p
        BY <1>1, <3>1 DEF NamedLate, Nameable
      <3> QED BY <1>1, <1>2, <3>1, <3>2, StoppedTyped, Ends
    <2>2. CASE Alive(p)
      <3>1. /\ proc' = Signalled(q, To(p, "poll")) /\ st(p) = "term"
            /\ listener' = IF st(q) \in Handles THEN listener ELSE Released({q})
            /\ UNCHANGED <<configured, file, writers, events, disturbing>>
        BY <1>18, <2>2 DEF sendTermSignal
      <3>2. q \in Pids
        BY <1>1, <2>2 DEF Alive, Processes
      <3> HIDE DEF q
      <3>3. CASE st(q) \in Handles
        <4> DEFINE P == To(p, "poll")
        <4>1. P \in [Pids -> Processes] /\ P[p].st = "poll" /\ \A r \in Pids \ {p} : P[r] = proc[r]
          BY <1>1, <1>2, ToTyped
        <4>2. proc' = [P EXCEPT ![q].signalled = (st(q) = "serve")] /\ listener' = listener
          BY <3>1, <3>3 DEF Signalled
        <4> HIDE DEF P
        <4>3. p # q
          BY <3>1, <3>3 DEF Handles
        <4>4. /\ proc' \in [Pids -> Processes] /\ proc'[p].st = "poll"
              /\ \A r \in Pids \ {p} : Keeps(proc, proc', r)
          <5> DEFINE f == [P[q] EXCEPT !.signalled = (st(q) = "serve")]
          <5>1. P[q] \in Processes /\ P[q] = proc[q]
            BY <4>1, <4>3, <3>2
          <5>2. f \in Processes /\ f.st = proc[q].st /\ f.port = proc[q].port
            BY <5>1 DEF Processes
          <5>3. proc' = [P EXCEPT ![q] = f]
            BY <4>2
          <5> HIDE DEF f
          <5> QED BY <4>1, <4>3, <3>2, <5>2, <5>3 DEF Keeps
        <4>5. DaemonTypeOK'
          BY <1>1, <1>2, <3>1, <4>2, <4>4 DEF DaemonTypeOK
        <4>6. HoldsPort(p)' /\ NamedLate(p)'
          BY <1>1, <3>1, <4>4 DEF HoldsPort, NamedLate, Bound, Nameable, st
        <4> QED BY <3>1, <4>2, <4>4, <4>5, <4>6, FrameOne
      <3>4. CASE st(q) \notin Handles
        <4>1. proc' = Ended(q, To(p, "poll")) /\ listener' = Released({q})
          BY <3>1, <3>4 DEF Signalled
        <4> QED BY <3>1, <3>2, <4>1, KillsTarget
      <3> QED BY <3>3, <3>4
    <2> QED BY <2>1, <2>2
  <1>19. CASE sendKillSignal(p)
    <2>1. proc[p].target \in Pids
      BY <1>1, <1>19 DEF sendKillSignal, Alive, Processes
    <2>2. /\ proc' = Ended(proc[p].target, To(p, "remove")) /\ st(p) = "poll"
          /\ listener' = Released({proc[p].target})
          /\ UNCHANGED <<configured, file, writers, events, disturbing>>
      BY <1>19 DEF sendKillSignal
    <2> QED BY <2>1, <2>2, KillsTarget
  <1>20. CASE Spawn(p)
    <2> DEFINE P == To(p, "wait")
               t == IF proc[p].cmd = "restart" THEN configured ELSE proc[p].port
               n == Started("start", t, p, FALSE)
    <2>1. PICK q \in Pids :
            /\ Fresh(q)
            /\ proc' = [P EXCEPT ![p].child = q, ![q] = n]
      BY <1>20 DEF Spawn
    <2>2. st(q) = "none" /\ file # q /\ p # q
      BY <1>20, <2>1 DEF Spawn, Fresh, Free, Exists, st
    <2>3. P \in [Pids -> Processes] /\ P[p].st = "wait" /\ \A r \in Pids \ {p} : P[r] = proc[r]
      BY <1>1, <1>2, ToTyped
    <2>4. n \in Processes /\ n.st \in {"read", "probePort"}
      <3>1. t \in Ports \cup {None} /\ "start" \in Commands /\ p \in Pids \cup {None}
        BY <1>1 DEF Processes, Commands
      <3> HIDE DEF t
      <3> QED BY <3>1, StartedTyped
    <2> HIDE DEF P, n
    <2> DEFINE C == {p, q}
    <2>5. /\ proc' \in [Pids -> Processes] /\ proc'[p].st = "wait"
          /\ proc'[q].st \in {"read", "probePort"}
          /\ \A r \in Pids \ C : Keeps(proc, proc', r)
      BY <2>1, <2>2, <2>3, <2>4 DEF Keeps, Processes
    <2>6. DaemonTypeOK' /\ file' = file /\ listener' = listener /\ st(p) = "spawn"
      BY <1>1, <1>2, <1>20, <2>5 DEF DaemonTypeOK, Spawn
    <2>7. \A r \in C : HoldsPort(r)' /\ NamedLate(r)'
      BY <1>1, <2>2, <2>5, <2>6 DEF HoldsPort, NamedLate, Bound, Nameable, st
    <2>8. C \in SUBSET Pids
      OBVIOUS
    <2> HIDE DEF C
    <2> QED BY <2>5, <2>6, <2>7, <2>8, Frame
  <1> QED BY <1>3, <1>4, <1>5, <1>6, <1>7, <1>8, <1>9, <1>10, <1>11, <1>12, <1>13,
             <1>14, <1>15, <1>16, <1>17, <1>18, <1>19, <1>20 DEF Step

LEMMA NextInv == ASSUME IInv, [Next]_daemonVars PROVE IInv'
  <1> USE DaemonAssumption
  <1>1. CASE UNCHANGED daemonVars
    BY <1>1 DEF daemonVars, IInv, DaemonTypeOK, HoldsPort, NamedLate, st
  <1>2. ASSUME NEW p \in Pids, Begin(p) PROVE IInv'
    <2>1. /\ proc \in [Pids -> Processes] /\ proc[p] \in Processes
          /\ HoldsPort(p) /\ NamedLate(p) /\ events' \in Nat /\ disturbing' \in Nat
      BY <1>2, EventTyped DEF Begin, IInv, DaemonTypeOK
    <2>2. PICK cmd \in Commands, menu \in BOOLEAN :
            proc' = [proc EXCEPT ![p] = Started(cmd, None, None, menu)]
      BY <1>2 DEF Begin
    <2> DEFINE n == Started(cmd, None, None, menu)
    <2>3. n \in Processes /\ n.st \in {"read", "probePort"}
      BY StartedTyped
    <2> HIDE DEF n
    <2>4. /\ proc' \in [Pids -> Processes] /\ proc'[p].st \in {"read", "probePort"}
          /\ \A r \in Pids \ {p} : Keeps(proc, proc', r)
      <3>1. proc' = [proc EXCEPT ![p] = n]
        BY <2>2 DEF n
      <3> QED BY <2>1, <2>3, <3>1 DEF Keeps
    <2>5. DaemonTypeOK' /\ file' = file /\ listener' = listener
      BY <1>2, <2>1, <2>4 DEF IInv, DaemonTypeOK, Begin
    <2>6. file # p
      BY <1>2, <2>1 DEF Begin, Fresh, Free, NamedLate, Nameable
    <2>7. HoldsPort(p)' /\ NamedLate(p)'
      BY <2>4, <2>5, <2>6 DEF HoldsPort, NamedLate, Bound, Nameable, st
    <2> QED BY <2>4, <2>5, <2>7, FrameOne
  <1>3. ASSUME NEW p \in Pids, LeaveMenu(p) PROVE IInv'
    BY <1>3, EndedTyped, Ends DEF LeaveMenu, IInv, DaemonTypeOK
  <1>4. ASSUME NEW p \in Pids, Interrupt(p) PROVE IInv'
    <2>1. /\ proc \in [Pids -> Processes] /\ proc[p] \in Processes
          /\ HoldsPort(p) /\ NamedLate(p) /\ events' \in Nat /\ disturbing' \in Nat
      BY <1>4, EventTyped DEF Interrupt, IInv, DaemonTypeOK
    <2>2. /\ proc' \in [Pids -> Processes] /\ proc'[p].st = st(p) /\ proc'[p].port = proc[p].port
          /\ \A r \in Pids \ {p} : Keeps(proc, proc', r)
      BY <1>4, <2>1 DEF Interrupt, Keeps, Processes, st
    <2>3. DaemonTypeOK' /\ file' = file /\ listener' = listener
      BY <1>4, <2>1, <2>2 DEF IInv, DaemonTypeOK, Interrupt
    <2>4. HoldsPort(p)' /\ NamedLate(p)'
      BY <2>1, <2>2, <2>3 DEF HoldsPort, NamedLate, st
    <2> QED BY <2>2, <2>3, <2>4, FrameOne
  <1>5. ASSUME NEW p \in Pids, ServeFails(p) PROVE IInv'
    <2>1. /\ proc \in [Pids -> Processes] /\ proc[p] \in Processes
          /\ listener \in [Ports -> Pids \cup {None}]
          /\ events' \in Nat /\ disturbing' \in Nat /\ "clean" \in States
      BY <1>5, EventTyped DEF ServeFails, IInv, DaemonTypeOK, States
    <2>2. /\ proc' \in [Pids -> Processes] /\ proc'[p].st = "clean"
          /\ \A r \in Pids \ {p} : Keeps(proc, proc', r)
      BY <1>5, <2>1 DEF ServeFails, Keeps, Processes
    <2>3. /\ listener' \in [Ports -> Pids \cup {None}]
          /\ \A r \in Pids \ {p}, t \in Ports : listener[t] = r => listener'[t] = r
      BY <1>5, <2>1, ReleasedTyped DEF ServeFails
    <2>4. DaemonTypeOK' /\ file' = file
      BY <1>5, <2>1, <2>2, <2>3 DEF IInv, DaemonTypeOK, ServeFails
    <2>5. HoldsPort(p)' /\ NamedLate(p)'
      BY <2>2 DEF HoldsPort, NamedLate, Bound, Nameable, st
    <2> QED BY <2>2, <2>3, <2>4, <2>5, FrameOne
  <1>6. ASSUME NEW p \in Pids, Fails(p) PROVE IInv'
    <2>1. proc \in [Pids -> Processes] /\ writers \subseteq Pids /\ file # p
      BY <1>6 DEF Fails, IInv, DaemonTypeOK, NamedLate, Nameable
    <2> QED BY <1>6, <2>1, OverTyped, EventTyped, Ends DEF Fails
  <1>7. ASSUME NEW p \in Pids, Crash(p) PROVE IInv'
    <2>1. proc \in [Pids -> Processes] /\ writers \subseteq Pids
      BY DEF IInv, DaemonTypeOK
    <2> QED BY <1>7, <2>1, EndedTyped, EventTyped, Ends DEF Crash
  <1> QED BY <1>1, <1>2, <1>3, <1>4, <1>5, <1>6, <1>7, StepInv DEF Next

\* Who is named by the PID file holds its port, from Init on and in every step.
THEOREM DaemonInvariant == Spec => []IInv
  BY InitInv, NextInv, PTL DEF Spec

\* Processes, ports and the PID file never leave their ranges.
THEOREM DaemonTypeCorrect == Spec => []DaemonTypeOK
  <1>1. IInv => DaemonTypeOK
    BY DEF IInv
  <1> QED BY <1>1, DaemonInvariant, PTL

\* The PID file never names a daemon that lives and does not have its port,
\* however many starts, stops, restarts, signals and crashes overlap.
THEOREM PidFileAlwaysNamesBinder == Spec => []PidFileNamesBinder
  <1>1. IInv => PidFileNamesBinder
    BY DEF IInv, PidFileNamesBinder, HoldsPort, NamedLate, Bound, Nameable
  <1> QED BY <1>1, DaemonInvariant, PTL

-----------------------------------------------------------------------------
(***************************************************************************)
(* While nothing disturbs: undisturbed commands leave one daemon at most,  *)
(* the one the PID file names.                                             *)
(*                                                                         *)
(* The invariant: two processes are at work at a time only as a command    *)
(* and the child it waits for, or a command and the daemon it stops; and   *)
(* beside a daemon that serves there is nobody who removes the file,       *)
(* starts, shuts down, or looks at another process.                        *)
(***************************************************************************)
Starting == {"read", "look", "bind", "open", "write", "arm"}

\* Process p waits for q, its child, or for q to end.
Together(p, q) ==
    \/ st(p) = "wait" /\ proc[q].cmd = "start" /\ st(q) \in Starting
    \/ st(p) = "poll" /\ proc[p].target = q /\ st(q) \in Handles

\* Process p does nothing to the daemon q, or stops it.
Leaves(p, q) ==
    /\ st(p) \notin {"remove", "spawn", "bind", "open", "write", "arm", "drain", "clean"}
    /\ st(p) \in {"look", "term", "poll"} => proc[p].target = q

WorkInPairs ==
    \A p, q \in Pids : p # q /\ Busy(p) /\ Busy(q) => Together(p, q) \/ Together(q, p)

ServesAlone == \A p, q \in Pids : p # q /\ Serving(q) => Leaves(p, q)

IsNamed == \A p \in Pids : /\ Serving(p) => file = p
                           /\ st(p) = "write" => p \in writers

SignalledServes == \A p \in Pids : proc[p].signalled => st(p) = "serve"

CalmInv ==
    /\ SignalledServes
    /\ disturbing = 0 => WorkInPairs /\ ServesAlone /\ IsNamed

\* P becomes Q, and process r is as it was, but for its parent, or is reaped.
Stays(P, Q, r) ==
    /\ Q[r].cmd = P[r].cmd /\ Q[r].target = P[r].target
    /\ Q[r].signalled = P[r].signalled
    /\ Q[r].st = P[r].st \/ (P[r].st = "zombie" /\ Q[r].st = "none")

----------------------------------------------------------------------------
(* What the operators on processes yield.                                  *)

LEMMA ToStays ==
  ASSUME proc \in [Pids -> Processes], NEW p \in Pids, NEW s \in States
  PROVE  /\ To(p, s)[p].st = s /\ To(p, s)[p].cmd = proc[p].cmd
         /\ To(p, s)[p].signalled = proc[p].signalled
         /\ s = "poll" => To(p, s)[p].target = proc[p].target
         /\ s = "term" => To(p, s)[p].target = proc[p].target
         /\ \A r \in Pids \ {p} : Stays(proc, To(p, s), r)
  <1> DEFINE f == [proc[p] EXCEPT !.st = s,
                                  !.target = IF s \in {"term", "poll"} THEN @ ELSE None]
  <1>1. proc[p] \in Processes
    OBVIOUS
  <1>2. /\ f.st = s /\ f.cmd = proc[p].cmd /\ f.signalled = proc[p].signalled
        /\ s \in {"term", "poll"} => f.target = proc[p].target
    BY <1>1 DEF Processes
  <1>3. To(p, s) = [proc EXCEPT ![p] = f]
    BY <1>1 DEF To, Processes
  <1> HIDE DEF f
  <1> QED BY <1>2, <1>3 DEF Stays

LEMMA NoProcQuiet == NoProc.signalled = FALSE
  BY DEF NoProc

LEMMA EndedStays ==
  ASSUME NEW P \in [Pids -> Processes], NEW q \in Pids
  PROVE  /\ Ended(q, P)[q].st \in {"none", "zombie"}
         /\ ~Ended(q, P)[q].signalled
         /\ \A r \in Pids \ {q} : Stays(P, Ended(q, P), r)
  <1> DEFINE s == IF P[q].parent = None THEN "none" ELSE "zombie"
             f == [NoProc EXCEPT !.st = s, !.parent = P[q].parent, !.child = P[q].child]
             g(r) == [P[r] EXCEPT !.parent = None, !.st = IF @ = "zombie" THEN "none" ELSE @]
             e(r) == IF r = q THEN f ELSE IF P[r].parent # q THEN P[r] ELSE g(r)
  <1>1. \A r \in Pids : P[r] \in Processes
    OBVIOUS
  <1>2. f.st \in {"none", "zombie"} /\ f.signalled = FALSE
    <2>1. s \in States /\ s \in {"none", "zombie"}
      BY DEF States
    <2>2. P[q].parent \in Pids \cup {None} /\ P[q].child \in Pids \cup {None}
      BY <1>1 DEF Processes
    <2> HIDE DEF s
    <2>3. /\ [NoProc EXCEPT !.st = s, !.parent = P[q].parent, !.child = P[q].child].st = s
          /\ [NoProc EXCEPT !.st = s, !.parent = P[q].parent, !.child = P[q].child].signalled
               = FALSE
      BY <2>1, <2>2, NoProcTyped, NoProcQuiet DEF Processes
    <2> QED BY <2>1, <2>3
  <1>3. ASSUME NEW r \in Pids
        PROVE  /\ g(r).cmd = P[r].cmd /\ g(r).target = P[r].target
               /\ g(r).signalled = P[r].signalled
               /\ g(r).st = P[r].st \/ (P[r].st = "zombie" /\ g(r).st = "none")
    BY <1>1, <1>3 DEF Processes
  <1>4. Ended(q, P) = [r \in Pids |-> e(r)]
    BY DEF Ended
  <1> HIDE DEF f, g
  <1> QED BY <1>2, <1>3, <1>4 DEF Stays

LEMMA OverStays ==
  ASSUME proc \in [Pids -> Processes], NEW p \in Pids
  PROVE  /\ Over(p)[p].st \in {"none", "zombie", "menu"} /\ ~Over(p)[p].signalled
         /\ \A r \in Pids \ {p} : Stays(proc, Over(p), r)
  <1> DEFINE f == [NoProc EXCEPT !.st = "menu", !.menu = TRUE, !.child = proc[p].child]
  <1>1. f.st = "menu" /\ f.signalled = FALSE
    BY DEF NoProc
  <1>2. CASE proc[p].menu
    <2>1. Over(p) = [proc EXCEPT ![p] = f]
      BY <1>2 DEF Over
    <2> HIDE DEF f
    <2> QED BY <1>1, <2>1 DEF Stays
  <1>3. CASE ~proc[p].menu
    BY <1>3, EndedStays DEF Over
  <1> QED BY <1>2, <1>3

LEMMA StartedFields ==
  ASSUME NEW cmd \in Commands, NEW port \in Ports \cup {None},
         NEW parent \in Pids \cup {None}, NEW menu \in BOOLEAN
  PROVE  /\ Started(cmd, port, parent, menu).cmd = cmd
         /\ Started(cmd, port, parent, menu).st \in {"read", "probePort"}
         /\ cmd = "start" => Started(cmd, port, parent, menu).st = "read"
         /\ Started(cmd, port, parent, menu).signalled = FALSE
  BY DEF Started, NoProc

----------------------------------------------------------------------------
(* Every step keeps the invariant.                                         *)

LEMMA CalmInit == Init => CalmInv
  BY DEF Init, CalmInv, SignalledServes, WorkInPairs, ServesAlone, IsNamed, NoProc,
         Busy, Serving, st

\* It is enough to look at the processes C that a step moves.
LEMMA CalmFrame ==
  ASSUME IInv, CalmInv, disturbing' = 0 => disturbing = 0,
         NEW C \in SUBSET Pids,
         \A r \in Pids \ C : Stays(proc, proc', r),
         \A r \in C : proc'[r].signalled => proc'[r].st = "serve",
         disturbing' = 0 =>
            /\ \A r \in Pids \ C : Serving(r) => file' = file
            /\ \A r \in Pids \ C : st(r) = "write" => r \in writers'
            /\ \A p \in C, q \in Pids : p # q /\ Busy(p)' /\ Busy(q)' =>
                    Together(p, q)' \/ Together(q, p)'
            /\ \A p \in C, q \in Pids : p # q =>
                    /\ Serving(q)' => Leaves(p, q)'
                    /\ Serving(p)' => Leaves(q, p)'
            /\ \A p \in C : (Serving(p)' => file' = p) /\ (proc'[p].st = "write" => p \in writers')
  PROVE  CalmInv'
  <1>1. SignalledServes'
    BY DEF CalmInv, SignalledServes, Stays, st
  <1>2. ASSUME disturbing' = 0
        PROVE  WorkInPairs' /\ ServesAlone' /\ IsNamed'
    <2>1. WorkInPairs /\ ServesAlone /\ IsNamed
      BY <1>2 DEF CalmInv
    <2>2. ASSUME NEW r \in Pids \ C
          PROVE  /\ Busy(r)' <=> Busy(r)
                 /\ Serving(r)' <=> Serving(r)
                 /\ st(r)' = "write" <=> st(r) = "write"
      BY <2>2 DEF Stays, Busy, Serving, st
    <2>3. ASSUME NEW p \in Pids \ C, NEW q \in Pids \ C
          PROVE  Together(p, q) => Together(p, q)'
      BY <2>3 DEF Stays, Together, Starting, Handles, st
    <2>4. ASSUME NEW p \in Pids \ C, NEW q \in Pids \ C
          PROVE  Leaves(p, q) => Leaves(p, q)'
      BY <2>4 DEF Stays, Leaves, st
    <2>5. WorkInPairs'
      BY <1>2, <2>1, <2>2, <2>3 DEF WorkInPairs
    <2>6. ServesAlone'
      BY <1>2, <2>1, <2>2, <2>4 DEF ServesAlone
    <2>7. IsNamed'
      BY <1>2, <2>1, <2>2 DEF IsNamed, st
    <2> QED BY <2>5, <2>6, <2>7
  <1> QED BY <1>1, <1>2 DEF CalmInv

LEMMA CalmOne ==
  ASSUME IInv, CalmInv, disturbing' = 0 => disturbing = 0,
         NEW p \in Pids,
         \A r \in Pids \ {p} : Stays(proc, proc', r),
         proc'[p].signalled => proc'[p].st = "serve",
         disturbing' = 0 =>
            \A r \in Pids \ {p} :
                /\ Serving(r) => file' = file
                /\ st(r) = "write" => r \in writers'
                /\ Busy(p)' /\ Busy(r) => Together(p, r)' \/ Together(r, p)'
                /\ Serving(r) => Leaves(p, r)'
                /\ Serving(p)' => Leaves(r, p)',
         disturbing' = 0 /\ Serving(p)' => file' = p,
         disturbing' = 0 /\ proc'[p].st = "write" => p \in writers'
  PROVE  CalmInv'
  <1> DEFINE C == {p}
  <1>1. C \in SUBSET Pids /\ (\A r \in C : r = p) /\ p \in C
    OBVIOUS
  <1>2. ASSUME NEW r \in Pids \ {p}
        PROVE  (Busy(r)' <=> Busy(r)) /\ (Serving(r)' <=> Serving(r))
    BY <1>2 DEF Stays, Busy, Serving, st
  <1>3. \A r \in Pids \ C : r \in Pids \ {p}
    OBVIOUS
  <1>4. disturbing' = 0 => \A o \in C, q \in Pids : o # q /\ Busy(o)' /\ Busy(q)' =>
                                Together(o, q)' \/ Together(q, o)'
    BY <1>1, <1>2
  <1>5. disturbing' = 0 => \A o \in C, q \in Pids : o # q =>
                                /\ Serving(q)' => Leaves(o, q)'
                                /\ Serving(o)' => Leaves(q, o)'
    BY <1>1, <1>2
  <1>6. disturbing' = 0 =>
            \A o \in C : (Serving(o)' => file' = o) /\ (proc'[o].st = "write" => o \in writers')
    BY <1>1
  <1>7. \A r \in C : proc'[r].signalled => proc'[r].st = "serve"
    BY <1>1
  <1>8. \A r \in Pids \ C : Stays(proc, proc', r)
    BY <1>3
  <1>9. disturbing' = 0 => /\ \A r \in Pids \ C : Serving(r) => file' = file
                           /\ \A r \in Pids \ C : st(r) = "write" => r \in writers'
    BY <1>3
  <1> HIDE DEF C
  <1> QED BY <1>1, <1>4, <1>5, <1>6, <1>7, <1>8, <1>9, CalmFrame

\* A process that is done, or asks for the next command.
LEMMA CalmEnds ==
  ASSUME IInv, CalmInv, disturbing' = 0 => disturbing = 0,
         NEW p \in Pids,
         \A r \in Pids \ {p} : Stays(proc, proc', r),
         proc'[p].st \in {"none", "zombie", "menu"}, ~proc'[p].signalled,
         disturbing' = 0 => \A r \in Pids \ {p} : Serving(r) => file' = file,
         disturbing' = 0 => \A r \in Pids \ {p} : st(r) = "write" => r \in writers'
  PROVE  CalmInv'
  <1>1. ~Busy(p)' /\ ~Serving(p)' /\ proc'[p].st # "write" /\ \A r \in Pids : Leaves(p, r)'
    BY DEF Busy, Serving, Leaves, st
  <1> QED BY <1>1, CalmOne

\* What an event finds when it disturbs nothing.
LEMMA CalmEvent ==
  ASSUME IInv, Event
  PROVE  /\ disturbing' = 0 => disturbing = 0
         /\ disturbing' = 0 => \A q \in Pids : ~Busy(q)
  BY DEF Event, IInv, DaemonTypeOK

LEMMA CalmStopped ==
  ASSUME IInv, CalmInv, disturbing' = 0 => disturbing = 0,
         NEW p \in Pids, proc' = Stopped(p), st(p) \in {"term", "remove"},
         disturbing' = 0 => \A r \in Pids \ {p} : ~Serving(r) /\ ~Busy(r) /\ st(r) # "write"
  PROVE  CalmInv'
  <1>1. proc \in [Pids -> Processes] /\ "spawn" \in States
    BY DEF IInv, DaemonTypeOK, States
  <1>2. CASE proc[p].cmd = "restart"
    <2>1. proc' = To(p, "spawn") /\ ~proc[p].signalled
      BY <1>2 DEF Stopped, CalmInv, SignalledServes, st
    <2>2. /\ proc'[p].st = "spawn" /\ ~proc'[p].signalled
          /\ \A r \in Pids \ {p} : Stays(proc, proc', r)
      BY <1>1, <2>1, ToStays
    <2>3. ~Serving(p)' /\ proc'[p].st # "write"
      BY <2>2 DEF Serving, st
    <2> QED BY <2>2, <2>3, CalmOne
  <1>3. CASE proc[p].cmd # "restart"
    <2>1. proc' = Over(p)
      BY <1>3 DEF Stopped
    <2> QED BY <1>1, <2>1, OverStays, CalmEnds
  <1> QED BY <1>2, <1>3

\* A process that kills the one it looked at.
LEMMA CalmKills ==
  ASSUME IInv, CalmInv, disturbing' = 0 => disturbing = 0,
         NEW p \in Pids, NEW q \in Pids, NEW s \in {"poll", "remove"},
         st(p) \in {"term", "poll"}, proc' = Ended(q, To(p, s)),
         s = "poll" => proc[p].target = q,
         UNCHANGED <<file, writers>>,
         disturbing' = 0 => \A r \in Pids \ {p} : (Busy(r) => r = q) /\ st(r) # "write"
                                                    /\ (Serving(r) => r = q)
  PROVE  CalmInv'
  <1> DEFINE C == {p, q}
             P == To(p, s)
  <1>1. proc \in [Pids -> Processes] /\ s \in States /\ ~proc[p].signalled
    BY DEF IInv, DaemonTypeOK, States, CalmInv, SignalledServes, st
  <1>2. /\ P \in [Pids -> Processes] /\ P[p].st = s /\ ~P[p].signalled
        /\ \A r \in Pids \ {p} : Stays(proc, P, r)
    BY <1>1, ToTyped, ToStays
  <1> HIDE DEF P
  <1>3. /\ proc'[q].st \in {"none", "zombie"} /\ ~proc'[q].signalled
        /\ \A r \in Pids \ {q} : Stays(P, proc', r)
    <2>1. proc' = Ended(q, P)
      BY DEF P
    <2> QED BY <1>2, <2>1, EndedStays
  <1>4. \A r \in Pids \ C : Stays(proc, proc', r)
    BY <1>2, <1>3 DEF Stays
  <1>5. ASSUME disturbing' = 0, NEW r \in Pids \ C
        PROVE  ~Busy(r)' /\ ~Serving(r)' /\ ~Serving(r) /\ st(r) # "write"
    BY <1>4, <1>5 DEF Busy, Serving, Stays, st
  <1>6. /\ ~Busy(q)' /\ ~Serving(q)' /\ ~Serving(p)'
        /\ proc'[p].st \in {"none", "zombie", s} /\ ~proc'[p].signalled
    BY <1>2, <1>3 DEF Busy, Serving, Stays, st
  <1>7. disturbing' = 0 =>
          \A a \in C, b \in Pids : a # b =>
              /\ ~(Busy(a)' /\ Busy(b)')
              /\ ~Serving(b)' /\ ~Serving(a)'
    BY <1>5, <1>6
  <1>8. \A a \in C : ~proc'[a].signalled /\ ~Serving(a)' /\ proc'[a].st # "write"
    BY <1>3, <1>6
  <1>9. C \in SUBSET Pids
    OBVIOUS
  <1> HIDE DEF C
  <1> QED BY <1>4, <1>5, <1>7, <1>8, <1>9, CalmFrame

LEMMA StepCalm ==
  ASSUME IInv, CalmInv, NEW p \in Pids, Step(p)
  PROVE  CalmInv'
  <1> USE DaemonAssumption
  <1>1. /\ proc \in [Pids -> Processes] /\ proc[p] \in Processes
        /\ disturbing' = disturbing /\ (disturbing' = 0 => disturbing = 0)
        /\ proc[p].signalled => st(p) = "serve"
    BY DEF IInv, DaemonTypeOK, CalmInv, SignalledServes, Step, readPID, StartLook, StopLook,
       sendTermSignal, Poll, sendKillSignal, Remove, Spawn, WaitOver, ProbePort, Release,
       Bind, OpenPID, WritePID, Arm, Shutdown, Drained, Clean
  <1>2. {"look", "term", "poll", "remove", "spawn", "wait", "release", "bind",
         "open", "write", "arm", "serve", "drain", "clean"} \subseteq States
    BY DEF States
  <1>3. ASSUME disturbing' = 0, NEW r \in Pids \ {p}
        PROVE  /\ Busy(p) /\ Busy(r) => Together(p, r) \/ Together(r, p)
               /\ Serving(r) => Leaves(p, r) /\ file = r
               /\ Serving(p) => Leaves(r, p) /\ file = p
               /\ st(r) = "write" => r \in writers /\ Busy(r)
               /\ st(p) = "write" => p \in writers
               /\ st(r) = "arm" => Busy(r)
    BY <1>1, <1>3 DEF CalmInv, WorkInPairs, ServesAlone, IsNamed, Busy, st
  <1>4. CASE readPID(p)
    <2>1. /\ proc'[p].st = "look" /\ proc'[p].cmd = proc[p].cmd /\ ~proc'[p].signalled
          /\ proc'[p].target = IF file \in Pids THEN file ELSE None
          /\ \A r \in Pids \ {p} : Stays(proc, proc', r)
          /\ UNCHANGED <<file, writers>> /\ st(p) = "read"
      BY <1>1, <1>4 DEF readPID, Stays, Processes, st
    <2>2. ASSUME disturbing' = 0, NEW r \in Pids \ {p}
          PROVE  /\ Busy(p)' /\ Busy(r) => Together(p, r)' \/ Together(r, p)'
                 /\ Serving(r) => Leaves(p, r)'
                 /\ st(r) = "write" => r \in writers'
      BY <1>3, <2>1, <2>2 DEF Busy, Together, Starting, Handles, Leaves, st, Stays
    <2>3. ~Serving(p)' /\ proc'[p].st # "write"
      BY <2>1 DEF Serving, st
    <2> QED BY <1>1, <2>1, <2>2, <2>3, CalmOne
  <1>5. CASE StartLook(p)
    <2>1. CASE Alive(p)
      <3>1. /\ proc' = Over(p) /\ UNCHANGED <<file, writers>>
        BY <1>5, <2>1 DEF StartLook
      <3> QED BY <1>1, <1>3, <3>1, OverStays, CalmEnds
    <2>2. CASE ~Alive(p)
      <3>1. PICK t \in PortsOf(p) :
              /\ configured' = t
              /\ proc' = [To(p, IF proc[p].cmd = "start" THEN "bind" ELSE "spawn")
                            EXCEPT ![p].port = t]
        BY <1>5, <2>2 DEF StartLook, GoOn, Follows
      <3> DEFINE s == IF proc[p].cmd = "start" THEN "bind" ELSE "spawn"
                 P == To(p, s)
      <3>2. s \in States /\ s \in {"bind", "spawn"} /\ (s = "spawn" => proc[p].cmd # "start")
        BY <1>2
      <3>3. proc' = [P EXCEPT ![p].port = t]
        BY <3>1
      <3>4. P \in [Pids -> Processes]
        BY <1>1, <3>2, ToTyped
      <3>5. /\ P[p].st = s /\ P[p].cmd = proc[p].cmd /\ P[p].signalled = proc[p].signalled
            /\ \A r \in Pids \ {p} : Stays(proc, P, r)
        BY <1>1, <3>2, ToStays
      <3> HIDE DEF s, P
      <3>6. /\ proc'[p].st = s /\ proc'[p].cmd = proc[p].cmd
            /\ proc'[p].signalled = proc[p].signalled
            /\ \A r \in Pids \ {p} : Stays(proc, proc', r)
        BY <3>3, <3>4, <3>5 DEF Processes, Stays
      <3>7. /\ st(p) = "look" /\ proc[p].cmd \in {"start", "detach"}
            /\ UNCHANGED <<file, writers>>
        BY <1>5 DEF StartLook
      <3>8. ASSUME disturbing' = 0, NEW r \in Pids \ {p}
            PROVE  ~Serving(r)
        BY <1>3, <2>2, <3>7, <3>8 DEF Leaves, Alive, Exists, Serving, st
      <3>9. ASSUME disturbing' = 0, NEW r \in Pids \ {p}
            PROVE  /\ Busy(p)' /\ Busy(r) => Together(p, r)' \/ Together(r, p)'
                   /\ st(r) = "write" => r \in writers'
        BY <1>3, <3>2, <3>6, <3>7, <3>9 DEF Busy, Together, Starting, Handles, st, Stays
      <3>10. ~Serving(p)' /\ proc'[p].st # "write" /\ ~proc'[p].signalled
        BY <1>1, <3>2, <3>6, <3>7 DEF Serving, st
      <3> QED BY <1>1, <3>6, <3>7, <3>8, <3>9, <3>10, CalmOne
    <2> QED BY <2>1, <2>2
  <1>6. CASE StopLook(p)
    <2> DEFINE s == IF Alive(p) THEN "term" ELSE "remove"
    <2>1. /\ s \in States /\ s \in {"term", "remove"}
          /\ s = "remove" => ~Alive(p)
      BY <1>2
    <2>2. /\ proc' = To(p, s) /\ UNCHANGED <<file, writers>> /\ st(p) = "look"
          /\ proc[p].cmd # "start"
      BY <1>6 DEF StopLook
    <2> HIDE DEF s
    <2>3. /\ proc'[p].st = s /\ proc'[p].cmd = proc[p].cmd /\ ~proc'[p].signalled
          /\ s = "term" => proc'[p].target = proc[p].target
          /\ \A r \in Pids \ {p} : Stays(proc, proc', r)
      BY <1>1, <2>1, <2>2, ToStays
    <2>4. ASSUME disturbing' = 0, NEW r \in Pids \ {p}
          PROVE  /\ Busy(p)' /\ Busy(r) => Together(p, r)' \/ Together(r, p)'
                 /\ Serving(r) => Leaves(p, r)'
                 /\ st(r) = "write" => r \in writers'
      BY <1>3, <2>1, <2>2, <2>3, <2>4
      DEF Busy, Together, Starting, Handles, Leaves, Alive, Exists, Serving, st, Stays
    <2>5. ~Serving(p)' /\ proc'[p].st # "write"
      BY <2>1, <2>3 DEF Serving, st
    <2> QED BY <1>1, <2>2, <2>3, <2>4, <2>5, CalmOne
  <1>7. CASE sendTermSignal(p)
    <2>1. st(p) = "term" /\ UNCHANGED <<file, writers>>
      BY <1>7 DEF sendTermSignal
    <2>2. ASSUME disturbing' = 0, NEW r \in Pids \ {p}
          PROVE  ~Busy(r) /\ st(r) # "write" /\ (Serving(r) => r = proc[p].target)
      BY <1>3, <2>1, <2>2
      DEF Busy, Together, Starting, Handles, Leaves, Serving, st
    <2>3. CASE ~Alive(p)
      <3>1. proc' = Stopped(p)
        BY <1>7, <2>3 DEF sendTermSignal
      <3>2. ASSUME disturbing' = 0, NEW r \in Pids \ {p}
            PROVE  ~Serving(r)
        BY <2>2, <2>3, <3>2, DaemonAssumption DEF Alive, Exists, Serving, st
      <3> QED BY <1>1, <2>1, <2>2, <3>1, <3>2, CalmStopped
    <2>4. CASE Alive(p)
      <3>1. PICK q \in Pids : q = proc[p].target
        BY <1>1, <2>4 DEF Alive, Processes
      <3>2. /\ proc' = Signalled(q, To(p, "poll")) /\ st(p) = "term"
            /\ UNCHANGED <<file, writers>>
        BY <1>7, <2>4, <3>1 DEF sendTermSignal
      <3>3. /\ To(p, "poll")[p].st = "poll" /\ To(p, "poll")[p].target = q
            /\ ~To(p, "poll")[p].signalled /\ To(p, "poll") \in [Pids -> Processes]
            /\ \A r \in Pids \ {p} : Stays(proc, To(p, "poll"), r)
        BY <1>1, <1>2, <2>1, <3>1, ToTyped, ToStays
      <3> DEFINE P == To(p, "poll")
                 C == {p, q}
      <3>4. proc' = Signalled(q, P)
        BY <3>2
      <3> HIDE DEF P
      <3>5. CASE st(q) \in Handles
        <4>1. p # q
          BY <2>1, <3>5 DEF Handles
        <4>2. /\ proc'[p] = P[p] /\ proc'[q].signalled = (st(q) = "serve")
              /\ proc'[q].st = P[q].st /\ proc'[q].cmd = P[q].cmd
              /\ proc'[q].target = P[q].target
              /\ \A r \in Pids \ C : proc'[r] = P[r]
          BY <3>1, <3>3, <3>4, <3>5, <4>1 DEF Signalled, Processes, P
        <4>3. P[p].st = "poll" /\ P[p].target = q /\ ~P[p].signalled
              /\ \A r \in Pids \ {p} : Stays(proc, P, r)
          BY <3>3 DEF P
        <4>4. /\ proc'[q].st = st(q) /\ proc'[q].target = proc[q].target
              /\ \A r \in Pids \ C : Stays(proc, proc', r)
          <5>1. Stays(proc, P, q) /\ st(q) \in Handles
            BY <3>1, <3>5, <4>1, <4>3
          <5>2. proc'[q].st = st(q) /\ proc'[q].target = proc[q].target
            BY <4>2, <5>1 DEF Stays, Handles, st
          <5>3. ASSUME NEW r \in Pids \ C
                PROVE  Stays(proc, proc', r)
            <6>1. Stays(proc, P, r) /\ proc'[r] = P[r]
              BY <4>2, <4>3, <5>3
            <6> QED BY <6>1 DEF Stays
          <5> QED BY <5>2, <5>3
        <4>5. ASSUME disturbing' = 0, NEW r \in Pids \ C
              PROVE  ~Busy(r)' /\ ~Serving(r)'
          <5>1. ~Busy(r) /\ ~Serving(r) /\ Stays(proc, proc', r)
            BY <2>2, <3>1, <4>4, <4>5
          <5> QED BY <5>1 DEF Busy, Serving, Stays, st
        <4>6. ~Serving(p)' /\ (Busy(p)' /\ Busy(q)' => Together(p, q)')
          BY <3>5, <4>2, <4>3, <4>4 DEF Serving, Together, st
        <4>7. Leaves(p, q)'
          BY <4>2, <4>3 DEF Leaves, st
        <4>8. disturbing' = 0 =>
                \A a \in C, b \in Pids : a # b =>
                    /\ Busy(a)' /\ Busy(b)' => Together(a, b)' \/ Together(b, a)'
                    /\ Serving(b)' => Leaves(a, b)'
                    /\ Serving(a)' => Leaves(b, a)'
          <5>1. ASSUME disturbing' = 0, NEW r \in Pids \ C, Serving(q)'
                PROVE  Leaves(r, q)'
            <6>1. Leaves(r, q)
              <7>1. Serving(q)
                BY <4>4, <5>1 DEF Serving, st
              <7> QED BY <1>1, <3>1, <5>1, <7>1 DEF CalmInv, ServesAlone
            <6> QED BY <4>4, <5>1, <6>1 DEF Leaves, Stays, st
          <5> QED BY <4>5, <4>6, <4>7, <5>1
        <4>9. disturbing' = 0 =>
                \A a \in C : (Serving(a)' => file' = a) /\ proc'[a].st # "write"
          <5>1. proc'[q].st # "write" /\ proc'[p].st # "write"
            BY <3>5, <4>2, <4>3, <4>4 DEF Handles
          <5>2. disturbing' = 0 /\ Serving(q)' => file' = q
            BY <1>1, <3>2, <3>1, <4>4 DEF CalmInv, IsNamed, Serving, st
          <5> QED BY <4>6, <5>1, <5>2
        <4>10. \A a \in C : proc'[a].signalled => proc'[a].st = "serve"
          BY <4>2, <4>3, <4>4
        <4>11. C \in SUBSET Pids
          BY <3>1
        <4>12. disturbing' = 0 => \A r \in Pids \ C : st(r) # "write" /\ file' = file
          BY <2>2, <3>2
        <4> HIDE DEF C
        <4> QED BY <1>1, <4>4, <4>8, <4>9, <4>10, <4>11, <4>12, CalmFrame
      <3>6. CASE st(q) \notin Handles
        <4>1. proc' = Ended(q, To(p, "poll"))
          BY <3>4, <3>6 DEF Signalled, P
        <4>2. disturbing' = 0 =>
                \A r \in Pids \ {p} : ~Busy(r) /\ st(r) # "write" /\ (Serving(r) => r = q)
          BY <2>2, <3>1
        <4>3. \E s \in {"poll", "remove"} :
                /\ proc' = Ended(q, To(p, s)) /\ (s = "poll" => proc[p].target = q)
          BY <3>1, <4>1
        <4> QED BY <1>1, <2>1, <4>2, <4>3, CalmKills
      <3> QED BY <3>5, <3>6
    <2> QED BY <2>3, <2>4
  <1>8. CASE Poll(p)
    <2>1. /\ proc' = To(p, "remove") /\ UNCHANGED <<file, writers>> /\ st(p) = "poll" /\ ~Alive(p)
      BY <1>8 DEF Poll
    <2>2. /\ proc'[p].st = "remove" /\ ~proc'[p].signalled
          /\ \A r \in Pids \ {p} : Stays(proc, proc', r)
      BY <1>1, <1>2, <2>1, ToStays
    <2>3. ASSUME disturbing' = 0, NEW r \in Pids \ {p}
          PROVE  /\ ~Serving(r) /\ ~Busy(r)
                 /\ st(r) = "write" => r \in writers'
      BY <1>3, <2>1, <2>3
      DEF Busy, Together, Starting, Handles, Leaves, Alive, Exists, Serving, st
    <2>4. ~Serving(p)' /\ proc'[p].st # "write"
      BY <2>2 DEF Serving, st
    <2> QED BY <1>1, <2>1, <2>2, <2>3, <2>4, CalmOne
  <1>9. CASE sendKillSignal(p)
    <2> DEFINE q == proc[p].target
    <2>1. /\ st(p) = "poll" /\ UNCHANGED <<file, writers>>
          /\ proc' = Ended(q, To(p, "remove"))
      BY <1>9 DEF sendKillSignal
    <2>2. q \in Pids
      BY <1>1, <1>9 DEF sendKillSignal, Alive, Processes
    <2>3. ASSUME disturbing' = 0, NEW r \in Pids \ {p}
          PROVE  (Busy(r) => r = q) /\ st(r) # "write" /\ (Serving(r) => r = q)
      BY <1>3, <2>1, <2>3
      DEF Busy, Together, Starting, Handles, Leaves, Serving, st
    <2> HIDE DEF q
    <2> QED BY <1>1, <2>1, <2>2, <2>3, CalmKills
  <1>10. CASE Remove(p)
    <2>1. st(p) = "remove" /\ proc' = Stopped(p) /\ writers' = {}
      BY <1>10 DEF Remove, Removed
    <2>2. ASSUME disturbing' = 0, NEW r \in Pids \ {p}
          PROVE  ~Serving(r) /\ ~Busy(r) /\ st(r) # "write"
      BY <1>3, <2>1, <2>2
      DEF Busy, Together, Starting, Handles, Leaves, Serving, st
    <2> QED BY <1>1, <2>1, <2>2, CalmStopped
  <1>11. CASE Spawn(p)
    <2> DEFINE P == To(p, "wait")
               t == IF proc[p].cmd = "restart" THEN configured ELSE proc[p].port
               n == Started("start", t, p, FALSE)
    <2>1. PICK q \in Pids :
            /\ Fresh(q)
            /\ proc' = [P EXCEPT ![p].child = q, ![q] = n]
      BY <1>11 DEF Spawn
    <2>2. st(p) = "spawn" /\ p # q /\ UNCHANGED <<file, writers>>
      BY <1>11, <2>1 DEF Spawn, Fresh, Free, Exists, st
    <2>3. /\ P \in [Pids -> Processes] /\ P[p].st = "wait" /\ ~P[p].signalled
          /\ \A r \in Pids \ {p} : Stays(proc, P, r)
      BY <1>1, <1>2, <2>2, ToTyped, ToStays
    <2>4. n.cmd = "start" /\ n.st = "read" /\ ~n.signalled
      <3>1. t \in Ports \cup {None} /\ "start" \in Commands /\ p \in Pids \cup {None}
        BY <1>1 DEF Processes, Commands, IInv, DaemonTypeOK
      <3> HIDE DEF t
      <3>2. n.cmd = "start" /\ n.st = "read" /\ n.signalled = FALSE
        <4>1. /\ Started("start", t, p, FALSE).cmd = "start"
              /\ Started("start", t, p, FALSE).st = "read"
              /\ Started("start", t, p, FALSE).signalled = FALSE
          BY <3>1 DEF Started, NoProc
        <4> QED BY <4>1
      <3> QED BY <3>2
    <2> HIDE DEF P, n
    <2> DEFINE C == {p, q}
    <2>5. /\ proc'[p].st = "wait" /\ ~proc'[p].signalled /\ proc'[q] = n
          /\ \A r \in Pids \ C : proc'[r] = P[r]
      BY <2>1, <2>2, <2>3 DEF Processes
    <2>6. \A r \in Pids \ C : Stays(proc, proc', r)
      BY <2>3, <2>5 DEF Stays
    <2>7. ASSUME disturbing' = 0, NEW r \in Pids \ C
          PROVE  ~Busy(r)' /\ ~Serving(r)' /\ ~Serving(r) /\ st(r) # "write"
      BY <1>3, <2>2, <2>6, <2>7
      DEF Busy, Serving, Together, Starting, Handles, Leaves, Stays, st
    <2>8. /\ Together(p, q)' /\ ~Serving(p)' /\ ~Serving(q)'
          /\ proc'[p].st # "write" /\ proc'[q].st # "write"
      BY <2>4, <2>5 DEF Together, Starting, Serving, st
    <2>9. disturbing' = 0 =>
            \A a \in C, b \in Pids : a # b =>
                /\ Busy(a)' /\ Busy(b)' => Together(a, b)' \/ Together(b, a)'
                /\ ~Serving(b)' /\ ~Serving(a)'
      BY <2>7, <2>8
    <2>10. \A a \in C : ~proc'[a].signalled /\ ~Serving(a)' /\ proc'[a].st # "write"
      BY <2>4, <2>5, <2>8
    <2>11. C \in SUBSET Pids
      OBVIOUS
    <2> HIDE DEF C
    <2> QED BY <1>1, <2>6, <2>7, <2>9, <2>10, <2>11, CalmFrame
  <1>12. CASE WaitOver(p)
    <2>1. /\ proc' = Over(p) /\ UNCHANGED <<file, writers>>
      BY <1>12 DEF WaitOver
    <2> QED BY <1>1, <1>3, <2>1, OverStays, CalmEnds
  <1>13. CASE ProbePort(p)
    <2>1. CASE proc' = Ended(p, proc)
      <3>1. UNCHANGED <<file, writers>>
        BY <1>13 DEF ProbePort
      <3> QED BY <1>1, <1>3, <2>1, <3>1, EndedStays, CalmEnds
    <2>2. CASE proc' = To(p, "release")
      <3>1. UNCHANGED <<file, writers>> /\ st(p) = "probePort"
        BY <1>13 DEF ProbePort
      <3>2. /\ proc'[p].st = "release" /\ ~proc'[p].signalled
            /\ \A r \in Pids \ {p} : Stays(proc, proc', r)
        BY <1>1, <1>2, <2>2, <3>1, ToStays
      <3>3. ASSUME disturbing' = 0, NEW r \in Pids \ {p}
            PROVE  ~Busy(r) /\ Leaves(p, r)' /\ (st(r) = "write" => r \in writers')
        BY <1>3, <3>1, <3>2, <3>3 DEF Busy, Together, Starting, Handles, Leaves, st
      <3>4. ~Serving(p)' /\ proc'[p].st # "write"
        BY <3>2 DEF Serving, st
      <3> QED BY <1>1, <3>1, <3>2, <3>3, <3>4, CalmOne
    <2> QED BY <1>13, <2>1, <2>2 DEF ProbePort
  <1>14. CASE Release(p)
    <2>1. proc' = Ended(p, proc) /\ UNCHANGED <<file, writers>>
      BY <1>14 DEF Release
    <2> QED BY <1>1, <1>3, <2>1, EndedStays, CalmEnds
  <1>15. CASE Bind(p)
    <2>1. CASE proc' = Ended(p, proc)
      <3>1. UNCHANGED <<file, writers>>
        BY <1>15 DEF Bind
      <3> QED BY <1>1, <1>3, <2>1, <3>1, EndedStays, CalmEnds
    <2>2. CASE proc' = To(p, "open")
      <3>1. UNCHANGED <<file, writers>> /\ st(p) = "bind"
        BY <1>15 DEF Bind
      <3>2. /\ proc'[p].st = "open" /\ ~proc'[p].signalled /\ proc'[p].cmd = proc[p].cmd
            /\ \A r \in Pids \ {p} : Stays(proc, proc', r)
        BY <1>1, <1>2, <2>2, <3>1, ToStays
      <3>3. ASSUME disturbing' = 0, NEW r \in Pids \ {p}
            PROVE  /\ Busy(p)' /\ Busy(r) => Together(p, r)' \/ Together(r, p)'
                   /\ ~Serving(r) /\ (st(r) = "write" => r \in writers')
        BY <1>3, <3>1, <3>2, <3>3 DEF Busy, Together, Starting, Handles, Leaves, st, Stays
      <3>4. ~Serving(p)' /\ proc'[p].st # "write"
        BY <3>2 DEF Serving, st
      <3> QED BY <1>1, <3>1, <3>2, <3>3, <3>4, CalmOne
    <2> QED BY <1>15, <2>1, <2>2 DEF Bind, Follows
  <1>16. CASE OpenPID(p)
    <2>1. st(p) = "open" /\ proc' = To(p, "write") /\ writers' = writers \cup {p}
      BY <1>16 DEF OpenPID, Follows
    <2>2. /\ proc'[p].st = "write" /\ ~proc'[p].signalled /\ proc'[p].cmd = proc[p].cmd
          /\ \A r \in Pids \ {p} : Stays(proc, proc', r)
      BY <1>1, <1>2, <2>1, ToStays
    <2>3. ASSUME disturbing' = 0, NEW r \in Pids \ {p}
          PROVE  /\ Busy(p)' /\ Busy(r) => Together(p, r)' \/ Together(r, p)'
                 /\ ~Serving(r) /\ (st(r) = "write" => r \in writers')
      BY <1>3, <2>1, <2>2, <2>3 DEF Busy, Together, Starting, Handles, Leaves, st, Stays
    <2>4. ~Serving(p)' /\ p \in writers'
      BY <2>1, <2>2 DEF Serving, st
    <2> QED BY <1>1, <2>1, <2>2, <2>3, <2>4, CalmOne
  <1>17. CASE WritePID(p)
    <2>1. /\ st(p) = "write" /\ proc' = To(p, "arm") /\ writers' = writers \ {p}
          /\ p \in writers => file' = p
      BY <1>17 DEF WritePID, Follows
    <2>2. /\ proc'[p].st = "arm" /\ ~proc'[p].signalled /\ proc'[p].cmd = proc[p].cmd
          /\ \A r \in Pids \ {p} : Stays(proc, proc', r)
      BY <1>1, <1>2, <2>1, ToStays
    <2>3. ASSUME disturbing' = 0, NEW r \in Pids \ {p}
          PROVE  /\ Busy(p)' /\ Busy(r) => Together(p, r)' \/ Together(r, p)'
                 /\ ~Serving(r) /\ st(r) # "write"
                 /\ Busy(r) => st(r) = "wait"
      BY <1>3, <2>1, <2>2, <2>3 DEF Busy, Together, Starting, Handles, Leaves, st, Stays
    <2>4. ASSUME disturbing' = 0, NEW r \in Pids \ {p}
          PROVE  Leaves(r, p)'
      BY <2>2, <2>3, <2>4 DEF Busy, Leaves, Stays, st
    <2>5. disturbing' = 0 => file' = p
      BY <1>1, <2>1 DEF CalmInv, IsNamed
    <2> QED BY <1>1, <2>1, <2>2, <2>3, <2>4, <2>5, CalmOne
  <1>18. CASE Arm(p)
    <2>1. st(p) = "arm" /\ proc' = To(p, "serve") /\ UNCHANGED <<file, writers>>
      BY <1>18 DEF Arm
    <2>2. /\ proc'[p].st = "serve" /\ ~proc'[p].signalled
          /\ \A r \in Pids \ {p} : Stays(proc, proc', r)
      BY <1>1, <1>2, <2>1, ToStays
    <2>3. ASSUME disturbing' = 0, NEW r \in Pids \ {p}
          PROVE  /\ Leaves(r, p)' /\ Leaves(p, r)'
                 /\ st(r) = "write" => r \in writers'
      BY <1>3, <2>1, <2>2, <2>3 DEF Leaves, Serving, st, Stays
    <2>4. ~Busy(p)' /\ proc'[p].st # "write"
      BY <2>2 DEF Busy, st
    <2>5. disturbing' = 0 => file' = p
      BY <1>1, <2>1 DEF CalmInv, IsNamed, Serving
    <2> QED BY <1>1, <2>1, <2>2, <2>3, <2>4, <2>5, CalmOne
  <1>19. CASE Shutdown(p)
    <2>1. /\ st(p) = "serve" /\ proc[p].signalled /\ UNCHANGED <<file, writers>>
      BY <1>19 DEF Shutdown
    <2>2. /\ proc'[p].st = "drain" /\ ~proc'[p].signalled
          /\ \A r \in Pids \ {p} : Stays(proc, proc', r)
      BY <1>1, <1>19 DEF Shutdown, Stays, Processes
    <2>3. ASSUME disturbing' = 0, NEW r \in Pids \ {p}
          PROVE  /\ Busy(p)' /\ Busy(r) => Together(p, r)' \/ Together(r, p)'
                 /\ ~Serving(r) /\ (st(r) = "write" => r \in writers')
      BY <1>3, <2>1, <2>2, <2>3 DEF Busy, Serving, Together, Starting, Handles, Leaves, st, Stays
    <2>4. ~Serving(p)' /\ proc'[p].st # "write"
      BY <2>2 DEF Serving, st
    <2> QED BY <1>1, <2>1, <2>2, <2>3, <2>4, CalmOne
  <1>20. CASE Drained(p)
    <2>1. st(p) = "drain" /\ proc' = To(p, "clean") /\ UNCHANGED <<file, writers>>
      BY <1>20 DEF Drained
    <2>2. /\ proc'[p].st = "clean" /\ ~proc'[p].signalled
          /\ \A r \in Pids \ {p} : Stays(proc, proc', r)
      BY <1>1, <1>2, <2>1, ToStays
    <2>3. ASSUME disturbing' = 0, NEW r \in Pids \ {p}
          PROVE  /\ Busy(p)' /\ Busy(r) => Together(p, r)' \/ Together(r, p)'
                 /\ ~Serving(r) /\ (st(r) = "write" => r \in writers')
      BY <1>3, <2>1, <2>2, <2>3 DEF Busy, Serving, Together, Starting, Handles, Leaves, st, Stays
    <2>4. ~Serving(p)' /\ proc'[p].st # "write"
      BY <2>2 DEF Serving, st
    <2> QED BY <1>1, <2>1, <2>2, <2>3, <2>4, CalmOne
  <1>21. CASE Clean(p)
    <2>1. st(p) = "clean" /\ proc' = Ended(p, proc)
      BY <1>21 DEF Clean
    <2>2. ASSUME disturbing' = 0, NEW r \in Pids \ {p}
          PROVE  ~Serving(r) /\ st(r) # "write"
      BY <1>3, <2>1, <2>2 DEF Busy, Serving, Together, Starting, Handles, Leaves, st
    <2> QED BY <1>1, <2>1, <2>2, EndedStays, CalmEnds
  <1> QED BY <1>4, <1>5, <1>6, <1>7, <1>8, <1>9, <1>10, <1>11, <1>12, <1>13,
             <1>14, <1>15, <1>16, <1>17, <1>18, <1>19, <1>20, <1>21 DEF Step

LEMMA NextCalm == ASSUME IInv, CalmInv, [Next]_daemonVars PROVE CalmInv'
  <1>1. CASE UNCHANGED daemonVars
    BY <1>1 DEF daemonVars, CalmInv, SignalledServes, WorkInPairs, ServesAlone, IsNamed,
       Busy, Serving, Together, Leaves, Starting, Handles, st
  <1>2. /\ proc \in [Pids -> Processes] /\ SignalledServes
        /\ disturbing = 0 => WorkInPairs /\ ServesAlone /\ IsNamed
    BY DEF IInv, DaemonTypeOK, CalmInv
  <1>3. ASSUME NEW p \in Pids, Begin(p) PROVE CalmInv'
    <2>1. PICK cmd \in Commands, menu \in BOOLEAN :
            proc' = [proc EXCEPT ![p] = Started(cmd, None, None, menu)]
      BY <1>3 DEF Begin
    <2> DEFINE n == Started(cmd, None, None, menu)
    <2>2. n.st \in {"read", "probePort"} /\ ~n.signalled
      BY StartedFields
    <2> HIDE DEF n
    <2>3. /\ proc'[p].st \in {"read", "probePort"} /\ ~proc'[p].signalled
          /\ \A r \in Pids \ {p} : Stays(proc, proc', r)
      <3>1. proc' = [proc EXCEPT ![p] = n]
        BY <2>1 DEF n
      <3> QED BY <1>2, <2>2, <3>1 DEF Stays
    <2>4. Event /\ UNCHANGED <<file, writers>>
      BY <1>3 DEF Begin
    <2>5. ASSUME disturbing' = 0, NEW r \in Pids \ {p}
          PROVE  ~Busy(r) /\ Leaves(p, r)' /\ (st(r) = "write" => r \in writers')
      BY <1>2, <2>3, <2>4, <2>5, CalmEvent DEF Leaves, IsNamed, st
    <2>6. ~Serving(p)' /\ proc'[p].st # "write"
      BY <2>3 DEF Serving, st
    <2> QED BY <2>3, <2>4, <2>5, <2>6, CalmEvent, CalmOne
  <1>4. ASSUME NEW p \in Pids, LeaveMenu(p) PROVE CalmInv'
    <2>1. proc' = Ended(p, proc) /\ UNCHANGED <<file, writers, disturbing>>
      BY <1>4 DEF LeaveMenu
    <2> QED BY <1>2, <2>1, EndedStays, CalmEnds DEF IsNamed
  <1>5. ASSUME NEW p \in Pids, Interrupt(p) PROVE CalmInv'
    <2>1. Event /\ st(p) = "serve" /\ UNCHANGED <<file, writers>>
      BY <1>5 DEF Interrupt
    <2>2. /\ proc'[p].st = "serve"
          /\ \A r \in Pids \ {p} : Stays(proc, proc', r)
      BY <1>2, <1>5 DEF Interrupt, Stays, Processes, st
    <2>3. ASSUME disturbing' = 0, NEW r \in Pids \ {p}
          PROVE  /\ ~Busy(r) /\ Leaves(p, r)' /\ Leaves(r, p)'
                 /\ st(r) = "write" => r \in writers'
      <3>1. Leaves(r, p) /\ ~Busy(r)
        BY <1>2, <2>1, <2>3, CalmEvent DEF ServesAlone, Serving
      <3> QED BY <1>2, <2>1, <2>2, <2>3, <3>1, CalmEvent DEF Leaves, IsNamed, Stays, st
    <2>4. disturbing' = 0 => file' = p
      BY <1>2, <2>1, CalmEvent DEF IsNamed, Serving
    <2> QED BY <2>1, <2>2, <2>3, <2>4, CalmEvent, CalmOne
  <1>6. ASSUME NEW p \in Pids, ServeFails(p) PROVE CalmInv'
    <2>1. Event /\ st(p) = "serve" /\ UNCHANGED <<file, writers>>
      BY <1>6 DEF ServeFails
    <2>2. /\ proc'[p].st = "clean" /\ ~proc'[p].signalled
          /\ \A r \in Pids \ {p} : Stays(proc, proc', r)
      BY <1>2, <1>6 DEF ServeFails, Stays, Processes, st
    <2>3. ASSUME disturbing' = 0, NEW r \in Pids \ {p}
          PROVE  ~Busy(r) /\ ~Serving(r) /\ (st(r) = "write" => r \in writers')
      BY <1>2, <2>1, <2>3, CalmEvent DEF IsNamed, Serving
    <2>4. ~Serving(p)' /\ proc'[p].st # "write"
      BY <2>2 DEF Serving, st
    <2> QED BY <2>1, <2>2, <2>3, <2>4, CalmEvent, CalmOne
  <1>7. ASSUME NEW p \in Pids, Fails(p) PROVE CalmInv'
    <2>1. /\ Event /\ proc' = Over(p) /\ UNCHANGED <<file, writers>>
          /\ Busy(p)
      BY <1>7 DEF Fails, Busy
    <2> QED BY <1>2, <2>1, OverStays, CalmEvent, CalmEnds
  <1>8. ASSUME NEW p \in Pids, Crash(p) PROVE CalmInv'
    <2>1. /\ Event /\ proc' = Ended(p, proc) /\ UNCHANGED <<file, writers>>
      BY <1>8 DEF Crash
    <2> QED BY <1>2, <2>1, EndedStays, CalmEvent, CalmEnds DEF IsNamed
  <1> QED BY <1>1, <1>3, <1>4, <1>5, <1>6, <1>7, <1>8, StepCalm DEF Next

\* As long as nothing disturbs a process at work, the one daemon that serves is
\* the one that stop, restart and status find by the PID file, whatever was
\* started, stopped, restarted, interrupted or crashed before.
THEOREM ServingDaemonIsAlwaysNamed == Spec => []ServingDaemonIsNamed
  <1>1. CalmInv => ServingDaemonIsNamed
    BY DEF CalmInv, IsNamed, ServingDaemonIsNamed
  <1>2. Spec => []CalmInv
    BY CalmInit, NextCalm, DaemonInvariant, PTL DEF Spec
  <1> QED BY <1>1, <1>2, PTL
=============================================================================
