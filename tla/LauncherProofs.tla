--------------------------- MODULE LauncherProofs ---------------------------
(* Machine-checked facts about Launcher, for any number of processes,        *)
(* crashes, failures and closings.                                           *)
EXTENDS Launcher, TLAPS

-----------------------------------------------------------------------------
(* The inductive invariants.                                                 *)

\* A process that has been inside does not wait again.
Before == {"unborn", "begin", "poll", "lock", "judge", "recover"}
Past(q) == proc[q].at \notin Before
\* Whom a lock names has been inside, and so has whom a waiting process read.
Known == /\ lock # None => Past(lock.owner)
         /\ \A p \in Pids : proc[p].seen # None => Past(proc[p].seen.owner)
\* What a process that is about to remove the lock has judged is still so.
Judged(p) == LET seen == proc[p].seen
             IN IF seen.written THEN ~Alive(seen.owner) ELSE lock = seen => aged
Judgements == \A p \in Pids : proc[p].at = "recover" => Judged(p)
\* While no removal has gone astray the lock is held by the one process inside.
OwnerInside == \A p \in Inside : lock # None /\ lock.owner = p
LockInv == Known /\ Judgements /\ (~astray => OwnerInside)

Starts(p) == proc[p].cmd = "start"
\* What a start has seen of the ports is still so.
Seen(p) == \A port \in Ports : /\ service[port] \in {"none", "ours"}
                               /\ port \in proc[p].occupied <=> service[port] = "ours"
\* On its way through a start, a stop and the cleanup of a watcher.
Opening(p) ==
    /\ proc[p].at \in {"terminate", "renew"} /\ Starts(p) =>
          /\ window # "open" /\ "backend" \in proc[p].occupied
          /\ "frontend" \in proc[p].occupied <=> service.frontend = "ours"
    /\ proc[p].at \in {"retire", "spawn"} /\ Starts(p) => Seen(p)
    /\ proc[p].at = "spawn" /\ window = "open" => Ours = Ports
    /\ proc[p].at \in {"wait", "open", "leave", "name"} => Ours = Ports
    /\ proc[p].at \in {"spawn", "wait", "open", "leave", "name"} => watcher = None
    /\ IF proc[p].at = "name" THEN proc[p].heir # None /\ proc[proc[p].heir] = Born("watch", "begin")
       ELSE proc[p].heir = None
Closing(p) ==
    proc[p].at \in Stopping =>
        /\ ~Starts(p)
        /\ proc[p].cmd = "watch" => watcher = p
        /\ proc[p].cmd = "stop" => watcher = None
        /\ proc[p].at = "gone" => window # "open"
Refreshing(p) ==
    proc[p].at = "renew" /\ window = "open" => service.frontend = "ours" /\ watcher # None

\* The watcher that is named is at work, or has waited too long, and is past
\* its watch only once the window is gone.
WatcherOK ==
    watcher # None => /\ proc[watcher].cmd = "watch" \/ proc[watcher].at = "timedOut"
                      /\ proc[watcher].at # "release"
                      /\ proc[watcher].at \notin {"begin", "poll"} => window = "none"

Changing == {"renew", "spawn", "wait", "open", "leave", "name"} \cup Stopping
SessionInv ==
    faults = 0 /\ ~astray =>
        /\ NoCrash
        /\ service.frontend \in {"none", "ours"}
        /\ WatcherOK
        /\ \A p \in Pids : Opening(p) /\ Closing(p) /\ Refreshing(p)
        /\ (window = "open" /\ \A p \in Pids : proc[p].at \notin Changing) => Ours = Ports /\ watcher # None
-----------------------------------------------------------------------------
(* Type correctness.                                                         *)

LEMMA NoneLock == None \in Locks
BY DEF Locks
LEMMA LockIs == \A held \in Locks : held # None => /\ held.owner \in Pids /\ held.written \in BOOLEAN
                                                   /\ held = [owner |-> held.owner, written |-> held.written]
BY DEF Locks

ProcsOK == DOMAIN proc = Pids /\ \A q \in Pids : ProcOK(proc[q])

\* A process that goes on, or ends, is where a process of its command may be.
LEMMA PlacesWithin ==
    ASSUME NEW cmd \in Commands \cup {"watch"}
    PROVE  Places(cmd) \subseteq Waiting \cup Stopping \cup Working \cup {"begin", "poll", "check"}
BY LauncherAssumption DEF Places, Waiting, Stopping, Working

LEMMA GoesOn ==
    ASSUME ProcsOK, NEW p \in Pids, NEW at, proc[p].cmd # None,
           at \in Places(proc[p].cmd), Go(p, at), {at, proc[p].at} \cap {"judge", "recover"} = {}
    PROVE  ProcsOK'
<1>1. ProcOK([proc[p] EXCEPT !.at = at])
  BY PlacesWithin DEF ProcsOK, ProcOK
<1> QED BY <1>1 DEF ProcsOK, Go

\* A process that waits keeps what it has read of the lock while it judges.
LEMMA Waits ==
    ASSUME NEW q, ProcOK(q), q.cmd # None, NEW at \in Places(q.cmd), NEW held \in Locks,
           at \in {"judge", "recover"} <=> held # None
    PROVE  ProcOK([q EXCEPT !.at = at, !.seen = held])
<1>1. q.cmd \in Commands \cup {"watch"}
  BY DEF ProcOK
<1>2. at \in Over \cup Waiting \cup Stopping \cup Working \cup {"begin", "poll", "check"}
  BY <1>1, PlacesWithin
<1> QED BY <1>2 DEF ProcOK

LEMMA Ends ==
    ASSUME ProcsOK, NEW p \in Pids, NEW at \in Over, End(p, at)
    PROVE  ProcsOK'
<1>1. ProcOK(Ending(at))
  BY LauncherAssumption, NoneLock DEF ProcOK, Ending, Unborn, Places, Over
<1> QED BY <1>1 DEF ProcsOK, End

LEMMA IsBorn ==
    ASSUME NEW cmd \in Commands \cup {"watch"}, NEW at \in Places(cmd) \ {"judge", "recover"}
    PROVE  ProcOK(Born(cmd, at))
BY PlacesWithin, NoneLock, LauncherAssumption DEF ProcOK, Born, Unborn
\* What the command of a process is, by its place.
Fits(p) ==
    /\ proc[p].at \in {"ports", "spawn", "wait", "open", "leave", "name"} => proc[p].cmd = "start"
    /\ proc[p].at \in {"terminate", "renew"} => proc[p].cmd \in {"start", "refresh"}
    /\ proc[p].at = "retire" => proc[p].cmd \in {"start", "stop"}
    /\ proc[p].at \in {"begin", "poll", "check"} => proc[p].cmd = "watch"
    /\ proc[p].at \in {"endBackend", "endFrontend", "endWindow", "gone"} => proc[p].cmd \in {"start", "stop", "watch"}
LEMMA CommandOf ==
    ASSUME ProcsOK, NEW p \in Pids
    PROVE  /\ Fits(p)
           /\ proc[p].at \notin Over => proc[p].cmd \in Commands \cup {"watch"} /\ proc[p].cmd # None
           /\ proc[p].at \in Over => proc[p].cmd = None
BY LauncherAssumption DEF ProcsOK, ProcOK, Places, Fits, Over, Waiting, Stopping, Working

Rest == /\ lock \in Locks
        /\ aged \in BOOLEAN /\ astray \in BOOLEAN
        /\ watcher \in Pids \cup {None}
        /\ service \in [Ports -> {"none", "ours", "old", "foreign"}]
        /\ window \in {"none", "open", "closing"}
        /\ faults \in 0 .. MaxFaults /\ closes \in 0 .. MaxCloses
LEMMA TypeParts == TypeOK <=> ProcsOK /\ Rest
BY DEF TypeOK, ProcsOK, Rest

LEMMA TypeInit == Init => TypeOK
<1> SUFFICES ASSUME Init PROVE TypeOK
  OBVIOUS
<1>1. ProcOK(Unborn)
  BY LauncherAssumption, NoneLock DEF ProcOK, Unborn, Ending, Places, Over
<1>2. ProcsOK
  BY <1>1 DEF ProcsOK, Init
<1>3. aged \in BOOLEAN /\ astray \in BOOLEAN
  BY Zenon DEF Init
<1>4. Rest
  BY <1>3, LauncherAssumption, NoneLock DEF Rest, Init, Ports
<1> QED BY <1>2, <1>4, TypeParts

\* Nothing but the process table needs the places.
LEMMA RestStep == TypeOK /\ Next => Rest'
<1> SUFFICES ASSUME TypeOK, Next PROVE Rest'
  OBVIOUS
<1> USE LauncherAssumption DEF TypeOK, Rest, Pids, lockFile
<1>1. ASSUME NEW cmd \in Commands, Command(cmd) PROVE Rest'
  BY <1>1 DEF Command
<1>2. ASSUME NEW p \in Pids, \/ Take(p) \/ Look(p) \/ Judge(p) \/ Recover(p) \/ GiveUp(p) \/ Release(p)
      PROVE  Rest'
  <2>1. lock' \in {None, lock, [owner |-> p, written |-> FALSE]}
    BY <1>2 DEF Take, Look, Judge, Recover, GiveUp, Release
  <2>2. lock' \in Locks
    <3>1. [owner |-> p, written |-> FALSE] \in Locks
      BY DEF Locks
    <3> QED BY <2>1, <3>1, NoneLock
  <2>3. UNCHANGED <<watcher, service, window, faults, closes>>
    BY <1>2 DEF Take, Look, Judge, Recover, GiveUp, Release
  <2>4. aged' \in BOOLEAN /\ astray' \in BOOLEAN
    BY <1>2 DEF Take, Look, Judge, Recover, GiveUp, Release, Astray
  <2> QED BY <2>2, <2>3, <2>4
<1>9. ASSUME NEW p \in Pids, Sign(p) PROVE Rest'
  <2>1. lock' \in Locks /\ aged' \in BOOLEAN
    BY <1>9 DEF Sign, Locks
  <2> QED BY <1>9, <2>1 DEF Sign
<1>3. ASSUME NEW p \in Pids, \/ CheckPorts(p) \/ Retire(p) \/ Open(p) \/ Wait(p) \/ Leave(p)
      PROVE  Rest'
  BY <1>3 DEF CheckPorts, Retire, Open, Wait, Leave, Fault
<1>4. ASSUME NEW p \in Pids, \/ Terminate(p) \/ Renew(p) \/ Spawn(p) \/ EndBackend(p) \/ EndFrontend(p)
      PROVE  Rest'
  BY <1>4 DEF Terminate, Renew, Spawn, EndBackend, EndFrontend, EndPort, Fault
<1>5. ASSUME NEW p \in Pids, Name(p) PROVE Rest'
  BY <1>5 DEF Name, ProcOK
<1>6. ASSUME NEW p \in Pids, EndWindow(p) \/ Gone(p) PROVE Rest'
  BY <1>6 DEF EndWindow, Gone
<1>7. ASSUME NEW p \in Pids, Begin(p) \/ Poll(p) \/ Check(p) \/ Crash(p) PROVE Rest'
  BY <1>7 DEF Begin, Poll, Check, Crash, Fault
<1>8. ASSUME UserCloses \/ Exit PROVE Rest'
  BY <1>8 DEF UserCloses, Exit
<1>10. ASSUME Age PROVE Rest'
  <2>1. aged' \in BOOLEAN
    BY <1>10, Zenon DEF Age
  <2> QED BY <1>10, <2>1 DEF Age
<1> QED BY <1>1, <1>2, <1>3, <1>4, <1>5, <1>6, <1>7, <1>8, <1>9, <1>10 DEF Next, Runs
\* Every step leaves each process at a place of its command.
LEMMA ProcsStep == TypeOK /\ Next => ProcsOK'
<1> SUFFICES ASSUME TypeOK, Next PROVE ProcsOK'
  OBVIOUS
<1>1. ProcsOK /\ Rest
  BY TypeParts
<1>2. \A p \in Pids : /\ Fits(p)
                      /\ proc[p].at \notin Over => proc[p].cmd \in Commands \cup {"watch"} /\ proc[p].cmd # None
  BY <1>1, CommandOf
<1>3. ASSUME NEW p \in Pids, NEW at, at \in Places(proc[p].cmd), proc[p].cmd # None, Go(p, at),
             {at, proc[p].at} \cap {"judge", "recover"} = {}
      PROVE  ProcsOK'
  BY <1>1, <1>3, GoesOn
<1>4. ASSUME NEW p \in Pids, NEW at \in Over, End(p, at) PROVE ProcsOK'
  BY <1>1, <1>4, Ends
<1>5. ASSUME NEW cmd \in Commands, Command(cmd) PROVE ProcsOK'
  <2>1. ProcOK(Born(cmd, "lock"))
    BY IsBorn, LauncherAssumption DEF Places, Waiting
  <2> QED BY <1>1, <1>5, <2>1 DEF Command, ProcsOK
<1>6. ASSUME NEW p \in Pids, Take(p) \/ Sign(p) PROVE ProcsOK'
  <2>1. proc[p].cmd # None /\ proc[p].cmd \in Commands \cup {"watch"}
    BY <1>2, <1>6 DEF Take, Sign, Over
  <2>2. {"sign", First(proc[p].cmd)} \subseteq Places(proc[p].cmd) \ {"judge", "recover"}
    BY <2>1, LauncherAssumption DEF Places, First, Waiting, Working
  <2> QED BY <1>3, <1>6, <2>1, <2>2 DEF Take, Sign
<1>18. ASSUME NEW p \in Pids, Look(p) \/ Judge(p) \/ Recover(p) PROVE ProcsOK'
  <2>1. proc[p].cmd # None /\ proc[p].cmd \in Commands \cup {"watch"} /\ proc[p].at \in {"lock", "judge", "recover"}
    BY <1>2, <1>18 DEF Look, Judge, Recover, Over
  <2>2. {"lock", "judge", "recover"} \subseteq Places(proc[p].cmd)
    BY <2>1, LauncherAssumption DEF Places, Waiting
  <2>3. ProcOK([proc[p] EXCEPT !.at = "lock", !.seen = None])
    BY <1>1, <2>1, <2>2, NoneLock, Waits DEF ProcsOK
  <2>4. proc[p].at = "judge" => ProcOK([proc[p] EXCEPT !.at = "recover"])
    BY <1>1, <2>1, <2>2, PlacesWithin, LauncherAssumption DEF ProcsOK, ProcOK
  <2>6. lock \in Locks
    BY <1>1 DEF Rest
  <2>5. lock # None => ProcOK([proc[p] EXCEPT !.at = "judge", !.seen = lock])
    BY <1>1, <2>1, <2>2, <2>6, Waits DEF ProcsOK
  <2> QED BY <1>1, <1>18, <2>3, <2>4, <2>5 DEF Look, Judge, Recover, ProcsOK
<1>7. ASSUME NEW p \in Pids, Release(p) \/ GiveUp(p) \/ Crash(p) PROVE ProcsOK'
  BY <1>4, <1>7 DEF Release, GiveUp, Crash, Over
<1>8. ASSUME NEW p \in Pids, CheckPorts(p) PROVE ProcsOK'
  <2> DEFINE occupied == {port \in Ports : service[port] # "none"}
  <2>1. proc[p].cmd = "start" /\ proc[p].at \notin {"judge", "recover"}
    BY <1>2, <1>8 DEF CheckPorts, Fits
  <2>2. ASSUME NEW at \in {"release", "terminate", "retire"}
        PROVE  ProcOK([proc[p] EXCEPT !.at = at, !.occupied = occupied])
    BY <1>1, <2>1, LauncherAssumption DEF ProcsOK, ProcOK, Places, Waiting, Working
  <2> QED BY <1>1, <1>8, <2>2 DEF CheckPorts, ProcsOK
<1>9. ASSUME NEW p \in Pids, Terminate(p) \/ Renew(p) PROVE ProcsOK'
  <2>1. proc[p].cmd \in {"start", "refresh"}
    BY <1>2, <1>9 DEF Terminate, Renew, Fits
  <2>2. {"renew", "release"} \subseteq Places(proc[p].cmd) /\ "retire" \in Places("start") /\ proc[p].cmd # None
    BY <2>1, LauncherAssumption DEF Places, Waiting, Working
  <2> QED BY <1>3, <1>9, <2>2 DEF Terminate, Renew
<1>10. ASSUME NEW p \in Pids, Retire(p) PROVE ProcsOK'
  <2>1. proc[p].cmd \in {"start", "stop"} /\ proc[p].at \notin {"judge", "recover"}
    BY <1>2, <1>10 DEF Retire, Fits
  <2>2. ProcOK(Ending("retired"))
    BY LauncherAssumption, NoneLock DEF ProcOK, Ending, Unborn, Places, Over
  <2>3. \A q \in Pids : ProcOK(Ended(proc)[q]) /\ Ended(proc)[p] = proc[p]
    BY <1>1, <2>1, <2>2 DEF Ended, ProcsOK
  <2> DEFINE at == IF proc[p].cmd = "start" THEN "spawn" ELSE "endBackend"
  <2>4. ProcOK([proc[p] EXCEPT !.at = at])
    BY <1>1, <2>1, LauncherAssumption DEF ProcsOK, ProcOK, Places, Working, Stopping
  <2>5. proc' = [Ended(proc) EXCEPT ![p].at = at]
    BY <1>10 DEF Retire
  <2>6. DOMAIN Ended(proc) = Pids
    BY DEF Ended
  <2> QED BY <2>3, <2>4, <2>5, <2>6 DEF ProcsOK
<1>11. ASSUME NEW p \in Pids, Spawn(p) PROVE ProcsOK'
  <2>1. proc[p].cmd = "start" /\ proc[p].at \notin {"judge", "recover"}
    BY <1>2, <1>11 DEF Spawn, Fits
  <2>2. ProcOK([proc[p] EXCEPT !.at = "wait", !.occupied = {}])
    BY <1>1, <2>1, LauncherAssumption DEF ProcsOK, ProcOK, Places, Working
  <2> QED BY <1>1, <1>11, <2>2 DEF Spawn, ProcsOK
<1>12. ASSUME NEW p \in Pids, Wait(p) \/ Open(p) PROVE ProcsOK'
  <2>1. proc[p].cmd = "start"
    BY <1>2, <1>12 DEF Wait, Open, Fits
  <2>2. {"open", "endBackend", "leave"} \subseteq Places(proc[p].cmd) /\ proc[p].cmd # None
    BY <2>1, LauncherAssumption DEF Places, Stopping, Working
  <2> QED BY <1>3, <1>12, <2>2 DEF Wait, Open
<1>13. ASSUME NEW p \in Pids, Leave(p) PROVE ProcsOK'
  <2>1. PICK q \in Pids : proc' = [proc EXCEPT ![p].at = "name", ![p].heir = q, ![q] = Born("watch", "begin")]
    BY <1>13 DEF Leave
  <2>2. proc[p].cmd = "start" /\ proc[p].at \notin {"judge", "recover"}
    BY <1>2, <1>13 DEF Leave, Fits
  <2>3. ProcOK(Born("watch", "begin"))
    BY IsBorn, LauncherAssumption DEF Places
  <2>4. ProcOK([proc[p] EXCEPT !.at = "name", !.heir = q])
    BY <1>1, <2>2, LauncherAssumption DEF ProcsOK, ProcOK, Places, Working
  <2> QED BY <1>1, <2>1, <2>3, <2>4 DEF ProcsOK
<1>14. ASSUME NEW p \in Pids, Name(p) PROVE ProcsOK'
  <2>1. proc[p].cmd = "start" /\ proc[p].at \notin {"judge", "recover"}
    BY <1>2, <1>14 DEF Name, Fits
  <2>2. ProcOK([proc[p] EXCEPT !.at = "release", !.heir = None])
    BY <1>1, <2>1, LauncherAssumption DEF ProcsOK, ProcOK, Places, Waiting
  <2> QED BY <1>1, <1>14, <2>2 DEF Name, ProcsOK
<1>15. ASSUME NEW p \in Pids, EndBackend(p) \/ EndFrontend(p) \/ EndWindow(p) \/ Gone(p) PROVE ProcsOK'
  <2>1. proc[p].cmd \in {"start", "stop", "watch"}
    BY <1>2, <1>15 DEF EndBackend, EndFrontend, EndWindow, Gone, Fits
  <2>2. {"endFrontend", "endWindow", "gone", "release"} \subseteq Places(proc[p].cmd) /\ proc[p].cmd # None
    BY <2>1, LauncherAssumption DEF Places, Waiting, Stopping
  <2>3. CASE UNCHANGED proc
    BY <1>1, <2>3 DEF ProcsOK
  <2> QED BY <1>3, <1>15, <2>2, <2>3 DEF EndBackend, EndFrontend, EndWindow, Gone, EndPort
<1>16. ASSUME NEW p \in Pids, Begin(p) \/ Poll(p) \/ Check(p) PROVE ProcsOK'
  <2>1. proc[p].cmd = "watch"
    BY <1>2, <1>16 DEF Begin, Poll, Check, Fits
  <2>2. {"poll", "lock", "endBackend", "release"} \subseteq Places(proc[p].cmd) /\ proc[p].cmd # None
    BY <2>1, LauncherAssumption DEF Places, Waiting, Stopping
  <2> QED BY <1>3, <1>4, <1>16, <2>2 DEF Begin, Poll, Check, Over
<1>17. ASSUME UserCloses \/ Exit \/ Age PROVE ProcsOK'
  BY <1>1, <1>17 DEF UserCloses, Exit, Age, ProcsOK
<1> QED BY <1>18, <1>5, <1>6, <1>7, <1>8, <1>9, <1>10, <1>11, <1>12, <1>13, <1>14, <1>15, <1>16, <1>17 DEF Next, Runs

\* Types, and every process is at a place of its command: a command is first
\* queued for the lock, and each has its own way through what follows.
THEOREM TypeCorrect == Spec => []TypeOK
<1>1. TypeOK /\ [Next]_vars => TypeOK'
  <2>1. CASE Next
    BY <2>1, RestStep, ProcsStep DEF TypeOK, ProcsOK, Rest
  <2>2. CASE UNCHANGED vars
    BY <2>2 DEF TypeOK, vars, lockFile
  <2> QED BY <2>1, <2>2
<1> QED BY <1>1, TypeInit, PTL DEF Spec
-----------------------------------------------------------------------------
(* Taking turns.                                                             *)

IsInside(q) == q.at \notin Over \cup {"lock", "judge", "recover", "begin", "poll"}
LEMMA InsideIs == /\ Inside = {p \in Pids : IsInside(proc[p])}
                  /\ Inside' = {p \in Pids : IsInside(proc'[p])}
BY DEF Inside, IsInside, Alive, Over

\* A process that has ended stays so, and one that has been inside does not
\* wait again; what a process has read of a lock it read while it waited.
Onwards(q) == /\ proc[q].at \in Over \ {"unborn"} => proc'[q] = proc[q]
              /\ Past(q) => proc'[q].at \notin Before
              /\ proc'[q].seen \in {proc[q].seen, None, lock}
LEMMA Onward == ASSUME TypeOK, Next PROVE \A q \in Pids : Onwards(q)
<1> USE DEF TypeOK
<1>1. ASSUME NEW p \in Pids, NEW r, proc' = [proc EXCEPT ![p] = r],
             \/ r.at \notin Before /\ r.seen \in {proc[p].seen, None} /\ proc[p].at \notin Over \ {"unborn"}
             \/ proc[p].at \in Before /\ r.seen \in {proc[p].seen, None, lock}
      PROVE  \A q \in Pids : Onwards(q)
  BY <1>1 DEF Onwards, Over, Before, Past
<1>2. ASSUME NEW p \in Pids, NEW at, Go(p, at), \/ at \notin Before /\ proc[p].at \notin Over \ {"unborn"}
                                                \/ proc[p].at \in Before
      PROVE  \A q \in Pids : Onwards(q)
  <2>1. [proc[p] EXCEPT !.at = at].at = at /\ [proc[p] EXCEPT !.at = at].seen = proc[p].seen
    BY DEF ProcOK
  <2> QED BY <1>1, <1>2, <2>1 DEF Go
<1>3. ASSUME NEW p \in Pids, NEW at \in Over \ {"unborn"}, End(p, at), Alive(p)
      PROVE  \A q \in Pids : Onwards(q)
  <2>1. Ending(at).at = at /\ Ending(at).seen = None /\ at \notin Before
    BY DEF Ending, Unborn, Over, Before
  <2> QED BY <1>1, <1>3, <2>1 DEF End, Alive, Over
<1>4. ASSUME NEW cmd \in Commands, Command(cmd) PROVE \A q \in Pids : Onwards(q)
  <2>1. PICK p \in Pids : IsNext(p) /\ proc' = [proc EXCEPT ![p] = Born(cmd, "lock")]
    BY <1>4 DEF Command
  <2>2. proc[p].at = "unborn" /\ Born(cmd, "lock").seen = None
    BY <2>1 DEF IsNext, Free, Born, Unborn
  <2> QED BY <1>1, <2>1, <2>2 DEF Before
<1>5. ASSUME NEW p \in Pids, Take(p) \/ Sign(p) PROVE \A q \in Pids : Onwards(q)
  <2>1. Sign(p) => First(proc[p].cmd) \notin Before
    <3>1. Sign(p) => proc[p].cmd \in {"start", "stop", "refresh", "watch"}
      BY CommandOf, LauncherAssumption DEF Sign, ProcsOK, Over
    <3> QED BY <3>1 DEF First, Before
  <2> QED BY <1>2, <1>5, <2>1 DEF Take, Sign, Before, Over
<1>6. ASSUME NEW p \in Pids, Look(p) \/ Judge(p) \/ Recover(p) PROVE \A q \in Pids : Onwards(q)
  <2>1. PICK r \in {[proc[p] EXCEPT !.at = "judge", !.seen = lock], [proc[p] EXCEPT !.at = "recover"],
                    [proc[p] EXCEPT !.at = "lock", !.seen = None]} : proc' = [proc EXCEPT ![p] = r]
    BY <1>6 DEF Look, Judge, Recover
  <2>2. r.seen \in {proc[p].seen, None, lock}
    BY <2>1 DEF ProcOK
  <2>3. proc[p].at \in Before
    BY <1>6 DEF Look, Judge, Recover, Before
  <2> HIDE DEF TypeOK
  <2> QED BY <1>1, <2>1, <2>2, <2>3
<1>7. ASSUME NEW p \in Pids, GiveUp(p) \/ Release(p) \/ Crash(p) PROVE \A q \in Pids : Onwards(q)
  BY <1>3, <1>7 DEF GiveUp, Release, Crash, Alive, Over
<1>8. ASSUME NEW p \in Pids, Terminate(p) \/ Renew(p) \/ Wait(p) \/ Open(p) PROVE \A q \in Pids : Onwards(q)
  BY <1>2, <1>8 DEF Terminate, Renew, Wait, Open, Before, Over
<1>9. ASSUME NEW p \in Pids, CheckPorts(p) \/ Spawn(p) \/ Name(p) PROVE \A q \in Pids : Onwards(q)
  <2>1. PICK r : /\ proc' = [proc EXCEPT ![p] = r] /\ r.at \in {"release", "terminate", "retire", "wait"}
                 /\ r.seen = proc[p].seen
    BY <1>9 DEF CheckPorts, Spawn, Name, ProcOK
  <2>2. proc[p].at \notin Over
    BY <1>9 DEF CheckPorts, Spawn, Name, Over
  <2> QED BY <1>1, <2>1, <2>2 DEF Before
<1>10. ASSUME NEW p \in Pids, Retire(p) PROVE \A q \in Pids : Onwards(q)
  <2> DEFINE at == IF proc[p].cmd = "start" THEN "spawn" ELSE "endBackend"
  <2>1. ASSUME NEW q \in Pids, q # p PROVE Onwards(q)
    <3>1. proc'[q] = proc[q] \/ (Alive(q) /\ proc'[q] = Ending("retired"))
      BY <1>10, <2>1 DEF Retire, Ended
    <3> QED BY <3>1 DEF Onwards, Alive, Ending, Unborn, Over, Before, Past
  <2>2. proc[p].cmd # "watch" /\ proc[p].at = "retire"
    BY <1>10, CommandOf DEF Retire, ProcsOK, Fits
  <2>3. proc'[p] = [proc[p] EXCEPT !.at = at]
    BY <1>10, <2>2 DEF Retire, Ended
  <2>4. proc'[p].at = at /\ proc'[p].seen = proc[p].seen
    BY <2>3 DEF ProcOK
  <2>5. Onwards(p)
    BY <2>2, <2>4 DEF Onwards, Over, Before
  <2> QED BY <2>1, <2>5
<1>11. ASSUME NEW p \in Pids, Leave(p) PROVE \A q \in Pids : Onwards(q)
  <2>1. PICK q \in Pids : /\ IsNext(q)
                          /\ proc' = [proc EXCEPT ![p].at = "name", ![p].heir = q, ![q] = Born("watch", "begin")]
    BY <1>11 DEF Leave
  <2>2. p # q /\ proc[q].at = "unborn" /\ proc[p].at = "leave"
    BY <1>11, <2>1 DEF Leave, IsNext, Free
  <2>3. \A x \in Pids : proc'[x] = IF x = q THEN Born("watch", "begin")
                                   ELSE IF x = p THEN [proc[p] EXCEPT !.at = "name", !.heir = q] ELSE proc[x]
    BY <2>1, <2>2
  <2>4. Onwards(q)
    BY <2>2, <2>3 DEF Onwards, Born, Unborn, Over, Before, Past
  <2>5. proc'[p].at = "name" /\ proc'[p].seen = proc[p].seen
    <3>1. proc'[p] = [proc[p] EXCEPT !.at = "name", !.heir = q]
      BY <2>2, <2>3
    <3> QED BY <3>1 DEF ProcOK
  <2>6. Onwards(p)
    BY <2>2, <2>5 DEF Onwards, Over, Before
  <2>7. ASSUME NEW x \in Pids \ {p, q} PROVE Onwards(x)
    BY <2>3, <2>7 DEF Onwards, Past
  <2> QED BY <2>4, <2>6, <2>7
<1>12. ASSUME NEW p \in Pids, EndBackend(p) \/ EndFrontend(p) \/ EndWindow(p) PROVE \A q \in Pids : Onwards(q)
  BY <1>2, <1>12 DEF EndBackend, EndFrontend, EndPort, EndWindow, Before, Over
<1>13. ASSUME UNCHANGED proc PROVE \A q \in Pids : Onwards(q)
  BY <1>13 DEF Onwards, Past
<1>14. ASSUME NEW p \in Pids, Gone(p) PROVE \A q \in Pids : Onwards(q)
  <2>1. UNCHANGED proc \/ Go(p, "release")
    BY <1>14 DEF Gone
  <2>2. proc[p].at = "gone"
    BY <1>14 DEF Gone
  <2> QED BY <1>2, <1>13, <2>1, <2>2 DEF Before, Over
<1>15. ASSUME NEW p \in Pids, Begin(p) \/ Poll(p) PROVE \A q \in Pids : Onwards(q)
  <2>1. proc[p].at \in Before /\ Alive(p)
    BY <1>15 DEF Begin, Poll, Before, Alive, Over
  <2>2. Go(p, "poll") \/ Go(p, "lock") \/ End(p, "done")
    BY <1>15 DEF Begin, Poll
  <2> QED BY <1>2, <1>3, <2>1, <2>2 DEF Over
<1>16. ASSUME NEW p \in Pids, Check(p) PROVE \A q \in Pids : Onwards(q)
  BY <1>2, <1>16 DEF Check, Before, Over
<1> QED BY <1>4, <1>5, <1>6, <1>7, <1>8, <1>9, <1>10, <1>11, <1>12, <1>13, <1>14, <1>15, <1>16
        DEF Next, Runs, UserCloses, Exit, Age

\* What happens to the lock file in a step.
Changed ==
    \/ UNCHANGED <<lock, aged>> \/ Age
    \/ \E p \in Pids : \/ Take(p)
                       \/ Sign(p) /\ lock # None /\ lock' = [lock EXCEPT !.written = TRUE]
                       \/ Recover(p) \/ Release(p)
LEMMA Changes == Next => Changed /\ (astray => astray')
<1>1. Next => Changed
  BY DEF Next, Runs, Changed, lockFile, Command, Take, Look, Judge, Recover, Sign, Release, CheckPorts, Terminate,
         Renew, Retire, Spawn, Wait, Open, Leave, Name, EndBackend, EndFrontend, EndPort, EndWindow, Gone,
         Begin, Poll, Check, GiveUp, Crash, UserCloses, Exit, Age
<1>2. Next => (astray => astray')
  BY Zenon DEF Next, Runs, lockFile, Command, Take, Look, Judge, Recover, Sign, Release, CheckPorts, Terminate,
         Renew, Retire, Spawn, Wait, Open, Leave, Name, EndBackend, EndFrontend, EndPort, EndWindow, Gone,
         Begin, Poll, Check, GiveUp, Crash, UserCloses, Exit, Age
<1> QED BY <1>1, <1>2

\* A judgement is passed, and stands.
LEMMA Judging ==
    ASSUME TypeOK, Next, NEW q \in Pids, proc'[q].at = "recover"
    PROVE  /\ proc'[q].seen = proc[q].seen
           /\ \/ proc[q].at = "recover"
              \/ proc[q].at = "judge" /\ Dead(proc[q].seen) /\ UNCHANGED <<lock, aged>>
<1> USE DEF TypeOK
<1> DEFINE Good == /\ proc'[q].seen = proc[q].seen
                   /\ \/ proc[q].at = "recover"
                      \/ proc[q].at = "judge" /\ Dead(proc[q].seen) /\ UNCHANGED <<lock, aged>>
<1>1. ASSUME NEW p \in Pids, NEW r, r.at # "recover", proc' = [proc EXCEPT ![p] = r] PROVE Good
  BY <1>1
<1>2. ASSUME NEW p \in Pids, NEW at, at # "recover", Go(p, at) \/ End(p, at) PROVE Good
  <2>1. [proc[p] EXCEPT !.at = at].at = at /\ Ending(at).at = at
    BY DEF ProcOK, Ending, Unborn
  <2> QED BY <1>1, <1>2, <2>1 DEF Go, End
<1>3. ASSUME UNCHANGED proc PROVE Good
  BY <1>3
<1>4. ASSUME NEW cmd \in Commands, Command(cmd) PROVE Good
  <2>1. Born(cmd, "lock").at # "recover"
    BY DEF Born, Unborn
  <2> QED BY <1>1, <1>4, <2>1 DEF Command
<1>5. ASSUME NEW p \in Pids, Judge(p) PROVE Good
  <2>1. CASE p # q
    BY <1>5, <2>1 DEF Judge
  <2>2. CASE p = q
    <3>1. Dead(proc[p].seen)
      <4>1. SUFFICES ASSUME ~Dead(proc[p].seen) PROVE FALSE
        OBVIOUS
      <4>2. proc'[p].at = "lock"
        BY <1>5, <4>1 DEF Judge, ProcOK
      <4> QED BY <2>2, <4>2
    <3>2. proc'[p].seen = proc[p].seen
      BY <1>5, <3>1 DEF Judge, ProcOK
    <3> QED BY <1>5, <2>2, <3>1, <3>2 DEF Judge, lockFile
  <2> QED BY <2>1, <2>2
<1>6. ASSUME NEW p \in Pids, Look(p) \/ Recover(p) PROVE Good
  <2>1. [proc[p] EXCEPT !.at = "judge", !.seen = lock].at = "judge" /\ [proc[p] EXCEPT !.at = "lock", !.seen = None].at = "lock"
    BY DEF ProcOK
  <2> QED BY <1>1, <1>6, <2>1 DEF Look, Recover
<1>7. ASSUME NEW p \in Pids, Take(p) \/ Sign(p) \/ GiveUp(p) \/ Release(p) \/ Crash(p) PROVE Good
  <2>1. Sign(p) => First(proc[p].cmd) # "recover"
    <3>1. Sign(p) => proc[p].cmd \in {"start", "stop", "refresh", "watch"}
      BY CommandOf, LauncherAssumption DEF Sign, ProcsOK, Over
    <3> QED BY <3>1 DEF First
  <2> QED BY <1>2, <1>7, <2>1 DEF Take, Sign, GiveUp, Release, Crash
<1>8. ASSUME NEW p \in Pids, Terminate(p) \/ Renew(p) \/ Wait(p) \/ Open(p) \/ Check(p) PROVE Good
  BY <1>2, <1>8 DEF Terminate, Renew, Wait, Open, Check
<1>9. ASSUME NEW p \in Pids, CheckPorts(p) \/ Spawn(p) \/ Name(p) PROVE Good
  <2>1. PICK r : proc' = [proc EXCEPT ![p] = r] /\ r.at \in {"release", "terminate", "retire", "wait"}
    BY <1>9 DEF CheckPorts, Spawn, Name, ProcOK
  <2> QED BY <1>1, <2>1
<1>10. ASSUME NEW p \in Pids, Retire(p) PROVE Good
  <2>1. q # p
    <3>1. proc'[p].at \in {"spawn", "endBackend"}
      <4>1. proc[p].cmd # "watch"
        BY <1>10, CommandOf DEF Retire, ProcsOK, Fits
      <4> QED BY <1>10, <4>1 DEF Retire, Ended, ProcOK
    <3> QED BY <3>1
  <2>2. proc'[q] = proc[q] \/ proc'[q] = Ending("retired")
    BY <1>10, <2>1 DEF Retire, Ended
  <2>3. Ending("retired").at # "recover"
    BY DEF Ending, Unborn
  <2> QED BY <2>2, <2>3
<1>11. ASSUME NEW p \in Pids, Leave(p) PROVE Good
  <2>1. PICK x \in Pids : proc' = [proc EXCEPT ![p].at = "name", ![p].heir = x, ![x] = Born("watch", "begin")]
    BY <1>11 DEF Leave
  <2>2. Born("watch", "begin").at # "recover"
    BY DEF Born, Unborn
  <2>3. q # x
    BY <2>1, <2>2
  <2>4. q = p => proc'[q].at = "name"
    <3>1. q = p => proc'[q] = [proc[p] EXCEPT !.at = "name", !.heir = x]
      BY <2>1, <2>3
    <3> QED BY <3>1 DEF ProcOK
  <2> QED BY <2>1, <2>3, <2>4
<1>12. ASSUME NEW p \in Pids, EndBackend(p) \/ EndFrontend(p) \/ EndWindow(p) \/ Begin(p) \/ Poll(p) PROVE Good
  BY <1>2, <1>12 DEF EndBackend, EndFrontend, EndPort, EndWindow, Begin, Poll
<1>13. ASSUME NEW p \in Pids, Gone(p) PROVE Good
  <2>1. UNCHANGED proc \/ Go(p, "release")
    BY <1>13 DEF Gone
  <2> QED BY <1>2, <1>3, <2>1
<1> QED BY <1>3, <1>4, <1>5, <1>6, <1>7, <1>8, <1>9, <1>10, <1>11, <1>12, <1>13
        DEF Next, Runs, UserCloses, Exit, Age

\* Whom a lock names, and whom a waiting process has read, has been inside.
LEMMA KnownStep == TypeOK /\ Known /\ Next => Known'
<1> SUFFICES ASSUME TypeOK, Known, Next PROVE Known'
  OBVIOUS
<1>1. \A q \in Pids : Past(q) => Past(q)'
  BY Onward DEF Past, Onwards
<1>2. lock # None => lock.owner \in Pids /\ Past(lock.owner)
  BY LockIs DEF TypeOK, Known
<1>3. ASSUME NEW p \in Pids, proc'[p].seen # None PROVE proc'[proc'[p].seen.owner].at \notin Before
  <2>1. proc'[p].seen \in {proc[p].seen, lock}
    BY <1>3, Onward DEF Onwards
  <2>2. proc[p].seen # None => proc[p].seen.owner \in Pids
    BY LockIs DEF TypeOK, ProcOK
  <2>3. PICK owner \in Pids : owner = proc'[p].seen.owner /\ Past(owner)
    BY <1>2, <1>3, <2>1, <2>2 DEF Known
  <2> QED BY <1>1, <2>3 DEF Past
<1>4. ASSUME lock' # None PROVE proc'[lock'.owner].at \notin Before
  <2>1. CASE UNCHANGED lock
    BY <1>1, <1>2, <1>4, <2>1 DEF Past
  <2>2. ASSUME NEW p \in Pids, Take(p) PROVE proc'[lock'.owner].at \notin Before
    <3>1. proc'[p].at = "sign" /\ lock'.owner = p
      BY <2>2 DEF Take, Go, TypeOK, ProcOK
    <3> QED BY <3>1 DEF Past, Before
  <2>3. ASSUME NEW p \in Pids, lock # None, lock' = [lock EXCEPT !.written = TRUE] PROVE proc'[lock'.owner].at \notin Before
    <3>1. lock'.owner = lock.owner
      BY <2>3, LockIs DEF TypeOK
    <3> QED BY <1>1, <1>2, <2>3, <3>1 DEF Past
  <2> QED BY <1>4, <2>1, <2>2, <2>3, Changes DEF Changed, Age, Recover, Release
<1> QED BY <1>3, <1>4 DEF Known, Past

\* What has been judged dead is dead when the lock is removed.
LEMMA JudgedStep == TypeOK /\ Known /\ Judgements /\ Next => Judgements'
<1> SUFFICES ASSUME TypeOK, Known, Judgements, Next, NEW p \in Pids, proc'[p].at = "recover"
             PROVE  Judged(p)'
  BY DEF Judgements
<1> DEFINE seen == proc[p].seen
<1>1. proc'[p].seen = seen
  BY Judging
<1>2. proc[p].at \in {"judge", "recover"} /\ IF seen.written THEN ~Alive(seen.owner) ELSE lock = seen => aged
  BY Judging DEF Judgements, Judged, Dead
<1>3. seen # None /\ seen.owner \in Pids /\ Past(seen.owner)
  BY <1>2, LockIs DEF TypeOK, ProcOK, Known
<1>4. ASSUME seen.written PROVE proc'[seen.owner].at \in Over
  <2>1. proc[seen.owner].at \in Over \ {"unborn"}
    BY <1>2, <1>3, <1>4 DEF Alive, Over, Past, Before
  <2>2. proc'[seen.owner] = proc[seen.owner]
    BY <1>3, <2>1, Onward DEF Onwards
  <2> QED BY <2>1, <2>2
<1>5. ASSUME ~seen.written, lock' = seen PROVE aged'
  <2>1. CASE UNCHANGED <<lock, aged>>
    BY <1>2, <1>5, <2>1
  <2>2. CASE Age
    BY <2>2 DEF Age
  <2>3. ASSUME NEW q \in Pids, Take(q) PROVE FALSE
    <3>1. seen.owner = q /\ proc[q].at = "lock"
      BY <1>5, <2>3 DEF Take
    <3> QED BY <1>3, <3>1 DEF Past, Before
  <2>4. ASSUME NEW q \in Pids, lock # None, lock' = [lock EXCEPT !.written = TRUE] PROVE FALSE
    BY <1>5, <2>4, LockIs DEF TypeOK
  <2>5. ASSUME NEW q \in Pids, Recover(q) \/ Release(q) PROVE FALSE
    BY <1>3, <1>5, <2>5 DEF Recover, Release
  <2> QED BY <2>1, <2>2, <2>3, <2>4, <2>5, Changes DEF Changed
<1> QED BY <1>1, <1>4, <1>5 DEF Judged, Alive, Over

\* A step that lets nobody in, and leaves the lock, leaves the turn with its owner.
LEMMA TurnKept ==
    ASSUME OwnerInside, lock' = lock, Inside' \subseteq Inside
    PROVE  OwnerInside'
BY DEF OwnerInside

LEMMA StaysPut ==
    ASSUME TypeOK, OwnerInside, lock' = lock, NEW p \in Pids, NEW r,
           proc' = [proc EXCEPT ![p] = r], IsInside(r) => IsInside(proc[p])
    PROVE  OwnerInside'
<1>1. \A q \in Pids : IsInside(proc'[q]) => IsInside(proc[q])
  BY DEF TypeOK
<1>2. Inside' \subseteq Inside
  BY <1>1, InsideIs
<1> QED BY <1>2, TurnKept
LEMMA OwnerStep == TypeOK /\ Known /\ Judgements /\ OwnerInside /\ Next /\ ~astray' => OwnerInside'
<1> SUFFICES ASSUME TypeOK, Known, Judgements, OwnerInside, Next, ~astray' PROVE OwnerInside'
  OBVIOUS
<1>2. \A p \in Inside : lock # None /\ lock.owner = p
  BY DEF OwnerInside
<1>3. ASSUME NEW p \in Pids, NEW at, Go(p, at), lock' = lock,
             IsInside([at |-> at]) => IsInside(proc[p])
      PROVE  OwnerInside'
  <2>1. [proc[p] EXCEPT !.at = at].at = at
    BY DEF TypeOK, ProcOK
  <2>2. IsInside([proc[p] EXCEPT !.at = at]) => IsInside(proc[p])
    BY <1>3, <2>1 DEF IsInside
  <2> QED BY <1>3, <2>1, <2>2, StaysPut DEF Go
<1>19. ASSUME NEW p \in Pids, NEW at \in Over, End(p, at), lock' = lock PROVE OwnerInside'
  <2>1. ~IsInside(Ending(at))
    BY DEF Ending, Unborn, IsInside
  <2> QED BY <1>19, <2>1, StaysPut DEF End
<1>4. ASSUME NEW cmd \in Commands, Command(cmd) PROVE OwnerInside'
  <2>1. PICK p \in Pids : IsNext(p) /\ proc' = [proc EXCEPT ![p] = Born(cmd, "lock")]
    BY <1>4 DEF Command
  <2>2. ~IsInside(Born(cmd, "lock"))
    BY DEF IsInside, Born, Unborn
  <2> QED BY <1>4, <2>1, <2>2, StaysPut DEF Command, lockFile
<1>5. ASSUME NEW p \in Pids, Take(p) PROVE OwnerInside'
  <2>1. Inside = {} /\ lock' # None /\ lock'.owner = p
    <3>1. lock = None /\ lock' = [owner |-> p, written |-> FALSE]
      BY <1>5 DEF Take
    <3>2. lock' \in [owner : 1 .. MaxProcs, written : BOOLEAN]
      BY <3>1 DEF Pids
    <3> QED BY <1>2, <3>1, <3>2, LauncherAssumption
  <2>2. \A q \in Pids : proc'[q] = IF q = p THEN [proc[p] EXCEPT !.at = "sign"] ELSE proc[q]
    BY <1>5 DEF Take, Go, TypeOK
  <2>3. Inside' = {p}
    BY <2>1, <2>2, InsideIs DEF IsInside, Over, TypeOK, ProcOK
  <2> QED BY <2>1, <2>3 DEF OwnerInside
<1>6. ASSUME NEW p \in Pids, Look(p) \/ Judge(p) \/ Recover(p)
      PROVE  Inside' \subseteq Inside
  <2>1. PICK r \in {[proc[p] EXCEPT !.at = "judge", !.seen = lock], [proc[p] EXCEPT !.at = "recover"],
                    [proc[p] EXCEPT !.at = "lock", !.seen = None]} : proc' = [proc EXCEPT ![p] = r]
    BY <1>6 DEF Look, Judge, Recover
  <2>2. r.at \in {"judge", "recover", "lock"}
    BY <2>1 DEF TypeOK, ProcOK
  <2>3. ~IsInside(r)
    BY <2>2 DEF IsInside
  <2>4. \A q \in Pids : IsInside(proc'[q]) => IsInside(proc[q])
    BY <2>1, <2>3 DEF TypeOK
  <2> QED BY <2>4, InsideIs
<1>20. ASSUME NEW p \in Pids, Look(p) \/ Judge(p) PROVE OwnerInside'
  BY <1>6, <1>20, TurnKept DEF Look, Judge, lockFile
<1>21. ASSUME NEW p \in Pids, Recover(p) PROVE OwnerInside'
  <2> DEFINE seen == proc[p].seen
  <2>1. ~Astray(seen) /\ Judged(p) /\ seen # None
    BY <1>21 DEF Recover, Judgements, TypeOK, ProcOK
  <2>2. CASE lock = None
    BY <1>6, <1>21, <2>2, TurnKept DEF Recover
  <2>3. CASE lock # None
    <3>1. lock = seen /\ ~Alive(seen.owner)
      BY <2>1, <2>3 DEF Astray, Judged
    <3>2. \A q \in Inside : q = lock.owner /\ Alive(q)
      BY <1>2 DEF Inside
    <3>3. Inside = {}
      BY <3>1, <3>2
    <3> QED BY <1>6, <1>21, <3>3 DEF OwnerInside
  <2> QED BY <2>2, <2>3
<1>7. ASSUME NEW p \in Pids, Sign(p) PROVE OwnerInside'
  <2>1. p \in Inside
    BY <1>7, InsideIs DEF Sign, IsInside, Over
  <2>2. lock # None /\ lock.owner = p /\ lock = [owner |-> p, written |-> lock.written] /\ p \in Pids
    BY <1>2, <2>1, LockIs DEF TypeOK
  <2>3. lock' # None /\ lock'.owner = p
    BY <1>7, <2>2, LauncherAssumption DEF Sign, Pids
  <2>4. \A q \in Pids \ {p} : proc'[q] = proc[q]
    BY <1>7 DEF Sign, Go, TypeOK
  <2>5. Inside' \subseteq Inside
    BY <2>1, <2>4, InsideIs
  <2> QED BY <1>2, <2>2, <2>3, <2>5 DEF OwnerInside
<1>8. ASSUME NEW p \in Pids, Release(p) PROVE OwnerInside'
  <2>1. p \in Inside
    BY <1>8, InsideIs DEF Release, IsInside, Over
  <2>2. \A q \in Inside : q = p
    BY <1>2, <2>1
  <2>3. \A q \in Pids : proc'[q] = IF q = p THEN Ending("done") ELSE proc[q]
    BY <1>8 DEF Release, End, TypeOK
  <2>4. Inside' = {}
    BY <2>2, <2>3, InsideIs DEF IsInside, Over, Ending, Unborn
  <2> QED BY <2>4 DEF OwnerInside
<1>9. ASSUME NEW p \in Pids, GiveUp(p) \/ Crash(p) PROVE OwnerInside'
  BY <1>9, <1>19 DEF GiveUp, Crash, Over, lockFile
<1>10. ASSUME NEW p \in Pids, CheckPorts(p) \/ Spawn(p) \/ Name(p) PROVE OwnerInside'
  <2>1. PICK r : proc' = [proc EXCEPT ![p] = r]
    BY <1>10 DEF CheckPorts, Spawn, Name
  <2>2. IsInside(proc[p])
    BY <1>10 DEF CheckPorts, Spawn, Name, IsInside, Over
  <2> QED BY <1>10, <2>1, <2>2, StaysPut DEF CheckPorts, Spawn, Name, lockFile
<1>23. ASSUME NEW p \in Pids, NEW at, Go(p, at), lock' = lock, proc[p].at \in Stopping \cup Working
       PROVE  OwnerInside'
  <2>1. IsInside(proc[p])
    BY <1>23 DEF IsInside, Over, Stopping, Working
  <2> QED BY <1>3, <1>23, <2>1
<1>11. ASSUME NEW p \in Pids, Terminate(p) \/ Renew(p) \/ Wait(p) \/ Open(p) PROVE OwnerInside'
  <2>1. proc[p].at \in Working /\ lock' = lock
    BY <1>11 DEF Terminate, Renew, Wait, Open, Working, lockFile
  <2>2. \E at : Go(p, at)
    BY <1>11 DEF Terminate, Renew, Wait, Open
  <2> QED BY <1>23, <2>1, <2>2
<1>12. ASSUME NEW p \in Pids, Retire(p) PROVE OwnerInside'
  <2>1. p \in Inside
    BY <1>12, InsideIs DEF Retire, IsInside, Over
  <2>2. \A q \in Pids \ {p} : proc'[q] \in {proc[q], Ending("retired")}
    BY <1>12 DEF Retire, Ended
  <2>3. Inside' \subseteq Inside
    BY <2>1, <2>2, InsideIs DEF IsInside, Over, Ending, Unborn
  <2> QED BY <1>12, <2>3, TurnKept DEF Retire, lockFile
<1>13. ASSUME NEW p \in Pids, Leave(p) PROVE OwnerInside'
  <2>1. PICK q \in Pids : proc' = [proc EXCEPT ![p].at = "name", ![p].heir = q, ![q] = Born("watch", "begin")]
    BY <1>13 DEF Leave
  <2>2. p \in Inside
    BY <1>13, InsideIs DEF Leave, IsInside, Over
  <2>3. \A x \in Pids \ {p} : proc'[x] \in {proc[x], Born("watch", "begin")}
    BY <2>1 DEF TypeOK
  <2>4. Inside' \subseteq Inside
    BY <2>2, <2>3, InsideIs DEF IsInside, Born, Unborn
  <2> QED BY <1>13, <2>4, TurnKept DEF Leave, lockFile
<1>14. ASSUME NEW p \in Pids, EndBackend(p) \/ EndFrontend(p) \/ EndWindow(p) PROVE OwnerInside'
  <2>1. proc[p].at \in Stopping /\ lock' = lock
    BY <1>14 DEF EndBackend, EndFrontend, EndPort, EndWindow, Stopping, lockFile
  <2>2. \E at : Go(p, at)
    BY <1>14 DEF EndBackend, EndFrontend, EndPort, EndWindow
  <2> QED BY <1>23, <2>1, <2>2
<1>15. ASSUME UNCHANGED <<lock, proc>> PROVE OwnerInside'
  BY <1>15, InsideIs, TurnKept
<1>16. ASSUME NEW p \in Pids, Gone(p) PROVE OwnerInside'
  BY <1>15, <1>16, <1>23 DEF Gone, Stopping, lockFile
<1>17. ASSUME NEW p \in Pids, Begin(p) \/ Poll(p) PROVE OwnerInside'
  BY <1>3, <1>17, <1>19 DEF Begin, Poll, IsInside, Over, lockFile
<1>18. ASSUME NEW p \in Pids, Check(p) PROVE OwnerInside'
  BY <1>3, <1>18 DEF Check, IsInside, Over, lockFile
<1>22. ASSUME UserCloses \/ Exit \/ Age PROVE OwnerInside'
  BY <1>15, <1>22 DEF UserCloses, Exit, Age, lockFile
<1> QED BY <1>4, <1>5, <1>7, <1>8, <1>9, <1>10, <1>11, <1>12, <1>13, <1>14, <1>16, <1>17, <1>18, <1>20, <1>21, <1>22
        DEF Next, Runs

LEMMA TurnStep == TypeOK /\ LockInv /\ [Next]_vars => LockInv'
<1>1. CASE Next
  BY <1>1, KnownStep, JudgedStep, OwnerStep, Changes DEF LockInv
<1>2. CASE UNCHANGED vars
  BY <1>2 DEF LockInv, Known, Judgements, Judged, OwnerInside, Past, Inside, Alive, Over, vars, lockFile
<1> QED BY <1>1, <1>2
LEMMA TurnInit == Init => LockInv
<1> SUFFICES ASSUME Init PROVE LockInv
  OBVIOUS
<1>1. \A p \in Pids : proc[p].at = "unborn" /\ proc[p].seen = None
  BY DEF Init, Unborn
<1> QED BY <1>1 DEF Init, LockInv, Known, Judgements, OwnerInside, Inside, Alive, Over

\* Start, stop, refresh and cleanup take turns, however creating the lock,
\* signing it, reading it, judging its owner, removing it and crashes
\* interleave: two are at work only after a removal that met another lock than
\* the one judged, or a living owner slower than five seconds.
THEOREM TurnsTaken == Spec => []TakeTurns
<1>1. LockInv => TakeTurns
  BY DEF LockInv, OwnerInside, TakeTurns
<1> QED BY <1>1, TurnInit, TurnStep, TypeCorrect, PTL DEF Spec
-----------------------------------------------------------------------------
(* The session of an open window.                                            *)

Steady == /\ NoCrash
          /\ service.frontend \in {"none", "ours"}
          /\ WatcherOK
          /\ \A p \in Pids : Opening(p) /\ Closing(p) /\ Refreshing(p)
          /\ (window = "open" /\ \A p \in Pids : proc[p].at \notin Changing) => Ours = Ports /\ watcher # None
LEMMA SessionIs == SessionInv <=> (faults = 0 /\ ~astray => Steady)
BY DEF SessionInv, Steady

\* One process moves between places where nothing is being changed.
LEMMA QuietStep ==
    ASSUME TypeOK, Steady, UNCHANGED <<service, window, watcher>>,
           NEW p \in Pids, NEW r, r.at # "crashed", proc' = [proc EXCEPT ![p] = r],
           proc[p].at \notin Changing, r.at \notin Changing, r.heir = None,
           \A q \in Pids : proc[q].heir # p,
           Opening(p)', WatcherOK'
    PROVE  Steady'
<1> USE DEF TypeOK
<1>1. \A q \in Pids : proc'[q] = IF q = p THEN r ELSE proc[q]
  OBVIOUS
<1>2. ASSUME NEW q \in Pids, q # p PROVE Opening(q)'
  <2>1. proc'[q] = proc[q] /\ Opening(q)
    BY <1>1, <1>2 DEF Steady
  <2>2. proc[q].at = "name" => proc[q].heir \in Pids /\ proc'[proc[q].heir] = proc[proc[q].heir]
    BY <1>1, <2>1 DEF Opening, ProcOK
  <2>3. Ours' = Ours
    BY DEF Ours
  <2> QED BY <2>1, <2>2, <2>3 DEF Opening, Starts, Seen
<1>3. ASSUME NEW q \in Pids PROVE Closing(q)' /\ Refreshing(q)'
  <2>1. CASE q = p
    BY <1>1, <2>1 DEF Closing, Refreshing, Changing
  <2>2. CASE q # p
    BY <1>1, <2>2 DEF Steady, Closing, Refreshing, Starts
  <2> QED BY <2>1, <2>2
<1>4. (\A q \in Pids : proc'[q].at \notin Changing) <=> (\A q \in Pids : proc[q].at \notin Changing)
  BY <1>1
<1>5. Ours' = Ours
  BY DEF Ours
<1>6. NoCrash'
  BY <1>1 DEF Steady, NoCrash
<1> QED BY <1>2, <1>3, <1>4, <1>5, <1>6 DEF Steady

\* The one process inside moves, and the others are outside.
LEMMA InsideStep ==
    ASSUME TypeOK, OwnerInside, Steady,
           NEW p \in Pids, NEW r, r.at # "crashed", proc' = [proc EXCEPT ![p] = r], IsInside(proc[p]),
           service'.frontend \in {"none", "ours"}, WatcherOK',
           Opening(p)', Closing(p)', Refreshing(p)',
           (window' = "open" /\ r.at \notin Changing) => Ours' = Ports /\ watcher' # None
    PROVE  Steady'
<1>1. ASSUME NEW q \in Pids, q # p PROVE ~IsInside(proc[q]) 
  BY <1>1, InsideIs DEF OwnerInside, Steady
<1>2. ASSUME NEW q \in Pids, q # p PROVE /\ proc'[q] = proc[q] /\ proc[q].heir = None
                                         /\ proc[q].at \in Over \cup {"lock", "judge", "recover", "begin", "poll"}
  BY <1>1, <1>2 DEF IsInside, Opening, Steady, TypeOK, Over
<1>3. ASSUME NEW q \in Pids PROVE Opening(q)' /\ Closing(q)' /\ Refreshing(q)'
  <2>1. CASE q = p
    BY <2>1
  <2>2. CASE q # p
    BY <1>2, <2>2 DEF Opening, Closing, Refreshing, Over, Stopping
  <2> QED BY <2>1, <2>2
<1>4. proc'[p] = r
  BY DEF TypeOK
<1>5. NoCrash'
  BY <1>2, <1>4 DEF Steady, NoCrash
<1> QED BY <1>3, <1>4, <1>5 DEF Steady
\* The named watcher stays what it is unless it is the one that moves.
LEMMA WatcherKept ==
    ASSUME TypeOK, Steady, NEW p \in Pids, NEW r, proc' = [proc EXCEPT ![p] = r],
           watcher' = watcher, window' = window \/ window' = "none",
           watcher = p => /\ r.cmd = "watch" \/ r.at = "timedOut"
                          /\ r.at # "release"
                          /\ r.at \notin {"begin", "poll"} => window' = "none"
    PROVE  WatcherOK'
BY DEF TypeOK, Steady, WatcherOK

\* Where a process inside changes nothing, an open window has its session.
LEMMA Calm ==
    ASSUME TypeOK, OwnerInside, Steady, NEW p \in Pids, IsInside(proc[p]), proc[p].at \notin Changing, window = "open"
    PROVE  Ours = Ports /\ watcher # None
<1>1. ASSUME NEW q \in Pids, q # p PROVE ~IsInside(proc[q]) 
  BY <1>1, InsideIs DEF OwnerInside, Steady
<1>2. \A q \in Pids : proc[q].at \notin Changing
  BY <1>1 DEF IsInside, Changing, Stopping, Over
<1> QED BY <1>2 DEF Steady

\* No process has as its heir one that is past its beginning.
LEMMA Heirs ==
    ASSUME TypeOK, Steady, NEW p \in Pids, proc[p].at # "begin" \/ watcher = p
    PROVE  \A q \in Pids : proc[q].heir # p
<1> SUFFICES ASSUME NEW q \in Pids, proc[q].heir = p PROVE FALSE
  OBVIOUS
<1>1. p # None
  BY LauncherAssumption DEF Pids
<1>2. Opening(q)
  BY DEF Steady
<1>3. proc[q].at = "name" /\ proc[p] = Born("watch", "begin") /\ watcher = None
  BY <1>1, <1>2 DEF Opening
<1> QED BY <1>1, <1>3 DEF Born, Unborn

\* A process that moves on keeps its command and what it has seen.
LEMMA Going ==
    ASSUME TypeOK, NEW p \in Pids, NEW at, Go(p, at)
    PROVE  /\ proc' = [proc EXCEPT ![p] = [proc[p] EXCEPT !.at = at]]
           /\ proc'[p] = [proc[p] EXCEPT !.at = at]
           /\ proc'[p].at = at /\ proc'[p].cmd = proc[p].cmd
           /\ proc'[p].heir = proc[p].heir /\ proc'[p].occupied = proc[p].occupied
<1>1. proc' = [proc EXCEPT ![p] = [proc[p] EXCEPT !.at = at]]
  BY DEF Go
<1>2. proc'[p] = [proc[p] EXCEPT !.at = at]
  BY <1>1 DEF TypeOK
<1> QED BY <1>1, <1>2 DEF TypeOK, ProcOK
LEMMA WatcherGoes ==
    ASSUME TypeOK, Steady, NEW p \in Pids, NEW at, Go(p, at), watcher' = watcher,
           window' = window \/ window' = "none",
           watcher = p => /\ proc[p].cmd = "watch" /\ at # "release"
                          /\ at \notin {"begin", "poll"} => window' = "none"
    PROVE  WatcherOK'
<1> DEFINE r == [proc[p] EXCEPT !.at = at]
<1>1. proc' = [proc EXCEPT ![p] = r]
  BY Going
<1>3. r.at = at /\ r.cmd = proc[p].cmd
  BY DEF TypeOK, ProcOK
<1> HIDE DEF r
<1> QED BY <1>1, <1>3, WatcherKept

LEMMA QuietGo ==
    ASSUME TypeOK, Steady, UNCHANGED <<service, window, watcher>>,
           NEW p \in Pids, NEW at, Go(p, at), proc[p].at \notin Changing \cup {"begin"} \/ watcher = p,
           proc[p].at \notin Changing, at \notin Changing \cup {"crashed"}, proc[p].heir = None,
           Opening(p)', WatcherOK'
    PROVE  Steady'
<1> DEFINE r == [proc[p] EXCEPT !.at = at]
<1>1. proc' = [proc EXCEPT ![p] = r]
  BY Going
<1>3. r.at = at /\ r.heir = None
  BY DEF TypeOK, ProcOK
<1>2. \A q \in Pids : proc[q].heir # p
  BY Heirs
<1> HIDE DEF r
<1> QED BY <1>1, <1>2, <1>3, QuietStep

LEMMA InsideGo ==
    ASSUME TypeOK, OwnerInside, Steady, NEW p \in Pids, NEW at, at # "crashed", Go(p, at), IsInside(proc[p]),
           service'.frontend \in {"none", "ours"}, WatcherOK',
           Opening(p)', Closing(p)', Refreshing(p)',
           (window' = "open" /\ at \notin Changing) => Ours' = Ports /\ watcher' # None
    PROVE  Steady'
<1> DEFINE r == [proc[p] EXCEPT !.at = at]
<1>1. proc' = [proc EXCEPT ![p] = r]
  BY Going
<1>3. r.at = at
  BY DEF TypeOK, ProcOK
<1> HIDE DEF r
<1> QED BY <1>1, <1>3, InsideStep

\* The window disappears.
LEMMA WindowGone ==
    ASSUME Steady, UNCHANGED <<service, watcher, proc>>, window' = "none"
    PROVE  Steady'
<1>1. Ours' = Ours
  BY DEF Ours
<1>2. \A p \in Pids : Opening(p)' /\ Closing(p)' /\ Refreshing(p)'
  BY <1>1 DEF Steady, Opening, Closing, Refreshing, Starts, Seen
<1> QED BY <1>2 DEF Steady, NoCrash, WatcherOK

LEMMA SessionStep == TypeOK /\ TypeOK' /\ LockInv /\ SessionInv /\ Next => SessionInv'
<1> SUFFICES ASSUME TypeOK, TypeOK', LockInv, SessionInv, Next, faults' = 0, ~astray' PROVE Steady'
  BY DEF SessionInv, Steady
<1> USE DEF lockFile
<1>22. ~astray /\ OwnerInside
  BY Changes DEF LockInv
<1>1. ~Fault
  BY DEF Fault, TypeOK
<1>2. faults = 0
  <2>1. faults' \in {faults, faults + 1}
    BY DEF Next, Runs, Command, Take, Look, Judge, Recover, Sign, Release, CheckPorts, Terminate, Renew, Retire, Spawn,
           Wait, Open, Leave, Name, EndBackend, EndFrontend, EndPort, EndWindow, Gone, Begin, Poll, Check,
           GiveUp, Crash, UserCloses, Exit, Age, Fault
  <2> QED BY <2>1 DEF TypeOK
<1>3. Steady
  BY <1>2, <1>22 DEF SessionInv, Steady
<1>4. \A p \in Pids : /\ Fits(p) /\ Opening(p) /\ Closing(p) /\ Refreshing(p)
                      /\ proc[p].at # "name" => proc[p].heir = None
                      /\ watcher = p /\ proc[p].at # "timedOut" => proc[p].cmd = "watch"
                      /\ watcher = p => proc[p].at # "release"
                      /\ watcher = p /\ proc[p].at \notin {"begin", "poll"} => window = "none"
  BY <1>3, CommandOf, LauncherAssumption DEF TypeOK, ProcsOK, Steady, WatcherOK, Opening, Pids
<1>5. ASSUME NEW cmd \in Commands, Command(cmd) PROVE Steady'
  <2>1. PICK p \in Pids : IsNext(p) /\ proc' = [proc EXCEPT ![p] = Born(cmd, "lock")]
    BY <1>5 DEF Command
  <2>2. proc[p].at = "unborn" /\ proc[p].cmd = None
    BY <2>1, CommandOf DEF IsNext, Free, Over, TypeOK, ProcsOK
  <2>3. /\ Born(cmd, "lock").at = "lock" /\ Born(cmd, "lock").heir = None /\ proc'[p] = Born(cmd, "lock")
    BY <2>1 DEF Born, Unborn, TypeOK
  <2>4. Opening(p)'
    BY <2>3 DEF Opening
  <2>5. WatcherOK'
    BY <1>3, <1>4, <1>5, <2>1, <2>2, WatcherKept, LauncherAssumption DEF Command
  <2> QED BY <1>3, <1>5, <2>1, <2>2, <2>3, <2>4, <2>5, Heirs, QuietStep DEF Command, Changing, Stopping
<1>6. ASSUME NEW p \in Pids, Take(p) \/ Sign(p) PROVE Steady'
  <2>1. PICK at \in {"sign", First(proc[p].cmd)} : Go(p, at)
    BY <1>6 DEF Take, Sign
  <2>2. proc[p].at \in {"lock", "sign"} /\ UNCHANGED <<service, window, watcher>>
    BY <1>6 DEF Take, Sign
  <2>3. proc[p].cmd \in {"start", "stop", "refresh", "watch"}
    BY <2>2, CommandOf, LauncherAssumption DEF TypeOK, ProcsOK, Over
  <2>4. /\ at \in {"sign", "ports", "retire", "terminate", "check"}
        /\ proc[p].cmd = "start" => at \notin {"retire", "terminate"}
    BY <2>1, <2>3 DEF First
  <2>5. Opening(p)'
    BY <1>4, <2>1, <2>2, <2>4, Going DEF Opening, Starts
  <2>6. WatcherOK'
    BY <1>3, <1>4, <2>1, <2>2, <2>4, WatcherGoes
  <2> QED BY <1>3, <1>4, <2>1, <2>2, <2>4, <2>5, <2>6, QuietGo DEF Changing, Stopping
<1>7. ASSUME NEW p \in Pids, Crash(p) PROVE FALSE
  BY <1>1, <1>7 DEF Crash
<1>23. ASSUME NEW p \in Pids, Look(p) \/ Judge(p) \/ Recover(p) PROVE Steady'
  <2>1. PICK r \in {[proc[p] EXCEPT !.at = "judge", !.seen = lock], [proc[p] EXCEPT !.at = "recover"],
                    [proc[p] EXCEPT !.at = "lock", !.seen = None]} : proc' = [proc EXCEPT ![p] = r]
    BY <1>23 DEF Look, Judge, Recover
  <2>2. proc[p].at \in {"lock", "judge", "recover"} /\ UNCHANGED <<service, window, watcher>>
    BY <1>23 DEF Look, Judge, Recover
  <2>8. ProcOK(proc[p])
    BY DEF TypeOK
  <2>3. r.at \in {"judge", "recover", "lock"} /\ r.heir = proc[p].heir /\ r.cmd = proc[p].cmd
    BY <2>1, <2>8 DEF ProcOK
  <2>4. proc[p].heir = None /\ proc'[p] = r
    BY <1>4, <2>1, <2>2 DEF TypeOK
  <2> HIDE DEF TypeOK
  <2>5. Opening(p)'
    BY <2>3, <2>4 DEF Opening
  <2>6. WatcherOK'
    BY <1>3, <1>4, <2>1, <2>2, <2>3, WatcherKept
  <2>7. \A q \in Pids : proc[q].heir # p
    BY <1>3, <2>2, Heirs
  <2> QED BY <1>3, <2>1, <2>2, <2>3, <2>4, <2>5, <2>6, <2>7, QuietStep DEF Changing, Stopping
<1>8. ASSUME NEW p \in Pids, \/ GiveUp(p) \/ Release(p)
                             \/ (Begin(p) \/ Poll(p)) /\ ~Current(p)
      PROVE  Steady'
  <2>1. PICK at \in {"done", "timedOut"} :
                /\ End(p, at) /\ UNCHANGED <<service, window, watcher>>
                /\ watcher = p => at = "timedOut" /\ window = "none"
                /\ proc[p].at \in {"judge", "release", "begin", "poll"}
    BY <1>4, <1>8 DEF GiveUp, Release, Begin, Poll, Current
  <2>2. /\ Ending(at).at = at /\ Ending(at).heir = None
        /\ proc' = [proc EXCEPT ![p] = Ending(at)] /\ proc'[p] = Ending(at)
    BY <2>1 DEF End, Ending, Unborn, TypeOK
  <2>3. Opening(p)'
    BY <2>2 DEF Opening
  <2>4. WatcherOK'
    BY <1>3, <2>1, <2>2, WatcherKept
  <2>5. \A q \in Pids : proc[q].heir # p
    <3>1. CASE proc[p].at = "begin"
      BY <1>8, <3>1 DEF GiveUp, Release, Begin, Poll
    <3>2. CASE proc[p].at # "begin"
      BY <1>3, <3>2, Heirs
    <3> QED BY <3>1, <3>2
  <2> QED BY <1>3, <2>1, <2>2, <2>3, <2>4, <2>5, QuietStep DEF Changing, Stopping
<1>9. ASSUME NEW p \in Pids, Begin(p) \/ Poll(p), Current(p) PROVE Steady'
  <2>1. PICK at \in {"poll", "lock"} : Go(p, at) /\ (at = "lock" => window = "none")
    BY <1>9 DEF Begin, Poll, Running
  <2>2. proc[p].at \in {"begin", "poll"} /\ watcher = p /\ UNCHANGED <<service, window, watcher>>
    BY <1>9 DEF Begin, Poll, Current
  <2>3. Opening(p)'
    BY <1>4, <2>1, <2>2, Going DEF Opening
  <2>4. WatcherOK'
    BY <1>3, <1>4, <2>1, <2>2, WatcherGoes
  <2> QED BY <1>3, <1>4, <2>1, <2>2, <2>3, <2>4, QuietGo DEF Changing, Stopping
<1>10. ASSUME NEW p \in Pids, CheckPorts(p) PROVE Steady'
  <2> DEFINE occupied == {port \in Ports : service[port] # "none"}
             next == IF \E port \in Ports : service[port] = "foreign" THEN "release"
                     ELSE IF service.backend = "old" THEN "terminate" ELSE "retire"
             r == [proc[p] EXCEPT !.at = next, !.occupied = occupied]
  <2>1. proc[p].at = "ports" /\ proc[p].cmd = "start" /\ UNCHANGED <<service, window, watcher>> /\ watcher # p
    BY <1>4, <1>10 DEF CheckPorts, Fits
  <2>2. proc' = [proc EXCEPT ![p] = r] /\ proc'[p] = r
    BY <1>10 DEF CheckPorts, TypeOK
  <2>3. r.at = next /\ r.heir = None /\ r.occupied = occupied /\ r.cmd = "start"
    BY <1>4, <2>1 DEF TypeOK, ProcOK
  <2>4. next \in {"release", "terminate", "retire"}
    OBVIOUS
  <2>5. window = "open" => service.backend = "ours"
    BY <1>3, <1>22, <2>1, Calm DEF IsInside, Over, Changing, Stopping, Ours, Ports
  <2>6. service.frontend \in {"none", "ours"} /\ service.backend \in {"none", "ours", "old", "foreign"}
    BY <1>3 DEF Steady, TypeOK, Ports
  <2>7. ASSUME next = "terminate" PROVE Opening(p)'
    <3>1. service.backend = "old"
      BY <2>7
    <3>2. "backend" \in occupied /\ ("frontend" \in occupied <=> service.frontend = "ours")
      BY <2>6, <3>1 DEF Ports
    <3>3. window # "open"
      BY <2>5, <3>1
    <3> HIDE DEF next, occupied, r
    <3> QED BY <2>1, <2>2, <2>3, <2>7, <3>2, <3>3 DEF Opening, Starts
  <2>8. ASSUME next = "retire" PROVE Opening(p)'
    <3>1. \A port \in Ports : service[port] \in {"none", "ours"}
      BY <2>6, <2>8 DEF Ports
    <3>2. \A port \in Ports : port \in occupied <=> service[port] = "ours"
      BY <3>1
    <3> HIDE DEF next, occupied, r
    <3> QED BY <2>1, <2>2, <2>3, <2>8, <3>1, <3>2 DEF Opening, Starts, Seen
  <2>9. ASSUME next = "release" PROVE Opening(p)'
    <3> HIDE DEF next, occupied, r
    <3> QED BY <2>2, <2>3, <2>9 DEF Opening
  <2>10. WatcherOK'
    BY <1>3, <2>1, <2>2, WatcherKept
  <2>11. Opening(p)'
    BY <2>4, <2>7, <2>8, <2>9
  <2> HIDE DEF next, occupied, r
  <2> QED BY <1>3, <2>1, <2>2, <2>3, <2>4, <2>10, <2>11, Heirs, QuietStep DEF Changing, Stopping
<1>11. ASSUME NEW p \in Pids, Terminate(p) PROVE Steady'
  <2>1. proc[p].at = "terminate" /\ proc[p].cmd \in {"start", "refresh"} /\ watcher # p /\ IsInside(proc[p])
    BY <1>4, <1>11 DEF Terminate, Fits, IsInside, Over
  <2>2. window = "open" => Ours = Ports /\ watcher # None
    BY <1>3, <1>22, <2>1, Calm DEF Changing, Stopping
  <2>3. PICK at \in {"renew", "release"} :
           /\ Go(p, at) /\ UNCHANGED <<window, watcher>>
           /\ at = "release" => service' = service
           /\ at = "renew" => service' = [service EXCEPT !.backend = "none"]
    BY <1>1, <1>11 DEF Terminate
  <2>4. service'.frontend = service.frontend /\ service.frontend \in {"none", "ours"}
    BY <1>3, <2>3 DEF TypeOK, Ports, Steady
  <2>5. Opening(p)'
    BY <1>4, <2>1, <2>3, <2>4, Going DEF Opening, Starts
  <2>6. Closing(p)' /\ WatcherOK'
    BY <1>3, <2>1, <2>3, Going, WatcherGoes DEF Closing, Stopping
  <2>7. Refreshing(p)'
    BY <2>2, <2>3, <2>4, Going DEF Refreshing, Ours, Ports
  <2>8. window' = "open" /\ at \notin Changing => Ours' = Ports /\ watcher' # None
    BY <2>2, <2>3 DEF Changing, Ours
  <2> QED BY <1>3, <1>22, <2>1, <2>3, <2>4, <2>5, <2>6, <2>7, <2>8, InsideGo
<1>12. ASSUME NEW p \in Pids, Renew(p) PROVE Steady'
  <2>1. proc[p].at = "renew" /\ proc[p].cmd \in {"start", "refresh"} /\ watcher # p /\ IsInside(proc[p])
    BY <1>4, <1>12 DEF Renew, Fits, IsInside, Over
  <2> DEFINE at == IF proc[p].cmd = "start" THEN "retire" ELSE "release"
  <2>2. Go(p, at) /\ UNCHANGED <<window, watcher>> /\ service' = [service EXCEPT !.backend = "ours"]
    BY <1>1, <1>12 DEF Renew
  <2>3. service'.frontend = service.frontend /\ service'.backend = "ours" /\ service.frontend \in {"none", "ours"}
    BY <1>3, <2>2 DEF TypeOK, Ports, Steady
  <2>7. /\ proc'[p].at = at /\ proc'[p].cmd = proc[p].cmd /\ proc'[p].heir = None
        /\ proc'[p].occupied = proc[p].occupied
    BY <1>4, <2>1, <2>2, Going
  <2>8. proc[p].cmd = "start" => \A port \in Ports : /\ service'[port] \in {"none", "ours"}
                                                     /\ port \in proc[p].occupied <=> service'[port] = "ours"
    <3>1. proc[p].cmd = "start" => /\ "backend" \in proc[p].occupied
                                   /\ "frontend" \in proc[p].occupied <=> service.frontend = "ours"
      BY <1>4, <2>1 DEF Opening, Starts
    <3> QED BY <2>3, <3>1 DEF Ports
  <2>4. Opening(p)'
    <3>1. proc[p].cmd = "start" => Seen(p)'
      <4>1. SUFFICES ASSUME proc[p].cmd = "start", NEW port \in Ports
                     PROVE  /\ service'[port] \in {"none", "ours"}
                            /\ port \in proc'[p].occupied <=> service'[port] = "ours"
        BY DEF Seen
      <4>2. proc'[p].occupied = proc[p].occupied
        BY <2>7
      <4>3. service'[port] \in {"none", "ours"} /\ (port \in proc[p].occupied <=> service'[port] = "ours")
        BY <2>8, <4>1
      <4> QED BY <4>2, <4>3
    <3>2. at \in {"retire", "release"}
      OBVIOUS
    <3> HIDE DEF at
    <3> QED BY <2>7, <3>1, <3>2 DEF Opening, Starts
  <2>5. Closing(p)' /\ WatcherOK' /\ Refreshing(p)'
    <3>1. Closing(p)' /\ Refreshing(p)'
      BY <2>7 DEF Closing, Stopping, Refreshing
    <3>2. at \in {"retire", "release"}
      OBVIOUS
    <3> QED BY <1>3, <2>1, <2>2, <3>1, <3>2, WatcherGoes
  <2>6. window' = "open" => Ours' = Ports /\ watcher' # None
    BY <1>4, <2>1, <2>2, <2>3 DEF Opening, Refreshing, Starts, Ours, Ports
  <2> QED BY <1>3, <1>22, <2>1, <2>2, <2>3, <2>4, <2>5, <2>6, InsideGo
<1>13. ASSUME NEW p \in Pids, Retire(p) PROVE Steady'
  <2> DEFINE at == IF proc[p].cmd = "start" THEN "spawn" ELSE "endBackend"
  <2>1. proc[p].at = "retire" /\ proc[p].cmd \in {"start", "stop"} /\ IsInside(proc[p]) /\ proc[p].heir = None
    BY <1>4, <1>13 DEF Retire, Fits, IsInside, Over
  <2>2. window = "open" => Ours = Ports
    BY <1>3, <1>22, <2>1, Calm DEF Changing, Stopping
  <2>3. UNCHANGED <<service, window>> /\ watcher' = None
    BY <1>13 DEF Retire
  <2>4. proc'[p] = [proc[p] EXCEPT !.at = at]
    BY <1>13, <2>1 DEF Retire, Ended
  <2>5. /\ proc'[p].at = at /\ proc'[p].cmd = proc[p].cmd
        /\ proc'[p].occupied = proc[p].occupied /\ proc'[p].heir = None
    BY <2>1, <2>4 DEF TypeOK, ProcOK
  <2>6. ASSUME NEW q \in Pids, q # p
        PROVE  proc'[q].heir = None /\ proc'[q].at \in Over \cup {"lock", "judge", "recover", "begin", "poll"} /\ proc'[q].at # "crashed"
    <3>1. ~IsInside(proc[q]) /\ proc[q].at # "crashed"
      BY <1>3, <2>1, <2>6, InsideIs, <1>22 DEF OwnerInside, Steady, NoCrash
    <3>2. proc[q].heir = None /\ proc[q].at \in Over \cup {"lock", "judge", "recover", "begin", "poll"}
      BY <1>4, <3>1 DEF IsInside, Over
    <3>3. proc'[q] \in {proc[q], Ending("retired")}
      BY <1>13, <2>6 DEF Retire, Ended
    <3> QED BY <3>1, <3>2, <3>3 DEF Ending, Unborn, Over
  <2>7. Ours' = Ours
    BY <2>3 DEF Ours
  <2>8. Opening(p)' /\ Closing(p)' /\ Refreshing(p)'
    BY <1>4, <2>1, <2>2, <2>3, <2>5, <2>7 DEF Opening, Closing, Refreshing, Starts, Seen, Stopping
  <2>9. \A q \in Pids : q # p => Opening(q)' /\ Closing(q)' /\ Refreshing(q)'
    BY <2>6 DEF Opening, Closing, Refreshing, Over, Stopping
  <2>10. NoCrash' /\ WatcherOK' /\ service'.frontend \in {"none", "ours"}
    BY <1>3, <2>3, <2>5, <2>6 DEF NoCrash, WatcherOK, Steady
  <2>11. \E q \in Pids : proc'[q].at \in Changing
    BY <2>5 DEF Changing, Stopping
  <2> QED BY <2>8, <2>9, <2>10, <2>11 DEF Steady
<1>14. ASSUME NEW p \in Pids, Spawn(p) PROVE Steady'
  <2> DEFINE r == [proc[p] EXCEPT !.at = "wait", !.occupied = {}]
  <2>1. proc[p].at = "spawn" /\ proc[p].cmd = "start" /\ watcher = None /\ IsInside(proc[p]) /\ proc[p].heir = None
    BY <1>4, <1>14 DEF Spawn, Fits, Opening, IsInside, Over
  <2>2. proc' = [proc EXCEPT ![p] = r] /\ UNCHANGED <<window, watcher>>
    BY <1>14 DEF Spawn
  <2>3. r.at = "wait" /\ r.heir = None /\ proc'[p] = r
    BY <2>1, <2>2 DEF TypeOK, ProcOK
  <2>4. service' = [port \in Ports |-> "ours"]
    BY <1>4, <1>14, <2>1 DEF Spawn, Opening, Starts, Seen
  <2>5. Ours' = Ports /\ service'.frontend = "ours"
    BY <2>4 DEF Ours, Ports
  <2> HIDE DEF r
  <2>6. Opening(p)' /\ Closing(p)' /\ Refreshing(p)' /\ WatcherOK'
    BY <2>1, <2>2, <2>3, <2>5 DEF Opening, Closing, Refreshing, WatcherOK, Stopping
  <2> QED BY <1>3, <1>22, <2>1, <2>2, <2>3, <2>5, <2>6, InsideStep DEF Changing
<1>15. ASSUME NEW p \in Pids, Wait(p) \/ Open(p) PROVE Steady'
  <2>1. proc[p].at \in {"wait", "open"} /\ proc[p].cmd = "start" /\ watcher = None /\ IsInside(proc[p]) /\ proc[p].heir = None
    BY <1>4, <1>15 DEF Wait, Open, Fits, Opening, IsInside, Over
  <2>2. PICK at \in {"open", "leave"} : Go(p, at) /\ UNCHANGED <<service, watcher>>
    <3>1. Ours = Ports
      BY <1>4, <2>1 DEF Opening
    <3>2. \A port \in Ports : service[port] = "ours"
      BY <3>1 DEF Ours
    <3> QED BY <1>1, <1>15, <3>2 DEF Wait, Open
  <2>3. Ours' = Ports
    BY <1>1, <1>4, <1>15, <2>2 DEF Wait, Open, Opening, Ours, Ports
  <2>4. Opening(p)' /\ Closing(p)' /\ Refreshing(p)' /\ WatcherOK'
    BY <2>1, <2>2, <2>3, Going DEF Opening, Closing, Refreshing, WatcherOK, Stopping
  <2>5. service'.frontend \in {"none", "ours"}
    BY <1>3, <2>2 DEF Steady
  <2> QED BY <1>3, <1>22, <2>1, <2>2, <2>4, <2>5, InsideGo DEF Changing
<1>16. ASSUME NEW p \in Pids, Leave(p) PROVE Steady'
  <2>1. PICK q \in Pids : /\ IsNext(q)
                          /\ proc' = [proc EXCEPT ![p].at = "name", ![p].heir = q, ![q] = Born("watch", "begin")]
    BY <1>16 DEF Leave
  <2>2. /\ p # q /\ proc[p].at = "leave" /\ proc[p].cmd = "start" /\ watcher = None /\ Ours = Ports /\ IsInside(proc[p])
        /\ UNCHANGED <<service, window, watcher>>
    BY <1>4, <1>16, <2>1 DEF Leave, IsNext, Free, Fits, Opening, IsInside, Over
  <2>3. \A x \in Pids : proc'[x] = IF x = q THEN Born("watch", "begin")
                                   ELSE IF x = p THEN [proc[p] EXCEPT !.at = "name", !.heir = q] ELSE proc[x]
    BY <2>1, <2>2 DEF TypeOK
  <2>4. proc'[q] = Born("watch", "begin") /\ Born("watch", "begin").at = "begin" /\ Born("watch", "begin").heir = None
    BY <2>3 DEF Born, Unborn
  <2>5. proc'[p].at = "name" /\ proc'[p].heir = q /\ q # None
    <3>1. q # None
      BY LauncherAssumption DEF Pids
    <3>2. proc'[p] = [proc[p] EXCEPT !.at = "name", !.heir = q]
      BY <2>2, <2>3
    <3> QED BY <3>1, <3>2 DEF TypeOK, ProcOK
  <2>6. ASSUME NEW x \in Pids, x # p, x # q
        PROVE  proc'[x].heir = None /\ proc'[x].at \in Over \cup {"lock", "judge", "recover", "begin", "poll"} /\ proc'[x].at # "crashed"
    <3>1. ~IsInside(proc[x]) /\ proc[x].at # "crashed"
      BY <1>3, <2>2, <2>6, InsideIs, <1>22 DEF OwnerInside, Steady, NoCrash
    <3>2. proc[x].heir = None /\ proc[x].at \in Over \cup {"lock", "judge", "recover", "begin", "poll"}
      BY <1>4, <3>1 DEF IsInside, Over
    <3> QED BY <2>3, <2>6, <3>1, <3>2
  <2>7. Ours' = Ports
    BY <2>2 DEF Ours
  <2>8. Opening(p)' /\ Closing(p)' /\ Refreshing(p)'
    BY <2>2, <2>4, <2>5, <2>7 DEF Opening, Closing, Refreshing, Stopping
  <2>9. \A x \in Pids : x # p => Opening(x)' /\ Closing(x)' /\ Refreshing(x)'
    BY <2>4, <2>6 DEF Opening, Closing, Refreshing, Over, Stopping
  <2>10. NoCrash' /\ WatcherOK' /\ service'.frontend \in {"none", "ours"}
    BY <1>3, <2>2, <2>4, <2>5, <2>6 DEF NoCrash, WatcherOK, Steady
  <2>11. \E x \in Pids : proc'[x].at \in Changing
    BY <2>5 DEF Changing
  <2> QED BY <2>8, <2>9, <2>10, <2>11 DEF Steady
<1>17. ASSUME NEW p \in Pids, Name(p) PROVE Steady'
  <2> DEFINE r == [proc[p] EXCEPT !.at = "release", !.heir = None]
             h == proc[p].heir
  <2>1. /\ proc[p].at = "name" /\ proc[p].cmd = "start" /\ Ours = Ports /\ IsInside(proc[p])
        /\ h # None /\ h \in Pids /\ proc[h] = Born("watch", "begin")
    BY <1>4, <1>17 DEF Name, Fits, Opening, IsInside, Over, TypeOK, ProcOK
  <2>2. proc' = [proc EXCEPT ![p] = r] /\ UNCHANGED <<service, window>> /\ watcher' = h
    BY <1>17 DEF Name
  <2>3. r.at = "release" /\ r.heir = None /\ proc'[p] = r
    BY <2>1, <2>2 DEF TypeOK, ProcOK
  <2>4. Ours' = Ports /\ service'.frontend \in {"none", "ours"}
    BY <1>3, <2>1, <2>2 DEF Ours, Steady
  <2>5. proc'[h] = Born("watch", "begin") /\ Born("watch", "begin").cmd = "watch" /\ Born("watch", "begin").at = "begin"
    BY <2>1, <2>2 DEF TypeOK, Born, Unborn
  <2>6. WatcherOK'
    BY <2>2, <2>5 DEF WatcherOK
  <2> HIDE DEF r, h
  <2>7. Opening(p)' /\ Closing(p)' /\ Refreshing(p)'
    BY <2>3 DEF Opening, Closing, Refreshing, Stopping
  <2> QED BY <1>3, <1>22, <2>1, <2>2, <2>3, <2>4, <2>6, <2>7, InsideStep
<1>18. ASSUME NEW p \in Pids, EndBackend(p) \/ EndFrontend(p) \/ EndWindow(p) PROVE Steady'
  <2>1. /\ proc[p].at \in {"endBackend", "endFrontend", "endWindow"} /\ IsInside(proc[p]) /\ watcher' = watcher
        /\ proc[p].heir = None /\ proc[p].cmd \in {"stop", "watch"}
        /\ proc[p].cmd = "watch" => watcher = p
        /\ proc[p].cmd = "stop" => watcher = None
    BY <1>4, <1>18 DEF EndBackend, EndFrontend, EndPort, EndWindow, Fits, Closing, Starts, Stopping, IsInside, Over
  <2>2. PICK at \in {"endFrontend", "endWindow", "gone"} : Go(p, at) /\ (at = "gone" => EndWindow(p))
    BY <1>18 DEF EndBackend, EndFrontend, EndPort, EndWindow
  <2>3. /\ window' = window \/ (window' = "closing" /\ window # "none")
        /\ at = "gone" => window' # "open"
    <3>1. CASE EndWindow(p)
      BY <3>1 DEF EndWindow, Running
    <3>2. CASE ~EndWindow(p)
      BY <1>18, <2>2, <3>2 DEF EndBackend, EndFrontend, EndPort
    <3> QED BY <3>1, <3>2
  <2>4. service'.frontend \in {"none", "ours"}
    BY <1>3, <1>18 DEF EndBackend, EndFrontend, EndPort, EndWindow, Steady, TypeOK, Ports
  <2>5. watcher = p => window = "none"
    BY <1>4, <2>1
  <2>6. WatcherOK'
    <3>1. CASE watcher = None
      BY <2>1, <3>1 DEF WatcherOK
    <3>2. CASE watcher = p
      BY <1>3, <1>4, <2>1, <2>2, <2>3, <2>5, <3>2, WatcherGoes
    <3> QED BY <2>1, <3>1, <3>2
  <2>7. Opening(p)' /\ Closing(p)' /\ Refreshing(p)'
    BY <2>1, <2>2, <2>3, Going DEF Opening, Closing, Refreshing, Starts
  <2> QED BY <1>3, <1>22, <2>1, <2>2, <2>4, <2>6, <2>7, InsideGo DEF Changing, Stopping
<1>19. ASSUME NEW p \in Pids, Gone(p) PROVE Steady'
  <2>1. /\ proc[p].at = "gone" /\ IsInside(proc[p]) /\ service' = service
        /\ proc[p].heir = None /\ proc[p].cmd \in {"stop", "watch"}
        /\ proc[p].cmd = "watch" => watcher = p
        /\ proc[p].cmd = "stop" => watcher = None
        /\ window # "open" /\ window' = "none"
    BY <1>4, <1>19 DEF Gone, Fits, Closing, Starts, Stopping, IsInside, Over, Running
  <2>2. service'.frontend \in {"none", "ours"}
    BY <1>3, <2>1 DEF Steady
  <2>3. CASE Running
    <3>1. UNCHANGED <<proc, watcher>>
      BY <1>19, <2>3 DEF Gone
    <3> QED BY <1>3, <2>1, <3>1, WindowGone
  <2>4. CASE ~Running
    <3>1. Go(p, "release") /\ watcher' = None
      BY <1>19, <2>1, <2>4 DEF Gone
    <3>2. proc'[p].at = "release" /\ proc'[p].heir = None
      BY <2>1, <3>1, Going
    <3>3. Opening(p)' /\ Closing(p)' /\ Refreshing(p)' /\ WatcherOK'
      BY <3>1, <3>2 DEF Opening, Closing, Refreshing, Stopping, WatcherOK
    <3> QED BY <1>3, <1>22, <2>1, <2>2, <3>1, <3>3, InsideGo
  <2> QED BY <2>3, <2>4
<1>20. ASSUME NEW p \in Pids, Check(p) PROVE Steady'
  <2>1. PICK at \in {"endBackend", "release"} : Go(p, at) /\ (at = "endBackend" <=> Current(p) /\ window = "none")
    BY <1>20 DEF Check, Cleans, Running
  <2>2. /\ proc[p].at = "check" /\ proc[p].cmd = "watch" /\ IsInside(proc[p]) /\ UNCHANGED <<service, window, watcher>>
        /\ watcher = p => window = "none"
    BY <1>4, <1>20 DEF Check, Fits, IsInside, Over
  <2>3. window = "open" => Ours = Ports /\ watcher # None
    BY <1>3, <1>22, <2>2, Calm DEF Changing, Stopping
  <2>4. Opening(p)' /\ Closing(p)' /\ Refreshing(p)'
    BY <1>4, <2>1, <2>2, Going DEF Opening, Closing, Refreshing, Starts, Stopping, Current
  <2>5. WatcherOK'
    BY <1>3, <2>1, <2>2, WatcherGoes DEF Current
  <2>6. Ours' = Ours /\ service'.frontend \in {"none", "ours"}
    BY <1>3, <2>2 DEF Ours, Steady
  <2> QED BY <1>3, <1>22, <2>1, <2>2, <2>3, <2>4, <2>5, <2>6, InsideGo
<1>24. ASSUME Age PROVE Steady'
  <2>1. UNCHANGED <<watcher, service, window, proc>>
    BY <1>24 DEF Age
  <2> QED BY <1>3, <2>1 DEF Steady, NoCrash, WatcherOK, Opening, Closing, Refreshing, Starts, Seen, Ours
<1>21. ASSUME UserCloses \/ Exit PROVE Steady'
  BY <1>3, <1>21, WindowGone DEF UserCloses, Exit
<1> QED BY <1>5, <1>6, <1>7, <1>8, <1>9, <1>10, <1>11, <1>12, <1>13, <1>14, <1>15, <1>16, <1>17, <1>18,
           <1>19, <1>20, <1>21, <1>23, <1>24 DEF Next, Runs

\* The session of an open window is whole between commands, whatever the
\* commands and the watchers of earlier sessions did and in whichever order,
\* while nothing fails and no removal of the lock goes astray.
THEOREM SessionsWhole == Spec => []SessionWhole
<1>1. Init => SessionInv
  <2> SUFFICES ASSUME Init PROVE Steady
    BY DEF SessionInv, Steady
  <2>1. \A p \in Pids : proc[p].at = "unborn" /\ proc[p].heir = None
    BY DEF Init, Unborn
  <2>2. watcher = None /\ window = "none" /\ service.frontend = "none"
    BY DEF Init, Ports
  <2> QED BY <2>1, <2>2 DEF Steady, NoCrash, WatcherOK, Opening, Closing, Refreshing, Stopping
<1>2. Init => LockInv
  BY TurnInit
<1>3. TypeOK /\ TypeOK' /\ LockInv /\ SessionInv /\ [Next]_vars => LockInv' /\ SessionInv'
  <2>1. CASE UNCHANGED vars
    BY <2>1, TurnStep DEF SessionInv, NoCrash, WatcherOK, Opening, Closing, Refreshing, Starts, Seen, Ours, vars, lockFile
  <2> QED BY <2>1, TurnStep, SessionStep
<1>4. TypeOK /\ LockInv /\ SessionInv => SessionWhole
  <2> SUFFICES ASSUME TypeOK, SessionInv, faults = 0, ~astray, Inside = {}, window = "open"
               PROVE  /\ Ours = Ports /\ watcher # None
                      /\ proc[watcher].cmd = "watch" /\ Alive(watcher)
    BY DEF SessionWhole
  <2>1. \A p \in Pids : proc[p].at \notin Changing
    BY DEF Inside, Alive, Over, Changing, Stopping
  <2>2. Ours = Ports /\ watcher # None /\ WatcherOK
    BY <2>1 DEF SessionInv
  <2>3. watcher \in Pids /\ proc[watcher].cmd = "watch"
    BY <2>2 DEF WatcherOK, TypeOK
  <2>4. Alive(watcher)
    BY <2>3, CommandOf, LauncherAssumption DEF TypeOK, ProcsOK, Over, Alive
  <2> QED BY <2>2, <2>3, <2>4
<1> QED BY <1>1, <1>2, <1>3, <1>4, TypeCorrect, PTL DEF Spec
=============================================================================
