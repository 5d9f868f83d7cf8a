------------------------------ MODULE Launcher ------------------------------
(* The life cycle of the browser version: scripts/launcher.mjs and            *)
(* scripts/lifecycle-lock.mjs.                                                *)
(*                                                                           *)
(* The commands start, stop and refresh, and the watcher a start leaves       *)
(* behind, are processes that take turns by a lock file: it is created        *)
(* exclusively, then receives the pid of its owner, and is removed by         *)
(* whoever finds the owner dead: it reads the file, then tests the process    *)
(* the file named, or the age of a file that named none, and then removes     *)
(* the file that is there by that time.  A start checks the ports, replaces   *)
(* an old backend, retires the watcher of the session before, brings the      *)
(* services up, opens the window and leaves a watcher, named by a file.  The  *)
(* watcher stops everything once the window is closed.                        *)
EXTENDS Integers, FiniteSets

CONSTANTS MaxProcs,        \* processes over time
          Commands,        \* the commands the user may give
          MaxWaiting,      \* that wait for their turn when a command is given
          CrashProcs,      \* of these, in a behaviour with a crash
          MaxFaults,       \* services that do not come up, and crashes
          MaxCloses,       \* times the user closes the window
          None             \* no owner, no command, no process

ASSUME LauncherAssumption ==
    /\ MaxProcs \in Nat /\ MaxWaiting \in Nat /\ CrashProcs \in Nat
    /\ MaxFaults \in Nat /\ MaxCloses \in Nat
    /\ Commands \subseteq {"start", "stop", "refresh"}
    /\ None \notin 1 .. MaxProcs /\ None \notin {"start", "stop", "refresh", "watch"}
    /\ None \notin [owner : 1 .. MaxProcs, written : BOOLEAN]

VARIABLES lock,            \* the lock file: its owner, and whether it says so
          aged,            \* it has not changed for five seconds
          astray,          \* history: a lock has been removed that was not the one
                           \* its remover had judged, or whose living owner had
                           \* needed more than five seconds to sign it
          watcher,         \* the pid in launcher-watch.pid
          service,         \* of each port: "none", "ours", "old" or "foreign"
          window,          \* "none", "open" or "closing"
          proc,            \* of each pid: its command, its place and what it saw
          faults, closes
lockFile == <<lock, aged, astray>>
vars == <<lockFile, watcher, service, window, proc, faults, closes>>

Ports == {"backend", "frontend"}
Pids == 1 .. MaxProcs
Unborn == [cmd |-> None, at |-> "unborn", occupied |-> {}, heir |-> None, seen |-> None]
Over == {"unborn", "done", "timedOut", "retired", "crashed"}
Alive(p) == proc[p].at \notin Over
Running == window # "none"
Current(p) == watcher = p

Init == /\ lock = None /\ aged = FALSE /\ astray = FALSE /\ watcher = None /\ window = "none"
        /\ service \in [Ports -> {"none"}] \cup {[backend |-> s, frontend |-> "none"] : s \in {"old", "foreign"}}
        /\ proc = [p \in Pids |-> Unborn]
        /\ faults = 0 /\ closes = 0

Fault == faults < MaxFaults /\ faults' = faults + 1
Go(p, at) == proc' = [proc EXCEPT ![p].at = at]
Ending(at) == [Unborn EXCEPT !.at = at]
End(p, at) == proc' = [proc EXCEPT ![p] = Ending(at)]
NoCrash == \A p \in Pids : proc[p].at # "crashed"
Free == {p \in Pids : proc[p].at = "unborn"}
IsNext(p) == p \in Free /\ \A q \in Free : p <= q
Born(cmd, at) == [Unborn EXCEPT !.cmd = cmd, !.at = at]

\* The bounds keep a pid for the watcher of each start; after a removal has gone
\* astray the processes there are run on, and no command is given.
Starting == {p \in Pids : proc[p].cmd = "start" /\ proc[p].heir = None /\ proc[p].at # "release"}
Queue == {p \in Pids : proc[p].at \in {"lock", "judge", "recover"}}
Room == {p \in Free : NoCrash \/ p <= CrashProcs}
Command(cmd) == /\ cmd \in Commands /\ Room # {} /\ ~astray /\ Cardinality(Queue) < MaxWaiting
                /\ Cardinality(Free) > Cardinality(Starting) + IF cmd = "start" THEN 1 ELSE 0
                /\ \E p \in Pids : IsNext(p) /\ proc' = [proc EXCEPT ![p] = Born(cmd, "lock")]
                /\ UNCHANGED <<lockFile, watcher, service, window, faults, closes>>

-----------------------------------------------------------------------------
(* withLifecycleLock.                                                         *)

First(cmd) == CASE cmd = "start" -> "ports" [] cmd = "stop" -> "retire"
                [] cmd = "refresh" -> "terminate" [] cmd = "watch" -> "check"

DeadNever(seen) == FALSE
DeadUnwritten(seen) == ~seen.written \/ ~Alive(seen.owner)
\* A lock read without a pid is dead if the file that is there now is old.
Dead(seen) == IF seen.written THEN ~Alive(seen.owner) ELSE aged

Take(p) == /\ proc[p].at = "lock" /\ lock = None
           /\ lock' = [owner |-> p, written |-> FALSE] /\ aged' = FALSE /\ Go(p, "sign")
           /\ UNCHANGED <<astray, watcher, service, window, faults, closes>>
\* Only who has read the file without a pid asks for its age.
Asked == \E p \in Pids : proc[p].at = "judge" /\ ~proc[p].seen.written
Age == /\ lock # None /\ ~aged /\ Asked /\ aged' = TRUE
       /\ UNCHANGED <<lock, astray, watcher, service, window, proc, faults, closes>>
Look(p) == /\ proc[p].at = "lock" /\ lock # None
           /\ proc' = [proc EXCEPT ![p].at = "judge", ![p].seen = lock]
           /\ UNCHANGED <<lockFile, watcher, service, window, faults, closes>>
\* A file that has gone by then is as good as one that is still held.
Judge(p) == /\ proc[p].at = "judge"
            /\ proc' = IF Dead(proc[p].seen) THEN [proc EXCEPT ![p].at = "recover"]
                       ELSE [proc EXCEPT ![p].at = "lock", ![p].seen = None]
            /\ UNCHANGED <<lockFile, watcher, service, window, faults, closes>>
\* Removes the file that is there by now.
Astray(seen) == lock # None /\ (lock # seen \/ (~seen.written /\ aged /\ Alive(seen.owner)))
Recover(p) == /\ proc[p].at = "recover" /\ lock' = None /\ aged' = FALSE
              /\ astray' = (astray \/ Astray(proc[p].seen))
              /\ proc' = [proc EXCEPT ![p].at = "lock", ![p].seen = None]
              /\ UNCHANGED <<watcher, service, window, faults, closes>>
\* 60 seconds have passed, for a command or for a watcher.
GiveUp(p) == /\ proc[p].at = "judge" /\ ~Dead(proc[p].seen) /\ (proc[p].seen.written \/ lock # None)
             /\ End(p, "timedOut") /\ UNCHANGED <<lockFile, watcher, service, window, faults, closes>>
Sign(p) == /\ proc[p].at = "sign" /\ Go(p, First(proc[p].cmd))
           /\ IF lock # None /\ lock.owner = p
              THEN lock' = [lock EXCEPT !.written = TRUE] /\ aged' = FALSE ELSE UNCHANGED <<lock, aged>>
           /\ UNCHANGED <<astray, watcher, service, window, faults, closes>>
\* It, too, removes the file that is there.
Release(p) == /\ proc[p].at = "release" /\ lock' = None /\ aged' = FALSE /\ End(p, "done")
              /\ UNCHANGED <<astray, watcher, service, window, faults, closes>>

-----------------------------------------------------------------------------
(* start and refresh-backend.                                                 *)

CheckPorts(p) ==
    LET occupied == {port \in Ports : service[port] # "none"}
        next == IF \E port \in Ports : service[port] = "foreign" THEN "release"
                ELSE IF service.backend = "old" THEN "terminate" ELSE "retire"
    IN /\ proc[p].at = "ports"
       /\ proc' = [proc EXCEPT ![p].at = next, ![p].occupied = occupied]
       /\ UNCHANGED <<lockFile, watcher, service, window, faults, closes>>

\* A graceful end; a backend that is still busy stays, and the command fails.
Terminate(p) ==
    /\ proc[p].at = "terminate"
    /\ \/ /\ service.backend # "foreign" /\ service' = [service EXCEPT !.backend = "none"]
          /\ Go(p, "renew") /\ UNCHANGED faults
       \/ service.backend = "foreign" /\ Go(p, "release") /\ UNCHANGED <<service, faults>>
       \/ service.backend \in {"ours", "old"} /\ Fault /\ Go(p, "release") /\ UNCHANGED service
    /\ UNCHANGED <<lockFile, watcher, window, closes>>
Renew(p) ==
    /\ proc[p].at = "renew"
    /\ \/ /\ service' = [service EXCEPT !.backend = "ours"] /\ UNCHANGED faults
          /\ Go(p, IF proc[p].cmd = "start" THEN "retire" ELSE "release")
       \/ Fault /\ Go(p, "release") /\ UNCHANGED service
    /\ UNCHANGED <<lockFile, watcher, window, closes>>

\* retireWatcher: ends the process the file names, if it is a watcher.
Ended(procs) == [q \in Pids |-> IF q = watcher /\ procs[q].cmd = "watch" /\ Alive(q)
                                THEN Ending("retired") ELSE procs[q]]
Retire(p) ==
    /\ proc[p].at = "retire" /\ watcher' = None
    /\ proc' = [Ended(proc) EXCEPT ![p].at = IF proc[p].cmd = "start" THEN "spawn" ELSE "endBackend"]
    /\ UNCHANGED <<lockFile, service, window, faults, closes>>

Spawn(p) == /\ proc[p].at = "spawn" /\ proc' = [proc EXCEPT ![p].at = "wait", ![p].occupied = {}]
            /\ service' = [port \in Ports |-> IF port \in proc[p].occupied THEN service[port] ELSE "ours"]
            /\ UNCHANGED <<lockFile, watcher, window, faults, closes>>
\* The services answer, or everything is stopped again; so for the window.
Wait(p) == /\ proc[p].at = "wait"
           /\ \/ (\A port \in Ports : service[port] = "ours") /\ Go(p, "open") /\ UNCHANGED faults
              \/ Fault /\ Go(p, "endBackend")
              \/ (\E port \in Ports : service[port] # "ours") /\ Go(p, "endBackend") /\ UNCHANGED faults
           /\ UNCHANGED <<lockFile, watcher, service, window, closes>>
Open(p) == /\ proc[p].at = "open"
           /\ \/ window' = "open" /\ Go(p, "leave") /\ UNCHANGED faults
              \/ Fault /\ Go(p, "endBackend") /\ UNCHANGED window
           /\ UNCHANGED <<lockFile, watcher, service, closes>>
\* The watcher is spawned, and then named; there is a pid left for it.
Leave(p) == /\ proc[p].at = "leave"
            /\ \E q \in Pids : /\ IsNext(q)
                               /\ proc' = [proc EXCEPT ![p].at = "name", ![p].heir = q,
                                                       ![q] = Born("watch", "begin")]
            /\ UNCHANGED <<lockFile, watcher, service, window, faults, closes>>
Name(p) == /\ proc[p].at = "name" /\ proc' = [proc EXCEPT ![p].at = "release", ![p].heir = None]
           /\ watcher' = proc[p].heir
           /\ UNCHANGED <<lockFile, service, window, faults, closes>>

-----------------------------------------------------------------------------
(* stopInternal: the services, then the window, and then until all are gone.  *)

EndPort(p, port, next) ==
    /\ service' = [service EXCEPT ![port] = IF @ = "foreign" THEN @ ELSE "none"]
    /\ Go(p, next) /\ UNCHANGED <<lockFile, watcher, window, faults, closes>>
EndBackend(p) == proc[p].at = "endBackend" /\ EndPort(p, "backend", "endFrontend")
EndFrontend(p) == proc[p].at = "endFrontend" /\ EndPort(p, "frontend", "endWindow")
EndWindow(p) == /\ proc[p].at = "endWindow" /\ Go(p, "gone")
                /\ window' = IF Running THEN "closing" ELSE window
                /\ UNCHANGED <<lockFile, watcher, service, faults, closes>>
\* A window that does not follow the signal is killed after a while.
Gone(p) == /\ proc[p].at = "gone"
           /\ IF Running THEN window' = "none" /\ UNCHANGED <<proc, watcher>>
              ELSE /\ Go(p, "release") /\ UNCHANGED window
                   /\ watcher' = IF proc[p].cmd = "watch" THEN None ELSE watcher
           /\ UNCHANGED <<lockFile, service, faults, closes>>
Exit == /\ window = "closing" /\ window' = "none"
        /\ UNCHANGED <<lockFile, watcher, service, proc, faults, closes>>

-----------------------------------------------------------------------------
(* watch.                                                                     *)

BeginAtOnce(p) == /\ proc[p].at = "begin"
                  /\ IF Current(p) THEN Go(p, IF Running THEN "poll" ELSE "lock") ELSE End(p, "done")
                  /\ UNCHANGED <<lockFile, watcher, service, window, faults, closes>>
BeginOpen(p) == /\ proc[p].at = "begin"
                /\ IF Current(p) /\ Running THEN Go(p, "poll")
                   ELSE (\A q \in Pids : proc[q].heir # p) /\ End(p, "done")
                /\ UNCHANGED <<lockFile, watcher, service, window, faults, closes>>
\* Waits for its name, half a second, and for the window, forty.
Begin(p) == /\ proc[p].at = "begin"
            /\ \/ Current(p) /\ Go(p, IF Running THEN "poll" ELSE "lock")
               \/ ~Current(p) /\ (\A q \in Pids : proc[q].heir # p) /\ End(p, "done")
            /\ UNCHANGED <<lockFile, watcher, service, window, faults, closes>>
Poll(p) == /\ proc[p].at = "poll" /\ (Current(p) => ~Running)
           /\ (IF Current(p) THEN Go(p, "lock") ELSE End(p, "done"))
           /\ UNCHANGED <<lockFile, watcher, service, window, faults, closes>>

\* cleanupWatchedSession, once it has the lock: the window may be open again.
Cleans(p) == Current(p) /\ ~Running
Check(p) == /\ proc[p].at = "check" /\ Go(p, IF Cleans(p) THEN "endBackend" ELSE "release")
            /\ UNCHANGED <<lockFile, watcher, service, window, faults, closes>>

-----------------------------------------------------------------------------
UserCloses == /\ window = "open" /\ closes < MaxCloses /\ closes' = closes + 1 /\ window' = "none"
              /\ UNCHANGED <<lockFile, watcher, service, proc, faults>>
Crash(p) == /\ Alive(p) /\ (\A q \in Pids : Alive(q) => q <= CrashProcs) /\ Fault /\ End(p, "crashed")
            /\ UNCHANGED <<lockFile, watcher, service, window, closes>>

Runs(p) == \/ Take(p) \/ Look(p) \/ Judge(p) \/ Recover(p) \/ Sign(p) \/ Release(p)
           \/ CheckPorts(p) \/ Terminate(p) \/ Renew(p) \/ Retire(p) \/ Spawn(p) \/ Wait(p)
           \/ Open(p) \/ Leave(p) \/ Name(p)
           \/ EndBackend(p) \/ EndFrontend(p) \/ EndWindow(p) \/ Gone(p)
           \/ Begin(p) \/ Poll(p) \/ Check(p)
Next == \/ \E cmd \in Commands : Command(cmd)
        \/ \E p \in Pids : Runs(p) \/ GiveUp(p) \/ Crash(p)
        \/ UserCloses \/ Exit \/ Age
Spec == Init /\ [][Next]_vars
\* Processes are scheduled, and those that wait for the lock try every 100 ms; time passes.
Fairness == SF_vars(Age) /\ \A p \in Pids : WF_vars(Runs(p)) /\ SF_vars(Take(p))
FairSpec == Spec /\ Fairness

-----------------------------------------------------------------------------
Inside == {p \in Pids : Alive(p) /\ proc[p].at \notin {"lock", "judge", "recover", "begin", "poll"}}
Ours == {port \in Ports : service[port] = "ours"}

\* Where a process of a command may be.
Waiting == {"lock", "judge", "recover", "sign", "release"}
Stopping == {"endBackend", "endFrontend", "endWindow", "gone"}
Working == {"ports", "terminate", "renew", "retire", "spawn", "wait", "open", "leave", "name"}
Places(cmd) ==
    CASE cmd = None -> Over
      [] cmd = "start" -> Waiting \cup Stopping \cup Working
      [] cmd = "stop" -> Waiting \cup Stopping \cup {"retire"}
      [] cmd = "refresh" -> Waiting \cup {"terminate", "renew"}
      [] cmd = "watch" -> Waiting \cup Stopping \cup {"begin", "poll", "check"}
Locks == {None} \cup [owner : Pids, written : BOOLEAN]
ProcOK(q) ==
    /\ q \in [cmd : Commands \cup {"watch", None}, occupied : SUBSET Ports, heir : Pids \cup {None},
              seen : Locks,
              at : Over \cup Waiting \cup Stopping \cup Working \cup {"begin", "poll", "check"}]
    /\ q.at \in Places(q.cmd)
    /\ q.cmd = None => q = Ending(q.at)
    /\ q.at \in {"judge", "recover"} <=> q.seen # None

TypeOK ==
    /\ lock \in Locks
    /\ aged \in BOOLEAN /\ astray \in BOOLEAN
    /\ watcher \in Pids \cup {None}
    /\ service \in [Ports -> {"none", "ours", "old", "foreign"}]
    /\ window \in {"none", "open", "closing"}
    /\ DOMAIN proc = Pids /\ \A p \in Pids : ProcOK(proc[p])
    /\ faults \in 0 .. MaxFaults /\ closes \in 0 .. MaxCloses

\* Start, stop, refresh and cleanup take turns (lifecycle-lock.mjs:3), however
\* the exclusive creation, the pid written after it, the look at a lock, the
\* judgement on its owner, the removals and crashes interleave: two are at work
\* only after a removal has gone astray.  The code allows that: the file it
\* removes may be another one than the one it read (its owner has ended and
\* another process has come), and an owner may take more than five seconds to
\* sign (lifecycle-lock.mjs:12-17).
TakeTurns == ~astray => \A p, q \in Inside : p = q

\* Between commands, an open window has both of its services, and the watcher
\* its start has left is alive: no command or watcher of an earlier session has
\* taken away what a later one reuses.  So it is while nothing fails and no
\* removal of the lock goes astray.
SessionWhole == (faults = 0 /\ ~astray /\ Inside = {} /\ window = "open")
                => /\ Ours = Ports /\ watcher # None
                   /\ proc[watcher].cmd = "watch" /\ Alive(watcher)

\* Whoever waits for its turn gets it or gives up, also behind a crash: the lock
\* of a crashed process is recovered, its watcher's and the others' are left.
NeverStuck == \A p \in Pids :
    proc[p].at \in {"lock", "judge", "recover"} ~> proc[p].at \notin {"lock", "judge", "recover"}

\* Closing the window of a session stops both of its services (README.md:67: no
\* orphaned processes), unless the window is opened again, a process crashes, a
\* removal of the lock goes astray, or the watcher waits for its turn for more
\* than a minute: then it gives up, and the services stay until the next start
\* or stop (lifecycle-lock.mjs:19, launcher.mjs:450).
GaveUp == watcher # None /\ proc[watcher].at = "timedOut"
NoOrphans == (NoCrash /\ watcher # None /\ window = "none")
             ~> (~NoCrash \/ astray \/ GaveUp \/ window = "open" \/ Ours = {})
=============================================================================
