------------------------------- MODULE Tunnel -------------------------------
(***************************************************************************)
(* The ChatGPT tunnel of the desktop shell and the files that configure    *)
(* it.  The shell owns one tunnel client, a child process, under the lock  *)
(* of ConnectorTunnel (`holder`).  A thread looks at it every five seconds *)
(* and so does every start from the window: it starts the client again     *)
(* after a growing delay, and stops one that stays unready too long.  To   *)
(* start it the shell first runs the setup program, a process of its own   *)
(* that rewrites the configuration and enables the client; deleting the    *)
(* configuration is a request to the backend, another process, for whose   *)
(* answer the shell waits a few seconds.  Both, and the program that adds  *)
(* other clients, change the list of disabled clients under a lock file.   *)
(*                                                                         *)
(* A tick is the five seconds of the thread.  Waits are counted in ticks   *)
(* and shortened: MaxBackoff stands for 300 s, Patience for the 120 s a    *)
(* client may be unready and Stable for the 60 s of readiness that clear   *)
(* the failures.                                                           *)
(***************************************************************************)
EXTENDS Integers, Sequences
CONSTANTS Nothing, MaxBackoff, Patience, Stable,
          MaxEvents  \* what the user asks for, outages, and writes and starts that fail

ASSUME TunnelAssumption ==
  /\ {MaxBackoff, Patience, Stable} \subseteq Nat \ {0}
  /\ MaxEvents \in Nat
ASSUME NothingAssumption ==
  /\ Nothing \notin {"supervisor", "start", "save", "delete", "setup", "other"}
  /\ Nothing \notin {"starting", "ready", "exited", "deleted", "refused", "failed"}

VARIABLES
  tunnel,    \* TunnelState and its Recovery
  holder,    \* who has the lock of ConnectorTunnel
  due,       \* the thread of the shell is about to look
  network,   \* can the client reach its service?
  files,     \* the contents of the client's files, 0 when absent
  disabled,  \* disabled-clients.json
  lockFile,  \* .client-config.lock: who made it
  setup,     \* the setup program
  deletion,  \* delete_client in the backend
  other,     \* the program that adds another client
  deleted,   \* the user was told that the configuration is deleted
  events

tunnelVars == <<tunnel, holder, due, network, files, disabled, lockFile, setup, deletion,
                other, deleted, events>>

ClientFiles == {"setup.json", "runtime.key", "client.key"}
Order == <<"setup.json", "runtime.key", "client.key">>
Clients == {"chatgpt", "claude"}

Off == [enabled |-> FALSE, child |-> Nothing, failures |-> 0, retryIn |-> 0,
        unhealthyFor |-> Nothing, healthyFor |-> Nothing, status |-> "off"]
Absent == [f \in ClientFiles |-> 0]
NoSetup == [at |-> "none", saves |-> 0, seen |-> {}]
NoDeletion == [at |-> "none", seen |-> {}, originals |-> Absent, next |-> 1, answer |-> Nothing]
NoOther == [at |-> "none", seen |-> {}]

TunnelInit ==
  /\ tunnel = Off /\ holder = Nothing /\ due = FALSE /\ network = "up"
  /\ files \in {Absent, [f \in ClientFiles |-> 1]} /\ disabled = {"claude"}
  /\ lockFile = Nothing /\ setup = NoSetup /\ deletion = NoDeletion /\ other = NoOther
  /\ deleted = FALSE /\ events = 0

Spend == events < MaxEvents /\ events' = events + 1

Smaller(a, b) == IF a < b THEN a ELSE b

-----------------------------------------------------------------------------
(* Recovery *)

CanStart(t) == t.retryIn = 0

FailedStillUnready(t) ==
  [t EXCEPT !.retryIn = Smaller(2 ^ t.failures, MaxBackoff),
            !.failures = Smaller(@ + 1, MaxBackoff), !.healthyFor = Nothing]

Failed(t) ==
  [t EXCEPT !.retryIn = Smaller(2 ^ t.failures, MaxBackoff),
            !.failures = Smaller(@ + 1, MaxBackoff),
            !.unhealthyFor = Nothing, !.healthyFor = Nothing]

Since(counter) == IF counter = Nothing THEN 0 ELSE counter

Watched(t, ready) ==
  LET since == Since(t.healthyFor) IN
  IF ready
  THEN [t EXCEPT !.unhealthyFor = Nothing, !.healthyFor = since,
                 !.failures = IF since >= Stable THEN 0 ELSE @,
                 !.retryIn = IF since >= Stable THEN 0 ELSE @]
  ELSE [t EXCEPT !.healthyFor = Nothing, !.unhealthyFor = Since(@)]

TooLong(t) == t.unhealthyFor # Nothing /\ t.unhealthyFor >= Patience

Stopped(t) == Off

-----------------------------------------------------------------------------
(* supervise_tunnel, under the lock: what it sees of the child, then a start *)

Looked(t) ==
  IF t.child = Nothing THEN t
  ELSE IF t.child = "exited" THEN Failed([t EXCEPT !.child = Nothing, !.status = "retrying"])
  ELSE LET seen == Watched(t, t.child = "ready") IN
       IF TooLong(seen) THEN Failed([seen EXCEPT !.child = Nothing, !.status = "retrying"])
       ELSE [seen EXCEPT !.status = IF t.child = "ready" THEN "ready" ELSE "connecting"]

Supervise(who, t) ==
  LET seen == Looked(t)
      start == seen.child = Nothing /\ CanStart(seen)
      configured == files["setup.json"] # 0
  IN  /\ holder = Nothing
      /\ tunnel' = IF t.enabled THEN IF start /\ ~configured THEN [seen EXCEPT !.status = "unconfigured"]
                                     ELSE seen
                   ELSE t
      /\ IF t.enabled /\ start /\ configured
         THEN /\ holder' = who
              /\ setup' = [at |-> "check", saves |-> files["setup.json"], seen |-> {}]
         ELSE UNCHANGED <<holder, setup>>

SupervisorLooks ==
  /\ due /\ due' = FALSE /\ tunnel.enabled
  /\ Supervise("supervisor", tunnel)
  /\ UNCHANGED <<network, files, disabled, lockFile, deletion, other, deleted, events>>

\* connector_tunnel_start: the window turns the connection on, or back on
TunnelStart ==
  /\ ~tunnel.enabled
  /\ Supervise("start", [tunnel EXCEPT !.enabled = TRUE])
  /\ UNCHANGED <<due, network, files, disabled, lockFile, deletion, other, deleted, events>>

\* connector_tunnel_stop
TunnelStop ==
  /\ holder = Nothing /\ tunnel.enabled
  /\ tunnel' = Stopped(tunnel)
  /\ UNCHANGED <<holder, due, network, files, disabled, lockFile, setup, deletion, other,
                 deleted, events>>

-----------------------------------------------------------------------------
(* The setup program (save_setup, enable_client), for a start or for the    *)
(* user's save, whose content is `saves`.                                   *)

Ready(s) == setup.at = s

SetupEnds(error) ==
  /\ setup' = NoSetup /\ holder' = Nothing
  /\ tunnel' = IF holder = "save" THEN tunnel
               ELSE IF error = Nothing THEN [tunnel EXCEPT !.child = "starting", !.status = "connecting"]
               ELSE [Failed(tunnel) EXCEPT !.status = error]

SaveConfiguration ==
  /\ holder = Nothing /\ Spend
  /\ holder' = "save" /\ deleted' = FALSE
  /\ setup' = [at |-> "write", saves |-> events + 2, seen |-> {}]
  /\ UNCHANGED <<tunnel, due, network, files, disabled, lockFile, deletion, other>>

\* a start without the protected key cannot be set up
SetupCheck ==
  /\ Ready("check")
  /\ IF files["runtime.key"] = 0 THEN SetupEnds("setup_required")
     ELSE setup' = [setup EXCEPT !.at = "write"] /\ UNCHANGED <<tunnel, holder>>
  /\ UNCHANGED <<due, network, files, disabled, lockFile, deletion, other, deleted, events>>

\* runtime.key only when the user gave one, then setup.json
SetupWrites ==
  /\ Ready("write")
  /\ files' = [files EXCEPT !["setup.json"] = setup.saves,
                            !["runtime.key"] = IF holder = "save" THEN setup.saves ELSE @]
  /\ setup' = [setup EXCEPT !.at = "lock"]
  /\ UNCHANGED <<tunnel, holder, due, network, disabled, lockFile, deletion, other, deleted,
                 events>>

SetupLocks ==
  /\ Ready("lock")
  /\ IF lockFile = Nothing
     THEN /\ lockFile' = "setup" /\ setup' = [setup EXCEPT !.at = "enable", !.seen = disabled]
          /\ UNCHANGED <<tunnel, holder>>
     ELSE SetupEnds("retrying") /\ UNCHANGED lockFile
  /\ UNCHANGED <<due, network, files, disabled, deletion, other, deleted, events>>

SetupEnables ==
  /\ Ready("enable") /\ lockFile' = Nothing
  /\ files' = [files EXCEPT !["client.key"] =
                 IF @ = 0 \/ "chatgpt" \in setup.seen THEN setup.saves ELSE @]
  /\ disabled' = setup.seen \ {"chatgpt"}
  /\ IF holder = "save" THEN SetupEnds(Nothing)
     ELSE setup' = [setup EXCEPT !.at = "spawn"] /\ UNCHANGED <<tunnel, holder>>
  /\ UNCHANGED <<due, network, deletion, other, deleted, events>>

\* the configuration is read again for the command of the client
Spawns ==
  /\ Ready("spawn")
  /\ \/ SetupEnds(IF files["setup.json"] = 0 THEN "setup_required" ELSE Nothing) /\ UNCHANGED events
     \/ Spend /\ SetupEnds("retrying")
  /\ UNCHANGED <<due, network, files, disabled, lockFile, deletion, other, deleted>>

-----------------------------------------------------------------------------
(* Deleting the configuration: the command of the shell and the backend     *)

DeleteAsked ==
  /\ holder = Nothing /\ deletion.at = "none" /\ Spend
  /\ holder' = "delete"
  /\ deletion' = [NoDeletion EXCEPT !.at = "asked"]
  /\ UNCHANGED <<tunnel, due, network, files, disabled, lockFile, setup, other, deleted>>

\* busy with a call of this client, or the lock file is taken
DeleteRefused ==
  /\ deletion.at = "asked"
  /\ deletion' = [deletion EXCEPT !.at = "answered", !.answer = "refused"]
  /\ UNCHANGED <<tunnel, holder, due, network, files, disabled, lockFile, setup, other,
                 deleted, events>>

DeleteLocks ==
  /\ deletion.at = "asked" /\ lockFile = Nothing
  /\ lockFile' = "delete"
  /\ deletion' = [deletion EXCEPT !.at = "mark", !.seen = disabled, !.originals = files]
  /\ UNCHANGED <<tunnel, holder, due, network, files, disabled, setup, other, deleted,
                 events>>

DeleteMarks ==
  /\ deletion.at = "mark"
  /\ \/ /\ disabled' = deletion.seen \union {"chatgpt"}
        /\ deletion' = [deletion EXCEPT !.at = "remove"]
        /\ UNCHANGED <<lockFile, events>>
     \/ /\ Spend /\ lockFile' = Nothing
        /\ deletion' = [deletion EXCEPT !.at = "answered", !.answer = "failed"]
        /\ UNCHANGED disabled
  /\ UNCHANGED <<tunnel, holder, due, network, files, setup, other, deleted>>

\* a file that changed since it was read is not removed
DeleteRemoves ==
  /\ deletion.at = "remove"
  /\ LET f == Order[deletion.next]
         last == deletion.next = Len(Order)
     IN  \/ /\ files[f] = deletion.originals[f]
            /\ files' = [files EXCEPT ![f] = 0]
            /\ deletion' = IF last THEN [deletion EXCEPT !.at = "answered", !.answer = "deleted"]
                           ELSE [deletion EXCEPT !.next = @ + 1]
            /\ lockFile' = IF last THEN Nothing ELSE lockFile
            /\ UNCHANGED events
         \/ /\ files[f] # deletion.originals[f]
            /\ deletion' = [deletion EXCEPT !.at = "restore"]
            /\ UNCHANGED <<files, lockFile, events>>
         \/ /\ files[f] # 0 /\ Spend
            /\ deletion' = [deletion EXCEPT !.at = "restore"]
            /\ UNCHANGED <<files, lockFile>>
  /\ UNCHANGED <<tunnel, holder, due, network, disabled, setup, other, deleted>>

\* removed files come back unless replaced; the mark goes only when all are as they were
Restored == [f \in ClientFiles |-> IF files[f] = 0 /\ f \in {Order[i] : i \in 1..(deletion.next - 1)}
                             THEN deletion.originals[f] ELSE files[f]]
Unmarked(now) == IF now = deletion.originals THEN deletion.seen ELSE disabled

DeleteRestores ==
  /\ deletion.at = "restore"
  /\ deletion' = [deletion EXCEPT !.at = "answered", !.answer = "failed"]
  /\ lockFile' = Nothing
  /\ \/ files' = Restored /\ disabled' = Unmarked(Restored)
     \/ UNCHANGED <<files, disabled>>
  /\ UNCHANGED <<tunnel, holder, due, network, setup, other, deleted, events>>

\* the answer reaches the command, which stops the tunnel when it is the expected one
DeleteAnswered ==
  /\ deletion.at = "answered"
  /\ deletion' = NoDeletion
  /\ IF holder = "delete"
     THEN /\ holder' = Nothing
          /\ IF deletion.answer = "deleted" THEN tunnel' = Stopped(tunnel) /\ deleted' = TRUE
             ELSE UNCHANGED <<tunnel, deleted>>
     ELSE UNCHANGED <<tunnel, holder, deleted>>
  /\ UNCHANGED <<due, network, files, disabled, lockFile, setup, other, events>>

\* the command waits five seconds, not longer; the backend goes on
DeleteTimesOut ==
  /\ holder = "delete" /\ deletion.at \in {"asked", "mark", "remove", "restore"}
  /\ holder' = Nothing
  /\ UNCHANGED <<tunnel, due, network, files, disabled, lockFile, setup, deletion, other,
                 deleted, events>>

-----------------------------------------------------------------------------
(* Another client is added by a program of its own, without the shell's lock *)

OtherLocksAnyway ==
  /\ other.at = "none" /\ Spend
  /\ lockFile' = "other" /\ other' = [at |-> "enable", seen |-> disabled]
  /\ UNCHANGED <<tunnel, holder, due, network, files, disabled, setup, deletion, deleted>>

OtherLocks ==
  /\ other.at = "none" /\ Spend
  /\ lockFile = Nothing /\ lockFile' = "other"
  /\ other' = [at |-> "enable", seen |-> disabled]
  /\ UNCHANGED <<tunnel, holder, due, network, files, disabled, setup, deletion, deleted>>

OtherEnables ==
  /\ other.at = "enable"
  /\ disabled' = other.seen \ {"claude"}
  /\ lockFile' = Nothing /\ other' = NoOther
  /\ UNCHANGED <<tunnel, holder, due, network, files, setup, deletion, deleted, events>>

-----------------------------------------------------------------------------
(* The environment: time, the network and the client itself                 *)

Later(counter, limit) == IF counter = Nothing THEN Nothing ELSE Smaller(counter + 1, limit)

\* nothing waits for the time while the tunnel is off; a client with the network connects
\* before the second tick it is watched
Tick ==
  /\ tunnel.enabled /\ (due = FALSE \/ holder # Nothing)
  /\ (tunnel.child = "starting" /\ network = "up") => tunnel.unhealthyFor \in {Nothing, 0}
  /\ due' = TRUE
  /\ tunnel' = [tunnel EXCEPT !.retryIn = IF @ = 0 THEN 0 ELSE @ - 1,
                              !.unhealthyFor = Later(@, Patience), !.healthyFor = Later(@, Stable)]
  /\ UNCHANGED <<holder, network, files, disabled, lockFile, setup, deletion, other, deleted,
                 events>>

NetworkFails ==
  /\ tunnel.enabled /\ network = "up" /\ Spend
  /\ network' = "down"
  /\ UNCHANGED <<tunnel, holder, due, files, disabled, lockFile, setup, deletion, other, deleted>>

NetworkReturns ==
  /\ network = "down" /\ network' = "up"
  /\ UNCHANGED <<tunnel, holder, due, files, disabled, lockFile, setup, deletion, other,
                 deleted, events>>

ClientConnects ==
  /\ tunnel.child = "starting" /\ network = "up"
  /\ tunnel' = [tunnel EXCEPT !.child = "ready"]
  /\ UNCHANGED <<holder, due, network, files, disabled, lockFile, setup, deletion, other,
                 deleted, events>>

\* without the network the client loses its readiness, or ends
ClientSuffers ==
  /\ network = "down" /\ tunnel.child \in {"starting", "ready"}
  /\ \E now \in {"starting", "exited"} \ {tunnel.child} : tunnel' = [tunnel EXCEPT !.child = now]
  /\ UNCHANGED <<holder, due, network, files, disabled, lockFile, setup, deletion, other,
                 deleted, events>>

-----------------------------------------------------------------------------
SetupStep == SetupCheck \/ SetupWrites \/ SetupLocks \/ SetupEnables \/ Spawns
DeleteStep == DeleteRefused \/ DeleteLocks \/ DeleteMarks \/ DeleteRemoves \/ DeleteRestores
TunnelNext ==
  \/ SupervisorLooks \/ TunnelStart \/ TunnelStop \/ SaveConfiguration \/ SetupStep
  \/ DeleteAsked \/ DeleteStep \/ DeleteAnswered \/ DeleteTimesOut
  \/ OtherLocks \/ OtherEnables
  \/ Tick \/ NetworkFails \/ NetworkReturns \/ ClientConnects \/ ClientSuffers

-----------------------------------------------------------------------------
(* Once the user was told that the configuration is deleted, no file of it *)
(* and no client come back until the user saves one again: neither the     *)
(* thread that starts the client nor the program that adds another client  *)
(* undoes it.                                                              *)
DeletedStays ==
  deleted => /\ "chatgpt" \in disabled /\ files = Absent
             /\ tunnel.child = Nothing /\ setup.at = "none"

(* A connection that stays turned on and configured becomes ready, and     *)
(* stays so, once the network stays up: however often it failed before,    *)
(* the delays end and a client is given the time it needs.                 *)
Recovers ==
  <>[](tunnel.enabled /\ network = "up" /\ (\A f \in ClientFiles : files[f] # 0))
     => <>[](tunnel.status = "ready")
=============================================================================
