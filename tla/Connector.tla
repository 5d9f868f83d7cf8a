------------------------------ MODULE Connector ------------------------------
(* The whole way of a call: a client of the connection service, the worker  *)
(* of Relay, the broker and a window of Broker; next to it a local client,  *)
(* which calls the broker itself.                                           *)
EXTENDS Broker, Relay

CONSTANTS Locals,         \* the request ids of local clients
          LocalClients,   \* the clients that call the broker themselves
          RemoteClient    \* the client whose credential the worker has

ASSUME ClientAssumption == /\ RemoteClient \in Clients /\ LocalClients \subseteq Clients
                           /\ Locals \cap Remotes = {}

vars == <<bvars, rvars>>

Init == InitBroker /\ InitRelay

\* A local client calls, or calls again with an id it has used.
LocalCall == \E id \in Locals, c \in LocalClients :
    /\ Call(id, c) \/ Refuse(id, c)
    /\ UNCHANGED rvars

\* The worker passes a call on, with the id and the arguments it came with.
LocalPost ==
    /\ worker.pc = "call"
    /\ \/ /\ Call(worker.job, RemoteClient)
          /\ worker' = [worker EXCEPT !.pc = "wait"]
       \/ /\ Refuse(worker.job, RemoteClient)
          /\ Outcome(worker.job, "error")
    /\ UNCHANGED <<remote, jobs, paired>>

\* The worker waits for the last task of its call.
Awaited(n) == /\ task[n].id = worker.job
              /\ \A m \in DOMAIN task : task[m].id = worker.job => m <= n
LocalAnswer ==
    /\ worker.pc = "wait"
    /\ \E n \in DOMAIN task :
          /\ Awaited(n) /\ task[n].state = "done"
          /\ Outcome(worker.job, IF task[n].answer = "result" THEN "result" ELSE "error")
    /\ UNCHANGED <<bvars, remote, jobs, paired>>

\* The local call ends without an answer: it is not made again.
OutcomeAgain(q) == worker' = [worker EXCEPT !.pc = "call"]
Uncertain(q) == Outcome(q, "error")
LocalFails == /\ worker.pc \in {"call", "wait"} /\ faults < MaxFaults
              /\ faults' = faults + 1
              /\ Uncertain(worker.job)
              /\ UNCHANGED <<broker, view, remote, jobs, paired>>

\* Messages to and from the service get lost, or the worker ends.
Losses == /\ faults < MaxFaults /\ faults' = faults + 1
          /\ Take(TRUE) \/ Deliver(TRUE) \/ Restart
          /\ UNCHANGED <<broker, view>>

Service == /\ \/ \E q \in Remotes : Ask(q) \/ GiveUp(q)
              \/ Revoke \/ Take(FALSE) \/ Deliver(FALSE) \/ Stop
           /\ UNCHANGED bvars

Local == /\ Tasks \/ (\E s \in Sessions : Window(s)) \/ (\E c \in Clients : DeleteConfiguration(c))
         /\ UNCHANGED rvars

Next == LocalCall \/ LocalPost \/ LocalAnswer \/ LocalFails \/ Losses \/ Service \/ Local

Spec == Init /\ [][Next]_vars

-----------------------------------------------------------------------------
AllIds == Locals \cup Remotes
Answers == {None, "result", "error", "timeout"}
TaskType == [id : AllIds, client : Clients,
             owner : Sessions \cup {None}, at : Sessions \cup {None},
             state : {"created", "sent", "done"}, answer : Answers,
             run : {"no", "started", "finished"}]

WorkerType == [pc : {"idle", "call", "wait", "stopped"}, job : Remotes \cup {Nothing},
               reply : [id : Remotes, result : {"result", "error"}] \cup {Nothing}]

\* The types; and: a request is remembered once, and the worker is busy with a call.
TypeOK ==
    /\ stale \subseteq windows /\ windows \subseteq Sessions
    /\ deleted \subseteq Clients
    /\ queue \in [Sessions -> Seq(Nat)]
    /\ view \in [Sessions -> [pc : {"new", "loop", "handle", "reply", "off"}, job : Nat]]
    /\ task \in Seq(TaskType)
    /\ calls \subseteq DOMAIN task
    /\ \A m, n \in calls : task[m].id = task[n].id => m = n
    /\ remote \in [Remotes -> [asked : BOOLEAN, taken : BOOLEAN,
                               answer : {"result", "error", Nothing}]]
    /\ jobs \in Seq(Remotes) /\ paired \in BOOLEAN
    /\ worker \in WorkerType
    /\ worker.pc \in {"call", "wait"} => worker.job \in Remotes
    /\ faults \in 0..MaxFaults

\* A request that came from outside is handled by a window at most once,
\* whatever is lost, repeated, withdrawn or ends on the way.
RemoteOnce == \A q \in Remotes :
    Cardinality({n \in DOMAIN task : task[n].id = q}) <= 1

\* A request is handled again only after its first call was answered, or its
\* window was disabled: a retry joins, and a call in progress is not forgotten.
NoOverlap == \A m, n \in DOMAIN task :
    (m < n /\ task[m].id = task[n].id) => task[m].answer # None \/ task[m].owner = None
=============================================================================
