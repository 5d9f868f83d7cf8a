------------------------------- MODULE Broker -------------------------------
(* The connector of backend/app/connector.py: it passes the calls of AI     *)
(* clients to the one editor window that is enabled, and keeps each call by *)
(* its request id, so that a retry joins the first call.  With it, the loop *)
(* of a window in frontend/src/hooks/useAIConnector.ts, which polls for a   *)
(* call, handles it and replies.                                            *)
(*                                                                          *)
(* The event loop of the backend runs a coroutine up to its next await; the *)
(* handlers of /session and /reply run in threads of their own.             *)
EXTENDS Naturals, Sequences, FiniteSets

CONSTANTS Sessions,   \* one for every time a window is enabled
          Clients,    \* the AI clients with a credential
          None,
          Capacity,   \* how many calls are remembered (256)
          MaxTasks, MaxFaults   \* bounds of the exploration

ASSUME CapacityAssumption == Capacity \in Nat \ {0}
ASSUME LimitAssumption == MaxTasks \in Nat /\ MaxFaults \in Nat
ASSUME NoneAssumption == None \notin Sessions /\ None \notin {"result", "error", "timeout"}

VARIABLES
    windows,   \* the sessions the broker knows as enabled
    stale,     \* those of them not heard of for LEASE_SECONDS
    queue,     \* the calls queued for each session
    task,      \* every call that was accepted: its task and its future
    calls,     \* the tasks remembered by request id; they are numbered as they come
    deleted,   \* the clients whose configuration was deleted
    view,      \* the loop of each window, and the call it is at
    faults     \* counter behind the bound

broker == <<windows, stale, queue, task, calls, deleted>>
bvars == <<broker, view, faults>>

New(id, client, owner) ==
    [id |-> id, client |-> client,
     owner |-> owner,       \* the window it was accepted for, until that is disabled
     at |-> None,           \* the window whose reply is pending
     state |-> "created",   \* then "sent" and "done"
     answer |-> None,       \* what the future, and then the task, holds
     run |-> "no"]          \* history: what the window did with it

InitBroker == /\ windows = {} /\ stale = {} /\ deleted = {}
              /\ queue = [s \in Sessions |-> <<>>]
              /\ task = <<>> /\ calls = {}
              /\ view = [s \in Sessions |-> [pc |-> "new", job |-> 0]]
              /\ faults = 0

-----------------------------------------------------------------------------
(* Broker.disable for the sessions S: their queues and calls are forgotten, *)
(* and who waits for an answer gets one.                                    *)
Emptied(S) == [s \in Sessions |-> IF s \in S THEN <<>> ELSE queue[s]]
Remembered(S) == {n \in calls : task[n].owner \notin S}
Cut(S) == [n \in DOMAIN task |->
             [task[n] EXCEPT !.answer = IF task[n].at \in S /\ @ = None THEN "error" ELSE @,
                             !.at = IF @ \in S THEN None ELSE @,
                             !.owner = IF @ \in S THEN None ELSE @]]

\* Broker.current: first of all, every lease that has run out is ended.
Gone == windows \cap stale
Live == windows \ stale
Expire == windows' = Live /\ stale' = stale \ Gone /\ queue' = Emptied(Gone)

\* The call remembered under an id, and who may join it.  A client that uses the
\* id of another, or its own with other arguments, is refused.
Prior(id) == {n \in Remembered(Gone) : task[n].id = id}
Joins(n, owner, client) == task[n].owner = owner /\ task[n].client = client

\* At capacity the oldest call that is done makes room.
EvictableAny == Remembered(Gone)
Evictable == {n \in Remembered(Gone) : task[n].state = "done"}
Oldest(S) == {n \in S : \A m \in S : n <= m}
Room == LET kept == Remembered(Gone)
        IN IF Cardinality(kept) < Capacity THEN {kept}
           ELSE {kept \ {n} : n \in Oldest(Evictable)}

\* Broker.call: the task a request gets, joined or new; none when it is refused.
Accepted(id, client) ==
    {n \in 1..(Len(task) + 1) :
        /\ client \notin deleted
        /\ \E owner \in Sessions :
             /\ Live = {owner}
             /\ IF Prior(id) # {} THEN n \in Prior(id) /\ Joins(n, owner, client)
                ELSE n = Len(task) + 1 /\ Room # {}}

Call(id, client) ==
    /\ Expire
    /\ \E n \in Accepted(id, client) :
          IF n \in DOMAIN task
          THEN task' = Cut(Gone) /\ calls' = Remembered(Gone)
          ELSE /\ n <= MaxTasks
               /\ \E owner \in Live : task' = Append(Cut(Gone), New(id, client, owner))
               /\ \E kept \in Room : calls' = kept \cup {n}
    /\ UNCHANGED <<deleted, view, faults>>

Refuse(id, client) ==
    /\ Accepted(id, client) = {}
    /\ IF client \in deleted THEN UNCHANGED broker
       ELSE /\ Expire /\ task' = Cut(Gone) /\ calls' = Remembered(Gone)
            /\ UNCHANGED deleted
    /\ UNCHANGED <<view, faults>>

-----------------------------------------------------------------------------
(* Broker.dispatch, the task of a call                                      *)

Dispatch(n) ==
    /\ task[n].state = "created"
    /\ windows' = Live /\ stale' = stale \ Gone /\ calls' = Remembered(Gone)
    /\ \/ \E s \in Sessions :
             /\ Live = {s}
             /\ task' = [Cut(Gone) EXCEPT ![n].state = "sent", ![n].at = s]
             /\ queue' = [Emptied(Gone) EXCEPT ![s] = Append(@, n)]
       \/ /\ Cardinality(Live) # 1
          /\ task' = [Cut(Gone) EXCEPT ![n].state = "done", ![n].answer = "error"]
          /\ queue' = Emptied(Gone)
    /\ UNCHANGED <<deleted, view, faults>>

\* The future was given an answer, or 120 seconds are over.  An answer set by
\* another thread in the turn of the event loop in which the timer ends is lost.
Resume(n) == /\ task[n].state = "sent"
             /\ \E answer \in {task[n].answer, "timeout"} \ {None} :
                   task' = [task EXCEPT ![n].state = "done", ![n].at = None, ![n].answer = answer]
             /\ UNCHANGED <<windows, stale, queue, calls, deleted, view, faults>>

\* delete_configuration does not interrupt a call of the client.
Busy(c) == \E n \in calls : task[n].client = c /\ task[n].state # "done"
DeleteConfiguration(c) ==
    /\ c \notin deleted /\ ~Busy(c)
    /\ deleted' = deleted \cup {c}
    /\ calls' = {n \in calls : task[n].client # c}
    /\ UNCHANGED <<windows, stale, queue, task, view, faults>>

-----------------------------------------------------------------------------
(* The window: useAIConnectorRuntime                                        *)

At(s, pc, job) == view' = [view EXCEPT ![s] = [pc |-> pc, job |-> job]]
On(s) == view[s].pc \notin {"new", "off"}

\* POST /session with enabled: a session that is not known gets a new queue.
Touch(s) == windows' = windows \cup {s} /\ stale' = stale \ {s}

Enable(s) == /\ view[s].pc = "new"
             /\ Touch(s) /\ At(s, "loop", 0)
             /\ UNCHANGED <<queue, task, calls, deleted, faults>>

\* The same request again: at the head of the loop, and every five seconds.  One
\* that is under way when the window is turned off can still arrive.
Heartbeat(s) == /\ Touch(s)
                /\ \/ On(s) /\ UNCHANGED faults
                   \/ view[s].pc = "off" /\ faults < MaxFaults /\ faults' = faults + 1
                /\ UNCHANGED <<queue, task, calls, deleted, view>>

\* GET /poll: the next call, which the window then handles.  A session that is
\* not known is refused.  The answer can get lost, and the call with it.
Poll(s) ==
    /\ view[s].pc = "loop" /\ s \in windows /\ stale' = stale \ {s}
    /\ \/ queue[s] = <<>> /\ UNCHANGED <<queue, task, view, faults>>
       \/ /\ queue[s] # <<>> /\ queue' = [queue EXCEPT ![s] = Tail(@)]
          /\ \/ /\ At(s, "handle", Head(queue[s]))
                /\ task' = [task EXCEPT ![Head(queue[s])].run = "started"]
                /\ UNCHANGED faults
             \/ faults < MaxFaults /\ faults' = faults + 1 /\ UNCHANGED <<task, view>>
    /\ UNCHANGED <<windows, calls, deleted>>

Handled(s) == /\ view[s].pc = "handle"
              /\ At(s, "reply", view[s].job)
              /\ task' = [task EXCEPT ![view[s].job].run = "finished"]
              /\ UNCHANGED <<windows, stale, queue, calls, deleted, faults>>

\* POST /reply, once: the broker takes it from the window it asked, in time.
Reply(s) ==
    LET n == view[s].job IN
    /\ view[s].pc = "reply" /\ At(s, "loop", 0)
    /\ \/ /\ task[n].at = s /\ s \in windows
          /\ task' = [task EXCEPT ![n].answer = IF @ = None THEN "result" ELSE @]
          /\ UNCHANGED faults
       \/ /\ task[n].at # s \/ s \notin windows
          /\ UNCHANGED <<task, faults>>
       \/ faults < MaxFaults /\ faults' = faults + 1 /\ UNCHANGED task
    /\ UNCHANGED <<windows, stale, queue, calls, deleted>>

\* The user turns the connection off.  What is being handled is completed.
TurnOff(s) ==
    /\ On(s)
    /\ windows' = windows \ {s} /\ stale' = stale \ {s} /\ queue' = Emptied({s})
    /\ calls' = Remembered({s})
    /\ task' = [n \in DOMAIN task |->
                  IF view[s] = [pc |-> "handle", job |-> n]
                  THEN [Cut({s})[n] EXCEPT !.run = "finished"] ELSE Cut({s})[n]]
    /\ At(s, "off", 0)
    /\ UNCHANGED <<deleted, faults>>

\* The window ends without a word, or is suspended past its lease.
Close(s) == /\ On(s) /\ faults < MaxFaults /\ faults' = faults + 1
            /\ At(s, "off", 0)
            /\ UNCHANGED broker
LeaseEnds(s) == /\ s \in windows \ stale
                /\ stale' = stale \cup {s}
                /\ \/ ~On(s) /\ UNCHANGED faults
                   \/ On(s) /\ faults < MaxFaults /\ faults' = faults + 1
                /\ UNCHANGED <<windows, queue, task, calls, deleted, view>>

Window(s) == \/ Enable(s) \/ Heartbeat(s) \/ Poll(s) \/ Handled(s) \/ Reply(s)
             \/ TurnOff(s) \/ Close(s) \/ LeaseEnds(s)
Tasks == \E n \in DOMAIN task : Dispatch(n) \/ Resume(n)
=============================================================================
