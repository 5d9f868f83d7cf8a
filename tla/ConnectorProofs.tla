-------------------------- MODULE ConnectorProofs --------------------------
(* Machine-checked facts about Connector, for any windows, clients, calls,  *)
(* capacity and number of failures, and about Pairing, for any applications, *)
(* capacity of the store, expiry and lost answers.                           *)
EXTENDS Connector, Pairing, SequenceTheorems, FiniteSetTheorems, TLAPS

-----------------------------------------------------------------------------
(* The inductive invariants.                                                *)

\* A call without an answer, whose window is enabled, is remembered.
CallInv ==
    /\ \A n \in DOMAIN task : task[n].state = "done" => task[n].answer # None
    /\ \A n \in DOMAIN task : task[n].owner # None /\ task[n].answer = None => n \in calls
    /\ NoOverlap

\* A request from outside is in one place: not asked yet, waiting in the queue,
\* with the worker, or passed on; the broker knows it in the last one only.
Unknown(q) == \A n \in DOMAIN task : task[n].id # q
WithWorker(q) == worker.pc = "call" /\ worker.job = q
RemoteInv ==
    /\ \A i, j \in DOMAIN jobs : jobs[i] = jobs[j] => i = j
    /\ \A i \in DOMAIN jobs : /\ remote[jobs[i]].asked /\ Unknown(jobs[i])
                              /\ ~WithWorker(jobs[i])
    /\ \A q \in Remotes : ~remote[q].asked => Unknown(q) /\ ~WithWorker(q)
    /\ worker.pc = "call" => Unknown(worker.job)
    /\ \A m, n \in DOMAIN task : (task[m].id \in Remotes /\ task[m].id = task[n].id) => m = n
-----------------------------------------------------------------------------
(* What the actions do to the calls.                                        *)

\* A call that was answered, or lost its window, stays so; one is forgotten only then.
Kept ==
    /\ task' \in Seq(TaskType) /\ Len(task') = Len(task)
    /\ \A n \in DOMAIN task : /\ task'[n].id = task[n].id
                              /\ task[n].answer # None => task'[n].answer # None
                              /\ task[n].owner = None => task'[n].owner = None
                              /\ task'[n].state = "done" => task'[n].answer # None
    /\ calls' \subseteq calls
    /\ \A n \in calls \ calls' : task'[n].owner = None \/ task'[n].answer # None

\* A new call of an id that is not remembered.
Grown(id) ==
    /\ Prior(id) = {}
    /\ \E client \in Clients, owner \in Sessions : task' = Append(Cut(Gone), New(id, client, owner))
    /\ \E kept \in Room : calls' = kept \cup {Len(task) + 1}

LEMMA TaskFacts ==
    ASSUME TypeOK, NEW n \in DOMAIN task
    PROVE  /\ task[n] \in TaskType /\ task[n].id \in AllIds /\ task[n].client \in Clients
           /\ task[n].owner \in Sessions \cup {None} /\ task[n].at \in Sessions \cup {None}
           /\ task[n].state \in {"created", "sent", "done"} /\ task[n].answer \in Answers
           /\ task[n].run \in {"no", "started", "finished"}
<1>1. task[n] \in TaskType
  BY ElementOfSeq, LenProperties DEF TypeOK
<1> QED BY <1>1 DEF TaskType

LEMMA Domain == ASSUME TypeOK PROVE Len(task) \in Nat /\ DOMAIN task = 1..Len(task)
BY LenProperties DEF TypeOK

\* Broker.disable answers who waits, and changes nothing of a call but its window.
LEMMA CutFacts ==
    ASSUME TypeOK, NEW S
    PROVE  /\ Cut(S) \in Seq(TaskType) /\ Len(Cut(S)) = Len(task) /\ DOMAIN Cut(S) = DOMAIN task
           /\ \A n \in DOMAIN task :
                /\ Cut(S)[n].id = task[n].id /\ Cut(S)[n].client = task[n].client
                /\ Cut(S)[n].state = task[n].state /\ Cut(S)[n].run = task[n].run
                /\ Cut(S)[n].owner = IF task[n].owner \in S THEN None ELSE task[n].owner
                /\ task[n].answer # None => Cut(S)[n].answer # None
<1>1. ASSUME NEW n \in DOMAIN task
      PROVE  /\ Cut(S)[n] \in TaskType
             /\ Cut(S)[n].id = task[n].id /\ Cut(S)[n].client = task[n].client
             /\ Cut(S)[n].state = task[n].state /\ Cut(S)[n].run = task[n].run
             /\ Cut(S)[n].owner = IF task[n].owner \in S THEN None ELSE task[n].owner
             /\ task[n].answer # None => Cut(S)[n].answer # None
  <2> DEFINE c == Cut(S)[n]
  <2>1. c = [task[n] EXCEPT !.answer = IF task[n].at \in S /\ @ = None THEN "error" ELSE @,
                            !.at = IF @ \in S THEN None ELSE @,
                            !.owner = IF @ \in S THEN None ELSE @]
    BY <1>1 DEF Cut
  <2>2. /\ c.id = task[n].id /\ c.client = task[n].client /\ c.state = task[n].state
        /\ c.run = task[n].run
        /\ c.owner = IF task[n].owner \in S THEN None ELSE task[n].owner
        /\ c.answer = IF task[n].at \in S /\ task[n].answer = None THEN "error" ELSE task[n].answer
        /\ c \in TaskType
    BY <1>1, <2>1, TaskFacts DEF TaskType, Answers
  <2> QED BY <2>2, NoneAssumption
<1>2. DOMAIN Cut(S) = 1..Len(task) /\ Len(task) \in Nat /\ DOMAIN task = 1..Len(task)
  BY Domain DEF Cut
<1>3. Cut(S) \in Seq(TaskType) /\ Len(Cut(S)) = Len(task)
  <2>1. Cut(S) \in [1..Len(task) -> TaskType]
    BY <1>1, <1>2 DEF Cut
  <2> QED BY <1>2, <2>1, SeqDef, LenProperties
<1> QED BY <1>1, <1>2, <1>3

\* A change of one call.
LEMMA ExceptKept ==
    ASSUME TypeOK, CallInv, NEW t \in Seq(TaskType), Len(t) = Len(task),
           \A m \in DOMAIN task : /\ t[m].id = task[m].id
                                  /\ task[m].answer # None => t[m].answer # None
                                  /\ task[m].owner = None => t[m].owner = None
                                  /\ t[m].state = "done" => t[m].answer # None,
           NEW n \in DOMAIN task, NEW c \in TaskType,
           c.id = t[n].id, t[n].answer # None => c.answer # None,
           t[n].owner = None => c.owner = None, c.state = "done" => c.answer # None,
           task' = [t EXCEPT ![n] = c]
    PROVE  /\ task' \in Seq(TaskType) /\ Len(task') = Len(task)
           /\ \A m \in DOMAIN task : /\ task'[m].id = task[m].id
                                     /\ task[m].answer # None => task'[m].answer # None
                                     /\ task[m].owner = None => task'[m].owner = None
                                     /\ task'[m].state = "done" => task'[m].answer # None
                                     /\ t[m].owner = None /\ n # m => task'[m].owner = None
<1>1. n \in 1..Len(t) /\ DOMAIN task = 1..Len(t)
  BY Domain
<1>2. /\ task' \in Seq(TaskType) /\ Len(task') = Len(t)
      /\ \A m \in 1..Len(t) : task'[m] = IF m = n THEN c ELSE t[m]
  BY <1>1, ExceptSeq
<1> QED BY <1>1, <1>2

LEMMA CutKept ==
    ASSUME TypeOK, CallInv, NEW S,
           task' = Cut(S), calls' = Remembered(S)
    PROVE  Kept
<1>1. \A n \in calls : n \in DOMAIN task BY DEF TypeOK
<1>2. \A n \in DOMAIN task : task[n].owner = None => Cut(S)[n].owner = None
  BY CutFacts
<1>3. \A n \in DOMAIN task : task[n].state = "done" => task[n].answer # None
  BY DEF CallInv
<1>4. calls' \subseteq calls /\ \A n \in calls \ calls' : task[n].owner \in S
  BY DEF Remembered
<1>5. \A n \in calls \ calls' : task'[n].owner = None
  BY <1>1, <1>4, CutFacts
<1> QED BY <1>2, <1>3, <1>4, <1>5, CutFacts DEF Kept

LEMMA SameKept ==
    ASSUME TypeOK, CallInv, task' = task, calls' = calls
    PROVE  Kept
BY DEF Kept, TypeOK, CallInv

LEMMA CallSteps ==
    ASSUME TypeOK, CallInv, NEW id \in AllIds, NEW c \in Clients, Call(id, c)
    PROVE  Kept \/ Grown(id)
<1>1. PICK n \in Accepted(id, c) :
          IF n \in DOMAIN task
          THEN task' = Cut(Gone) /\ calls' = Remembered(Gone)
          ELSE /\ n <= MaxTasks
               /\ \E owner \in Live : task' = Append(Cut(Gone), New(id, c, owner))
               /\ \E kept \in Room : calls' = kept \cup {n}
  BY DEF Call
<1>2. CASE n \in DOMAIN task
  BY <1>1, <1>2, CutKept
<1>3. CASE n \notin DOMAIN task
  <2>1. Prior(id) \subseteq DOMAIN task
    BY DEF Prior, Remembered, TypeOK
  <2>2. Prior(id) = {} /\ n = Len(task) + 1
    BY <1>3, <2>1 DEF Accepted
  <2>3. Live \subseteq Sessions
    BY DEF Live, TypeOK
  <2> QED BY <1>1, <1>3, <2>2, <2>3 DEF Grown
<1> QED BY <1>2, <1>3

LEMMA RefuseKeeps ==
    ASSUME TypeOK, CallInv, NEW id, NEW c, Refuse(id, c)
    PROVE  Kept
BY CutKept, SameKept DEF Refuse, broker

LEMMA TasksKeep ==
    ASSUME TypeOK, CallInv, NEW n \in DOMAIN task, Dispatch(n) \/ Resume(n)
    PROVE  Kept
<1>0. \A m \in calls : m \in DOMAIN task BY DEF TypeOK
<1>1. CASE Resume(n)
  <2>1. PICK answer \in {task[n].answer, "timeout"} \ {None} :
            task' = [task EXCEPT ![n].state = "done", ![n].at = None, ![n].answer = answer]
    BY <1>1 DEF Resume
  <2> DEFINE c == [task[n] EXCEPT !.state = "done", !.at = None, !.answer = answer]
  <2>2. task' = [task EXCEPT ![n] = c]
    BY <2>1
  <2>3. /\ c.id = task[n].id /\ c.owner = task[n].owner /\ c.answer # None
        /\ c \in TaskType
    BY <2>1, TaskFacts DEF TaskType, Answers
  <2> HIDE DEF c
  <2>4. /\ task' \in Seq(TaskType) /\ Len(task') = Len(task)
        /\ \A m \in DOMAIN task : /\ task'[m].id = task[m].id
                                  /\ task[m].answer # None => task'[m].answer # None
                                  /\ task[m].owner = None => task'[m].owner = None
                                  /\ task'[m].state = "done" => task'[m].answer # None
    <3>1. task \in Seq(TaskType) /\ \A m \in DOMAIN task : task[m].state = "done" => task[m].answer # None
      BY DEF TypeOK, CallInv
    <3> QED BY <2>2, <2>3, <3>1, ExceptKept
  <2>5. calls' = calls
    BY <1>1 DEF Resume
  <2> QED BY <2>4, <2>5 DEF Kept
<1>2. CASE Dispatch(n)
  <2> DEFINE t == Cut(Gone)
  <2>1. /\ t \in Seq(TaskType) /\ Len(t) = Len(task) /\ DOMAIN t = DOMAIN task
        /\ \A m \in DOMAIN task : /\ t[m].id = task[m].id
                                  /\ task[m].answer # None => t[m].answer # None
                                  /\ task[m].owner = None => t[m].owner = None
                                  /\ t[m].state = "done" => t[m].answer # None
                                  /\ task[m].owner \in Gone => t[m].owner = None
    <3>1. \A m \in DOMAIN task : task[m].state = "done" => task[m].answer # None
      BY DEF CallInv
    <3>2. \A m \in DOMAIN task : task[m].owner = None => t[m].owner = None
      BY CutFacts
    <3> QED BY <3>1, <3>2, CutFacts
  <2>2. t[n] \in TaskType
    BY <2>1, ElementOfSeq, LenProperties
  <2> HIDE DEF t
  <2>3. \E c \in TaskType : /\ task' = [t EXCEPT ![n] = c]
                            /\ c.id = t[n].id /\ c.owner = t[n].owner
                            /\ t[n].answer # None => c.answer # None
                            /\ c.state = "done" => c.answer # None
    <3>1. CASE \E s \in Sessions : task' = [t EXCEPT ![n].state = "sent", ![n].at = s]
      <4>1. PICK s \in Sessions : task' = [t EXCEPT ![n].state = "sent", ![n].at = s]
        BY <3>1
      <4> DEFINE c == [t[n] EXCEPT !.state = "sent", !.at = s]
      <4>2. task' = [t EXCEPT ![n] = c] BY <4>1
      <4>3. c \in TaskType /\ c.id = t[n].id /\ c.owner = t[n].owner /\ c.answer = t[n].answer /\ c.state = "sent"
        BY <2>2 DEF TaskType
      <4> HIDE DEF c
      <4> QED BY <4>2, <4>3
    <3>2. CASE task' = [t EXCEPT ![n].state = "done", ![n].answer = "error"]
      <4> DEFINE c == [t[n] EXCEPT !.state = "done", !.answer = "error"]
      <4>2. task' = [t EXCEPT ![n] = c] BY <3>2
      <4>3. c \in TaskType /\ c.id = t[n].id /\ c.owner = t[n].owner /\ c.answer = "error"
        BY <2>2 DEF TaskType, Answers
      <4> HIDE DEF c
      <4> QED BY <4>2, <4>3, NoneAssumption
    <3> QED BY <1>2, <3>1, <3>2 DEF Dispatch, t
  <2>4. PICK c \in TaskType : /\ task' = [t EXCEPT ![n] = c]
                              /\ c.id = t[n].id /\ c.owner = t[n].owner
                              /\ t[n].answer # None => c.answer # None
                              /\ c.state = "done" => c.answer # None
    BY <2>3
  <2>5. /\ task' \in Seq(TaskType) /\ Len(task') = Len(task)
        /\ \A m \in DOMAIN task : /\ task'[m].id = task[m].id
                                  /\ task[m].answer # None => task'[m].answer # None
                                  /\ task[m].owner = None => task'[m].owner = None
                                  /\ task'[m].state = "done" => task'[m].answer # None
                                  /\ t[m].owner = None /\ n # m => task'[m].owner = None
    BY <2>1, <2>4, ExceptKept
  <2>6. calls' \subseteq calls /\ \A m \in calls \ calls' : task[m].owner \in Gone
    BY <1>2 DEF Dispatch, Remembered
  <2>7. \A m \in calls \ calls' : task'[m].owner = None
    <3> SUFFICES ASSUME NEW m \in calls \ calls' PROVE task'[m].owner = None
      OBVIOUS
    <3>1. t[m].owner = None BY <1>0, <2>1, <2>6
    <3>2. CASE m = n
      BY <2>1, <2>4, <3>1, <3>2
    <3>3. CASE m # n
      BY <1>0, <2>5, <3>1, <3>3
    <3> QED BY <3>2, <3>3
  <2> QED BY <2>5, <2>6, <2>7 DEF Kept
<1> QED BY <1>1, <1>2

LEMMA DeleteKeeps ==
    ASSUME TypeOK, CallInv, NEW c \in Clients, DeleteConfiguration(c)
    PROVE  Kept
<1>1. task' = task /\ calls' \subseteq calls BY DEF DeleteConfiguration
<1>2. \A n \in calls \ calls' : task[n].state = "done" BY DEF DeleteConfiguration, Busy
<1> QED BY <1>1, <1>2 DEF Kept, CallInv, TypeOK

\* A window notes what it does with a call, and may answer it.
LEMMA NotedKept ==
    ASSUME TypeOK, CallInv, NEW n, NEW c, calls' = calls,
           task' = [task EXCEPT ![n] = c],
           n \in DOMAIN task => /\ c \in TaskType
                                /\ c.id = task[n].id /\ c.owner = task[n].owner /\ c.state = task[n].state
                                /\ task[n].answer # None => c.answer # None
    PROVE  Kept
<1>1. CASE n \notin DOMAIN task
  <2>1. task' = task BY <1>1 DEF TypeOK
  <2> QED BY <2>1, SameKept
<1>2. CASE n \in DOMAIN task
  <2>1. task \in Seq(TaskType) /\ \A m \in DOMAIN task : task[m].state = "done" => task[m].answer # None
    BY DEF TypeOK, CallInv
  <2>2. c.state = "done" => c.answer # None
    BY <1>2, <2>1
  <2> QED BY <1>2, <2>1, <2>2, ExceptKept DEF Kept
<1> QED BY <1>1, <1>2

LEMMA WindowKeeps ==
    ASSUME TypeOK, CallInv, NEW s \in Sessions, Window(s)
    PROVE  Kept
<1>1. CASE Enable(s) \/ Heartbeat(s) \/ Close(s) \/ LeaseEnds(s)
  BY <1>1, SameKept DEF Enable, Heartbeat, Close, LeaseEnds, broker
<1>2. CASE Poll(s)
  <2>1. CASE task' = task
    BY <1>2, <2>1, SameKept DEF Poll
  <2>2. CASE task' = [task EXCEPT ![Head(queue[s])].run = "started"]
    <3> DEFINE n == Head(queue[s])
               c == [task[n] EXCEPT !.run = "started"]
    <3>1. task' = [task EXCEPT ![n] = c] BY <2>2
    <3>2. n \in DOMAIN task => /\ c \in TaskType
                               /\ c.id = task[n].id /\ c.owner = task[n].owner /\ c.state = task[n].state
                               /\ task[n].answer # None => c.answer # None
      BY TaskFacts DEF TaskType
    <3>3. calls' = calls BY <1>2 DEF Poll
    <3> HIDE DEF c, n
    <3> QED BY <3>1, <3>2, <3>3, NotedKept
  <2> QED BY <1>2, <2>1, <2>2 DEF Poll
<1>3. CASE Handled(s)
  <2> DEFINE n == view[s].job
             c == [task[n] EXCEPT !.run = "finished"]
  <2>1. task' = [task EXCEPT ![n] = c] BY <1>3 DEF Handled
  <2>2. n \in DOMAIN task => /\ c \in TaskType
                             /\ c.id = task[n].id /\ c.owner = task[n].owner /\ c.state = task[n].state
                             /\ task[n].answer # None => c.answer # None
    BY TaskFacts DEF TaskType
  <2>3. calls' = calls BY <1>3 DEF Handled
  <2> HIDE DEF c, n
  <2> QED BY <2>1, <2>2, <2>3, NotedKept
<1>4. CASE Reply(s)
  <2>1. CASE task' = task
    BY <1>4, <2>1, SameKept DEF Reply
  <2>2. CASE task' # task
    <3> DEFINE n == view[s].job
               c == [task[n] EXCEPT !.answer = IF @ = None THEN "result" ELSE @]
    <3>1. task' = [task EXCEPT ![n] = c] BY <1>4, <2>2 DEF Reply
    <3>2. n \in DOMAIN task => /\ c \in TaskType
                               /\ c.id = task[n].id /\ c.owner = task[n].owner /\ c.state = task[n].state
                               /\ task[n].answer # None => c.answer # None
      BY TaskFacts DEF TaskType, Answers
    <3>3. calls' = calls BY <1>4 DEF Reply
    <3> HIDE DEF c, n
    <3> QED BY <3>1, <3>2, <3>3, NotedKept
  <2> QED BY <2>1, <2>2
<1>5. CASE TurnOff(s)
  <2> DEFINE t == Cut({s})
  <2>1. /\ t \in Seq(TaskType) /\ Len(t) = Len(task) /\ DOMAIN t = DOMAIN task
        /\ \A n \in DOMAIN task : /\ t[n].id = task[n].id
                                  /\ task[n].answer # None => t[n].answer # None
                                  /\ t[n].state = task[n].state
                                  /\ t[n].owner = IF task[n].owner \in {s} THEN None ELSE task[n].owner
    BY CutFacts
  <2>2. task' = [n \in DOMAIN task |->
                   IF view[s] = [pc |-> "handle", job |-> n]
                   THEN [t[n] EXCEPT !.run = "finished"] ELSE t[n]]
    BY <1>5 DEF TurnOff
  <2>3. DOMAIN task = 1..Len(task) /\ Len(task) \in Nat BY Domain
  <2>4. \A n \in DOMAIN task : t[n] \in TaskType
    BY <2>1, <2>3, ElementOfSeq
  <2> HIDE DEF t
  <2>5. \A n \in DOMAIN task : /\ task'[n] \in TaskType /\ task'[n].id = t[n].id
                               /\ task'[n].answer = t[n].answer /\ task'[n].owner = t[n].owner
                               /\ task'[n].state = t[n].state
    BY <2>2, <2>4 DEF TaskType
  <2>6. task' \in Seq(TaskType) /\ Len(task') = Len(task)
    <3>1. task' \in [1..Len(task) -> TaskType]
      BY <2>2, <2>3, <2>5
    <3> QED BY <2>3, <3>1, SeqDef, LenProperties
  <2>7. \A n \in DOMAIN task : task[n].state = "done" => task[n].answer # None
    BY DEF CallInv
  <2>8. calls' \subseteq calls /\ \A n \in calls \ calls' : n \in DOMAIN task /\ task[n].owner \in {s}
    BY <1>5 DEF TurnOff, Remembered, TypeOK
  <2>9. \A n \in DOMAIN task : task[n].owner = None => t[n].owner = None
    BY <2>1
  <2> QED BY <2>1, <2>5, <2>6, <2>7, <2>8, <2>9 DEF Kept
<1> QED BY <1>1, <1>2, <1>3, <1>4, <1>5 DEF Window

-----------------------------------------------------------------------------
(* The calls of the broker.                                                 *)

\* The part of the types that is about the calls.
CallsOK == /\ task \in Seq(TaskType) /\ calls \subseteq DOMAIN task
           /\ \A m, n \in calls : task[m].id = task[n].id => m = n

LEMMA KeptCalls ==
    ASSUME TypeOK, CallInv, Kept
    PROVE  CallsOK' /\ CallInv'
<1>1. DOMAIN task = 1..Len(task) /\ DOMAIN task' = DOMAIN task
  <2>1. DOMAIN task' = 1..Len(task')
    BY LenProperties DEF Kept
  <2> QED BY <2>1, Domain DEF Kept
<1>2. \A n \in DOMAIN task : /\ task'[n].id = task[n].id
                             /\ task[n].answer # None => task'[n].answer # None
                             /\ task[n].owner = None => task'[n].owner = None
                             /\ task'[n].state = "done" => task'[n].answer # None
  BY DEF Kept
<1>3. calls' \subseteq calls /\ calls \subseteq DOMAIN task
  BY DEF Kept, TypeOK
<1>4. CallsOK'
  <2>1. \A m, n \in calls' : task'[m].id = task'[n].id => m = n
    BY <1>2, <1>3 DEF TypeOK
  <2> QED BY <1>1, <1>3, <2>1 DEF CallsOK, Kept
<1>5. \A n \in DOMAIN task' : task'[n].owner # None /\ task'[n].answer = None => n \in calls'
  BY <1>1, <1>2 DEF Kept, CallInv
<1>6. NoOverlap'
  BY <1>1, <1>2 DEF NoOverlap, CallInv
<1> QED BY <1>1, <1>2, <1>4, <1>5, <1>6 DEF CallInv

LEMMA GrownFacts ==
    ASSUME TypeOK, CallInv, NEW id \in AllIds, Grown(id)
    PROVE  /\ task' \in Seq(TaskType) /\ Len(task) \in Nat /\ DOMAIN task = 1..Len(task)
           /\ DOMAIN task' = 1..(Len(task) + 1)
           /\ \A n \in DOMAIN task : /\ task'[n].id = task[n].id
                                     /\ task[n].answer # None => task'[n].answer # None
                                     /\ task'[n].owner = IF task[n].owner \in Gone THEN None ELSE task[n].owner
                                     /\ task'[n].state = "done" => task'[n].answer # None
           /\ task'[Len(task) + 1].id = id /\ task'[Len(task) + 1].state = "created"
<1>1. PICK client \in Clients, owner \in Sessions : task' = Append(Cut(Gone), New(id, client, owner))
  BY DEF Grown
<1>2. /\ New(id, client, owner) \in TaskType
      /\ New(id, client, owner).id = id /\ New(id, client, owner).state = "created"
  BY DEF New, TaskType, Answers
<1>3. /\ Cut(Gone) \in Seq(TaskType) /\ Len(Cut(Gone)) = Len(task) /\ DOMAIN task = 1..Len(task)
  BY CutFacts, Domain
<1>4. /\ task' \in Seq(TaskType) /\ Len(task') = Len(task) + 1
      /\ \A n \in 1..Len(task) : task'[n] = Cut(Gone)[n]
      /\ task'[Len(task) + 1] = New(id, client, owner)
  BY <1>1, <1>2, <1>3, AppendProperties
<1>5. DOMAIN task' = 1..(Len(task) + 1)
  BY <1>4, LenProperties
<1>6. \A n \in DOMAIN task : task[n].state = "done" => task[n].answer # None
  BY DEF CallInv
<1> QED BY <1>2, <1>3, <1>4, <1>5, <1>6, CutFacts, Domain

LEMMA GrownCalls ==
    ASSUME TypeOK, CallInv, NEW id \in AllIds, Grown(id)
    PROVE  CallsOK' /\ CallInv'
<1> DEFINE new == Len(task) + 1
<1>1. /\ task' \in Seq(TaskType) /\ Len(task) \in Nat /\ DOMAIN task = 1..Len(task)
      /\ DOMAIN task' = 1..new
      /\ \A n \in DOMAIN task : /\ task'[n].id = task[n].id
                                /\ task[n].answer # None => task'[n].answer # None
                                /\ task'[n].owner = IF task[n].owner \in Gone THEN None ELSE task[n].owner
                                /\ task'[n].state = "done" => task'[n].answer # None
      /\ task'[new].id = id /\ task'[new].state = "created"
  BY GrownFacts
<1>2. PICK kept \in Room : calls' = kept \cup {new}
  BY DEF Grown
<1>3. /\ kept \subseteq Remembered(Gone)
      /\ \A n \in Remembered(Gone) \ kept : task[n].state = "done"
  BY DEF Room, Oldest, Evictable
<1>4. Remembered(Gone) \subseteq calls /\ calls \subseteq DOMAIN task
  BY DEF Remembered, TypeOK
<1>5. \A n \in Remembered(Gone) : task[n].id # id
  BY DEF Grown, Prior
<1> HIDE DEF new
<1>6. CallsOK'
  <2>1. \A m, n \in calls' : task'[m].id = task'[n].id => m = n
    <3> SUFFICES ASSUME NEW m \in calls', NEW n \in calls', task'[m].id = task'[n].id
                 PROVE  m = n
      OBVIOUS
    <3>1. CASE m \in kept /\ n \in kept
      BY <1>1, <1>3, <1>4, <3>1 DEF TypeOK
    <3>2. CASE m = new /\ n = new BY <3>2
    <3>3. CASE (m \in kept /\ n = new) \/ (m = new /\ n \in kept)
      BY <1>1, <1>3, <1>4, <1>5, <3>3
    <3> QED BY <1>2, <3>1, <3>2, <3>3
  <2>2. kept \subseteq 1..new /\ new \in 1..new
    BY <1>1, <1>3, <1>4 DEF new
  <2> QED BY <1>1, <1>2, <2>1, <2>2 DEF CallsOK
<1>7. \A n \in DOMAIN task' : n \in DOMAIN task \/ n = new
  BY <1>1 DEF new
<1>8. \A n \in DOMAIN task' : task'[n].state = "done" => task'[n].answer # None
  BY <1>1, <1>7
<1>9. \A n \in DOMAIN task' : task'[n].owner # None /\ task'[n].answer = None => n \in calls'
  <2> SUFFICES ASSUME NEW n \in DOMAIN task', task'[n].owner # None, task'[n].answer = None
               PROVE  n \in calls'
    OBVIOUS
  <2>1. CASE n = new BY <1>2, <2>1
  <2>2. CASE n \in DOMAIN task
    <3>1. task[n].owner # None /\ task[n].owner \notin Gone /\ task[n].answer = None
      BY <1>1, <2>2
    <3>2. n \in calls /\ task[n].state # "done"
      BY <2>2, <3>1 DEF CallInv
    <3>3. n \in kept
      BY <1>3, <3>1, <3>2 DEF Remembered
    <3> QED BY <1>2, <3>3
  <2> QED BY <1>7, <2>1, <2>2
<1>10. NoOverlap'
  <2> SUFFICES ASSUME NEW m \in DOMAIN task', NEW n \in DOMAIN task',
                      m < n, task'[m].id = task'[n].id,
                      task'[m].answer = None, task'[m].owner # None
               PROVE  FALSE
    BY DEF NoOverlap
  <2>1. m \in DOMAIN task
    BY <1>1 DEF new
  <2>2. task[m].owner # None /\ task[m].owner \notin Gone /\ task[m].answer = None
    BY <1>1, <2>1
  <2>3. CASE n \in DOMAIN task
    BY <1>1, <2>1, <2>2, <2>3 DEF CallInv, NoOverlap
  <2>4. CASE n = new
    <3>1. m \in Remembered(Gone)
      BY <2>1, <2>2 DEF CallInv, Remembered
    <3> QED BY <1>1, <1>5, <2>1, <2>4, <3>1
  <2> QED BY <1>7, <2>3, <2>4
<1> QED BY <1>6, <1>8, <1>9, <1>10 DEF CallInv

-----------------------------------------------------------------------------
(* The types of the broker and of the way from outside.                     *)

BrokerOK == /\ stale \subseteq windows /\ windows \subseteq Sessions /\ deleted \subseteq Clients
            /\ queue \in [Sessions -> Seq(Nat)]
            /\ view \in [Sessions -> [pc : {"new", "loop", "handle", "reply", "off"}, job : Nat]]
            /\ faults \in 0..MaxFaults
RelayOK == /\ remote \in [Remotes -> [asked : BOOLEAN, taken : BOOLEAN,
                                      answer : {"result", "error", Nothing}]]
           /\ jobs \in Seq(Remotes) /\ paired \in BOOLEAN
           /\ worker \in WorkerType
           /\ worker.pc \in {"call", "wait"} => worker.job \in Remotes

LEMMA ViewType ==
    ASSUME BrokerOK, NEW s \in Sessions,
           NEW pc \in {"new", "loop", "handle", "reply", "off"}, NEW job \in Nat, At(s, pc, job)
    PROVE  view' \in [Sessions -> [pc : {"new", "loop", "handle", "reply", "off"}, job : Nat]]
BY DEF BrokerOK, At

LEMMA BrokerTypes ==
    ASSUME TypeOK, Local
    PROVE  BrokerOK'
<1>0. BrokerOK BY DEF TypeOK, BrokerOK
<1>1. ASSUME NEW S PROVE Emptied(S) \in [Sessions -> Seq(Nat)]
  BY EmptySeq DEF TypeOK, Emptied
<1>2. /\ MaxFaults \in Nat
      /\ (faults < MaxFaults /\ faults' = faults + 1) \/ UNCHANGED faults => faults' \in 0..MaxFaults
  BY LimitAssumption DEF TypeOK
<1>3. CASE \E n \in DOMAIN task : Dispatch(n)
  <2>1. PICK n \in DOMAIN task : Dispatch(n) BY <1>3
  <2>2. n \in Nat BY Domain
  <2>3. queue' \in [Sessions -> Seq(Nat)]
    <3>1. CASE \E s \in Sessions : queue' = [Emptied(Gone) EXCEPT ![s] = Append(@, n)]
      <4>1. PICK s \in Sessions : queue' = [Emptied(Gone) EXCEPT ![s] = Append(@, n)] BY <3>1
      <4>2. Append(Emptied(Gone)[s], n) \in Seq(Nat) BY <1>1, <2>2, AppendProperties
      <4> QED BY <1>1, <4>1, <4>2
    <3>2. CASE queue' = Emptied(Gone) BY <1>1, <3>2
    <3> QED BY <2>1, <3>1, <3>2 DEF Dispatch
  <2>4. /\ windows' = windows \ stale /\ stale' = stale \ (windows \cap stale)
        /\ UNCHANGED <<deleted, view, faults>>
    BY <2>1 DEF Dispatch, Live, Gone
  <2> QED BY <1>0, <2>3, <2>4 DEF BrokerOK
<1>4. CASE \E n \in DOMAIN task : Resume(n)
  BY <1>0, <1>4 DEF Resume, BrokerOK
<1>5. CASE \E c \in Clients : DeleteConfiguration(c)
  BY <1>0, <1>5 DEF DeleteConfiguration, BrokerOK
<1>6. CASE \E s \in Sessions : Window(s)
  <2>0. PICK s \in Sessions : Window(s) BY <1>6
  <2>1. CASE Enable(s)
    <3>1. view' \in [Sessions -> [pc : {"new", "loop", "handle", "reply", "off"}, job : Nat]]
      BY <1>0, <2>1, ViewType DEF Enable
    <3> QED BY <1>0, <2>1, <3>1 DEF Enable, Touch, BrokerOK
  <2>2. CASE Heartbeat(s)
    BY <1>0, <1>2, <2>2 DEF Heartbeat, Touch, BrokerOK
  <2>3. CASE Poll(s)
    <3>1. CASE queue' = queue /\ view' = view
      BY <1>0, <1>2, <2>3, <3>1 DEF Poll, BrokerOK
    <3>2. CASE queue[s] # <<>> /\ queue' = [queue EXCEPT ![s] = Tail(@)]
      <4>1. Tail(queue[s]) \in Seq(Nat) /\ Head(queue[s]) \in Nat
        BY <1>0, <3>2, HeadTailProperties DEF BrokerOK
      <4>2. view' \in [Sessions -> [pc : {"new", "loop", "handle", "reply", "off"}, job : Nat]]
        <5>1. CASE At(s, "handle", Head(queue[s]))
          BY <1>0, <4>1, <5>1, ViewType
        <5>2. CASE UNCHANGED view BY <1>0, <5>2 DEF BrokerOK
        <5> QED BY <2>3, <3>2, <5>1, <5>2 DEF Poll
      <4>3. queue' \in [Sessions -> Seq(Nat)]
        BY <1>0, <3>2, <4>1 DEF BrokerOK
      <4> QED BY <1>0, <1>2, <2>3, <4>2, <4>3 DEF Poll, BrokerOK
    <3> QED BY <2>3, <3>1, <3>2 DEF Poll
  <2>4. CASE Handled(s) \/ Reply(s) \/ Close(s)
    <3>1. view[s].job \in Nat BY <1>0 DEF BrokerOK
    <3>2. view' \in [Sessions -> [pc : {"new", "loop", "handle", "reply", "off"}, job : Nat]]
      BY <1>0, <2>4, <3>1, ViewType DEF Handled, Reply, Close
    <3>3. UNCHANGED <<windows, stale, deleted, queue>> /\ faults' \in 0..MaxFaults
      BY <1>2, <2>4 DEF Handled, Reply, Close, broker
    <3> QED BY <1>0, <3>2, <3>3 DEF BrokerOK
  <2>5. CASE TurnOff(s)
    <3>1. view' \in [Sessions -> [pc : {"new", "loop", "handle", "reply", "off"}, job : Nat]]
      BY <1>0, <2>5, ViewType DEF TurnOff
    <3>2. queue' \in [Sessions -> Seq(Nat)] BY <1>1, <2>5 DEF TurnOff
    <3> QED BY <1>0, <2>5, <3>1, <3>2 DEF TurnOff, BrokerOK
  <2>6. CASE LeaseEnds(s)
    BY <1>0, <1>2, <2>6 DEF LeaseEnds, BrokerOK
  <2> QED BY <2>0, <2>1, <2>2, <2>3, <2>4, <2>5, <2>6 DEF Window
<1> QED BY <1>3, <1>4, <1>5, <1>6 DEF Local, Tasks

LEMMA CallTypes ==
    ASSUME TypeOK, NEW id, NEW c, Call(id, c) \/ Refuse(id, c)
    PROVE  BrokerOK'
<1>0. BrokerOK BY DEF TypeOK, BrokerOK
<1>1. Emptied(Gone) \in [Sessions -> Seq(Nat)]
  BY EmptySeq DEF TypeOK, Emptied
<1>2. CASE Expire /\ UNCHANGED <<deleted, view, faults>>
  BY <1>0, <1>1, <1>2 DEF Expire, Live, Gone, BrokerOK
<1>3. CASE UNCHANGED <<broker, view, faults>>
  BY <1>0, <1>3 DEF broker, BrokerOK
<1> QED BY <1>2, <1>3 DEF Call, Refuse

\* Taking a call out of the queue leaves the others, in their order.
LEMMA WithdrawnFacts ==
    ASSUME RelayOK, NEW q
    PROVE  /\ Withdrawn(q) \in Seq(Remotes)
           /\ \E f \in [DOMAIN Withdrawn(q) -> DOMAIN jobs] :
                 /\ \A i \in DOMAIN Withdrawn(q) : Withdrawn(q)[i] = jobs[f[i]]
                 /\ \A i, j \in DOMAIN Withdrawn(q) : f[i] = f[j] => i = j
<1>1. Len(jobs) \in Nat /\ DOMAIN jobs = 1..Len(jobs) /\ jobs \in Seq(Remotes)
  BY LenProperties DEF RelayOK
<1>2. CASE \E i \in DOMAIN jobs : jobs[i] = q
  <2> DEFINE k == CHOOSE i \in DOMAIN jobs : jobs[i] = q
  <2>1. k \in 1..Len(jobs) BY <1>1, <1>2
  <2>2. Withdrawn(q) = RemoveAt(jobs, k) BY <1>2 DEF Withdrawn
  <2> HIDE DEF k
  <2> DEFINE a == SubSeq(jobs, 1, k - 1)
             b == SubSeq(jobs, k + 1, Len(jobs))
             f == [i \in 1..(Len(jobs) - 1) |-> IF i < k THEN i ELSE i + 1]
  <2>3. Withdrawn(q) = a \o b BY <2>2 DEF RemoveAt
  <2>4. /\ a \in Seq(Remotes) /\ Len(a) = k - 1
        /\ \A i \in 1..(k - 1) : a[i] = jobs[i]
    BY <1>1, <2>1, SubSeqProperties, ElementOfSeq
  <2>5. /\ b \in Seq(Remotes) /\ Len(b) = Len(jobs) - k
        /\ \A i \in 1..(Len(jobs) - k) : b[i] = jobs[k + i]
    <3>1. \A i \in (k + 1)..Len(jobs) : jobs[i] \in Remotes
      BY <1>1, <2>1, ElementOfSeq
    <3>2. k \in Int /\ k + 1 \in Int /\ Len(jobs) \in Int /\ k <= Len(jobs) BY <1>1, <2>1
    <3>3. /\ b \in Seq(Remotes)
          /\ Len(b) = IF k + 1 <= Len(jobs) THEN Len(jobs) - (k + 1) + 1 ELSE 0
          /\ \A i \in 1..(Len(jobs) - (k + 1) + 1) : b[i] = jobs[(k + 1) + i - 1]
      BY <3>1, <3>2, SubSeqProperties
    <3> HIDE DEF b
    <3>4. Len(b) = Len(jobs) - k BY <3>2, <3>3
    <3>5. ASSUME NEW i \in 1..(Len(jobs) - k) PROVE b[i] = jobs[k + i]
      <4>1. i \in 1..(Len(jobs) - (k + 1) + 1) /\ (k + 1) + i - 1 = k + i BY <3>2
      <4> QED BY <3>3, <4>1
    <3> QED BY <3>3, <3>4, <3>5
  <2> HIDE DEF a, b
  <2>6. /\ a \o b \in Seq(Remotes) /\ Len(a \o b) = Len(jobs) - 1
        /\ \A i \in 1..(Len(jobs) - 1) : (a \o b)[i] = IF i < k THEN jobs[i] ELSE jobs[i + 1]
    <3>1. /\ a \o b \in Seq(Remotes) /\ Len(a \o b) = Len(a) + Len(b)
          /\ \A i \in 1..(Len(a) + Len(b)) : (a \o b)[i] = IF i <= Len(a) THEN a[i] ELSE b[i - Len(a)]
      BY <2>4, <2>5, ConcatProperties
    <3>2. Len(a) = k - 1 /\ Len(b) = Len(jobs) - k BY <2>4, <2>5
    <3>3. Len(a) + Len(b) = Len(jobs) - 1 BY <1>1, <2>1, <3>2
    <3>4. ASSUME NEW i \in 1..(Len(jobs) - 1)
          PROVE  (a \o b)[i] = IF i < k THEN jobs[i] ELSE jobs[i + 1]
      <4>1. CASE i < k
        <5>1. i <= Len(a) /\ i \in 1..(k - 1) BY <1>1, <2>1, <3>2, <4>1
        <5>2. (a \o b)[i] = a[i] BY <3>1, <3>3, <5>1
        <5> QED BY <2>4, <4>1, <5>1, <5>2
      <4>2. CASE ~(i < k)
        <5>1. ~(i <= Len(a)) /\ i - Len(a) \in 1..(Len(jobs) - k) /\ k + (i - Len(a)) = i + 1
          BY <1>1, <2>1, <3>2, <4>2
        <5>2. (a \o b)[i] = b[i - Len(a)] BY <3>1, <3>3, <5>1
        <5> QED BY <2>5, <4>2, <5>1, <5>2
      <4> QED BY <4>1, <4>2
    <3> QED BY <3>1, <3>3, <3>4
  <2>7. DOMAIN (a \o b) = 1..(Len(jobs) - 1)
    BY <2>6, LenProperties
  <2>8. /\ f \in [DOMAIN Withdrawn(q) -> DOMAIN jobs]
        /\ \A i \in DOMAIN Withdrawn(q) : Withdrawn(q)[i] = jobs[f[i]]
        /\ \A i, j \in DOMAIN Withdrawn(q) : f[i] = f[j] => i = j
    <3>1. DOMAIN Withdrawn(q) = 1..(Len(jobs) - 1) BY <2>3, <2>7
    <3>2. ASSUME NEW i \in 1..(Len(jobs) - 1)
          PROVE  f[i] \in 1..Len(jobs) /\ f[i] = IF i < k THEN i ELSE i + 1
      BY <1>1, <2>1
    <3>3. f \in [1..(Len(jobs) - 1) -> 1..Len(jobs)] BY <3>2
    <3>4. \A i \in 1..(Len(jobs) - 1) : Withdrawn(q)[i] = jobs[f[i]] BY <2>3, <2>6, <3>2
    <3> HIDE DEF f
    <3>5. \A i, j \in 1..(Len(jobs) - 1) : f[i] = f[j] => i = j BY <1>1, <2>1, <3>2
    <3> QED BY <1>1, <3>1, <3>3, <3>4, <3>5
  <2> QED BY <2>3, <2>6, <2>8
<1>3. CASE ~\E i \in DOMAIN jobs : jobs[i] = q
  <2>1. Withdrawn(q) = jobs BY <1>3 DEF Withdrawn
  <2> DEFINE f == [i \in DOMAIN jobs |-> i]
  <2>2. f \in [DOMAIN jobs -> DOMAIN jobs] OBVIOUS
  <2> QED BY <1>1, <2>1, <2>2
<1> QED BY <1>2, <1>3

LEMMA OutcomeTypes ==
    ASSUME RelayOK, NEW result \in {"result", "error"},
           worker.pc \in {"call", "wait"}, Outcome(worker.job, result), UNCHANGED <<remote, jobs, paired>>
    PROVE  RelayOK'
<1>1. /\ worker'.pc = "idle" /\ worker' \in WorkerType
  BY DEF RelayOK, Outcome, Idle, WorkerType
<1> QED BY <1>1 DEF RelayOK

LEMMA RelayTypes ==
    ASSUME TypeOK, Next
    PROVE  RelayOK'
<1>0. RelayOK BY DEF TypeOK, RelayOK
<1>1. CASE LocalCall \/ Local
  BY <1>0, <1>1 DEF LocalCall, Local, rvars, RelayOK
<1>2. CASE LocalPost
  <2>1. CASE worker' = [worker EXCEPT !.pc = "wait"]
    <3>1. worker' \in WorkerType /\ worker'.job = worker.job
      BY <1>0, <2>1 DEF RelayOK, WorkerType
    <3> QED BY <1>0, <1>2, <3>1 DEF LocalPost, RelayOK
  <2>2. CASE Outcome(worker.job, "error")
    BY <1>0, <1>2, <2>2, OutcomeTypes DEF LocalPost
  <2> QED BY <1>2, <2>1, <2>2 DEF LocalPost
<1>3. CASE LocalAnswer
  BY <1>0, <1>3, OutcomeTypes DEF LocalAnswer
<1>4. CASE LocalFails
  BY <1>0, <1>4, OutcomeTypes DEF LocalFails, Uncertain
<1>5. Idle(NoReply) \in WorkerType
      /\ [Idle(NoReply) EXCEPT !.pc = "stopped"] \in WorkerType
      /\ [Idle(NoReply) EXCEPT !.pc = "stopped"].pc = "stopped" /\ Idle(NoReply).pc = "idle"
  BY DEF Idle, NoReply, WorkerType
<1>6. ASSUME NEW lost, Take(lost) PROVE RelayOK'
  <2>1. Head(jobs) \in Remotes /\ Tail(jobs) \in Seq(Remotes)
    BY <1>0, <1>6, HeadTailProperties DEF Take, RelayOK
  <2>2. /\ [Idle(NoReply) EXCEPT !.pc = "call", !.job = Head(jobs)] \in WorkerType
        /\ [Idle(NoReply) EXCEPT !.pc = "call", !.job = Head(jobs)].job \in Remotes
    BY <2>1 DEF Idle, NoReply, WorkerType
  <2>3. remote' \in [Remotes -> [asked : BOOLEAN, taken : BOOLEAN,
                                 answer : {"result", "error", Nothing}]]
    BY <1>0, <1>6, <2>1 DEF Take, RelayOK
  <2>4. worker' \in WorkerType /\ (worker'.pc \in {"call", "wait"} => worker'.job \in Remotes)
    BY <1>0, <1>6, <2>2 DEF Take, RelayOK
  <2> QED BY <1>0, <1>6, <2>1, <2>3, <2>4 DEF Take, RelayOK
<1>7. ASSUME NEW lost, Deliver(lost) PROVE RelayOK'
  <2>1. worker.reply \in [id : Remotes, result : {"result", "error"}]
    BY <1>0, <1>7 DEF Deliver, RelayOK, WorkerType, NoReply
  <2>2. Received(worker.reply.id, worker.reply.result)
            \in [Remotes -> [asked : BOOLEAN, taken : BOOLEAN, answer : {"result", "error", Nothing}]]
    BY <1>0, <2>1 DEF Received, RelayOK
  <2>3. remote' \in [Remotes -> [asked : BOOLEAN, taken : BOOLEAN, answer : {"result", "error", Nothing}]]
    BY <1>0, <1>7, <2>2 DEF Deliver, RelayOK
  <2> QED BY <1>0, <1>5, <1>7, <2>3 DEF Deliver, RelayOK
<1>8. CASE Restart \/ Stop
  BY <1>0, <1>5, <1>8 DEF Restart, Stop, RelayOK
<1>9. ASSUME NEW q \in Remotes, Ask(q) PROVE RelayOK'
  <2>1. Append(jobs, q) \in Seq(Remotes) BY <1>0, AppendProperties DEF RelayOK
  <2>2. remote' \in [Remotes -> [asked : BOOLEAN, taken : BOOLEAN, answer : {"result", "error", Nothing}]]
    BY <1>0, <1>9 DEF Ask, RelayOK
  <2> QED BY <1>0, <1>9, <2>1, <2>2 DEF Ask, RelayOK
<1>10. ASSUME NEW q \in Remotes, GiveUp(q) PROVE RelayOK'
  <2>1. Withdrawn(q) \in Seq(Remotes)
    BY <1>0, WithdrawnFacts
  <2>2. remote' \in [Remotes -> [asked : BOOLEAN, taken : BOOLEAN, answer : {"result", "error", Nothing}]]
    BY <1>0, <1>10 DEF GiveUp, RelayOK
  <2> QED BY <1>0, <1>10, <2>1, <2>2 DEF GiveUp, RelayOK
<1>11. CASE Revoke
  <2>1. remote' \in [Remotes -> [asked : BOOLEAN, taken : BOOLEAN, answer : {"result", "error", Nothing}]]
    BY <1>0, <1>11 DEF Revoke, RelayOK
  <2> QED BY <1>0, <1>11, <2>1, EmptySeq DEF Revoke, RelayOK
<1> QED BY <1>1, <1>2, <1>3, <1>4, <1>6, <1>7, <1>8, <1>9, <1>10, <1>11 DEF Next, Losses, Service

-----------------------------------------------------------------------------
(* The way from outside.                                                    *)

\* A call that goes on keeps its id; a new one has the id it came with.
LEMMA KeptIds ==
    ASSUME TypeOK, RemoteInv, Kept
    PROVE  /\ \A q : Unknown(q) => Unknown(q)'
           /\ \A m, n \in DOMAIN task' : (task'[m].id \in Remotes /\ task'[m].id = task'[n].id) => m = n
<1>1. DOMAIN task' = DOMAIN task /\ \A n \in DOMAIN task : task'[n].id = task[n].id
  <2>1. DOMAIN task' = 1..Len(task')
    BY LenProperties DEF Kept
  <2> QED BY <2>1, Domain DEF Kept
<1> QED BY <1>1 DEF Unknown, RemoteInv

LEMMA GrownIds ==
    ASSUME TypeOK, CallInv, RemoteInv, NEW id \in AllIds, Grown(id),
           id \in Remotes => Unknown(id)
    PROVE  /\ \A q : Unknown(q) /\ q # id => Unknown(q)'
           /\ \A m, n \in DOMAIN task' : (task'[m].id \in Remotes /\ task'[m].id = task'[n].id) => m = n
<1> DEFINE new == Len(task) + 1
<1>1. /\ \A n \in DOMAIN task : task'[n].id = task[n].id
      /\ \A n \in DOMAIN task' : n \in DOMAIN task \/ n = new
      /\ task'[new].id = id
  BY GrownFacts
<1> HIDE DEF new
<1>2. ASSUME NEW m \in DOMAIN task', NEW n \in DOMAIN task',
             task'[m].id \in Remotes, task'[m].id = task'[n].id
      PROVE  m = n
  <2>1. CASE m \in DOMAIN task /\ n \in DOMAIN task
    BY <1>1, <1>2, <2>1 DEF RemoteInv
  <2>2. CASE m = new /\ n = new
    BY <2>2
  <2>3. CASE (m \in DOMAIN task /\ n = new) \/ (m = new /\ n \in DOMAIN task)
    BY <1>1, <1>2, <2>3 DEF Unknown
  <2> QED BY <1>1, <2>1, <2>2, <2>3
<1> QED BY <1>1, <1>2 DEF Unknown

\* What happens in the broker, or to the worker, when the queue stays as it is.
LEMMA QueueStays ==
    ASSUME TypeOK, RemoteInv, UNCHANGED <<remote, jobs>>, NEW ids,
           \A q \in ids \cap Remotes : worker.pc = "call" /\ worker.job = q /\ worker'.pc # "call",
           worker'.pc = "call" => worker' = worker,
           \A q : Unknown(q) /\ q \notin ids => Unknown(q)',
           \A m, n \in DOMAIN task' : (task'[m].id \in Remotes /\ task'[m].id = task'[n].id) => m = n
    PROVE  RemoteInv'
<1>1. \A q \in Remotes : q \in ids => remote[q].asked /\ \A i \in DOMAIN jobs : jobs[i] # q
  BY DEF RemoteInv, WithWorker
<1>2. \A i \in DOMAIN jobs : jobs[i] \in Remotes
  BY LenProperties, ElementOfSeq DEF TypeOK
<1>3. \A i \in DOMAIN jobs : /\ remote[jobs[i]].asked /\ Unknown(jobs[i])' /\ ~WithWorker(jobs[i])'
  BY <1>1, <1>2 DEF RemoteInv, WithWorker
<1>4. \A q \in Remotes : ~remote[q].asked => Unknown(q)' /\ ~WithWorker(q)'
  BY <1>1 DEF RemoteInv, WithWorker
<1>5. worker'.pc = "call" => Unknown(worker.job)' /\ worker'.job = worker.job
  <2> SUFFICES ASSUME worker'.pc = "call" PROVE Unknown(worker.job)' /\ worker'.job = worker.job
    OBVIOUS
  <2>1. worker' = worker OBVIOUS
  <2>2. worker.job \in Remotes /\ Unknown(worker.job) BY <2>1 DEF TypeOK, RemoteInv
  <2>3. worker.job \notin ids BY <2>1, <2>2
  <2>4. \A q : Unknown(q) /\ q \notin ids => Unknown(q)' OBVIOUS
  <2> QED BY <2>1, <2>2, <2>3, <2>4
<1> QED BY <1>3, <1>4, <1>5 DEF RemoteInv, Unknown, WithWorker

LEMMA RelaySteps ==
    ASSUME TypeOK, RemoteInv, task' = task, RelayOK',
           \/ \E q \in Remotes : Ask(q) \/ GiveUp(q)
           \/ \E lost \in BOOLEAN : Take(lost) \/ Deliver(lost)
           \/ Revoke \/ Stop \/ Restart
    PROVE  RemoteInv'
<1>0. /\ \A q : Unknown(q)' <=> Unknown(q)
      /\ \A m, n \in DOMAIN task' : (task'[m].id \in Remotes /\ task'[m].id = task'[n].id) => m = n
  BY DEF Unknown, RemoteInv
<1>1. /\ Len(jobs) \in Nat /\ DOMAIN jobs = 1..Len(jobs) /\ jobs \in Seq(Remotes)
      /\ Len(jobs') \in Nat /\ DOMAIN jobs' = 1..Len(jobs') /\ jobs' \in Seq(Remotes)
      /\ \A i \in DOMAIN jobs : jobs[i] \in Remotes
  BY LenProperties, ElementOfSeq DEF TypeOK, RelayOK
<1>2. \A i, j \in DOMAIN jobs : jobs[i] = jobs[j] => i = j
  BY DEF RemoteInv
<1>3. \A i \in DOMAIN jobs : remote[jobs[i]].asked /\ Unknown(jobs[i]) /\ ~WithWorker(jobs[i])
  BY DEF RemoteInv
<1>4. \A q \in Remotes : ~remote[q].asked => Unknown(q) /\ ~WithWorker(q)
  BY DEF RemoteInv
<1>5. ASSUME NEW q \in Remotes, Ask(q) PROVE RemoteInv'
  <2>1. /\ Len(jobs') = Len(jobs) + 1 /\ jobs'[Len(jobs) + 1] = q
        /\ \A i \in 1..Len(jobs) : jobs'[i] = jobs[i]
    BY <1>1, <1>5, AppendProperties DEF Ask
  <2>2. ~remote[q].asked /\ worker' = worker BY <1>5 DEF Ask
  <2>3. \A r \in Remotes : remote'[r].asked <=> r = q \/ remote[r].asked
    BY <1>5 DEF Ask, TypeOK
  <2>4. \A i \in 1..Len(jobs) : jobs[i] # q BY <1>1, <1>3, <2>2
  <2>5. \A i \in DOMAIN jobs' : i \in DOMAIN jobs \/ i = Len(jobs) + 1
    BY <1>1, <2>1
  <2>6. \A i, j \in DOMAIN jobs' : jobs'[i] = jobs'[j] => i = j
    BY <1>1, <1>2, <2>1, <2>4, <2>5
  <2>7. Unknown(q) /\ ~WithWorker(q) BY <1>4, <2>2
  <2>8. \A r : WithWorker(r)' <=> WithWorker(r) BY <2>2 DEF WithWorker
  <2>9. \A i \in DOMAIN jobs' : remote'[jobs'[i]].asked /\ Unknown(jobs'[i]) /\ ~(worker'.pc = "call" /\ worker'.job = jobs'[i])
    BY <1>1, <1>3, <2>1, <2>2, <2>3, <2>5, <2>7 DEF WithWorker
  <2>10. \A r \in Remotes : ~remote'[r].asked => Unknown(r)' /\ ~WithWorker(r)'
    BY <1>0, <1>4, <2>3, <2>8
  <2>11. worker'.pc = "call" => Unknown(worker'.job)
    BY <2>2 DEF RemoteInv
  <2> QED BY <1>0, <2>6, <2>9, <2>10, <2>11 DEF RemoteInv, Unknown, WithWorker
<1>6. ASSUME \A r \in Remotes : remote'[r].asked <=> remote[r].asked,
             \E f \in [DOMAIN jobs' -> DOMAIN jobs] :
                 /\ \A i \in DOMAIN jobs' : jobs'[i] = jobs[f[i]]
                 /\ \A i, j \in DOMAIN jobs' : f[i] = f[j] => i = j,
             worker'.pc = "call" => worker' = worker
      PROVE  RemoteInv'
  <2>1. PICK f \in [DOMAIN jobs' -> DOMAIN jobs] :
            /\ \A i \in DOMAIN jobs' : jobs'[i] = jobs[f[i]]
            /\ \A i, j \in DOMAIN jobs' : f[i] = f[j] => i = j
    BY <1>6
  <2>2. \A i \in DOMAIN jobs' : f[i] \in DOMAIN jobs BY <2>1
  <2>3. \A i, j \in DOMAIN jobs' : jobs'[i] = jobs'[j] => i = j BY <1>2, <2>1, <2>2
  <2>4. \A r : WithWorker(r)' => WithWorker(r) BY <1>6 DEF WithWorker
  <2>5. \A i \in DOMAIN jobs' : remote'[jobs'[i]].asked /\ Unknown(jobs'[i]) /\ ~(worker'.pc = "call" /\ worker'.job = jobs'[i])
    BY <1>1, <1>3, <1>6, <2>1, <2>2 DEF WithWorker
  <2>6. \A r \in Remotes : ~remote'[r].asked => Unknown(r)' /\ ~WithWorker(r)'
    BY <1>0, <1>4, <1>6, <2>4
  <2>7. worker'.pc = "call" => Unknown(worker'.job)
    BY <1>6 DEF RemoteInv
  <2> QED BY <1>0, <2>3, <2>5, <2>6, <2>7 DEF RemoteInv, Unknown, WithWorker
<1>7. ASSUME jobs' = jobs \/ jobs' = <<>>
      PROVE  \E f \in [DOMAIN jobs' -> DOMAIN jobs] :
                 /\ \A i \in DOMAIN jobs' : jobs'[i] = jobs[f[i]]
                 /\ \A i, j \in DOMAIN jobs' : f[i] = f[j] => i = j
  <2> DEFINE f == [i \in DOMAIN jobs' |-> i]
  <2>1. f \in [DOMAIN jobs' -> DOMAIN jobs]
    <3>1. CASE jobs' = jobs BY <3>1
    <3>2. CASE jobs' = <<>>
      <4>1. DOMAIN jobs' = {} BY <3>2
      <4> QED BY <4>1
    <3> QED BY <1>7, <3>1, <3>2
  <2>2. \A i \in DOMAIN jobs' : jobs'[i] = jobs[f[i]]
    <3>1. CASE jobs' = jobs BY <3>1
    <3>2. CASE jobs' = <<>>
      <4>1. DOMAIN jobs' = {} BY <3>2
      <4> QED BY <4>1
    <3> QED BY <1>7, <3>1, <3>2
  <2>3. \A i, j \in DOMAIN jobs' : f[i] = f[j] => i = j OBVIOUS
  <2> QED BY <2>1, <2>2, <2>3
<1>8. ASSUME NEW q \in Remotes, GiveUp(q) PROVE RemoteInv'
  <2>1. \A r \in Remotes : remote'[r].asked <=> remote[r].asked
    BY <1>8 DEF GiveUp, TypeOK
  <2>2. jobs' = Withdrawn(q) /\ RelayOK BY <1>8 DEF GiveUp, TypeOK, RelayOK
  <2>3. \E f \in [DOMAIN jobs' -> DOMAIN jobs] :
           /\ \A i \in DOMAIN jobs' : jobs'[i] = jobs[f[i]]
           /\ \A i, j \in DOMAIN jobs' : f[i] = f[j] => i = j
    BY <2>2, WithdrawnFacts
  <2>4. worker' = worker BY <1>8 DEF GiveUp
  <2> QED BY <1>6, <2>1, <2>3, <2>4
<1>9. CASE Revoke
  <2>1. \A r \in Remotes : remote'[r].asked <=> remote[r].asked
    BY <1>9 DEF Revoke, TypeOK
  <2>2. jobs' = <<>> /\ worker' = worker BY <1>9 DEF Revoke
  <2> QED BY <1>6, <1>7, <2>1, <2>2
<1>10. CASE Stop \/ Restart
  <2>1. remote' = remote /\ jobs' = jobs /\ worker'.pc # "call"
    BY <1>10 DEF Stop, Restart, Idle
  <2> QED BY <1>6, <1>7, <2>1
<1>11. ASSUME NEW lost, Deliver(lost) PROVE RemoteInv'
  <2>1. \A r \in Remotes : remote'[r].asked <=> remote[r].asked
    <3>1. worker.reply \in [id : Remotes, result : {"result", "error"}]
      BY <1>11 DEF Deliver, TypeOK, WorkerType, NoReply
    <3>2. remote' = remote \/ remote' = Received(worker.reply.id, worker.reply.result)
      BY <1>11 DEF Deliver
    <3>3. worker.reply.id \in Remotes BY <3>1
    <3>4. \A r \in Remotes : Received(worker.reply.id, worker.reply.result)[r].asked = remote[r].asked
      BY <3>3 DEF Received, TypeOK
    <3> QED BY <3>2, <3>4
  <2>2. jobs' = jobs /\ (worker' = worker \/ worker'.pc # "call")
    BY <1>11 DEF Deliver, Idle
  <2> QED BY <1>6, <1>7, <2>1, <2>2
<1>12. ASSUME NEW lost, Take(lost) PROVE RemoteInv'
  <2> DEFINE first == Head(jobs)
  <2>1. jobs # <<>> /\ jobs' = Tail(jobs) /\ worker.pc = "idle"
    BY <1>12 DEF Take, Idle
  <2>2. /\ first \in Remotes /\ first = jobs[1] /\ 1 \in DOMAIN jobs
        /\ Len(jobs') = Len(jobs) - 1 /\ \A i \in 1..Len(jobs') : jobs'[i] = jobs[i + 1]
    BY <1>1, <2>1, HeadTailProperties, EmptySeq
  <2>3. \A r \in Remotes : remote'[r].asked <=> remote[r].asked
    BY <1>12, <2>2 DEF Take, TypeOK
  <2>4. \A i \in DOMAIN jobs' : i + 1 \in DOMAIN jobs /\ i + 1 # 1
    BY <1>1, <2>2
  <2>5. \A i \in DOMAIN jobs' : jobs'[i] # first
    BY <1>1, <1>2, <2>2, <2>4
  <2>6. worker'.pc = "call" => worker'.job = first
    BY <1>12, <2>1 DEF Take, Idle, NoReply
  <2> HIDE DEF first
  <2>7. \A i, j \in DOMAIN jobs' : jobs'[i] = jobs'[j] => i = j
    <3> SUFFICES ASSUME NEW i \in DOMAIN jobs', NEW j \in DOMAIN jobs', jobs'[i] = jobs'[j]
                 PROVE  i = j
      OBVIOUS
    <3>1. i + 1 = j + 1 BY <1>1, <1>2, <2>2, <2>4
    <3> QED BY <1>1, <3>1
  <2>8. \A i \in DOMAIN jobs' : remote'[jobs'[i]].asked /\ Unknown(jobs'[i]) /\ ~(worker'.pc = "call" /\ worker'.job = jobs'[i])
    BY <1>1, <1>3, <2>2, <2>3, <2>4, <2>5, <2>6 DEF WithWorker
  <2>9. remote[first].asked /\ Unknown(first)
    BY <1>3, <2>2
  <2>10. \A r \in Remotes : ~remote'[r].asked => Unknown(r)' /\ ~WithWorker(r)'
    BY <1>0, <1>4, <2>3, <2>6, <2>9 DEF WithWorker
  <2>11. worker'.pc = "call" => Unknown(worker'.job)
    BY <2>6, <2>9
  <2> QED BY <1>0, <2>7, <2>8, <2>10, <2>11 DEF RemoteInv, Unknown, WithWorker
<1> QED BY <1>5, <1>8, <1>9, <1>10, <1>11, <1>12

-----------------------------------------------------------------------------
(* The theorems.                                                            *)

IInv == TypeOK /\ CallInv /\ RemoteInv

LEMMA InitInv == Init => IInv
<1> SUFFICES ASSUME Init PROVE IInv
  OBVIOUS
<1>1. /\ task = <<>> /\ calls = {} /\ jobs = <<>>
      /\ DOMAIN task = {} /\ DOMAIN jobs = {}
      /\ task \in Seq(TaskType) /\ jobs \in Seq(Remotes)
  BY EmptySeq DEF Init, InitBroker, InitRelay
<1>2. /\ queue \in [Sessions -> Seq(Nat)]
      /\ view \in [Sessions -> [pc : {"new", "loop", "handle", "reply", "off"}, job : Nat]]
      /\ remote \in [Remotes -> [asked : BOOLEAN, taken : BOOLEAN, answer : {"result", "error", Nothing}]]
  BY EmptySeq DEF Init, InitBroker, InitRelay
<1>3. worker \in WorkerType /\ worker.pc = "idle"
  BY DEF Init, InitRelay, Idle, NoReply, WorkerType
<1>4. faults = 0 /\ 0 \in 0..MaxFaults
  BY LimitAssumption DEF Init, InitBroker
<1>5. TypeOK
  BY <1>1, <1>2, <1>3, <1>4 DEF Init, InitBroker, InitRelay, TypeOK
<1>6. CallInv
  BY <1>1 DEF CallInv, NoOverlap
<1>7. RemoteInv
  BY <1>1, <1>3 DEF RemoteInv, Unknown, WithWorker
<1> QED BY <1>5, <1>6, <1>7 DEF IInv

LEMMA StepCalls ==
    ASSUME IInv, Next
    PROVE  CallsOK' /\ CallInv' /\ BrokerOK'
<1>0. TypeOK /\ CallInv /\ BrokerOK /\ RemoteInv BY DEF IInv, TypeOK, BrokerOK
<1>1. CASE LocalCall
  <2>1. PICK id \in Locals, c \in LocalClients : Call(id, c) \/ Refuse(id, c)
    BY <1>1 DEF LocalCall
  <2>2. id \in AllIds /\ c \in Clients BY ClientAssumption DEF AllIds
  <2> QED BY <1>0, <2>1, <2>2, CallTypes, CallSteps, RefuseKeeps, KeptCalls, GrownCalls
<1>2. CASE LocalPost
  <2>1. worker.job \in AllIds /\ RemoteClient \in Clients
    BY <1>0, <1>2, ClientAssumption DEF LocalPost, AllIds, TypeOK
  <2>2. Call(worker.job, RemoteClient) \/ Refuse(worker.job, RemoteClient)
    BY <1>2 DEF LocalPost
  <2> QED BY <1>0, <2>1, <2>2, CallTypes, CallSteps, RefuseKeeps, KeptCalls, GrownCalls
<1>3. CASE LocalAnswer \/ LocalFails \/ Losses \/ Service
  <2>1. UNCHANGED <<broker, view>> /\ ((faults < MaxFaults /\ faults' = faults + 1) \/ UNCHANGED faults)
    BY <1>3 DEF LocalAnswer, LocalFails, Losses, Service, bvars
  <2>2. Kept BY <1>0, <2>1, SameKept DEF broker
  <2>3. faults' \in 0..MaxFaults BY <1>0, <2>1, LimitAssumption DEF BrokerOK
  <2> QED BY <1>0, <2>1, <2>2, <2>3, KeptCalls DEF BrokerOK, broker
<1>4. CASE Local
  BY <1>0, <1>4, TasksKeep, WindowKeeps, DeleteKeeps, KeptCalls, BrokerTypes DEF Local, Tasks
<1> QED BY <1>1, <1>2, <1>3, <1>4 DEF Next

LEMMA StepRemote ==
    ASSUME IInv, Next
    PROVE  RemoteInv'
<1>0. TypeOK /\ CallInv /\ RemoteInv /\ RelayOK' BY RelayTypes DEF IInv
<1>1. CASE LocalCall
  <2>1. PICK id \in Locals, c \in LocalClients : Call(id, c) \/ Refuse(id, c)
    BY <1>1 DEF LocalCall
  <2>2. id \in AllIds /\ c \in Clients /\ id \notin Remotes BY ClientAssumption DEF AllIds
  <2>3. UNCHANGED <<remote, jobs>> /\ worker' = worker BY <1>1 DEF LocalCall, rvars
  <2>4. CASE Kept
    <3>1. \A q : Unknown(q) /\ q \notin {id} => Unknown(q)' BY <1>0, <2>4, KeptIds
    <3>2. \A q \in {id} \cap Remotes : worker.pc = "call" /\ worker.job = q /\ worker'.pc # "call"
      BY <2>2, <2>3
    <3>3. \A m, n \in DOMAIN task' : (task'[m].id \in Remotes /\ task'[m].id = task'[n].id) => m = n
      BY <1>0, <2>2, <2>3, <2>4, KeptIds
    <3>4. worker'.pc = "call" => worker' = worker BY <2>3
    <3> QED BY <1>0, <2>3, <3>1, <3>2, <3>3, <3>4, QueueStays
  <2>5. CASE Grown(id)
    <3>1. \A q : Unknown(q) /\ q \notin {id} => Unknown(q)' BY <1>0, <2>2, <2>5, GrownIds
    <3>2. \A q \in {id} \cap Remotes : worker.pc = "call" /\ worker.job = q /\ worker'.pc # "call"
      BY <2>2, <2>3
    <3>3. \A m, n \in DOMAIN task' : (task'[m].id \in Remotes /\ task'[m].id = task'[n].id) => m = n
      BY <1>0, <2>2, <2>3, <2>5, GrownIds
    <3>4. worker'.pc = "call" => worker' = worker BY <2>3
    <3> QED BY <1>0, <2>3, <3>1, <3>2, <3>3, <3>4, QueueStays
  <2> QED BY <1>0, <2>1, <2>2, <2>4, <2>5, CallSteps, RefuseKeeps
<1>2. CASE LocalPost
  <2> DEFINE id == worker.job
  <2>1. id \in Remotes /\ id \in AllIds /\ RemoteClient \in Clients /\ worker.pc = "call" /\ Unknown(id)
    BY <1>0, <1>2, ClientAssumption DEF LocalPost, AllIds, TypeOK, RemoteInv
  <2>2. UNCHANGED <<remote, jobs>> /\ worker'.pc # "call"
    BY <1>0, <1>2 DEF LocalPost, Outcome, Idle, TypeOK, WorkerType
  <2>3. Call(id, RemoteClient) \/ Refuse(id, RemoteClient) BY <1>2 DEF LocalPost
  <2>4. CASE Kept
    <3>1. \A q : Unknown(q) /\ q \notin {id} => Unknown(q)' BY <1>0, <2>4, KeptIds
    <3>2. \A q \in {id} \cap Remotes : worker.pc = "call" /\ worker.job = q /\ worker'.pc # "call"
      BY <2>1, <2>2
    <3>3. \A m, n \in DOMAIN task' : (task'[m].id \in Remotes /\ task'[m].id = task'[n].id) => m = n
      BY <1>0, <2>1, <2>2, <2>4, KeptIds
    <3>4. worker'.pc = "call" => worker' = worker BY <2>2
    <3> QED BY <1>0, <2>2, <3>1, <3>2, <3>3, <3>4, QueueStays
  <2>5. CASE Grown(id)
    <3>1. \A q : Unknown(q) /\ q \notin {id} => Unknown(q)' BY <1>0, <2>1, <2>5, GrownIds
    <3>2. \A q \in {id} \cap Remotes : worker.pc = "call" /\ worker.job = q /\ worker'.pc # "call"
      BY <2>1, <2>2
    <3>3. \A m, n \in DOMAIN task' : (task'[m].id \in Remotes /\ task'[m].id = task'[n].id) => m = n
      BY <1>0, <2>1, <2>2, <2>5, GrownIds
    <3>4. worker'.pc = "call" => worker' = worker BY <2>2
    <3> QED BY <1>0, <2>2, <3>1, <3>2, <3>3, <3>4, QueueStays
  <2> QED BY <1>0, <2>1, <2>3, <2>4, <2>5, CallSteps, RefuseKeeps
<1>3. CASE LocalAnswer \/ LocalFails
  <2>1. task' = task /\ calls' = calls /\ UNCHANGED <<remote, jobs>> /\ worker'.pc # "call"
    BY <1>3 DEF LocalAnswer, LocalFails, Uncertain, Outcome, Idle, bvars, broker
  <2>2. Kept BY <1>0, <2>1, SameKept
  <2>3. \A q : Unknown(q) /\ q \notin {} => Unknown(q)' BY <1>0, <2>2, KeptIds
  <2>4. \A q \in {} \cap Remotes : worker.pc = "call" /\ worker.job = q /\ worker'.pc # "call"
    OBVIOUS
  <2>5. \A m, n \in DOMAIN task' : (task'[m].id \in Remotes /\ task'[m].id = task'[n].id) => m = n
    BY <1>0, <2>2, KeptIds
  <2> QED BY <1>0, <2>1, <2>3, <2>4, <2>5, QueueStays
<1>4. CASE Losses \/ Service
  <2>1. task' = task BY <1>4 DEF Losses, Service, bvars, broker
  <2> QED BY <1>0, <1>4, <2>1, RelaySteps DEF Losses, Service
<1>5. CASE Local
  <2>1. UNCHANGED <<remote, jobs>> /\ worker' = worker BY <1>5 DEF Local, rvars
  <2>2. Kept BY <1>0, <1>5, TasksKeep, WindowKeeps, DeleteKeeps DEF Local, Tasks
  <2>3. \A q : Unknown(q) /\ q \notin {} => Unknown(q)' BY <1>0, <2>2, KeptIds
  <2>4. \A q \in {} \cap Remotes : worker.pc = "call" /\ worker.job = q /\ worker'.pc # "call"
    OBVIOUS
  <2>5. \A m, n \in DOMAIN task' : (task'[m].id \in Remotes /\ task'[m].id = task'[n].id) => m = n
    BY <1>0, <2>2, KeptIds
  <2> QED BY <1>0, <2>1, <2>3, <2>4, <2>5, QueueStays
<1> QED BY <1>1, <1>2, <1>3, <1>4, <1>5 DEF Next

LEMMA NextInv == IInv /\ [Next]_vars => IInv'
<1> SUFFICES ASSUME IInv, [Next]_vars PROVE IInv'
  OBVIOUS
<1>1. CASE Next
  <2>1. TypeOK'
    BY <1>1, StepCalls, RelayTypes DEF IInv, TypeOK, CallsOK, BrokerOK, RelayOK
  <2> QED BY <1>1, <2>1, StepCalls, StepRemote DEF IInv
<1>2. CASE UNCHANGED vars
  BY <1>2 DEF IInv, TypeOK, CallInv, RemoteInv, NoOverlap, Unknown, WithWorker, vars, bvars, broker, rvars
<1> QED BY <1>1, <1>2

\* The types are kept, a request is remembered once, and the worker is at a call
\* from outside while it passes one on or waits.
THEOREM TypeCorrect == Spec => []TypeOK
<1>1. IInv => TypeOK BY DEF IInv
<1> QED BY InitInv, NextInv, <1>1, PTL DEF Spec

\* A request is not handled again while its first call can still be answered.
THEOREM RetriesJoin == Spec => []NoOverlap
<1>1. IInv => NoOverlap BY DEF IInv, CallInv
<1> QED BY InitInv, NextInv, <1>1, PTL DEF Spec

\* A request from outside becomes at most one task of the broker, whatever is
\* lost, repeated, withdrawn or restarted.
THEOREM OnceFromOutside == Spec => []RemoteOnce
<1>1. IInv => RemoteOnce
  <2> SUFFICES ASSUME IInv, NEW q \in Remotes
               PROVE  Cardinality({n \in DOMAIN task : task[n].id = q}) <= 1
    BY DEF RemoteOnce
  <2> DEFINE S == {n \in DOMAIN task : task[n].id = q}
  <2>1. \A m, n \in S : m = n BY DEF IInv, RemoteInv
  <2> HIDE DEF S
  <2>2. CASE S = {}
    <3>1. Cardinality(S) = 0 BY <2>2, FS_EmptySet
    <3> QED BY <3>1 DEF S
  <2>3. CASE S # {}
    <3>1. PICK n \in S : TRUE BY <2>3
    <3>2. S = {n} BY <2>1, <3>1
    <3>3. Cardinality(S) = 1 BY <3>2, FS_Singleton
    <3> QED BY <3>3 DEF S
  <2> QED BY <2>2, <2>3
<1> QED BY InitInv, NextInv, <1>1, PTL DEF Spec

-----------------------------------------------------------------------------
(* Pairing.                                                                  *)

Users == Apps \cup {Nobody}
Kinds == {"device", "device_token", "pair", "client", "transaction", "csrf", "code", "access", "refresh"}
RecordType == [kind : Kinds, key : Nat, device : Nat, app : Users, deal : Nat]
JobType == [app : Users, device : Nat]
PairingTypeOK ==
    /\ records \subseteq RecordType /\ made \in Nat
    /\ desktop \in [device : Nat, code : Nat]
    /\ page \in [transaction : Nat, csrf : Nat, app : Users]
    /\ secrets \in [Apps -> SUBSET Nat]
    /\ queued \subseteq JobType /\ handed \subseteq JobType
    /\ agreed \subseteq [app : Users, device : Nat, deal : Nat]

\* Numbers are given once: whatever is known is of a number that was made, and a
\* device is its own subject.
MadeInv ==
    /\ \A r \in records : r.key \in 1 .. made /\ r.device <= made /\ r.deal <= made
    /\ \A r \in records : r.kind \in {"device", "device_token"} => r.device = r.key
    /\ \A r \in records : r.kind \in {"pair", "code", "access", "refresh"} => r.device >= 1
    /\ desktop.device <= made /\ desktop.code <= made /\ page.transaction <= made
    /\ revoked \subseteq 1 .. made /\ told \subseteq 1 .. made

\* The page names the application of its transaction, the desktop shows a code of its own.
ShownInv ==
    /\ \A r \in records : r.kind = "transaction" /\ r.key = page.transaction => r.app = page.app
    /\ \A r \in records : r.kind = "pair" /\ r.key = desktop.code => r.device = desktop.device
    /\ \A r, o \in records : r.kind = "transaction" /\ o.kind = "transaction" /\ r.key = o.key => r = o

\* A device that the user was told is revoked is not authorized again.
ToldInv == \A d \in told : ~Authorized(d)

QueuedInv == \A j \in queued : \E g \in agreed : g.app = j.app /\ g.device = j.device

PairingInv == PairingTypeOK /\ MadeInv /\ ShownInv /\ ToldInv /\ QueuedInv /\ Consented

LEMMA PairingStart == PairingInit => PairingInv
  BY DEF PairingInit, PairingInv, PairingTypeOK, MadeInv, ShownInv, ToldInv, QueuedInv, Consented,
         FromUser, NoneRevoked, OneGrant, OneCode, HandedToAgreed, Grants, NoDesktop, NoPage, Users, Authorized, Has

\* Steps that add no record and tell nobody anything.
Ending ==
    /\ records' \subseteq records /\ queued' \subseteq queued
    /\ UNCHANGED <<made, desktop, page, secrets, agreed, revoked, told, handed, late>>
LEMMA ActEnding == PairingInv /\ Ending => PairingInv'
<1> SUFFICES ASSUME PairingInv, Ending PROVE PairingInv' OBVIOUS
<1>0. PairingTypeOK /\ MadeInv /\ ShownInv /\ ToldInv /\ QueuedInv /\ Consented BY DEF PairingInv
<1>1. UNCHANGED <<made, desktop, page, secrets, agreed, revoked, told, handed, late>> BY DEF Ending
<1>2. \A r \in records' : r \in records BY DEF Ending
<1>3. \A j \in queued' : j \in queued BY DEF Ending
<1>t. PairingTypeOK' BY <1>0, <1>1, <1>2, <1>3 DEF PairingTypeOK
<1>m. MadeInv' BY <1>0, <1>1, <1>2 DEF MadeInv
<1>s. ShownInv' BY <1>0, <1>1, <1>2 DEF ShownInv
<1>u. ToldInv' BY <1>0, <1>1, <1>2 DEF ToldInv, Authorized, Has
<1>q. QueuedInv' BY <1>0, <1>1, <1>3 DEF QueuedInv
<1>c. Consented' BY <1>0, <1>1, <1>2 DEF Consented, FromUser, NoneRevoked, OneGrant, OneCode, HandedToAgreed, Grants
<1> QED BY <1>t, <1>m, <1>s, <1>u, <1>q, <1>c DEF PairingInv

LEMMA ActEndings ==
  ASSUME PairingInv,
         \/ ServiceRestarts \/ \E r \in records : Expires(r)
         \/ \E d \in 1 .. made : Asks(d) \/ PollEnds(d) \/ Silence(d)
         \/ \E j \in queued : Withdraw(j)
  PROVE  PairingInv'
<1>1. CASE ServiceRestarts BY <1>1, ActEnding DEF ServiceRestarts, Ending
<1>2. CASE \E r \in records : Expires(r) BY <1>2, ActEnding DEF Expires, Ending
<1>3. CASE \E d \in 1 .. made : Asks(d) \/ PollEnds(d) \/ Silence(d)
  BY <1>3, ActEnding DEF Asks, PollEnds, Silence, Still, Ending
<1>4. CASE \E j \in queued : Withdraw(j) BY <1>4, ActEnding DEF Withdraw, Still, Ending
<1> QED BY <1>1, <1>2, <1>3, <1>4

\* What is handed over is asked for by an application that the user agreed to, and
\* an authorized device is neither revoked nor was the user told so.
LEMMA ActHandOver == ASSUME PairingInv, NEW j \in queued, HandOver(j) PROVE PairingInv'
<1>0. PairingTypeOK /\ MadeInv /\ ShownInv /\ ToldInv /\ QueuedInv /\ Consented BY DEF PairingInv
<1>1. UNCHANGED <<records, made, desktop, page, secrets, agreed, revoked, told>> BY DEF HandOver, Still
<1>2. queued' \subseteq queued BY DEF HandOver
<1>3. handed' \in {handed, handed \cup {j}} /\ (handed' = handed => late' = late) /\ late' = {}
  <2>1. CASE ~MayHave(j.device) BY <2>1, <1>0 DEF HandOver, Consented
  <2>2. CASE MayHave(j.device)
    <3>1. PICK r \in records : r.kind = "device" /\ r.key = j.device BY <2>2 DEF MayHave, Authorized, Has
    <3>2. j.device \notin revoked BY <1>0, <3>1 DEF MadeInv, Consented, NoneRevoked
    <3>3. j.device \notin told BY <1>0, <2>2 DEF ToldInv, MayHave
    <3> QED BY <1>0, <2>2, <3>2, <3>3 DEF HandOver, Consented
  <2> QED BY <2>1, <2>2
<1>t. PairingTypeOK' BY <1>0, <1>1, <1>2, <1>3 DEF PairingTypeOK
<1>m. MadeInv' BY <1>0, <1>1 DEF MadeInv
<1>s. ShownInv' BY <1>0, <1>1 DEF ShownInv
<1>u. ToldInv' BY <1>0, <1>1 DEF ToldInv, Authorized, Has
<1>q. QueuedInv' BY <1>0, <1>1, <1>2 DEF QueuedInv
<1>c. Consented'
  <2>1. FromUser' /\ NoneRevoked' /\ OneGrant' /\ OneCode'
    BY <1>0, <1>1 DEF Consented, FromUser, NoneRevoked, OneGrant, OneCode, Grants
  <2>2. HandedToAgreed' BY <1>0, <1>1, <1>3 DEF Consented, HandedToAgreed, QueuedInv
  <2> QED BY <2>1, <2>2, <1>3 DEF Consented
<1> QED BY <1>t, <1>m, <1>s, <1>u, <1>q, <1>c DEF PairingInv

LEMMA ActRenew == PairingInv /\ Renew => PairingInv'
<1> SUFFICES ASSUME PairingInv, Renew PROVE PairingInv' OBVIOUS
<1> DEFINE n == OfDevice("pair", Fresh, desktop.device)
<1>0. PairingTypeOK /\ MadeInv /\ ShownInv /\ ToldInv /\ QueuedInv /\ Consented BY DEF PairingInv
<1>1. n.kind = "pair" /\ n.key = made + 1 /\ n.device = desktop.device /\ n.app = Nobody /\ n.deal = 0
  BY DEF OfDevice, Rec, Fresh
<1>2. records' \subseteq Unpaired(records, desktop.device) \cup {n}
  BY DEF Renew
<1>3. desktop.device \in Nat /\ desktop.device >= 1 /\ desktop.device \notin revoked
  <2>1. PICK r \in records : r.kind = "device" /\ r.key = desktop.device BY DEF Renew, Authorized, Has
  <2> QED BY <1>0, <2>1 DEF MadeInv, Consented, NoneRevoked, PairingTypeOK
<1>4. made' = made + 1 /\ desktop'.device = desktop.device /\ desktop'.code \in {desktop.code, made + 1}
  BY <1>0 DEF Renew, Makes, Fresh, PairingTypeOK
<1>5. UNCHANGED <<page, secrets, revoked, told, agreed, queued, handed, late>> BY DEF Renew, Elsewhere
<1>6. \A r \in records' : r \in Unpaired(records, desktop.device) \/ r = n BY <1>2
<1>9. n \in RecordType BY <1>0, <1>3 DEF RecordType, OfDevice, Rec, Users, Fresh, PairingTypeOK, Kinds
<1>8. desktop' \in [device : Nat, code : Nat] BY <1>0 DEF Renew, PairingTypeOK, Fresh
<1> HIDE DEF n
<1>7. \A r \in records' : r \in records \/ r = n BY <1>6 DEF Unpaired
<1>t. PairingTypeOK'
  BY <1>0, <1>1, <1>4, <1>5, <1>7, <1>8, <1>9 DEF PairingTypeOK
<1>m. MadeInv'
  BY <1>0, <1>1, <1>3, <1>4, <1>5, <1>7 DEF MadeInv, PairingTypeOK, RecordType
<1>s. ShownInv' 
  BY <1>0, <1>1, <1>3, <1>4, <1>5, <1>7 DEF ShownInv, PairingTypeOK, MadeInv, RecordType
<1>u. ToldInv' BY <1>0, <1>1, <1>5, <1>7 DEF ToldInv, Authorized, Has
<1>q. QueuedInv' BY <1>0, <1>5 DEF QueuedInv
<1>c. Consented' 
  <2>1. FromUser' /\ OneGrant' BY <1>0, <1>1, <1>5, <1>7 DEF Consented, FromUser, OneGrant, Grants
  <2>2. NoneRevoked' BY <1>0, <1>1, <1>3, <1>5, <1>7 DEF Consented, NoneRevoked
  <2>3. OneCode' BY <1>0, <1>1, <1>6 DEF Consented, OneCode, Unpaired
  <2>4. HandedToAgreed' BY <1>0, <1>5 DEF Consented, HandedToAgreed
  <2> QED BY <1>0, <1>5, <2>1, <2>2, <2>3, <2>4 DEF Consented
<1> QED BY <1>t, <1>m, <1>s, <1>u, <1>q, <1>c DEF PairingInv

LEMMA ActEnroll == ASSUME PairingInv, Enroll PROVE PairingInv'
<1> DEFINE n == OfDevice("pair", Fresh, Fresh)
           d == OfDevice("device", Fresh, Fresh)
           t == OfDevice("device_token", Fresh, Fresh)
<1>0. PairingTypeOK /\ MadeInv /\ ShownInv /\ ToldInv /\ QueuedInv /\ Consented BY DEF PairingInv
<1>1. \A r \in {n, d, t} : r.key = made + 1 /\ r.device = made + 1 /\ r.app = Nobody /\ r.deal = 0
  BY DEF OfDevice, Rec, Fresh
<1>2. n.kind = "pair" /\ d.kind = "device" /\ t.kind = "device_token" BY DEF OfDevice, Rec
<1>3. \A r \in records' : r \in records \/ r \in {n, d, t} BY DEF Enroll, Stored
<1>4. /\ made' = made + 1
      /\ \/ desktop' = desktop
         \/ desktop'.device = made + 1 /\ desktop'.code = made + 1
  BY <1>0 DEF Enroll, Makes, Fresh, PairingTypeOK
<1>5. UNCHANGED <<page, secrets, revoked, told, agreed, queued, handed, late>> BY DEF Enroll, Elsewhere
<1>8. desktop' \in [device : Nat, code : Nat] BY <1>0 DEF Enroll, PairingTypeOK, Fresh
<1>9. {n, d, t} \subseteq RecordType BY <1>0 DEF RecordType, OfDevice, Rec, Users, Fresh, PairingTypeOK, Kinds
<1> HIDE DEF n, d, t
<1>t. PairingTypeOK' BY <1>0, <1>4, <1>5, <1>3, <1>8, <1>9 DEF PairingTypeOK
<1>m. MadeInv'
  BY <1>0, <1>1, <1>2, <1>3, <1>4, <1>5 DEF MadeInv, PairingTypeOK, RecordType
<1>s. ShownInv' 
  BY <1>0, <1>1, <1>2, <1>3, <1>4, <1>5 DEF ShownInv, PairingTypeOK, MadeInv, RecordType
<1>u. ToldInv'
  <2> SUFFICES ASSUME NEW x \in told, Authorized(x)' PROVE FALSE BY <1>5 DEF ToldInv
  <2>1. x # made + 1 /\ x \in Nat BY <1>0 DEF MadeInv, PairingTypeOK
  <2>2. Authorized(x) BY <1>1, <1>2, <1>3, <2>1 DEF Authorized, Has
  <2> QED BY <1>0, <2>2 DEF ToldInv
<1>q. QueuedInv' BY <1>0, <1>5 DEF QueuedInv
<1>c. Consented' 
  <2>1. FromUser' /\ OneGrant' BY <1>0, <1>1, <1>2, <1>3, <1>5 DEF Consented, FromUser, OneGrant, Grants
  <2>2. NoneRevoked' BY <1>0, <1>1, <1>3, <1>5 DEF Consented, NoneRevoked, MadeInv, PairingTypeOK
  <2>3. OneCode' BY <1>0, <1>1, <1>2, <1>3 DEF Consented, OneCode, MadeInv, PairingTypeOK, RecordType
  <2>4. HandedToAgreed' BY <1>0, <1>5 DEF Consented, HandedToAgreed
  <2> QED BY <1>0, <1>5, <2>1, <2>2, <2>3, <2>4 DEF Consented
<1> QED BY <1>t, <1>m, <1>s, <1>u, <1>q, <1>c DEF PairingInv

\* The records of a device go: a revocation by the desktop, told or not, or by an application.
Leaving(d) ==
    /\ records' = Without(d) /\ revoked' = revoked \cup {d}
    /\ queued' \subseteq queued
    /\ \/ UNCHANGED <<desktop, told>>
       \/ desktop' = NoDesktop /\ told' = told \cup {d}
    /\ UNCHANGED <<made, page, secrets, agreed, handed, late>>
LEMMA ActLeaving == ASSUME PairingInv, NEW d \in 1 .. made, Leaving(d) PROVE PairingInv'
<1>0. PairingTypeOK /\ MadeInv /\ ShownInv /\ ToldInv /\ QueuedInv /\ Consented BY DEF PairingInv
<1>1. UNCHANGED <<made, page, secrets, agreed, handed, late>> BY DEF Leaving
<1>2. \A r \in records' : r \in records /\ r.device # d BY DEF Leaving, Without
<1>3. \A j \in queued' : j \in queued BY DEF Leaving
<1>4. desktop' \in {desktop, NoDesktop} /\ told' \subseteq told \cup {d} /\ revoked' = revoked \cup {d} BY DEF Leaving
<1>t. PairingTypeOK' BY <1>0, <1>1, <1>2, <1>3, <1>4 DEF PairingTypeOK, NoDesktop
<1>m. MadeInv' BY <1>0, <1>1, <1>2, <1>4 DEF MadeInv, PairingTypeOK, NoDesktop
<1>s. ShownInv' BY <1>0, <1>1, <1>2, <1>4 DEF ShownInv, NoDesktop, MadeInv, PairingTypeOK
<1>u. ToldInv' BY <1>0, <1>2, <1>4 DEF ToldInv, Authorized, Has, MadeInv
<1>q. QueuedInv' BY <1>0, <1>1, <1>3 DEF QueuedInv
<1>c. Consented' BY <1>0, <1>1, <1>2, <1>4 DEF Consented, FromUser, NoneRevoked, OneGrant, OneCode, HandedToAgreed, Grants
<1> QED BY <1>t, <1>m, <1>s, <1>u, <1>q, <1>c DEF PairingInv

LEMMA ActRevokeToken == ASSUME PairingInv, NEW a \in Apps, NEW s, RevokeToken(a, s) PROVE PairingInv'
<1>1. PICK r \in Lookup("access", s) \cup Lookup("refresh", s) :
         records' = Without(r.device) /\ revoked' = revoked \cup {r.device}
  BY DEF RevokeToken
<1>2. r \in records /\ r.kind \in {"access", "refresh"} BY DEF Lookup
<1>3. r.device \in 1 .. made BY <1>2 DEF PairingInv, PairingTypeOK, MadeInv, RecordType
<1>4. Leaving(r.device) BY <1>1 DEF RevokeToken, Leaving, AppStep
<1> QED BY <1>3, <1>4, ActLeaving

LEMMA ActDisconnect == ASSUME PairingInv, Disconnect PROVE PairingInv'
<1>0. PairingTypeOK /\ MadeInv /\ ShownInv /\ ToldInv /\ QueuedInv /\ Consented BY DEF PairingInv
<1>d. desktop.device \in 1 .. made BY <1>0 DEF Disconnect, MadeInv, PairingTypeOK
<1>1. CASE Authorized(desktop.device)
  <2>1. Leaving(desktop.device) BY <1>1 DEF Disconnect, Leaving, Elsewhere
  <2> QED BY <1>d, <2>1, ActLeaving
<1>2. CASE ~Authorized(desktop.device)
  <2>1. UNCHANGED <<records, made, page, secrets, agreed, revoked, queued, handed, late>>
    BY <1>2 DEF Disconnect, Elsewhere
  <2>2. desktop' \in {desktop, NoDesktop} /\ told' \subseteq told \cup {desktop.device}
    BY DEF Disconnect
  <2>t. PairingTypeOK' BY <1>0, <2>1, <2>2 DEF PairingTypeOK, NoDesktop
  <2>m. MadeInv' BY <1>0, <1>d, <2>1, <2>2 DEF MadeInv, PairingTypeOK, NoDesktop
  <2>s. ShownInv' BY <1>0, <2>1, <2>2 DEF ShownInv, NoDesktop, MadeInv, PairingTypeOK
  <2>u. ToldInv' BY <1>0, <1>2, <2>1, <2>2 DEF ToldInv, Authorized, Has
  <2>q. QueuedInv' BY <1>0, <2>1 DEF QueuedInv
  <2>c. Consented' BY <1>0, <2>1 DEF Consented, FromUser, NoneRevoked, OneGrant, OneCode, HandedToAgreed, Grants
  <2> QED BY <2>t, <2>m, <2>s, <2>u, <2>q, <2>c DEF PairingInv
<1> QED BY <1>1, <1>2

\* A record of an application, and perhaps the page of a transaction.
Applying(r) ==
    /\ records' \in {records, records \cup {r}}
    /\ made' = Fresh
    /\ UNCHANGED <<desktop, secrets, agreed, revoked, told, queued, handed, late>>
LEMMA ActApplying ==
  ASSUME PairingInv, NEW kind \in {"client", "transaction", "csrf"}, NEW a \in Users,
         Applying(OfApp(kind, Fresh, a)),
         page' \in [transaction : Nat, csrf : Nat, app : Users],
         \/ page' = page
         \/ \E tx \in records : /\ tx.kind = "transaction"
                                /\ page'.transaction = tx.key /\ page'.app = tx.app
  PROVE  PairingInv'
<1> DEFINE n == OfApp(kind, Fresh, a)
<1>0. PairingTypeOK /\ MadeInv /\ ShownInv /\ ToldInv /\ QueuedInv /\ Consented BY DEF PairingInv
<1>1. n.kind = kind /\ n.key = made + 1 /\ n.device = 0 /\ n.app = a /\ n.deal = 0
  BY DEF OfApp, Rec, Fresh
<1>3. \A r \in records' : r \in records \/ r = n BY DEF Applying
<1>4. made' = made + 1 BY DEF Applying, Fresh
<1>5. UNCHANGED <<desktop, secrets, agreed, revoked, told, queued, handed, late>> BY DEF Applying
<1>9. n \in RecordType BY <1>0 DEF RecordType, OfApp, Rec, Users, Fresh, PairingTypeOK, Kinds
<1> HIDE DEF n
<1>t. PairingTypeOK' BY <1>0, <1>3, <1>4, <1>5, <1>9 DEF PairingTypeOK
<1>m. MadeInv'
  <2>1. page'.transaction <= made BY <1>0 DEF MadeInv, PairingTypeOK
  <2> QED BY <1>0, <1>1, <1>3, <1>4, <1>5, <2>1 DEF MadeInv, PairingTypeOK, RecordType
<1>s. ShownInv'
  BY <1>0, <1>1, <1>3, <1>4, <1>5 DEF ShownInv, PairingTypeOK, MadeInv, RecordType
<1>u. ToldInv' BY <1>0, <1>1, <1>3, <1>5 DEF ToldInv, Authorized, Has
<1>q. QueuedInv' BY <1>0, <1>5 DEF QueuedInv
<1>c. Consented'
  BY <1>0, <1>1, <1>3, <1>5 DEF Consented, FromUser, NoneRevoked, OneGrant, OneCode, HandedToAgreed, Grants,
       MadeInv, PairingTypeOK
<1> QED BY <1>t, <1>m, <1>s, <1>u, <1>q, <1>c DEF PairingInv

LEMMA ActApplication ==
  ASSUME PairingInv, Consent \/ \E a \in Apps : Register(a) \/ Authorize(a) PROVE PairingInv'
<1>0. PairingTypeOK /\ MadeInv BY DEF PairingInv
<1>1. ASSUME NEW a \in Apps, Register(a) PROVE PairingInv'
  <2>1. Applying(OfApp("client", Fresh, a)) BY <1>1 DEF Register, Adds, AppStep, Makes, Applying
  <2>2. page' = page /\ page' \in [transaction : Nat, csrf : Nat, app : Users] /\ a \in Users
    BY <1>0, <1>1 DEF Register, PairingTypeOK, Users
  <2> QED BY <2>1, <2>2, ActApplying
<1>2. ASSUME NEW a \in Apps, Authorize(a) PROVE PairingInv'
  <2>1. Applying(OfApp("transaction", Fresh, a)) BY <1>2 DEF Authorize, Adds, AppStep, Makes, Applying
  <2>2. page' = page /\ page' \in [transaction : Nat, csrf : Nat, app : Users] /\ a \in Users
    BY <1>0, <1>2 DEF Authorize, PairingTypeOK, Users
  <2> QED BY <2>1, <2>2, ActApplying
<1>3. ASSUME Consent PROVE PairingInv'
  <2>0. PICK tx \in records :
          /\ tx.kind = "transaction" /\ Makes /\ Adds(OfApp("csrf", Fresh, Nobody))
          /\ page' = IF Fits(records, 1) THEN [transaction |-> tx.key, csrf |-> Fresh, app |-> tx.app]
                     ELSE page
    BY <1>3 DEF Consent
  <2>1. Applying(OfApp("csrf", Fresh, Nobody)) BY <1>3, <2>0 DEF Consent, Adds, AppStep, Makes, Applying
  <2>2. tx \in RecordType /\ Fresh \in Nat BY <1>0 DEF PairingTypeOK, Fresh
  <2>3. page' \in [transaction : Nat, csrf : Nat, app : Users] BY <1>0, <2>0, <2>2 DEF PairingTypeOK, RecordType
  <2>4. page' = page \/ (page'.transaction = tx.key /\ page'.app = tx.app) BY <2>0
  <2> QED BY <2>0, <2>1, <2>3, <2>4, ActApplying DEF Users
<1> QED BY <1>1, <1>2, <1>3

\* The user agreed to the application on the page and to the computer of the code,
\* and these are the ones that the records name.
LEMMA ActApprove == ASSUME PairingInv, Approve PROVE PairingInv'
<1>0. PairingTypeOK /\ MadeInv /\ ShownInv /\ ToldInv /\ QueuedInv /\ Consented BY DEF PairingInv
<1>p. PICK tx \in Lookup("transaction", page.transaction), p \in Lookup("pair", desktop.code) :
         /\ Has("device", p.device) /\ Makes
         /\ records' = Approved(p.device, desktop.code, tx)
         /\ \/ secrets' = [secrets EXCEPT ![tx.app] = @ \cup {Fresh}] /\ UNCHANGED missed
            \/ Missed /\ UNCHANGED secrets
  BY DEF Approve
<1> DEFINE d == Rec("device", p.device, p.device, Nobody, Fresh)
           c == Rec("code", Fresh, p.device, tx.app, Fresh)
           g == [app |-> page.app, device |-> desktop.device, deal |-> Fresh]
<1>1. /\ d.kind = "device" /\ d.key = p.device /\ d.device = p.device /\ d.deal = made + 1
      /\ c.kind = "code" /\ c.key = made + 1 /\ c.device = p.device /\ c.app = tx.app /\ c.deal = made + 1
  BY DEF Rec, Fresh
<1>2. /\ tx \in records /\ p \in records /\ tx.app = page.app /\ p.device = desktop.device
      /\ p.device \in 1 .. made /\ p.device \notin revoked /\ tx.app \in Users
  BY <1>0 DEF Lookup, ShownInv, MadeInv, Consented, NoneRevoked, PairingTypeOK, RecordType
<1>3. \A r \in records' : r \in records \/ r \in {d, c} BY <1>p DEF Approved
<1>4. made' = made + 1 /\ made' \in Nat /\ page' = NoPage BY <1>0, <1>p DEF Approve, Makes, Fresh, PairingTypeOK
<1>5. UNCHANGED <<desktop, revoked, told, queued, handed, late>> BY DEF Approve, AppStep
<1>6. agreed' = agreed \cup {g} BY DEF Approve
<1>7. g.app = page.app /\ g.device = desktop.device /\ g.deal = made + 1 BY DEF Fresh
<1>9. {d, c} \subseteq RecordType BY <1>0, <1>2 DEF RecordType, Rec, Users, Fresh, PairingTypeOK, Kinds
<1>8. secrets' \in [Apps -> SUBSET Nat] BY <1>0, <1>p DEF PairingTypeOK, Fresh
<1>g. g \in [app : Users, device : Nat, deal : Nat] BY <1>0 DEF PairingTypeOK, Fresh
<1>c. [app |-> c.app, device |-> c.device, deal |-> c.deal] = g BY <1>1, <1>2 DEF Fresh
<1> HIDE DEF d, c, g
<1>t. PairingTypeOK'
  <2>1. page' \in [transaction : Nat, csrf : Nat, app : Users] BY <1>4 DEF NoPage, Users
  <2> QED BY <1>0, <1>3, <1>4, <1>5, <1>6, <1>8, <1>9, <1>g, <2>1 DEF PairingTypeOK
<1>m. MadeInv'
  <2>1. page'.transaction = 0 BY <1>4 DEF NoPage
  <2> QED BY <1>0, <1>1, <1>2, <1>3, <1>4, <1>5, <2>1 DEF MadeInv, PairingTypeOK, RecordType
<1>s. ShownInv'
  <2>1. page'.transaction = 0 BY <1>4 DEF NoPage
  <2> QED BY <1>0, <1>1, <1>3, <1>4, <1>5, <2>1 DEF ShownInv, PairingTypeOK, MadeInv, RecordType
<1>u. ToldInv'
  <2> SUFFICES ASSUME NEW x \in told, Authorized(x)' PROVE FALSE BY <1>5 DEF ToldInv
  <2>1. Authorized(x) BY <1>1, <1>3, <1>p DEF Authorized, Has
  <2> QED BY <1>0, <2>1 DEF ToldInv
<1>q. QueuedInv' BY <1>0, <1>5, <1>6 DEF QueuedInv
<1>z. Consented'
  <2>1. FromUser' BY <1>0, <1>1, <1>3, <1>6, <1>c DEF Consented, FromUser, Grants
  <2>2. OneGrant' BY <1>0, <1>1, <1>3 DEF Consented, OneGrant, Grants, MadeInv, PairingTypeOK, RecordType
  <2>3. NoneRevoked' BY <1>0, <1>1, <1>2, <1>3, <1>5 DEF Consented, NoneRevoked
  <2>4. OneCode' BY <1>0, <1>1, <1>3 DEF Consented, OneCode
  <2>5. HandedToAgreed' BY <1>0, <1>5, <1>6 DEF Consented, HandedToAgreed
  <2> QED BY <1>0, <1>5, <2>1, <2>2, <2>3, <2>4, <2>5 DEF Consented
<1> QED BY <1>t, <1>m, <1>s, <1>u, <1>q, <1>z DEF PairingInv

\* What is exchanged goes; what is issued is for the same application, device and approval.
LEMMA ActExchange == ASSUME PairingInv, NEW a \in Apps, NEW s, Exchange(a, s) PROVE PairingInv'
<1>0. PairingTypeOK /\ MadeInv /\ ShownInv /\ ToldInv /\ QueuedInv /\ Consented BY DEF PairingInv
<1>p. PICK r \in Lookup("code", s) \cup Lookup("refresh", s) :
         /\ Makes /\ records' = Issued(r)
         /\ \/ secrets' = [secrets EXCEPT ![a] = (@ \ {s}) \cup {Fresh}]
            \/ UNCHANGED secrets
  BY DEF Exchange
<1> DEFINE x == Grant("access", Fresh, r)
           f == Grant("refresh", Fresh, r)
<1>1. \A o \in {x, f} : o.key = made + 1 /\ o.device = r.device /\ o.app = r.app /\ o.deal = r.deal
  BY DEF Grant, Rec, Fresh
<1>2. x.kind = "access" /\ f.kind = "refresh" BY DEF Grant, Rec
<1>r. r \in records /\ r \in RecordType /\ r \in Grants /\ r.kind # "access" /\ r.device \in 1 .. made
  BY <1>0 DEF Lookup, PairingTypeOK, Grants, MadeInv, RecordType
<1>3. \A o \in records' : (o \in records /\ o # r) \/ o \in {x, f} BY <1>p DEF Issued, Stored, Consumed
<1>4. made' = made + 1 /\ made' \in Nat BY <1>0, <1>p DEF Makes, Fresh, PairingTypeOK
<1>5. UNCHANGED <<desktop, page, revoked, told, agreed, queued, handed, late>> BY DEF Exchange, AppStep
<1>9. {x, f} \subseteq RecordType BY <1>0, <1>r DEF RecordType, Grant, Rec, Fresh, PairingTypeOK, Kinds
<1>8. secrets' \in [Apps -> SUBSET Nat] BY <1>0, <1>p DEF PairingTypeOK, Fresh
<1> HIDE DEF x, f
<1>t. PairingTypeOK' BY <1>0, <1>3, <1>4, <1>5, <1>8, <1>9 DEF PairingTypeOK
<1>m. MadeInv' BY <1>0, <1>1, <1>2, <1>r, <1>3, <1>4, <1>5 DEF MadeInv, PairingTypeOK, RecordType
<1>s. ShownInv' BY <1>0, <1>1, <1>2, <1>3, <1>5 DEF ShownInv
<1>u. ToldInv' BY <1>0, <1>1, <1>2, <1>3, <1>5 DEF ToldInv, Authorized, Has
<1>q. QueuedInv' BY <1>0, <1>5 DEF QueuedInv
<1>z. Consented'
  <2>1. FromUser' BY <1>0, <1>1, <1>r, <1>3, <1>5 DEF Consented, FromUser, Grants
  <2>2. OneGrant' BY <1>0, <1>1, <1>2, <1>r, <1>3 DEF Consented, OneGrant, Grants
  <2>3. NoneRevoked' BY <1>0, <1>1, <1>r, <1>3, <1>5 DEF Consented, NoneRevoked
  <2>4. OneCode' BY <1>0, <1>1, <1>2, <1>3 DEF Consented, OneCode
  <2>5. HandedToAgreed' BY <1>0, <1>5 DEF Consented, HandedToAgreed
  <2> QED BY <1>0, <1>5, <2>1, <2>2, <2>3, <2>4, <2>5 DEF Consented
<1> QED BY <1>t, <1>m, <1>s, <1>u, <1>q, <1>z DEF PairingInv

LEMMA ActCalls == ASSUME PairingInv, NEW a \in Apps, NEW s, Calls(a, s) PROVE PairingInv'
<1>0. PairingTypeOK /\ MadeInv /\ ShownInv /\ ToldInv /\ QueuedInv /\ Consented BY DEF PairingInv
<1>p. PICK r \in Lookup("access", s) :
         r.app = a /\ queued' = queued \cup {[app |-> a, device |-> r.device]}
  BY DEF Calls
<1>5. UNCHANGED <<records, made, desktop, page, secrets, revoked, told, agreed, handed, late>> BY DEF Calls, AppStep
<1>r. r \in Grants /\ r \in RecordType BY <1>0 DEF Lookup, PairingTypeOK, Grants
<1>1. [app |-> r.app, device |-> r.device, deal |-> r.deal] \in agreed BY <1>0, <1>r DEF Consented, FromUser
<1>2. \E g \in agreed : g.app = a /\ g.device = r.device
  <2> DEFINE g == [app |-> r.app, device |-> r.device, deal |-> r.deal]
  <2>1. g.app = a /\ g.device = r.device BY <1>p
  <2> QED BY <1>1, <2>1
<1>t. PairingTypeOK'
  <2>1. [app |-> a, device |-> r.device] \in JobType BY <1>r DEF JobType, RecordType, Users
  <2> QED BY <1>0, <1>p, <1>5, <2>1 DEF PairingTypeOK
<1>m. MadeInv' BY <1>0, <1>5 DEF MadeInv
<1>s. ShownInv' BY <1>0, <1>5 DEF ShownInv
<1>u. ToldInv' BY <1>0, <1>5 DEF ToldInv, Authorized, Has
<1>q. QueuedInv' BY <1>0, <1>p, <1>2, <1>5 DEF QueuedInv
<1>z. Consented' BY <1>0, <1>5 DEF Consented, FromUser, NoneRevoked, OneGrant, OneCode, HandedToAgreed, Grants
<1> QED BY <1>t, <1>m, <1>s, <1>u, <1>q, <1>z DEF PairingInv

LEMMA PairingStep == PairingInv /\ [PairingNext]_pvars => PairingInv'
<1> SUFFICES ASSUME PairingInv, [PairingNext]_pvars PROVE PairingInv' OBVIOUS
<1>1. CASE UNCHANGED pvars BY <1>1, ActEnding DEF pvars, Ending
<1>2. CASE Renew BY <1>2, ActRenew
<1>3. CASE Enroll BY <1>3, ActEnroll
<1>4. CASE Disconnect BY <1>4, ActDisconnect
<1>5. CASE Consent \/ \E a \in Apps : Register(a) \/ Authorize(a) BY <1>5, ActApplication
<1>6. CASE Approve BY <1>6, ActApprove
<1>7. CASE \/ ServiceRestarts \/ \E r \in records : Expires(r)
           \/ \E d \in 1 .. made : Asks(d) \/ PollEnds(d) \/ Silence(d)
           \/ \E j \in queued : Withdraw(j)
  BY <1>7, ActEndings
<1>8. CASE \E j \in queued : HandOver(j) BY <1>8, ActHandOver
<1>9. CASE \E a \in Apps : \E s \in secrets[a] : Exchange(a, s) \/ Calls(a, s) \/ RevokeToken(a, s)
  BY <1>9, ActExchange, ActCalls, ActRevokeToken
<1> QED BY <1>1, <1>2, <1>3, <1>4, <1>5, <1>6, <1>7, <1>8, <1>9 DEF PairingNext

\* An application reaches the computer that the user agreed to, by one grant at a
\* time, and until that is revoked (connection_service.py).
THEOREM OnlyAgreed == PairingSpec => []Consented
<1>1. PairingInv => Consented BY DEF PairingInv
<1> QED BY PairingStart, PairingStep, <1>1, PTL DEF PairingSpec
=============================================================================
