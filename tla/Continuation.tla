---------------------------- MODULE Continuation ----------------------------
(* AI continuation of a transcript in batches that survive a crash: the     *)
(* tasks of frontend/src/lib/incrementalContinuation.ts with their journals *)
(* on disk, the owners that carry out calls for one version each            *)
(* (projectAIConnector.ts, projectConnectorHost.ts), the saves in the       *)
(* background and in the editor, and the user.  One recording.              *)
(*                                                                          *)
(* A call is an action; only a save is several, since everything may happen *)
(* between its reading, its writes and its answer.  An owner carries out    *)
(* one call after the other.  A window handles one call of its clients at a *)
(* time; calls of the window itself come in between.                        *)
EXTENDS EditLease, TLC

CONSTANTS Versions, Existing, ReadOnly,
          Segments, Modes,
          Ops,          \* what a client asks for
          Kinds,        \* what a client does with a batch: edit, same, delete
          MaxOwners, MaxBatches,
          Events,       \* what may happen once: a fault, a crash, an edit, ...
          MaxEvents

ASSUME SetAssumption == /\ Versions \subseteq Nat \ {0} /\ Existing \subseteq Versions
                        /\ ReadOnly \subseteq Existing /\ Modes \subseteq {"new", "current"}
                        /\ Kinds \subseteq {"edit", "same", "delete"}
                        /\ Ops \subseteq {"batch", "stage", "checkpoint", "pause", "resume", "cancel", "status"}
                        /\ Tasks \subseteq Nat \ {0} /\ None \notin Versions \cup Tasks
ASSUME BoundAssumption == /\ {MaxOwners, MaxBatches, MaxEvents} \subseteq Nat
                          /\ Events \subseteq {"fault", "crash", "edit", "open", "window", "delete", "stage", "task"}

VARIABLES
    disk,      \* the document of each version, or None
    journal,   \* the record of each task on disk, or None
    shown,     \* the version and document in the editor and whether it is unsaved, or None
    opening,   \* what the editor has read and not shown yet
    owners,    \* the controllers: the version of each, its calls, its records of the tasks
    ownerAt,   \* the owner a version is routed to, or 0
    ownerOf,   \* the owner a task is routed to, or 0
    leases,    \* the activities of AIEditOwnership
    fresh,     \* the number of batches cut so far
    overtaken, \* history: the versions shown without a save that was on disk
    used       \* what has happened of Events

editor == <<shown, opening>>
routes == <<ownerAt, ownerOf>>
vars == <<disk, journal, editor, owners, routes, leases, fresh, overtaken, used>>

NoReceipts == [t \in Tasks |-> None]
Written == [text |-> [i \in 1 .. Segments |-> [id |-> i, user |-> 0, ai |-> 0]],
            receipts |-> NoReceipts, log |-> <<>>]

Init ==
    /\ disk \in [Versions -> {None, Written}]
    /\ \A v \in Versions : disk[v] = Written <=> v \in Existing
    /\ journal = [t \in Tasks |-> None]
    /\ shown \in {None} \cup {[ver |-> v, doc |-> disk[v], dirty |-> FALSE] : v \in Existing}
    /\ opening = None
    /\ owners = <<>>
    /\ ownerAt = [v \in Versions |-> 0] /\ ownerOf = [t \in Tasks |-> 0]
    /\ leases = [t \in Tasks |-> None]
    /\ fresh = 0
    /\ overtaken = {}
    /\ used = {}

\* What may happen once only: a failure, another task, a batch that is staged, ...
Once(what) ==
    /\ what \in Events \ used /\ Cardinality(used) < MaxEvents
    /\ used' = used \cup {what}

-----------------------------------------------------------------------------
\* host.current(): the version in the editor is read there, and saved first
\* if it is not.
Active(v) == shown # None /\ shown.ver = v
Doc(v) == IF Active(v) THEN shown.doc ELSE disk[v]
FlushedNever(v) == disk
Flushed(v) == IF Active(v) /\ shown.dirty THEN [disk EXCEPT ![v] = shown.doc] ELSE disk

\* Where the receipt of the pending save of task t is: in this version or,
\* after the first save of a new one, in any other.
Holds(doc, v, t, b) == LET r == doc.receipts[t] IN r # None /\ r.batch = b /\ r.ver = v
Found(task, t, v) ==
    LET b == task.pending.batch
        others == {w \in Versions : disk[w] # None /\ Holds(disk[w], w, t, b)}
    IN  IF Holds(Doc(v), v, t, b) THEN v
        ELSE IF task.mode = "new" /\ others # {} THEN CHOOSE w \in others : TRUE
        ELSE None

\* load(): a journal is read once by an owner, and a save that was not
\* recorded is found again by its receipt.
Records(owner) == IF owner.loaded THEN owner.tasks ELSE journal
Resolved(owner) == [t \in Tasks |->
    LET task == Records(owner)[t] IN
    IF task = None THEN None
    ELSE IF task.pending = None THEN task
    ELSE LET v == Found(task, t, owner.ver) IN
         IF v = None THEN task
         ELSE Finished(task, IF v = owner.ver THEN Doc(v).receipts[t] ELSE disk[v].receipts[t], v)]
Settled(owner) ==
    [t \in Tasks |-> IF Resolved(owner)[t] # Records(owner)[t] THEN Resolved(owner)[t] ELSE journal[t]]
Loaded(o) == Records(owners[o])
Recovered(o) == Resolved(owners[o])
Journaled(o) == Settled(owners[o])

Keep(o, tasks) == [owners EXCEPT ![o].loaded = TRUE, ![o].tasks = tasks]

-----------------------------------------------------------------------------
(* The calls of an owner.  Its first one is carried out.                    *)
Head1(o) == owners[o].calls[1]
Calling(by) == \E o \in DOMAIN owners : \E i \in DOMAIN owners[o].calls : owners[o].calls[i].by = by
Call(op, t, by) == [op |-> op, t |-> t, by |-> by, pc |-> "start", kind |-> None, batch |-> 0,
                    doc |-> None, counted |-> FALSE]
Queued(os, o, call) == [os EXCEPT ![o].calls = Append(@, call)]
Popped(os, o) == [os EXCEPT ![o].calls = Tail(@)]

Landed(a, call) == IF call.counted THEN [a EXCEPT !.inFlight = Larger(@, 1) - 1] ELSE a

\* The call is answered with the record of its task; the answer to a batch
\* that is open does not name a version.
Answered(a, call, r, v) ==
    LET b == Reconciled(a, r) IN
    IF call.op \in {"batch", "stage"} /\ r.state = "draft" THEN [b EXCEPT !.key = a.key]
    ELSE IF call.op = "consult" THEN b ELSE [b EXCEPT !.key = v]
Answer(o, os, tasks) ==
    LET call == Head1(o)
        told == Notified(leases, os)
        t == call.t
    IN  /\ owners' = Popped(os, o)
        /\ leases' = IF call.by = "stop" \/ told[t] = None THEN told
                     ELSE [told EXCEPT ![t] = Landed(Answered(@, call, View(tasks, t), os[o].ver), call)]

\* The call fails: the record of the task is looked up, by a call of its own.
Fail(o, os) ==
    LET call == Head1(o)
        t == call.t
        told == Notified(leases, os)
        consult == call.by # "stop" /\ call.op \in {"batch", "stage", "checkpoint", "resume"}
                   /\ told[t] # None /\ told[t].state \notin {"completed", "ended"}
    IN  IF consult
        THEN /\ owners' = Queued(Popped(os, o), o, [call EXCEPT !.op = "consult", !.pc = "start"])
             /\ leases' = [told EXCEPT ![t].state = "failed", ![t].reason = "failed"]
        ELSE /\ owners' = Popped(os, o)
             /\ leases' = IF told[t] = None \/ call.by = "stop" THEN told
                          ELSE [told EXCEPT ![t] = Landed(@, call)]

\* A save in the background holds the queue of the recording's folder.
At(o, pc) == o \in DOMAIN owners /\ owners[o].calls # <<>> /\ Head1(o).pc = pc
FolderFree == \A o \in DOMAIN owners : ~At(o, "write")
Starts(o, ops) == At(o, "start") /\ Head1(o).op \in ops /\ FolderFree

\* Saving the text in the editor, reading the version or its journals fails.
CallFails(o) ==
    /\ Starts(o, {"batch", "stage", "checkpoint", "pause", "resume", "cancel", "consult", "status"})
    /\ Once("fault")
    /\ Fail(o, Keep(o, Loaded(o)))
    /\ UNCHANGED <<disk, journal, editor, routes, fresh>>

\* The call changes the record of its task to new and saves it.  A record that
\* was changed before its write stays changed when the write fails.
Save(o, new, inPlace) ==
    LET t == Head1(o).t
        tasks == Recovered(o)
        saved == [tasks EXCEPT ![t] = new]
    IN  /\ disk' = Flushed(owners[o].ver)
        /\ \/ /\ journal' = [Journaled(o) EXCEPT ![t] = new]
              /\ Answer(o, Keep(o, saved), saved)
              /\ UNCHANGED used
           \/ /\ Once("fault")
              /\ journal' = Journaled(o)
              /\ Fail(o, Keep(o, IF inPlace THEN saved ELSE tasks))
        /\ UNCHANGED <<editor, routes>>

\* The call changes nothing but what loading finds.
Look(o, fails) ==
    /\ disk' = Flushed(owners[o].ver) /\ journal' = Journaled(o)
    /\ IF fails THEN Fail(o, Keep(o, Recovered(o)))
                ELSE Answer(o, Keep(o, Recovered(o)), Recovered(o))
    /\ UNCHANGED <<editor, routes, fresh, used>>

Task(o) == Recovered(o)[Head1(o).t]
AtTarget(o) == Task(o).target = owners[o].ver
Text(o) == Doc(owners[o].ver).text

Status(o) == Starts(o, {"status", "consult"}) /\ Look(o, FALSE)

\* The call is for the open batch, and does not remove all the text it knows.
Stageable(batch, call) ==
    /\ call.batch = batch.id
    /\ call.kind # None \/ (batch.kind # None /\ call.op = "checkpoint")
    /\ ~(call.kind = "delete" /\ Ids(batch.guard) = ToSet(batch.ids))
Refused(o) ==
    /\ Starts(o, {"batch", "stage", "checkpoint", "pause", "resume", "cancel"})
    /\ LET task == Task(o)
           op == Head1(o).op
       IN  \/ ~AtTarget(o)
           \/ op = "cancel" /\ task.state = "completed"
           \/ op = "pause" /\ task.state # "draft"
           \/ op = "resume" /\ (task.state # "paused" \/ task.reason = "planned")
           \/ op \in {"stage", "checkpoint"} /\ task.state = "draft" /\ task.batch = None
              /\ Head1(o).batch \notin task.saved
           \/ op \in {"stage", "checkpoint"} /\ task.state = "draft" /\ task.batch # None
              /\ Head1(o).batch \notin task.saved /\ ~Stageable(task.batch, Head1(o))
    /\ Look(o, TRUE)

\* A call for a task that is paused or over says so.
NotDraft(o) ==
    /\ Starts(o, {"batch", "stage", "checkpoint"}) /\ AtTarget(o)
    /\ Task(o).state # "draft" /\ Head1(o).batch \notin Task(o).saved
    /\ Look(o, FALSE)

Cancel(o) ==
    /\ Starts(o, {"cancel"}) /\ AtTarget(o) /\ Task(o).state # "completed"
    /\ Save(o, [Task(o) EXCEPT !.state = "cancelled",
                               !.reason = IF Head1(o).by = "stop" THEN "user" ELSE "round"], FALSE)
    /\ UNCHANGED fresh

Pause(o) ==
    /\ Starts(o, {"pause"}) /\ AtTarget(o) /\ Task(o).state = "draft"
    /\ Save(o, [Task(o) EXCEPT !.state = "paused", !.reason = "user_paused"], TRUE)
    /\ UNCHANGED fresh

\* A batch that no longer fits the text is put aside.
Aside(task) == [task EXCEPT !.batch = None, !.pending = None]
Resume(o) ==
    /\ Starts(o, {"resume"}) /\ AtTarget(o)
    /\ LET task == Task(o)
           kept == IF task.batch # None /\ ~GuardHolds(Text(o), task.batch.guard)
                   THEN Aside(task) ELSE task
       IN  /\ task.state = "paused" /\ task.reason # "planned"
           /\ Save(o, [kept EXCEPT !.state = "draft", !.reason = None], TRUE)
    /\ UNCHANGED fresh

Paused(task, why) == [task EXCEPT !.state = "paused", !.reason = why]

\* The next batch is cut, or the one that is open is given again.
Cut(text, task) ==
    LET ids == Selected(task) IN
    IF PlanChanged(text, ids) THEN Paused(task, "planned")
    ELSE [task EXCEPT !.batch = NewBatch(text, ids, fresh + 1)]
Batch(o) ==
    /\ Starts(o, {"batch"}) /\ AtTarget(o) /\ Task(o).state = "draft"
    /\ \/ /\ Task(o).batch # None
          /\ Look(o, FALSE)
       \/ /\ Task(o).batch = None /\ fresh < MaxBatches
          /\ Save(o, Cut(Text(o), Task(o)), TRUE)
          /\ fresh' = fresh + 1

\* A batch that does not fit the text is kept and the task paused.
Staged(text, task, kind) ==
    LET staged == [task EXCEPT !.batch.kind = kind]
    IN  IF GuardHolds(text, task.batch.guard) THEN staged ELSE Paused(staged, "conflict")
Stage(o) ==
    /\ Starts(o, {"stage"}) /\ AtTarget(o) /\ Task(o).state = "draft"
    /\ Task(o).batch # None /\ Stageable(Task(o).batch, Head1(o))
    /\ Save(o, Staged(Text(o), Task(o), Head1(o).kind), TRUE)
    /\ UNCHANGED fresh

-----------------------------------------------------------------------------
(* The save of a batch.                                                     *)
Advanced(os, o, pc, doc) == [os EXCEPT ![o].calls[1].pc = pc, ![o].calls[1].doc = doc]

\* A retry of a batch that is saved.
Repeated(o) ==
    /\ Starts(o, {"checkpoint"}) /\ AtTarget(o)
    /\ Head1(o).batch \in Task(o).saved
    /\ Look(o, FALSE)

\* What is to be saved is in the journal before it is saved.
Pending(task) == [batch |-> task.batch.id, ids |-> ToSet(task.batch.ids)]
Checkpoint(o) ==
    /\ Starts(o, {"checkpoint"}) /\ AtTarget(o) /\ Task(o).state = "draft"
    /\ Head1(o).batch \notin Task(o).saved
    /\ Task(o).batch # None /\ Stageable(Task(o).batch, Head1(o))
    /\ LET call == Head1(o)
           t == call.t
           staged == IF call.kind = None THEN Task(o) ELSE [Task(o) EXCEPT !.batch.kind = call.kind]
           new == [staged EXCEPT !.pending = Pending(staged)]
           tasks == [Recovered(o) EXCEPT ![t] = new]
       IN  IF ~GuardHolds(Text(o), staged.batch.guard)
           THEN Save(o, Paused(staged, "conflict"), TRUE)
           ELSE /\ disk' = Flushed(owners[o].ver)
                /\ \/ /\ journal' = [Journaled(o) EXCEPT ![t] = new]
                      /\ owners' = Advanced(Keep(o, tasks), o, "publish", None)
                      /\ leases' = Notified(leases, Keep(o, tasks))
                      /\ UNCHANGED used
                   \/ /\ Once("fault")
                      /\ journal' = Journaled(o)
                      /\ Fail(o, Keep(o, tasks))
                /\ UNCHANGED <<editor, routes>>
    /\ UNCHANGED fresh

\* The task is paused and keeps what is pending; that may not reach the disk.
Stopped(o) ==
    LET t == Head1(o).t
        os == [owners EXCEPT ![o].tasks[t] = Paused(@, "failed")]
    IN  /\ Fail(o, os)
        /\ journal' \in {[journal EXCEPT ![t] = os[o].tasks[t]]}
              \cup (IF "fault" \in Events THEN {journal} ELSE {})

Own(o) == owners[o].tasks[Head1(o).t]
MakesVersion(o) == Own(o).mode = "new" /\ Own(o).target = Own(o).source
Unused == {v \in Versions \ Existing : disk[v] = None}
Destination(o) == IF MakesVersion(o) THEN CHOOSE v \in Unused : TRUE ELSE owners[o].ver

\* publish(): the right to write is checked, then the text that is there now.
Publishable(o, doc) == MayWrite(leases, Head1(o).t) /\ GuardHolds(doc.text, Own(o).batch.guard)
Next1(o, doc) == WithBatch(doc, Head1(o).t, Own(o).batch, Destination(o))

PublishRefused(o) ==
    /\ At(o, "publish") /\ FolderFree
    /\ ~Publishable(o, Doc(owners[o].ver))
    /\ Stopped(o)
    /\ UNCHANGED <<disk, editor, routes, fresh, used>>

\* In the background: the document is read and checked in the folder's queue.
PublishBehind(o) ==
    /\ At(o, "publish") /\ FolderFree /\ ~Active(owners[o].ver)
    /\ MakesVersion(o) => Unused # {}
    /\ Publishable(o, disk[owners[o].ver])
    /\ owners' = Advanced(owners, o, "write", Next1(o, disk[owners[o].ver]))
    /\ UNCHANGED <<disk, journal, editor, routes, leases, fresh, used>>

Bound(o, v) == [owners EXCEPT ![o].ver = v, ![o].calls[1].pc = "commit", ![o].calls[1].doc = None]

\* The write fails, and the old text is put back or that fails as well.
WriteBehind(o) ==
    /\ At(o, "write")
    /\ LET v == Destination(o) IN
       \/ /\ disk' = [disk EXCEPT ![v] = Head1(o).doc]
          /\ owners' = Bound(o, v)
          /\ UNCHANGED <<journal, leases, used>>
       \/ /\ Once("fault")
          /\ disk' \in {disk} \cup (IF MakesVersion(o) THEN {}
                                    ELSE {[disk EXCEPT ![v] = Head1(o).doc]})
          /\ Stopped(o)
    /\ UNCHANGED <<editor, routes, fresh>>

\* In the editor: the text on the screen changes, then it is saved; a new
\* version is written first and shown then, if the user is still there.
PublishShown(o) ==
    /\ At(o, "publish") /\ FolderFree /\ Active(owners[o].ver)
    /\ MakesVersion(o) => Unused # {}
    /\ Publishable(o, shown.doc)
    /\ LET v == Destination(o)
           doc == Next1(o, shown.doc)
       IN  \/ /\ shown' = [ver |-> v, doc |-> doc, dirty |-> FALSE]
              /\ disk' = [Flushed(owners[o].ver) EXCEPT ![v] = doc]
              /\ opening' = IF MakesVersion(o) THEN None ELSE opening
              /\ owners' = Bound(o, v)
              /\ UNCHANGED <<journal, leases, used>>
           \/ /\ Once("fault")
              /\ shown' = IF MakesVersion(o) THEN shown ELSE [shown EXCEPT !.doc = doc, !.dirty = TRUE]
              /\ disk' \in {disk} \cup (IF MakesVersion(o)
                                       THEN {[Flushed(owners[o].ver) EXCEPT ![v] = doc]} ELSE {})
              /\ Stopped(o)
              /\ UNCHANGED opening
    /\ UNCHANGED <<routes, fresh>>

\* The receipt gets into the journal; then the next batch is cut.
Commit(o) ==
    /\ At(o, "commit") /\ FolderFree
    /\ LET t == Head1(o).t
           task == Own(o)
           new == Finished(task, Receipt(t, task.batch, owners[o].ver), owners[o].ver)
           os == [owners EXCEPT ![o].tasks[t] = new]
       IN  \/ /\ journal' = [journal EXCEPT ![t] = new]
              /\ IF new.state = "draft" /\ fresh < MaxBatches
                 THEN /\ owners' = Advanced(os, o, "next", None)
                      /\ leases' = Notified(leases, os)
                 ELSE Answer(o, os, os[o].tasks)
              /\ UNCHANGED used
           \/ /\ Once("fault")
              /\ Stopped(o)
    /\ UNCHANGED <<disk, editor, routes, fresh>>

\* Failing to cut it is no failure of the save.
NextBatch(o) ==
    /\ At(o, "next") /\ FolderFree
    /\ LET t == Head1(o).t
           new == Cut(Text(o), Task(o))
           tasks == [Recovered(o) EXCEPT ![t] = new]
       IN  /\ Answer(o, Keep(o, tasks), tasks)
           /\ \/ journal' = [Journaled(o) EXCEPT ![t] = new] /\ UNCHANGED used
              \/ journal' = Journaled(o) /\ Once("fault")
    /\ disk' = Flushed(owners[o].ver)
    /\ fresh' = fresh + 1
    /\ UNCHANGED <<editor, routes>>

-----------------------------------------------------------------------------
(* The calls of clients and of the window.                                  *)
NewOwner(v, tasks, loaded) == [ver |-> v, calls |-> <<>>, loaded |-> loaded, tasks |-> tasks]
Routed(v) == IF ownerAt[v] # 0 /\ owners[ownerAt[v]].ver = v THEN ownerAt[v] ELSE Len(owners) + 1
WithOwner(v) == IF Routed(v) <= Len(owners) THEN owners
                ELSE Append(owners, NewOwner(v, NoReceipts, FALSE))

\* A call that may write takes its place in the lease at once.
Ask(t, op, kind, b) ==
    LET o == ownerOf[t]
        writes == op \in {"batch", "stage", "checkpoint"}
        lease == leases[t]
        counted == writes /\ lease # None /\ lease.state # "completed"
        call == [Call(op, t, "client") EXCEPT !.kind = kind, !.batch = b, !.counted = counted]
    IN  /\ o # 0 /\ ~Calling("client")
        /\ counted => MayWrite(leases, t)
        /\ (op = "resume" /\ lease # None) =>
              lease.state = "paused" /\ MayAcquire(leases, t, owners[o].ver, None)
        /\ owners' = Queued(owners, o, call)
        /\ leases' = IF counted
                     THEN [leases EXCEPT ![t].inFlight = @ + 1,
                              ![t].state = IF op = "checkpoint" THEN "saving" ELSE "processing"]
                     ELSE IF op = "resume" /\ lease # None
                     THEN [leases EXCEPT ![t].state = "waiting", ![t].inFlight = 0, ![t].key = owners[o].ver]
                     ELSE leases
        /\ IF op = "stage" THEN Once("stage")
           ELSE IF kind = "delete" THEN Once("delete") ELSE UNCHANGED used
        /\ UNCHANGED <<disk, journal, editor, routes, fresh>>

\* A client names a batch it was given for the task.
Given(task) == IF task = None THEN {}
               ELSE task.saved \cup (IF task.batch = None THEN {} ELSE {task.batch.id})
Client == \E t \in Tasks :
    \/ \E op \in Ops \ {"stage", "checkpoint"} : Ask(t, op, None, 0)
    \/ \E op \in Ops \cap {"stage", "checkpoint"}, b \in Given(journal[t]) :
          \E kind \in Kinds \cup (IF op = "stage" THEN {} ELSE {None}) : Ask(t, op, kind, b)

\* The window pauses a task, or ends its editing: the right is gone at once,
\* the task is cancelled when the calls before have been carried out.
Window == \E t \in Tasks :
    /\ Once("window")
    /\ leases[t] # None
    /\ \/ /\ ownerOf[t] # 0 /\ ~Calling("window")
          /\ owners' = Queued(owners, ownerOf[t], Call("pause", t, "window"))
          /\ UNCHANGED leases
       \/ /\ leases' = [leases EXCEPT ![t] = Revoked(@)]
          /\ owners' = IF ownerOf[t] = 0 THEN owners
                       ELSE Queued(owners, ownerOf[t], Call("cancel", t, "stop"))
    /\ UNCHANGED <<disk, journal, editor, routes, fresh>>

\* A new task, for a range of the version or as successor of another task.
Without(text, i) == SubSeq(text, 1, i - 1) \o SubSeq(text, i + 1, Len(text))
Range1(text, i, j) == [k \in 1 .. j - i + 1 |-> text[i + k - 1].id]
NewTask(v, prev, ids, mode, tasks, t) ==
    [state |-> "draft", reason |-> None, prev |-> prev, mode |-> mode, source |-> v, target |-> v,
     ids |-> ids, done |-> {}, saved |-> {}, last |-> 0, batch |-> None, pending |-> None,
     root |-> IF prev = None THEN t ELSE tasks[prev].root,
     whole |-> IF prev = None THEN ToSet(ids) ELSE tasks[prev].whole]
Succeeds(tasks, doc, v, prev, ids) ==
    LET p == tasks[prev] IN
    /\ p # None /\ p.state \in {"cancelled", "completed"} /\ p.pending = None /\ p.target = v
    /\ p.done # {} => Holds(doc, v, prev, p.last)
    /\ \A t \in Tasks : tasks[t] # None => tasks[t].prev # prev
    /\ ToSet(ids) # {} /\ ToSet(ids) = p.whole \ UNION
          {tasks[t].done : t \in {x \in Tasks : tasks[x] # None /\ tasks[x].root = p.root}}
Acceptable(tasks, doc, v, prev, ids, mode) ==
    /\ ~(mode = "current" /\ v \in ReadOnly)
    /\ \A t \in Tasks : ~(tasks[t] # None /\ tasks[t].target = v /\ tasks[t].state \in {"draft", "paused"})
    /\ prev # None => Succeeds(tasks, doc, v, prev, ids)

Prepare == \E v \in Versions, prev \in Tasks \cup {None}, mode \in Modes, t \in Tasks :
    /\ ~Calling("client") /\ disk[v] # None /\ FolderFree
    /\ journal[t] = None /\ leases[t] = None /\ \A x \in Tasks : x < t => journal[x] # None
    /\ prev # None => journal[prev] # None
    /\ MayAcquire(leases, t, v, prev)
    /\ IF journal = NoReceipts THEN UNCHANGED used ELSE Once("task")
    /\ LET o == Routed(v)
           loaded == IF o <= Len(owners) /\ owners[o].loaded THEN owners[o].tasks ELSE journal
       IN  /\ o <= MaxOwners /\ (o <= Len(owners) => owners[o].calls = <<>>)
           /\ ownerAt' = [ownerAt EXCEPT ![v] = o]
           /\ \E i, j \in DOMAIN Doc(v).text :
                 LET ids == Range1(Doc(v).text, i, j)
                     new == NewTask(v, prev, ids, mode, loaded, t)
                     tasks == [loaded EXCEPT ![t] = new]
                     os == [WithOwner(v) EXCEPT ![o].loaded = TRUE, ![o].tasks = tasks]
                     lease == [Waiting(v, TRUE) EXCEPT !.done = FALSE]
                     given == [leases EXCEPT ![t] = lease]
                 IN  /\ i <= j
                     /\ Acceptable(loaded, Doc(v), v, prev, ids, mode)
                     /\ journal' = [journal EXCEPT ![t] = new]
                     /\ owners' = os
                     /\ ownerOf' = [ownerOf EXCEPT ![t] = o]
                     /\ leases' = Notified(IF prev = None \/ given[prev] = None THEN given
                                           ELSE [given EXCEPT ![prev].superseded = TRUE], os)
           /\ disk' = Flushed(v)
    /\ UNCHANGED <<editor, fresh>>

\* A preparation that is refused has loaded the journals all the same.
PrepareRefused == \E v \in Versions, t \in Tasks :
    /\ ~Calling("client") /\ disk[v] # None /\ FolderFree
    /\ leases[t] = None /\ MayAcquire(leases, t, v, None)
    /\ LET o == Routed(v) IN
       /\ o <= MaxOwners
       /\ o <= Len(owners) => ~owners[o].loaded /\ owners[o].calls = <<>>
       /\ owners' = [WithOwner(v) EXCEPT ![o].loaded = TRUE, ![o].tasks = journal]
       /\ ownerAt' = [ownerAt EXCEPT ![v] = o]
       /\ leases' = Notified(leases, owners')
    /\ UNCHANGED <<disk, journal, editor, ownerOf, fresh, used>>

-----------------------------------------------------------------------------
(* The end of the program and its next start, and what is found of the      *)
(* tasks then.                                                              *)
Crash ==
    /\ Once("crash")
    /\ shown' \in {None} \cup {[ver |-> v, doc |-> disk[v], dirty |-> FALSE] :
                                 v \in {w \in Versions : disk[w] # None}}
    /\ opening' = None
    /\ owners' = <<>>
    /\ ownerAt' = [v \in Versions |-> 0] /\ ownerOf' = [t \in Tasks |-> 0]
    /\ leases' = NoReceipts
    /\ UNCHANGED <<disk, journal, fresh>>

\* recover(): a task whose record is a draft is paused; unless it has a
\* successor or the user has ended it, it protects its version again.
Succeeded(tasks, t) == \E x \in Tasks : tasks[x] # None /\ tasks[x].prev = t
Restored(task) == task.state \in {"paused", "completed"} \/ task.reason = "round"
Reconnect(t) ==
    LET v == journal[t].target
        o == Routed(v)
        owner == WithOwner(v)[o]
        found == Resolved(owner)
        halted == found[t].state = "draft" /\ leases[t] = None
        tasks == IF halted THEN [found EXCEPT ![t] = Paused(@, "user_paused")] ELSE found
        os == [WithOwner(v) EXCEPT ![o] =
                  [@ EXCEPT !.ver = found[t].target, !.loaded = TRUE, !.tasks = tasks]]
        told == Notified(leases, os)
        lease == [Waiting(found[t].target, FALSE) EXCEPT !.state = "paused", !.reason = "recovered"]
    IN  /\ journal[t] # None /\ ownerOf[t] = 0 /\ ~Calling("client") /\ FolderFree
        /\ o <= MaxOwners /\ (o <= Len(owners) => owners[o].calls = <<>>)
        /\ owners' = os
        /\ ownerAt' = [ownerAt EXCEPT ![v] = o]
        /\ ownerOf' = [ownerOf EXCEPT ![t] = o]
        /\ disk' = Flushed(v)
        /\ \/ /\ journal' = [Settled(owner) EXCEPT ![t] = IF halted THEN tasks[t] ELSE @]
              /\ leases' = IF ~Succeeded(journal, t) /\ Restored(tasks[t]) /\ told[t] = None
                           THEN [told EXCEPT ![t] = Reconciled(lease, View(tasks, t))] ELSE told
              /\ UNCHANGED used
           \/ /\ halted /\ Once("fault")
              /\ journal' = Settled(owner)
              /\ leases' = told
        /\ UNCHANGED <<editor, fresh>>

-----------------------------------------------------------------------------
(* The user: a version is read, and shown after more has been awaited; what *)
(* is edited is saved (that a save may be late is a matter of Autosave).    *)
OpenRead(v) ==
    /\ Once("open")
    /\ opening = None /\ disk[v] # None /\ ~Active(v) /\ FolderFree
    /\ disk' = IF shown = None THEN disk ELSE Flushed(shown.ver)
    /\ opening' = [ver |-> v, doc |-> disk[v], dirty |-> FALSE]
    /\ UNCHANGED <<journal, shown, owners, routes, leases, fresh>>

OpenShow ==
    /\ opening # None
    /\ shown' = opening /\ opening' = None
    /\ UNCHANGED <<disk, journal, owners, routes, leases, fresh, used>>

UserEdit(i) ==
    /\ Once("edit")
    /\ shown # None /\ shown.ver \notin ReadOnly /\ ~Locked(leases, shown.ver) /\ FolderFree
    /\ i \in DOMAIN shown.doc.text
    /\ \E text \in {[shown.doc.text EXCEPT ![i].user = @ + 1], Without(shown.doc.text, i)} :
          /\ shown' = [shown EXCEPT !.doc.text = text, !.dirty = FALSE]
          /\ disk' = [disk EXCEPT ![shown.ver] = shown'.doc]
    /\ UNCHANGED <<journal, opening, owners, routes, leases, fresh>>

-----------------------------------------------------------------------------
Owner(o) ==
    \/ CallFails(o) \/ Status(o) \/ Refused(o) \/ NotDraft(o)
    \/ Cancel(o) \/ Pause(o) \/ Resume(o) \/ Batch(o) \/ Stage(o)
    \/ Repeated(o) \/ Checkpoint(o)
    \/ PublishRefused(o) \/ PublishBehind(o) \/ WriteBehind(o) \/ PublishShown(o)
    \/ Commit(o) \/ NextBatch(o)

\* The version on the screen lacks a save that is on disk.
Behind == {v \in Versions : Active(v) /\ ~shown.dirty /\ shown.doc.log # disk[v].log}

Next ==
    /\ \/ \E o \in DOMAIN owners : Owner(o)
       \/ Client \/ Window \/ Prepare \/ PrepareRefused
       \/ \E t \in Tasks : Reconnect(t)
       \/ \E v \in Versions : OpenRead(v)
       \/ OpenShow
       \/ \E i \in 1 .. Segments : UserEdit(i)
       \/ Crash
    /\ overtaken' = overtaken \cup Behind'

Spec == Init /\ [][Next]_vars

-----------------------------------------------------------------------------
TypeOK ==
    /\ \A v \in Versions : disk[v] # None =>
          Ids(disk[v].text) \subseteq 1 .. Segments /\ DOMAIN disk[v].receipts = Tasks
    /\ \A t \in Tasks : journal[t] # None =>
          /\ journal[t].state \in {"draft", "paused", "completed", "cancelled"}
          /\ disk[journal[t].target] # None
          /\ journal[t].done \subseteq ToSet(journal[t].ids)
    /\ \A t \in Tasks : leases[t] # None =>
          /\ leases[t].state \in {"waiting", "processing", "saving", "paused", "failed", "ended", "completed"}
          /\ leases[t].inFlight \in 0 .. 1
    /\ Len(owners) <= MaxOwners
    /\ fresh \in 0 .. MaxBatches

\* What a task says it has saved is in its version (finish, load).  Excused is
\* a version the editor has shown without a save that was on disk: opening it
\* reads it and awaits more before it is shown (useVersions.ts:147-179), a
\* save in between does not reach the screen, and what is saved from the
\* screen later takes the place of that save.
TrueProgress == \A t \in Tasks : journal[t] # None /\ journal[t].target \notin overtaken =>
    journal[t].done \subseteq UNION {entry.ids : entry \in
        {e \in ToSet(disk[journal[t].target].log) : e.task = t}}

\* No segment goes through one request twice, whatever failed or was tried
\* again (the receipts, and the remaining scope of a successor).
AppliedOnce == \A v \in Versions : disk[v] # None =>
    LET log == disk[v].log IN \A i, j \in DOMAIN log :
        i < j /\ journal[log[i].task].root = journal[log[j].task].root => log[i].ids \cap log[j].ids = {}
=============================================================================
