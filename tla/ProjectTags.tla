---------------------------- MODULE ProjectTags ----------------------------
(* The tags of a project as they are stored and shared: the library in the    *)
(* project's index, the tags of each version in a metadata file beside its     *)
(* text (lib/tagSidecar.ts), the transactions that change several of these     *)
(* files as one (lib/projectTagRepository.ts over AtomicFiles), the editor     *)
(* with its two histories (hooks/useProjectTags.ts, useTranscriptHistory.ts)   *)
(* and the tag tasks of AI clients (lib/projectTagTasks.ts).                   *)
EXTENDS TagTree, FiniteSets

CONSTANTS
    Windows, Tasks,
    Acts, TaskActs, Paths, \* the changes of this run, by the user and by tasks, and the paths that tags get
    Forks,         \* may a background task copy a version, tags and all
    MaxSteps       \* edits, commands, tasks, faults and reloads together

ASSUME NoneAssumption == None \notin Tasks
ASSUME PathsAssumption == \A p \in Paths : Len(p) \in Nat \ {0}

VARIABLES
    index,         \* [rev, head, lib, reqs]: revision, last tag transaction, library, receipts
    body, meta,    \* the text and the tag metadata of each version
    snap,          \* the index as each window knows it
    cache,         \* per window and version a text written whose stamp was not
    view,          \* the editor: one window at a time has it
    op,            \* the tag command of the editor
    task,          \* the tasks of AI clients
    told,          \* what their clients were told
    fresh, steps

disk == <<index, body, meta>>
tasks == <<task, told>>
vars == <<disk, snap, cache, view, op, tasks, fresh, steps>>

Row(x) == [ids |-> x.ids, segs |-> x.segs]
Body(doc) == [text |-> doc.text, dom |-> DOMAIN doc.segs]
Anchor(doc) == <<doc.text, doc.segs>>
Idle == [pc |-> "idle"]
Step == steps < MaxSteps /\ steps' = steps + 1

\* Two roots with a child each; the children share a name, as in old projects.
Tags0 == <<Tag("a", Root), Tag("b", 1), Tag("c", Root), Tag("b", 3)>>
Text0 == [text |-> 0, dom |-> {1, 2}]
Meta(ids, segs) == [token |-> 0, ids |-> ids, segs |-> segs, hash |-> Text0]
Init ==
    /\ index = [rev |-> 0, head |-> 0, lib |-> Tags0, reqs |-> {}]
    /\ body = <<Text0, Text0>>
    /\ meta = <<Meta({1, 2}, <<{2}, {1}>>), Meta({3, 4}, <<{4}, {}>>)>>
    /\ snap = [w \in Windows |-> index]
    /\ cache = [w \in Windows |-> <<None, None, None>>]
    /\ view = None /\ op = Idle
    /\ task = [t \in Tasks |-> Idle] /\ told = [t \in Tasks |-> {}]
    /\ fresh = 5 /\ steps = 0

\* blocksHumanEditing(): a task that failed does too, until it is ended.
Blocks(t) == task[t].pc \in {"draft", "applying", "failed"}
HasAIWork(w) == \E t \in Tasks : Blocks(t) /\ task[t].win = w
Locked(w, v) == \E t \in Tasks : Blocks(t) /\ task[t].win = w /\ (task[t].v = v \/ IsShared(task[t].c))

-----------------------------------------------------------------------------
(* The editor: a window that shows a version.                                *)
\* verifyTagSource(): the text is the one stamped, or one that this window wrote.
Verified(w, v) ==
    \/ body[v] = meta[v].hash
    \/ cache[w][v] = [prev |-> meta[v].hash, hash |-> body[v]]

\* hydrateTagDocument(): a text that was not stamped is accepted if it has the segments.
Fits(v) == DOMAIN meta[v].segs = body[v].dom
Enter(w, v) ==
    /\ view = None /\ snap[w] # None /\ Fits(v)
    /\ LET doc == [text |-> body[v].text, ids |-> meta[v].ids, segs |-> meta[v].segs, token |-> meta[v].token]
       IN view' = [win |-> w, v |-> v, doc |-> doc, kept |-> doc, past |-> <<>>, future |-> <<>>, tpast |-> <<>>, tfuture |-> <<>>]
    /\ cache' = IF body[v] = meta[v].hash THEN cache
                ELSE [cache EXCEPT ![w][v] = [prev |-> meta[v].hash, hash |-> body[v]]]
    /\ op' = Idle /\ UNCHANGED <<disk, snap, tasks, fresh, steps>>

Flushed == view.doc = view.kept
Leave ==
    /\ view # None /\ op.pc \in {"idle", "asked"} /\ Flushed /\ Step
    /\ view' = None /\ op' = Idle
    /\ UNCHANGED <<disk, snap, cache, tasks, fresh>>

\* commit() of useTranscriptHistory
Committed(x, doc, key) == [x EXCEPT !.doc = doc, !.past = Append(@, [doc |-> x.doc, key |-> key]), !.future = <<>>]

\* mutateTranscript(): the text of a segment, or two segments that become one.
MayEdit == view # None /\ op.pc \in {"idle", "asked"} /\ ~Locked(view.win, view.v)
Joined(segs) == <<segs[1] \cup segs[2]>>
Edit == MayEdit /\ Step
    /\ \E doc \in {[view.doc EXCEPT !.text = fresh]} \cup
                  (IF 2 \in DOMAIN view.doc.segs THEN {[view.doc EXCEPT !.segs = Joined(@)]} ELSE {}) :
          view' = [Committed(view, doc, None) EXCEPT !.tfuture = <<>>]
    /\ fresh' = fresh + 1
    /\ UNCHANGED <<disk, snap, cache, op, tasks>>

Undone(x) == [x EXCEPT !.doc = Last(x.past).doc, !.past = Front(@),
                       !.future = <<[doc |-> x.doc, key |-> Last(x.past).key]>> \o @]
Redone(x) == [x EXCEPT !.doc = Head(x.future).doc, !.future = Tail(@),
                       !.past = Append(@, [doc |-> x.doc, key |-> Head(x.future).key])]

\* canUndo and canRedo: the last tag command is the last change there is.
CanUndo == view.tpast # <<>> /\ Last(view.tpast).after = Anchor(view.doc)
           /\ view.past # <<>> /\ Last(view.past).key = Last(view.tpast).key
CanRedo == view.tfuture # <<>> /\ Last(view.tfuture).before = Anchor(view.doc)
           /\ view.future # <<>> /\ Head(view.future).key = Last(view.tfuture).key

\* performUndo() and performRedo() where no tag command is meant.
Undo == /\ MayEdit /\ op.pc = "idle" /\ Step
        /\ \/ view.past # <<>> /\ ~CanUndo /\ view' = Undone(view)
           \/ view.future # <<>> /\ ~CanRedo /\ view' = Redone(view)
        /\ UNCHANGED <<disk, snap, cache, op, tasks, fresh>>

\* writeTagDocument(): where the tags are those on disk the text is written and
\* its stamp after it, which may fail or not be reached any more; other tags are
\* written with the text as one, and only over those that the editor knows.
Current(doc, m) == Row(doc) = Row(m) \/ doc.token = m.token
ByTags(doc, m) == doc.ids = m.ids
SameTags(doc, m) == Row(doc) = Row(m)
Save(stamped) ==
    /\ view # None /\ ~Flushed /\ Verified(view.win, view.v) /\ Current(view.doc, meta[view.v])
    /\ LET v == view.v
           doc == view.doc
           text == Body(doc)
       IN /\ body' = [body EXCEPT ![v] = text]
          /\ IF stamped
             THEN /\ meta' = [meta EXCEPT ![v] = [token |-> @.token, ids |-> doc.ids, segs |-> doc.segs, hash |-> text]]
                  /\ view' = [view EXCEPT !.kept = doc]
                  /\ cache' = [cache EXCEPT ![view.win][v] = None]
                  /\ UNCHANGED steps
             ELSE /\ SameTags(doc, meta[v]) /\ Step
                  /\ cache' = [cache EXCEPT ![view.win][v] = [prev |-> meta[v].hash, hash |-> text]]
                  /\ UNCHANGED <<meta, view>>
    /\ UNCHANGED <<index, snap, op, tasks, fresh>>

-----------------------------------------------------------------------------
(* A tag transaction: what is read and written under the project's lock.     *)
\* transactProjectTags(): None where it is refused.  The head and the tokens of
\* the files it changes are new.
Read(c, v) == IF IsShared(c) THEN DOMAIN meta ELSE {v}
Written(rows, out, c, t) ==
    LET changed == {x \in DOMAIN rows : out.rows[x] # rows[x]}
        moved == changed # {} \/ out.lib # index.lib
        was(x) == [row |-> rows[x], token |-> meta[x].token]
        now(x) == [row |-> out.rows[x], token |-> fresh]
    IN [changed |-> moved,
        index |-> IF moved \/ t # None
                  THEN [rev |-> index.rev + 1, head |-> IF moved THEN fresh ELSE index.head, lib |-> out.lib,
                        reqs |-> index.reqs \cup ({t} \ {None})]
                  ELSE index,
        receipt |-> [shared |-> IsShared(c), libs |-> <<index.lib, out.lib>>, heads |-> <<index.head, fresh>>,
                     versions |-> [x \in changed |-> <<was(x), now(x)>>]]]
Accounted(w, rev, rows, out, c, t) ==
    IF rev # index.rev \/ (\E x \in DOMAIN rows : ~Verified(w, x)) \/ out = None
    THEN None ELSE Written(rows, out, c, t)
Transacted(w, rev, v, c, t) ==
    LET rows == [x \in Read(c, v) |-> Row(meta[x])]
    IN Accounted(w, rev, rows, Apply(index.lib, rows, v, c, fresh + 1), c, t)

\* versionPatch(): the metadata files with the fields of one side of a receipt.
Patched(versions, side) == [x \in DOMAIN meta |->
    IF x \notin DOMAIN versions THEN meta[x]
    ELSE LET field == versions[x][side] IN
         [token |-> field.token, ids |-> field.row.ids, segs |-> field.row.segs, hash |-> body[x]]]
Commit(done) == index' = done.index /\ meta' = Patched(done.receipt.versions, 2) /\ fresh' = fresh + 5

\* restoreProjectTagTransaction(): one side of a receipt is put back if the other is there.
Unmoved(receipt, side) == index.lib = receipt.libs[side]
AtHead(receipt, side) == index.lib = receipt.libs[side] /\ index.head = receipt.heads[side]
Restorable(w, rev, receipt, from) ==
    /\ rev = index.rev /\ AtHead(receipt, from)
    /\ \A x \in (IF receipt.shared THEN DOMAIN meta ELSE DOMAIN receipt.versions) : Verified(w, x)
    /\ \A x \in DOMAIN receipt.versions : Row(meta[x]) = receipt.versions[x][from].row
Restored(receipt, to) == [index EXCEPT !.rev = @ + 1, !.lib = receipt.libs[to], !.head = receipt.heads[to]]

\* applyTagFields() with the token of the metadata written.
WithTags(doc, field) == [doc EXCEPT !.ids = field.row.ids, !.segs = field.row.segs, !.token = field.token]
TagsOf(doc, receipt, side) ==
    IF view.v \in DOMAIN receipt.versions THEN WithTags(doc, receipt.versions[view.v][side]) ELSE doc

\* What is shown after a transaction counts as written, and can be undone.
Published(receipt, key) ==
    LET doc == TagsOf(view.doc, receipt, 2)
        entry == [receipt |-> receipt, before |-> Anchor(view.doc), after |-> Anchor(doc), key |-> key]
    IN [Committed(view, doc, key) EXCEPT !.kept = doc, !.tpast = Append(@, entry), !.tfuture = <<>>]

-----------------------------------------------------------------------------
(* The commands of the editor.                                               *)
Ask(act) == [act |-> act, tag |-> 0, seg |-> 0, path |-> <<>>, merge |-> FALSE, lib |-> <<>>]
\* The changes asked for.  Shared ones are tried for tags that the version admits,
\* with a merge confirmed where there is one.
Changes(lib, doc, acts) == {c \in
    (UNION {{[Ask(act) EXCEPT !.path = p, !.seg = 1] : p \in Paths} : act \in {"create", "add"}})
    \cup {[Ask("assign") EXCEPT !.tag = t, !.seg = 1] : t \in DOMAIN lib \ doc.segs[1]}
    \cup {[Ask("unassign") EXCEPT !.tag = t, !.seg = 1] : t \in doc.segs[1]}
    \cup {[Ask("drop") EXCEPT !.tag = t] : t \in doc.ids}
    \cup {[Ask("delete") EXCEPT !.tag = t] : t \in doc.ids}
    \cup (UNION {{[Ask("share") EXCEPT !.tag = t, !.path = p, !.merge = Named(lib, Last(p)) # {}] : p \in Paths} :
                      t \in doc.ids}) : c.act \in acts}

\* A deletion is worked out of the library as it is shown when it is asked for.
AsAsked(c, lib) == IF c.act = "delete" THEN [c EXCEPT !.act = "become", !.lib = Without(lib, Branch(lib, c.tag))] ELSE c

Command ==
    /\ MayEdit /\ op.pc = "idle" /\ snap[view.win] # None /\ Step
    /\ \E c \in Changes(snap[view.win].lib, view.doc, Acts) :
          /\ IsShared(c) => ~HasAIWork(view.win)
          /\ op' = [pc |-> "asked", c |-> AsAsked(c, snap[view.win].lib)]
    /\ UNCHANGED <<disk, snap, cache, view, tasks, fresh>>

UndoTags == /\ MayEdit /\ op.pc = "idle" /\ snap[view.win] # None /\ Flushed /\ Step
            /\ \E redo \in BOOLEAN :
                  /\ IF redo THEN CanRedo ELSE CanUndo
                  /\ op' = [pc |-> "restore", redo |-> redo, rev |-> snap[view.win].rev,
                            receipt |-> Last(IF redo THEN view.tfuture ELSE view.tpast).receipt]
            /\ UNCHANGED <<disk, snap, cache, view, tasks, fresh>>

\* run(): the draft is flushed first, then the editor is locked.
Begin == /\ op.pc = "asked"
         /\ IF Locked(view.win, view.v) THEN op' = Idle
            ELSE Flushed /\ op' = [pc |-> "locked", c |-> op.c, rev |-> snap[view.win].rev, doc |-> view.doc]
         /\ UNCHANGED <<disk, snap, cache, view, tasks, fresh, steps>>

\* What is written is shown at once, with the project's new state: nothing else
\* of the window comes between.
Allowed(done) == ~Locked(view.win, view.v) /\ (HasAIWork(view.win) => done.index.lib = index.lib)
Transact ==
    /\ op.pc = "locked" /\ op' = Idle
    /\ \E done \in {Transacted(view.win, op.rev, view.v, op.c, None)} :
          LET fine == done # None /\ Row(op.doc) = Row(meta[view.v]) /\ (IsShared(op.c) => ~HasAIWork(view.win))
          IN IF ~fine THEN UNCHANGED <<index, meta, snap, view, fresh>>
             ELSE /\ done.changed /\ Allowed(done) => Commit(done) /\ snap' = [snap EXCEPT ![view.win] = done.index]
                                                       /\ view' = Published(done.receipt, done.index.rev)
                  /\ ~(done.changed /\ Allowed(done)) => UNCHANGED <<index, meta, snap, view, fresh>>
    /\ UNCHANGED <<body, cache, tasks, steps>>

RestoreTags ==
    /\ op.pc = "restore" /\ op' = Idle
    /\ LET to == IF op.redo THEN 2 ELSE 1
           x == IF op.redo THEN Redone(view) ELSE Undone(view)
           held == \/ HasAIWork(view.win) /\ op.receipt.libs[1] # op.receipt.libs[2]
                   \/ \E v \in DOMAIN op.receipt.versions : Locked(view.win, v)
       IN IF held \/ ~Restorable(view.win, op.rev, op.receipt, 3 - to) THEN UNCHANGED <<index, meta, snap, view>>
          ELSE /\ index' = Restored(op.receipt, to) /\ meta' = Patched(op.receipt.versions, to)
               /\ snap' = [snap EXCEPT ![view.win] = index']
               /\ view' = [x EXCEPT !.kept = x.doc,
                      !.tpast = IF op.redo THEN Append(@, Last(view.tfuture)) ELSE Front(@),
                      !.tfuture = IF op.redo THEN Front(@) ELSE Append(@, Last(view.tpast))]
    /\ UNCHANGED <<body, cache, tasks, fresh, steps>>

-----------------------------------------------------------------------------
(* The tasks of AI clients, in a window of the project.                      *)
Signature(v) == <<index.lib, body[v], Row(meta[v])>>
Tell(t, answers) == told' = [told EXCEPT ![t] = @ \cup answers]
Fails(t) == task' = [task EXCEPT ![t].pc = "failed"] /\ Tell(t, {"failed"})

\* tags_read and tags_prepare: a preview of the version alone, and the lease.
Prepare(t, w, v) ==
    /\ task[t] = Idle /\ snap[w] # None /\ Verified(w, v) /\ Step
    /\ \E c \in Changes(index.lib, meta[v], TaskActs) :
          /\ Apply(index.lib, [x \in {v} |-> Row(meta[x])], v, c, fresh) # None
          /\ \A u \in Tasks : Blocks(u) /\ task[u].win = w => task[u].v # v /\ ~IsShared(c) /\ ~IsShared(task[u].c)
          /\ task' = [task EXCEPT ![t] = [pc |-> "draft", win |-> w, v |-> v, c |-> c, print |-> Signature(v), rev |-> 0, ended |-> FALSE]]
    /\ UNCHANGED <<disk, snap, cache, view, op, told, fresh>>

\* tags_apply: the editor is flushed if the change reaches it, and nothing may
\* have changed since the tags were read.
Reaches(t) == view # None /\ view.win = task[t].win /\ (IsShared(task[t].c) \/ view.v = task[t].v)
ApplyTask(t) ==
    /\ task[t].pc = "draft" /\ (Reaches(t) => Flushed)
    /\ IF Verified(task[t].win, task[t].v) /\ Signature(task[t].v) = task[t].print
       THEN task' = [task EXCEPT ![t].pc = "applying", ![t].rev = index.rev] /\ UNCHANGED told
       ELSE Fails(t)
    /\ UNCHANGED <<disk, snap, cache, view, op, fresh, steps>>

\* acceptTransaction(): an editor that does not show what was changed is left as
\* it is, and so is what the window knows of the project.
Accepts(receipt) == view.v \in DOMAIN receipt.versions => Row(view.doc) = receipt.versions[view.v][1].row
Shown(t, done) ==
    LET reaches == done.changed /\ Reaches(t)
    IN IF reaches => Accepts(done.receipt)
       THEN /\ snap' = [snap EXCEPT ![task[t].win] = done.index]
            /\ view' = IF reaches THEN Published(done.receipt, done.index.rev) ELSE view
       ELSE UNCHANGED <<snap, view>>

\* A task that was ended is refused where its end comes before the last assert().
CommitTask(t) ==
    /\ task[t].pc = "applying"
    /\ \E done \in {Transacted(task[t].win, task[t].rev, task[t].v, task[t].c, t)} :
          \/ /\ done # None /\ Commit(done) /\ Shown(t, done)
             /\ task' = [task EXCEPT ![t] = [pc |-> "completed"]] /\ Tell(t, {"saved"})
          \/ /\ done = None \/ task[t].ended
             /\ Fails(t) /\ UNCHANGED <<index, meta, snap, view, fresh>>
    /\ UNCHANGED <<body, cache, op, steps>>

\* tags_cancel, and the end of a task by the user: what is being applied may still be saved.
CancelledAnyway(t) == {"cancelled"}
Cancelled(t) == IF task[t].pc = "applying" THEN {} ELSE {"cancelled"}
Cancel(t) ==
    /\ Blocks(t) /\ Step
    /\ task' = [task EXCEPT ![t] = IF @.pc = "applying" THEN [@ EXCEPT !.ended = TRUE] ELSE [pc |-> "cancelled"]]
    /\ Tell(t, Cancelled(t))
    /\ UNCHANGED <<disk, snap, cache, view, op, fresh>>

-----------------------------------------------------------------------------
(* What else happens to the project and its windows.                         *)
OtherSave(w) ==
    /\ snap[w] # None /\ Step
    /\ snap[w].rev = index.rev
    /\ index' = [index EXCEPT !.rev = @ + 1] /\ snap' = [snap EXCEPT ![w] = index']
    /\ UNCHANGED <<body, meta, cache, view, op, tasks, fresh>>

\* A window ends; what was written stays, and receipts answer for its tasks.
Close(w) ==
    /\ snap[w] # None /\ Step
    /\ snap' = [snap EXCEPT ![w] = None] /\ cache' = [cache EXCEPT ![w] = <<None, None, None>>]
    /\ IF view # None /\ view.win = w THEN view' = None /\ op' = Idle ELSE UNCHANGED <<view, op>>
    /\ task' = [t \in Tasks |-> IF Blocks(t) /\ task[t].win = w THEN [pc |-> "gone"] ELSE task[t]]
    /\ UNCHANGED <<disk, told, fresh>>
Open(w) ==
    /\ snap[w] = None /\ snap' = [snap EXCEPT ![w] = index]
    /\ UNCHANGED <<disk, cache, view, op, tasks, fresh, steps>>

\* The continuation of an AI client saves a new version; the index does not change.
WithCopy(f, v) == [x \in DOMAIN f \cup {3} |-> IF x = 3 THEN f[v] ELSE f[x]]
Fork(v) ==
    /\ Forks /\ 3 \notin DOMAIN meta /\ op.pc = "idle" /\ Step
    /\ body' = WithCopy(body, v) /\ meta' = [WithCopy(meta, v) EXCEPT ![3].token = fresh]
    /\ fresh' = fresh + 1
    /\ UNCHANGED <<index, snap, cache, view, op, tasks>>

Next ==
    \/ \E w \in Windows : OtherSave(w) \/ Close(w) \/ Open(w) \/ \E v \in DOMAIN meta : Enter(w, v)
    \/ \E stamped \in BOOLEAN : Save(stamped)
    \/ Leave \/ Edit \/ Undo \/ Command \/ UndoTags \/ Begin \/ Transact \/ RestoreTags
    \/ \E t \in Tasks : ApplyTask(t) \/ CommitTask(t) \/ Cancel(t)
                        \/ \E w \in Windows, v \in DOMAIN meta : Prepare(t, w, v)
    \/ \E v \in DOMAIN meta : Fork(v)
Spec == Init /\ [][Next]_vars

-----------------------------------------------------------------------------
(* Properties.                                                               *)
\* Every version can be opened: its text and its tag metadata have the same
\* segments at any time, however a save ends (applySidecar of hydrateTagDocument).
Openable == \A v \in DOMAIN meta : Fits(v)

\* A version refers to no tag that the project has not.
HasItsTags(v) ==
    IsCollection(index.lib, meta[v].ids) /\ \A s \in DOMAIN meta[v].segs : meta[v].segs[s] \subseteq meta[v].ids
OwnTags == \A v \in {1, 2} : HasItsTags(v)

\* So it stays by whatever order of commands, undo, tasks and copies (each passes
\* validateTagCollection), with one exception: a copy made after a command that
\* is then undone or done again and does not name it.  Only the files a command
\* changed are compared (projectTagRepository.ts:214), and the copy keeps tags
\* that the library has no more, although a later use of a tag should prevent
\* the undo (docs/AI_CONNECTOR.md:133).
CopiedSince(v) == /\ v = 3 /\ op.pc = "restore"
                  /\ v \notin DOMAIN op.receipt.versions /\ op.receipt.heads[2] < meta[v].token
Defined ==
    [][\A v \in DOMAIN meta' : \/ HasItsTags(v)'
                               \/ v \in DOMAIN meta /\ (CopiedSince(v) \/ ~HasItsTags(v))]_vars

\* What a client is told of its task is what happened to the project.
AnswersTrue == \A t \in Tasks :
    /\ "saved" \in told[t] => t \in index.reqs
    /\ told[t] \cap {"failed", "cancelled"} # {} => t \notin index.reqs
=============================================================================
