------------------------------ MODULE Autosave ------------------------------
(* Automatic saving of the transcript on the screen: the hook               *)
(* frontend/src/hooks/usePersistence.ts, with the two ways to replace the   *)
(* document, loadAudio of useFolder.ts and selectEdit of useVersions.ts.    *)
(*                                                                          *)
(* A document is a version of an interview, its content a revision number:  *)
(* every edit makes a new one.  The program has one thread, so an action is *)
(* what runs between two awaits; user events, timers and completions of     *)
(* file operations come once the promises that are ready have resumed.      *)
(* React renders an edit before the next event; what navigation publishes   *)
(* after an await is rendered by a step of its own.                         *)
EXTENDS Naturals, Sequences, SequencesExt, FiniteSets

CONSTANTS Docs, None,
          Kinds,       \* the kinds of navigation: "load" (loadAudio), "switch" (selectEdit)
          EditWhile,   \* windows of navigation in which the user may edit
          UndoWhileSaving,  \* may the user undo while a write is under way?
          LateFaults,  \* may a write fail after it changed the document?
          MaxEdits, MaxUndos, MaxCalls, MaxFaults  \* bounds of the exploration

ASSUME DocsAssumption == None \notin [doc : Docs, rev : Nat]
ASSUME WindowAssumption == /\ Kinds \subseteq {"load", "switch"}
                           /\ EditWhile \subseteq {"position", "refresh"}
                           /\ {LateFaults, UndoWhileSaving} \subseteq BOOLEAN
ASSUME BoundAssumption == {MaxEdits, MaxUndos, MaxCalls, MaxFaults} \subseteq Nat

VARIABLES
    disk,       \* the revision each document has on disk
    newest,     \* history: the last revision of it the user made or loaded
    ui,         \* the document and the revision on the screen
    past,       \* the revisions undo and redo can return to
    loading,    \* initialLoadRef: snapshot() is off
    base,       \* persistedContent not adopted yet
    published,  \* content set by navigation and not rendered yet
    pending,    \* pending.current
    timer,      \* the save timer runs; what it will write is pending
    written,    \* lastWritten.current
    queue,      \* the chain of write(), its head first
    writing,    \* the head of the chain waits for the disk
    rejected,   \* the last promise of the chain, once settled, was rejected
    status,     \* saveStatus
    save, nav,  \* handleSave or a close, and loadAudio or selectEdit
    slipped,    \* history: has the user edited after the flush of a load, before its start?
    edits, undos, calls, faults  \* counters behind the bounds

chain == <<queue, writing, rejected>>
screen == <<ui, past, published, newest, slipped>>
hook == <<base, pending, timer, written>>
counters == <<edits, undos, calls, faults>>
vars == <<disk, screen, loading, hook, chain, status, save, nav, counters>>

Revisions == 0 .. MaxEdits
Snapshots == [doc : Docs, rev : Revisions]
Callers == {"save", "nav"}
Entries == [task : Snapshots, held : BOOLEAN, by : SUBSET Callers]

Idle == [pc |-> "idle", kind |-> "load", doc |-> ui.doc, task |-> None]

-----------------------------------------------------------------------------
Snapshot == IF loading THEN None ELSE ui
SameDocument(a, b) == b # None /\ a.doc = b.doc
Unchanged(task, w) == task = w

\* adoptLoadedContent: only the exact content that was loaded is a baseline.
BaselineAny(c, b) == IF ~loading /\ b # None THEN c ELSE written
Baseline(c, b) == IF ~loading /\ b # None /\ c = b THEN c ELSE written
Unadopted(b) == IF loading THEN b ELSE None

\* When pending.current is assigned, no queued write is it any longer.
Released(q) == [i \in DOMAIN q |-> [q[i] EXCEPT !.held = FALSE]]
Entry(task, held, by) == [task |-> task, held |-> held, by |-> by]

\* A document replacement does not discard its outstanding snapshot.
Outstanding(task) == IF pending # None /\ (task = None \/ ~SameDocument(pending, task))
                     THEN <<Entry(pending, FALSE, {})>> ELSE <<>>

\* The effect, for the content c and the loaded content b of this render.
Effect(c, b) ==
    LET task == IF loading THEN None ELSE c
    IN /\ written' = Baseline(c, b) /\ base' = Unadopted(b)
       /\ queue' = Released(queue) \o Outstanding(task)
       /\ pending' = IF task # None /\ ~Unchanged(task, written') THEN task ELSE None
       /\ timer' = (pending' # None)

\* No promise is ready to resume: events, timers and files can have their turn.
Awaiting == /\ queue = <<>> \/ writing
            /\ "check" \notin {save.pc, nav.pc}

-----------------------------------------------------------------------------
Init == /\ \E d \in Docs : ui = [doc |-> d, rev |-> 0] /\ written = [doc |-> d, rev |-> 0]
        /\ disk = [d \in Docs |-> 0] /\ newest = disk
        /\ past = {} /\ published = None
        /\ loading = FALSE /\ base = None
        /\ pending = None /\ timer = FALSE
        /\ queue = <<>> /\ writing = FALSE /\ rejected = FALSE
        /\ status = "saved"
        /\ save = Idle /\ nav = Idle /\ slipped = FALSE
        /\ edits = 0 /\ undos = 0 /\ calls = 0 /\ faults = 0

\* The editor is inert while a document loads and while a version is switched;
\* EditWhile says which of the remaining windows of loadAudio the user hits
Editable == /\ published = None /\ status # "loading"
            /\ ~(nav.pc # "idle" /\ nav.kind = "switch")
            /\ nav.pc = "passed" => "position" \in EditWhile
            /\ nav.pc = "refresh" => "refresh" \in EditWhile

Show(rev) == /\ ui' = [ui EXCEPT !.rev = rev]
             /\ newest' = [newest EXCEPT ![ui.doc] = rev]
             /\ status' = "unsaved"
             /\ slipped' = (slipped \/ nav.pc = "passed")
             /\ Effect(ui', base)
             /\ UNCHANGED <<disk, published, loading, writing, rejected, save, nav, calls, faults>>

\* mutateTranscript
Edit == /\ Awaiting /\ Editable /\ edits < MaxEdits
        /\ edits' = edits + 1
        /\ past' = past \cup {ui.rev}
        /\ Show(edits + 1)
        /\ UNCHANGED undos

\* performUndo and performRedo return to an earlier object of the history.
Undo == /\ Awaiting /\ Editable /\ undos < MaxUndos
        /\ ~UndoWhileSaving => queue = <<>>
        /\ undos' = undos + 1
        /\ \E rev \in past \ {ui.rev} : Show(rev)
        /\ past' = past \cup {ui.rev}
        /\ UNCHANGED edits

TimerFires == /\ Awaiting /\ timer /\ timer' = FALSE
              /\ queue' = Append(queue, Entry(pending, TRUE, {}))
              /\ UNCHANGED <<disk, screen, loading, base, pending, written, writing, rejected,
                             status, save, nav, counters>>

Render == /\ Awaiting /\ published # None
          /\ ui' = published /\ published' = None
          /\ past' = {}
          /\ Effect(published, published)
          /\ UNCHANGED <<disk, newest, slipped, loading, writing, rejected, status, save, nav, counters>>

-----------------------------------------------------------------------------
(* write(): its tasks run one at a time.                                     *)

\* The caller of a failed write gives up; of a successful one, it looks again.
ResumeAnyway(f, caller, ok) ==
    IF caller \notin Head(queue).by THEN f
    ELSE [f EXCEPT !.pc = IF f.pc = "wait" THEN "check" ELSE "passed"]
Resume(f, caller, ok) ==
    IF caller \notin Head(queue).by THEN f
    ELSE CASE ok /\ f.pc = "wait" -> [f EXCEPT !.pc = "check"]
           [] ok /\ f.pc = "drain" -> [f EXCEPT !.pc = "passed"]
           [] OTHER -> Idle

Settle(ok) ==
    /\ queue' = Tail(queue) /\ writing' = FALSE /\ rejected' = ~ok
    /\ save' = Resume(save, "save", ok) /\ nav' = Resume(nav, "nav", ok)

ReleaseAny == pending' = None /\ status' = "saved"
ReleasePending == IF Head(queue).held
                  THEN pending' = None /\ status' = "saved"
                  ELSE UNCHANGED <<pending, status>>

SkipWrite == /\ queue # <<>> /\ ~writing
             /\ Unchanged(Head(queue).task, written)
             /\ ReleasePending
             /\ Settle(TRUE)
             /\ UNCHANGED <<disk, screen, loading, base, timer, written, counters>>

StartWrite == /\ queue # <<>> /\ ~writing
              /\ ~Unchanged(Head(queue).task, written)
              /\ writing' = TRUE
              /\ status' = IF SameDocument(Head(queue).task, Snapshot) THEN "saving" ELSE status
              /\ UNCHANGED <<disk, screen, loading, hook, queue, rejected, save, nav, counters>>

Stored == [disk EXCEPT ![Head(queue).task.doc] = Head(queue).task.rev]

EndWrite == /\ Awaiting /\ writing
            /\ disk' = Stored
            /\ written' = Head(queue).task
            /\ ReleasePending
            /\ Settle(TRUE)
            /\ UNCHANGED <<screen, loading, base, timer, counters>>

\* The write fails, perhaps after it took effect.
FailWrite == /\ Awaiting /\ writing /\ faults < MaxFaults
             /\ faults' = faults + 1
             /\ disk' \in IF LateFaults THEN {disk, Stored} ELSE {disk}
             /\ status' = "error"
             /\ Settle(FALSE)
             /\ UNCHANGED <<screen, loading, hook, edits, undos, calls>>

-----------------------------------------------------------------------------
(* flushPendingSave: a round of its loop, by which f becomes f1.             *)

Flush(f, f1, caller) ==
    /\ written' = Baseline(ui, base) /\ base' = Unadopted(base)
    /\ timer' = FALSE
    /\ \/ /\ Snapshot # None
          /\ pending' = Snapshot
          /\ queue' = Append(Released(queue), Entry(Snapshot, TRUE, {caller}))
          /\ f1 = [f EXCEPT !.pc = "wait", !.task = Snapshot]
          /\ UNCHANGED status
       \/ /\ Snapshot = None /\ queue # <<>>
          /\ queue' = [queue EXCEPT ![Len(queue)].by = @ \cup {caller}]
          /\ f1 = [f EXCEPT !.pc = "drain"]
          /\ UNCHANGED <<pending, status>>
       \/ /\ Snapshot = None /\ queue = <<>>
          /\ f1 = IF rejected THEN Idle ELSE [f EXCEPT !.pc = "passed"]
          /\ UNCHANGED <<pending, queue, status>>

\* Its checks after the write: another document, this content, or once more.
Settled(task) == ~SameDocument(task, Snapshot) \/ task = Snapshot
Check(f, f1, caller) ==
    /\ f.pc = "check"
    /\ \/ /\ Settled(f.task)
          /\ f1 = [f EXCEPT !.pc = "passed"]
          /\ UNCHANGED <<hook, queue, status>>
       \/ ~Settled(f.task) /\ Flush(f, f1, caller)
    /\ UNCHANGED <<disk, screen, loading, writing, rejected, counters>>

\* handleSave, and the flushes of normal close and of returnToProjects, which
\* do not ask whether a document is loading.
AskSave == /\ Awaiting /\ save.pc = "idle" /\ calls < MaxCalls
           /\ calls' = calls + 1
           /\ Flush(Idle, save', "save")
           /\ UNCHANGED <<disk, screen, loading, writing, rejected, nav, edits, undos, faults>>

SaveChecks == Check(save, save', "save") /\ UNCHANGED nav

SaveDone == /\ save.pc = "passed"
            /\ save' = Idle
            /\ UNCHANGED <<disk, screen, loading, hook, chain, status, nav, counters>>

-----------------------------------------------------------------------------
(* loadAudio and selectEdit                                                  *)

Navigate == /\ Awaiting /\ nav.pc = "idle" /\ calls < MaxCalls
            /\ published = None /\ status # "loading"
            /\ calls' = calls + 1
            /\ \E k \in Kinds, d \in Docs :
                  Flush([Idle EXCEPT !.kind = k, !.doc = d], nav', "nav")
            /\ UNCHANGED <<disk, screen, loading, writing, rejected, save, edits, undos, faults>>

NavChecks == Check(nav, nav', "nav") /\ UNCHANGED save

\* persistReadingPosition is over; loadAudio calls onLoadStart.
Leave == /\ Awaiting /\ nav.pc = "passed"
         /\ nav' = [nav EXCEPT !.pc = "read"]
         /\ loading' = (loading \/ nav.kind = "load")
         /\ status' = IF nav.kind = "load" THEN "loading" ELSE status
         /\ UNCHANGED <<disk, screen, hook, chain, save, counters>>

Read == /\ Awaiting /\ nav.pc = "read"
        /\ nav' = [nav EXCEPT !.pc = "publish", !.task = [doc |-> nav.doc, rev |-> disk[nav.doc]]]
        /\ UNCHANGED <<disk, screen, loading, hook, chain, status, save, counters>>

ReadFails == /\ Awaiting /\ nav.pc = "read" /\ faults < MaxFaults
             /\ faults' = faults + 1
             /\ nav' = Idle
             /\ loading' = (loading /\ nav.kind # "load")
             /\ status' = IF nav.kind = "load" THEN "error" ELSE status
             /\ UNCHANGED <<disk, screen, hook, chain, save, edits, undos, calls>>

PublishDoc == /\ Awaiting /\ nav.pc = "publish"
              /\ published' = nav.task
              /\ nav' = IF nav.kind = "load" THEN [nav EXCEPT !.pc = "refresh"] ELSE Idle
              /\ status' = IF nav.kind = "load" THEN "saved" ELSE status
              /\ UNCHANGED <<disk, ui, past, newest, slipped, loading, hook, chain, save, counters>>

\* refreshAudioList is over: onLoadEnd, without a render.
LoadEnd == /\ Awaiting /\ nav.pc = "refresh"
           /\ loading' = FALSE /\ nav' = Idle
           /\ UNCHANGED <<disk, screen, hook, chain, status, save, counters>>

-----------------------------------------------------------------------------
Saving == SkipWrite \/ StartWrite \/ EndWrite
Navigating == NavChecks \/ Leave \/ Read \/ PublishDoc \/ LoadEnd

Next == \/ Edit \/ Undo \/ TimerFires \/ Render
        \/ SkipWrite \/ StartWrite \/ EndWrite \/ FailWrite
        \/ AskSave \/ SaveChecks \/ SaveDone
        \/ Navigate \/ NavChecks \/ Leave \/ Read \/ ReadFails \/ PublishDoc \/ LoadEnd

Spec == Init /\ [][Next]_vars

\* Timers fire, file operations end and promises resume.
Fairness == /\ WF_vars(TimerFires) /\ WF_vars(Render)
            /\ WF_vars(Saving) /\ WF_vars(SaveChecks \/ SaveDone) /\ WF_vars(Navigating)
FairSpec == Spec /\ Fairness

-----------------------------------------------------------------------------
\* The status "saved" is the truth: the content on the screen is on disk.  This and
\* the properties below hold until the user has edited after the flush of a load and before its
\* start, while the reading position is stored (useFolder.ts:112): such an edit is
\* pending without a write, and a load of the same document drops it.
SavedMeansOnDisk == ~slipped => (status = "saved" /\ published = None => disk[ui.doc] = ui.rev)

\* The newest content of every document is on disk, on the screen, or held to
\* be written: replacing the document never gives up an unsaved one.
Retained(d) == \/ disk[d] = newest[d]
               \/ [doc |-> d, rev |-> newest[d]] \in
                     {ui, pending} \cup {queue[i].task : i \in DOMAIN queue}
NothingLost == ~slipped => \A d \in Docs : Retained(d)

\* A flush that succeeds has saved the content on the screen when it returns,
\* unless the document was replaced meanwhile or an edit slipped in as above.
Passes(f, f1) == f.pc = "check" /\ f1.pc = "passed" /\ f.task.doc = ui.doc
FlushSaves == [][~slipped /\ (Passes(save, save') \/ Passes(nav, nav')) => disk[ui.doc] = ui.rev]_vars

\* Automatic saving: an unsaved edit is saved, or its failure is shown, but for
\* the same edits.
EventuallySaved == []<>(slipped \/ disk[ui.doc] = ui.rev \/ status = "error")
=============================================================================
