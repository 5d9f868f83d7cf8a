---------------------------- MODULE ProjectIndex ----------------------------
(* The index of a project (ripple-project.json) and its users: windows that    *)
(* work on a snapshot of it, fe/components/ProjectWorkspace.tsx, and save with  *)
(* saveProject, fe/lib/projectStore.ts.  Management of the materials takes the  *)
(* editor lease, one per project, stages copies and then saves an index that    *)
(* refers to them; titles, details and durations are saved without the lease.   *)
(* A save takes the project's lock, and is refused when the revision on disk is *)
(* not the one of the snapshot.  Locks and lease end with their window.         *)
EXTENDS Materials, Sequences

CONSTANTS
    Windows, None,
    Ops,            \* the management operations of this run
    StuckLate,      \* may putting the old index back fail as well
    MaxCalls,       \* operations started, and texts made
    MaxEdits,       \* edits of texts
    MaxFaults,      \* file operations that fail, and windows that end
    MaxSteps        \* all of these together

ASSUME NoneAssumption == None \notin Windows

VARIABLES
    index,          \* ripple-project.json
    folders, media, \* the folders of manuscripts and the audio copies on disk
    snap,           \* the project as each window knows it, None before it opened it
    lease, lock,    \* the window that has the editor lease, and the one that saves
    work,           \* the operation of each window
    editor,         \* the recording that each window edits
    \* History: the last revision of each text, and the texts written in an editor,
    \* in folders that the index lists; per call the texts it brought and gave up;
    \* the calls reported as done and as failed.
    latest, written, effect, done, failed,
    fresh, calls, edits, faults

disk == <<index, folders, media>>
ends == <<lease, lock>>
reports == <<done, failed>>
texts == <<latest, effect, written, fresh, calls, edits>>
vars == <<disk, snap, ends, work, editor, texts, reports, faults>>

Idle == [pc |-> "idle"]

\* Two sessions: one with an audio in the project that has a text, and with an
\* audio elsewhere that has none; the other empty.
First == [rev |-> 0, log |-> {}, trash |-> {}, gone |-> Empty,
          sessions |-> (1 :> ((3 :> Recording("copy", 3, FALSE, 3)) @@ (4 :> Recording("reference", 4, FALSE, 0))))
                       @@ (2 :> Empty)]
Init ==
    /\ index = First /\ folders = (3 :> Folder(1, 1 :> [text |-> 0, rev |-> 0])) /\ media = (3 :> 1)
    /\ snap = [w \in Windows |-> First]
    /\ lease = None /\ lock = None
    /\ work = [w \in Windows |-> Idle] /\ editor = [w \in Windows |-> None]
    /\ latest = (0 :> 0) /\ effect = Empty /\ written = {0}
    /\ done = {} /\ failed = {}
    /\ fresh = 4 /\ calls = 0 /\ edits = 0 /\ faults = 0

Budget == calls + edits + faults < MaxSteps
Fault == Budget /\ faults < MaxFaults /\ faults' = faults + 1
NoFault == faults' = faults
Goto(w, p) == work' = [work EXCEPT ![w].pc = p]
FreeLease(w) == lease' = IF editor[w] = None /\ lease = w THEN None ELSE lease

-----------------------------------------------------------------------------
(* The start of an operation: what it stages, up to its save.                *)
Current(w) == snap[w].rev = index.rev
Ready(w) == work[w].pc = "idle" /\ snap[w] # None /\ Budget /\ calls < MaxCalls
Call == calls + 1
New == [text |-> Call, rev |-> 0]

Begun(w, ask, p) ==
    /\ work' = [work EXCEPT ![w] = [pc |-> p, call |-> Call, next |-> ask.next, base |-> None,
                   old |-> ask.old, oldMedia |-> ask.oldMedia,
                   undo |-> IF ask.undo THEN DOMAIN ask.folders ELSE {},
                   undoMedia |-> IF ask.undo THEN DOMAIN ask.media ELSE {}]]
    /\ folders' = ask.folders @@ folders /\ media' = ask.media @@ media
    /\ effect' = (Call :> [makes |-> ask.makes, drops |-> ask.drops]) @@ effect
    /\ latest' = [t \in ask.makes |-> 0] @@ latest
    /\ fresh' = fresh + 3 /\ calls' = Call
    /\ UNCHANGED <<snap, editor, written, edits, reports, faults>>

\* checkedTrashMutation, and the same lines of importProjectMaterials,
\* importExistingManuscript and reassignManuscript: nothing is done without the
\* lease or on a snapshot that is not current.
NeverTaken == FALSE
LeaseTaken == lease # None
Manage(w, ask) ==
    /\ ~LeaseTaken /\ lock = None /\ Current(w)
    /\ lease' = w /\ UNCHANGED <<lock, index>>
    /\ Begun(w, ask, "save")

\* Titles, details, durations, the order of materials: a save and no more.
Metadata(w, ask) == UNCHANGED <<ends, index>> /\ Begun(w, ask, "save")

Describe(w) == Ready(w) /\ "describe" \in Ops /\ Metadata(w, Asking(snap[w]))
CreateSession(w) == Ready(w) /\ editor[w] = None /\ "create" \in Ops /\ Metadata(w, AddSession(snap[w], fresh))

\* A rename by an AI client starts from the index as it is under the lock.  It
\* needs the lease unless a recording is open in its window.
Rename(w) ==
    /\ Ready(w) /\ "rename" \in Ops /\ lock = None
    /\ editor[w] = None => ~LeaseTaken
    /\ lease' = w /\ lock' = w /\ UNCHANGED index
    /\ Begun(w, Asking(index), "publish")

Sessions(w) == DOMAIN snap[w].sessions
Recs(w, s) == DOMAIN snap[w].sessions[s]
Rec(w, s, r) == snap[w].sessions[s][r]
HeldBy(w, s, r) == Held(folders, Rec(w, s, r))

Import(w) == Ready(w) /\ \E s \in Sessions(w) :
    \/ "audio" \in Ops /\ \E storage \in {"copy", "reference"}, models \in {Empty, 1 :> New} :
           Manage(w, ImportAudio(snap[w], s, fresh, storage, models))
    \/ "text" \in Ops /\ Manage(w, ImportText(snap[w], s, fresh, New))
    \/ \E r \in Recs(w, s) : IsAudio(Rec(w, s, r)) /\
          \/ "append" \in Ops /\ Manage(w, AppendText(snap[w], folders, s, r, fresh, New))
          \/ "existing" \in Ops /\ ~Exists(folders, Rec(w, s, r))
                /\ Manage(w, ImportExisting(snap[w], s, r, fresh, New))

RelinkMedia(w) == Ready(w) /\ "relink" \in Ops /\ \E s \in Sessions(w) : \E r \in Recs(w, s) :
    Rec(w, s, r).storage # "reference" /\ Manage(w, Relink(snap[w], s, r))

MoveRecording(w) == Ready(w) /\ "move" \in Ops /\ \E s, d \in Sessions(w) : \E r \in Recs(w, s) :
    s # d /\ IsAudio(Rec(w, s, r)) /\ Manage(w, Move(snap[w], folders, s, d, r, fresh))

\* One model, or all of them to where there is none.
ReassignManuscript(w) == Ready(w) /\ "reassign" \in Ops /\ \E s \in Sessions(w) :
    \E r \in Recs(w, s) : \E d \in Recs(w, s) \cup {0} :
       LET held == HeldBy(w, s, r)
           empty == d = 0 \/ HeldBy(w, s, d) = Empty
       IN /\ held # Empty /\ r # d /\ (d # 0 => IsAudio(Rec(w, s, d)))
          /\ \E ids \in {{i} : i \in DOMAIN held} \cup {x \in {DOMAIN held} : empty} :
                Manage(w, Reassign(snap[w], folders, s, r, d, ids, fresh))

Trash(w) == Ready(w) /\ "trash" \in Ops /\ \E s \in Sessions(w) :
    \E r \in Recs(w, s) :
       \/ Manage(w, TrashAll(snap[w], s, r))
       \/ HeldBy(w, s, r) # Empty /\ Manage(w, TrashAudio(snap[w], folders, s, r, fresh))
       \/ \E i \in DOMAIN HeldBy(w, s, r) : Manage(w, TrashModel(snap[w], folders, s, r, i, fresh))
TrashInterview(w) == Ready(w) /\ "session" \in Ops /\ \E s \in Sessions(w) :
    Manage(w, TrashSession(snap[w], s))
Restore(w) == Ready(w) /\
    \/ \E item \in snap[w].trash : Restorable(snap[w], item)
          /\ Manage(w, RestoreMaterial(snap[w], folders, item, fresh))
    \/ \E s \in DOMAIN snap[w].gone :
          /\ ({s} \cup DOMAIN snap[w].gone[s].recs) \cap Ids(snap[w].sessions) = {}
          /\ Manage(w, RestoreSession(snap[w], s))
Clear(w) == Ready(w) /\ "clear" \in Ops /\ (snap[w].trash # {} \/ snap[w].gone # Empty)
    /\ Manage(w, ClearTrash(snap[w], folders))

-----------------------------------------------------------------------------
(* saveProject.                                                              *)
Fails(w) == /\ failed' = failed \cup {work[w].call} /\ UNCHANGED <<snap, done>>
            /\ IF work[w].undo \cup work[w].undoMedia # {}
               THEN Goto(w, "undo") /\ UNCHANGED lease
               ELSE work' = [work EXCEPT ![w] = Idle] /\ FreeLease(w)

\* The lock, the revision, the check of the index to be written, the backup.
AnyDate(w) == TRUE
UpToDate(w) == Current(w)
Check(w) ==
    /\ work[w].pc = "save" /\ lock = None
    /\ \/ /\ UpToDate(w) /\ Sound(work[w].next) /\ lock' = w /\ NoFault
          /\ Goto(w, "publish") /\ UNCHANGED <<snap, lease, reports>>
       \/ ~(UpToDate(w) /\ Sound(work[w].next)) /\ Fails(w) /\ NoFault /\ UNCHANGED lock
       \/ UpToDate(w) /\ Fault /\ Fails(w) /\ UNCHANGED lock
    /\ UNCHANGED <<disk, editor, texts>>

Updated(w) == [work[w].next EXCEPT !.rev = index.rev + 1, !.log = @ \cup {work[w].call}]
Publish(w) ==
    /\ work[w].pc = "publish"
    /\ \/ /\ index' = Updated(w) /\ snap' = [snap EXCEPT ![w] = Updated(w)]
          /\ done' = done \cup {work[w].call} /\ lock' = None /\ NoFault
          /\ IF work[w].old \cup work[w].oldMedia # {}
             THEN Goto(w, "clean") /\ UNCHANGED lease
             ELSE work' = [work EXCEPT ![w] = Idle] /\ FreeLease(w)
          /\ UNCHANGED failed
       \/ /\ Fault /\ index' \in {index, Updated(w)}
          /\ work' = [work EXCEPT ![w].pc = "putback", ![w].base = index]
          /\ UNCHANGED <<snap, ends, reports>>
    /\ UNCHANGED <<folders, media, editor, texts>>

\* The write failed: the old index is written again, and failing that is ignored.
PutBack(w) ==
    /\ work[w].pc = "putback" /\ lock' = None
    /\ index' \in {work[w].base} \cup (IF StuckLate THEN {index} ELSE {})
    /\ Fails(w) /\ UNCHANGED <<folders, media, editor, texts, faults>>

\* After the save: clearProjectTrash removes what the index no longer lists, and
\* a failed import what it had staged.
Tidy(w) ==
    /\ work[w].pc \in {"clean", "undo"}
    /\ LET x == work[w]
       IN IF x.pc = "clean"
          THEN /\ folders' = Restrict(folders, DOMAIN folders \ x.old)
               /\ media' = Restrict(media, DOMAIN media \ x.oldMedia)
          ELSE /\ folders' = Restrict(folders, DOMAIN folders \ x.undo)
               /\ media' = Restrict(media, DOMAIN media \ x.undoMedia)
    /\ work' = [work EXCEPT ![w] = Idle] /\ FreeLease(w)
    /\ UNCHANGED <<index, snap, lock, editor, texts, reports, faults>>

-----------------------------------------------------------------------------
(* Opening the project and its recordings.                                   *)
Open(w) ==
    /\ work[w].pc = "idle" /\ editor[w] = None /\ lock = None /\ snap[w] # index
    /\ snap' = [snap EXCEPT ![w] = index]
    /\ UNCHANGED <<disk, ends, work, editor, texts, reports, faults>>

Entering(w, ix) ==
    /\ work[w].pc = "idle" /\ lease' = w
    /\ \E s \in DOMAIN ix.sessions : \E r \in DOMAIN ix.sessions[s] :
          editor' = [editor EXCEPT ![w] = [session |-> s, id |-> r, folder |-> ix.sessions[s][r].folder]]
    /\ UNCHANGED <<disk, lock, work, texts, reports, faults>>

\* enterRecording, from the snapshot there is; and openSegmentLink, which reads the
\* project again and keeps the lease it has.
Enter(w) == ~LeaseTaken /\ snap[w] # None /\ Entering(w, snap[w]) /\ UNCHANGED snap
FollowLink(w) == /\ editor[w] # None /\ lock = None /\ Entering(w, index) /\ editor' # editor
                 /\ snap' = [snap EXCEPT ![w] = index]
Leave(w) ==
    /\ editor[w] # None /\ work[w].pc = "idle"
    /\ editor' = [editor EXCEPT ![w] = None] /\ lease' = None
    /\ UNCHANGED <<disk, snap, lock, work, texts, reports, faults>>

\* Does the index list the folder that is edited, among the materials or the trash?
Places == ActivePlaces(index) \cup TrashPlaces(index)
Lists(f) == \E p \in Places : p.rec.folder = f

Edit(w) ==
    /\ editor[w] # None /\ Budget /\ edits < MaxEdits /\ editor[w].folder \in DOMAIN folders
    /\ LET f == editor[w].folder
       IN \E i \in DOMAIN folders[f].models :
             LET t == folders[f].models[i].text
             IN /\ folders' = [folders EXCEPT ![f].models[i].rev = latest[t] + 1]
                /\ latest' = IF Lists(f) THEN [latest EXCEPT ![t] = @ + 1] ELSE latest
    /\ edits' = edits + 1
    /\ UNCHANGED <<index, media, snap, ends, work, editor, effect, written, fresh, calls, reports, faults>>

\* A transcription, or an import in the editor, makes a text in its folder.
Write(w) ==
    /\ editor[w] # None /\ "write" \in Ops /\ Budget /\ calls < MaxCalls
    /\ LET f == editor[w].folder
           held == IF f \in DOMAIN folders THEN folders[f].models ELSE Empty
       IN /\ folders' = (f :> Folder(editor[w].session, (FreeId(held) :> New) @@ held)) @@ folders
          /\ written' = written \cup (IF Lists(f) THEN {Call} ELSE {})
    /\ latest' = (Call :> 0) @@ latest /\ calls' = Call
    /\ UNCHANGED <<index, media, snap, ends, work, editor, effect, fresh, edits, reports, faults>>

\* A window ends, and its locks with it.
Close(w) ==
    /\ snap[w] # None /\ Fault
    /\ snap' = [snap EXCEPT ![w] = None]
    /\ work' = [work EXCEPT ![w] = Idle] /\ editor' = [editor EXCEPT ![w] = None]
    /\ lease' = (IF lease = w THEN None ELSE lease) /\ lock' = (IF lock = w THEN None ELSE lock)
    /\ UNCHANGED <<disk, texts, reports>>

Next == \E w \in Windows :
    \/ Describe(w) \/ CreateSession(w) \/ Rename(w)
    \/ Import(w) \/ RelinkMedia(w) \/ MoveRecording(w) \/ ReassignManuscript(w)
    \/ Trash(w) \/ TrashInterview(w) \/ Restore(w) \/ Clear(w)
    \/ Check(w) \/ Publish(w) \/ PutBack(w) \/ Tidy(w)
    \/ Open(w) \/ Enter(w) \/ FollowLink(w) \/ Leave(w) \/ Edit(w) \/ Write(w) \/ Close(w)

Spec == Init /\ [][Next]_vars

-----------------------------------------------------------------------------
(* Properties                                                                *)
Known == written \cup UNION {effect[c].makes : c \in index.log}
Dropped == UNION {effect[c].drops : c \in index.log}
Copies(t) == {x \in UNION {{[place |-> p, model |-> i] : i \in DOMAIN Held(folders, p.rec)} : p \in Places} :
                 Held(folders, x.place.rec)[x.model].text = t}

\* Every text the user has brought or written is listed in one place, among the
\* materials or in the trash, with all that was edited in it, until the trash is
\* emptied: moves, detachments, removals and restorations neither lose nor double it.
\* What is edited or written in a folder the index no longer lists, in a recording
\* opened from an old snapshot (ProjectWorkspace.tsx:285), does not count: it is lost.
EveryTextOnce == \A t \in Known \ Dropped :
    \E c \in Copies(t) : Copies(t) = {c} /\ Held(folders, c.place.rec)[c.model].rev = latest[t]

\* No save undoes another: what was reported as done stays, and what was reported
\* as failed is not there ("The project changed in another window", m1396).
NoLostUpdate == done \subseteq index.log /\ failed \cap index.log = {}

\* Who edits a recording that the project lists keeps it: while it is open, no
\* other window's save, nor one that fails, removes it or exchanges its folder
\* (acquireProjectEditor).  From an old snapshot one may open what is not listed.
Belongs(w) == editor[w] # None /\
    LET e == editor[w]
    IN /\ e.session \in DOMAIN index.sessions /\ e.id \in DOMAIN index.sessions[e.session]
       /\ index.sessions[e.session][e.id].folder = e.folder
OpenStaysListed == [][\A w \in Windows : Belongs(w) /\ editor'[w] = editor[w] => Belongs(w)']_vars
=============================================================================
