------------------------------ MODULE Viewing ------------------------------
(* What the window shows and what automatic saving would write: the ways to *)
(* replace the version on the screen (frontend/src/hooks/useVersions.ts,    *)
(* loadAudio of useFolder.ts, useImport.ts, useTranscription.ts and         *)
(* renameCurrentAudio of App.tsx) running into one another.                 *)
(*                                                                          *)
(* An operation is a function with awaits; a step is one call of the store  *)
(* (they queue up, one per folder) with what the program does until the     *)
(* next await.  Saving is usePersistence.ts without its failures, which     *)
(* Autosave has; what is published is rendered at once.                     *)
EXTENDS Integers, Sequences, SequencesExt, FiniteSets, FiniteSetsExt, Functions

CONSTANTS Audios, None,
          Slots,      \* operations that can run at a time
          Kinds,      \* operations the user, an assistant or a service starts
          MaxEdits, MaxOps   \* bounds of the exploration

ASSUME ViewingAssumption ==
    /\ None \notin Audios
    /\ Kinds \subseteq {"select", "copy", "rename", "delete", "ai", "background",
                        "load", "import", "transcribe", "title", "window"}
    /\ {MaxEdits, MaxOps} \subseteq Nat

\* The index of a recording's versions; labels and files do not matter here.
V == INSTANCE Versions WITH Texts <- {}, Labels <- {"v"}, Default <- "v", Null <- None,
        Torn <- "torn", MaxModels <- MaxOps, MaxEdits <- MaxOps, MaxCalls <- MaxOps

VARIABLES
    disk,      \* the index of each recording's versions
    text,      \* the content of each version on disk
    newest,    \* history: the last revision of it the user made
    ui,        \* the screen: what it says it shows, and the content it shows
    initialLoad, status,   \* initialLoadRef; "loading" makes the screen inert
    busy,      \* versionBusy: so does this
    saver,     \* usePersistence: baseline, unadopted, pending, timer, queue of writes
    ops,       \* what runs in each slot
    line,      \* inDirectory: who waits for a call of the store, in turn
    mutating,  \* mutationRef
    transcribing, renaming,
    crossed,       \* history: has a load or a title change met another operation?
    edits, calls   \* counters behind the bounds

store == <<disk, text>>
screen == <<ui, newest, initialLoad, status, busy>>
flags == <<mutating, transcribing, renaming>>
vars == <<store, screen, saver, ops, line, flags, crossed, edits, calls>>

\* A version: an edit of a group of versions, or its original, number 0.
Key(a, m, e) == [audio |-> a, model |-> m, edit |-> e]
Own(k) == [of |-> k, rev |-> 0]

\* The index a call returned or read, as the screen keeps it.
Models(a) == disk[a].models
Has(a, m, e) == /\ m \in DOMAIN Models(a)
                /\ IF e = 0 THEN Models(a)[m].original # None ELSE e \in DOMAIN Models(a)[m].edits
VersionsOf(a) == {k \in DOMAIN text : k.audio = a /\ Has(a, k.model, k.edit)}

-----------------------------------------------------------------------------
(* usePersistence                                                           *)

ShownEdit(u) == IF u.original THEN 0
                ELSE IF u.active \in DOMAIN u.models THEN u.models[u.active].active ELSE 0
ShownKey(u) == Key(u.audio, u.active, ShownEdit(u))
Snapshot(u, loading) ==
    IF loading \/ ~u.loaded \/ u.active = 0 \/ (~u.original /\ ShownEdit(u) = 0) THEN None
    ELSE [key |-> ShownKey(u), content |-> u.content]
Current == Snapshot(ui, initialLoad)
SameDocument(a, b) == b # None /\ a.key = b.key

\* adoptLoadedContent: only the exact content that was loaded is a baseline.
Adopted(now) == IF saver.base # None /\ now # None /\ now.content = saver.base THEN now ELSE saver.written
Entry(task, by) == [task |-> task, by |-> by]

\* The effect, once the screen shows u; read is the content just read or None.
RenderedOnly(u, read, loading) ==
    LET now == Snapshot(u, loading)
        written == IF read # None /\ now # None THEN now ELSE saver.written
        pending == IF now # None /\ now # written THEN now ELSE None
    IN [saver EXCEPT !.written = written, !.pending = pending, !.timer = pending # None]
Rendered(u, read, loading) ==
    LET now == Snapshot(u, loading)
        base == IF read = None THEN saver.base ELSE read
        written == IF ~loading /\ base # None /\ now # None /\ now.content = base THEN now
                   ELSE saver.written
        left == saver.pending # None /\ ~SameDocument(saver.pending, now)
        pending == IF now # None /\ now # written THEN now ELSE None
    IN [written |-> written, base |-> IF loading THEN base ELSE None,
        pending |-> pending, timer |-> pending # None,
        queue |-> saver.queue \o IF left THEN <<Entry(saver.pending, {})>> ELSE <<>>]

Show(u, read) == ui' = u /\ saver' = Rendered(u, read, initialLoad)

(* Operations and their tokens                                              *)

VersionKinds == {"select", "copy", "rename", "delete", "ai"}
Mutations == {"copy", "rename", "delete"}

\* What the functions of a render close over: what the screen said then.
Shown == [active |-> ui.active, edit |-> ShownEdit(ui), original |-> ui.original]
Idle == [kind |-> "none", pc |-> "idle", audio |-> None, model |-> 0, edit |-> 0,
         valid |-> FALSE, was |-> None, got |-> None, index |-> None]
Op(kind, a, m, e) == [Idle EXCEPT !.kind = kind, !.audio = a, !.model = m, !.edit = e,
                                  !.valid = TRUE, !.was = Shown]

\* operationRef and loadRequest: a new request overtakes those before it.
Overtaken(f, kinds) == [s \in Slots |-> IF f[s].kind \in kinds
                                        THEN [f[s] EXCEPT !.valid = FALSE] ELSE f[s]]
IsCurrent(op) == /\ op.valid /\ op.audio = ui.audio
                 /\ op.kind = "ai" => op.was.original = ui.original
At(s, kind, pc) == ops[s].kind = kind /\ ops[s].pc = pc
\* The call of the store that s waits for is its turn.
Calls(s, kind, pc) == At(s, kind, pc) /\ Head(line) = s
StoreCalls == {"read", "index", "persist", "original", "create", "label", "remove", "replace",
               "store", "content", "rename"}
Lined(f) == SelectSeq(line, LAMBDA s : f[s].pc = ops[s].pc)
            \o SetToSeq({s \in Slots : f[s].pc \in StoreCalls /\ f[s].pc # ops[s].pc})

Call(s) == /\ calls < MaxOps /\ calls' = calls + 1
           /\ ops[s].kind = "none"
           /\ \A t \in Slots : t < s => ops[t].kind # "none"

\* The first round of flushPendingSave for the operation in slot s: it waits for
\* the write of the snapshot, or for the writes under way, or for nothing.
Flush(f, s, op) ==
    LET now == Current
        idle == now = None /\ saver.queue = <<>>
        adopted == [saver EXCEPT !.written = IF initialLoad THEN @ ELSE Adopted(now),
                                 !.base = IF initialLoad THEN @ ELSE None, !.timer = FALSE]
    IN /\ ops' = [f EXCEPT ![s] = [op EXCEPT !.pc = IF idle THEN "flushed" ELSE "flush"]]
       /\ saver' = IF now # None
                   THEN [adopted EXCEPT !.pending = now, !.queue = Append(@, Entry(now, {s}))]
                   ELSE IF idle THEN adopted
                   ELSE [adopted EXCEPT !.queue[Len(saver.queue)].by = @ \cup {s}]

\* The head of the queue is written, unless it is on disk already; an original
\* keeps its text.  Those who wait for it look again at the screen.  A snapshot
\* that the timer is to write is another object than the one just written.
Kept(task) == task = saver.written \/ task.key.edit = 0
Store(task) == IF Kept(task) THEN text ELSE [text EXCEPT ![task.key] = task.content]
Settled(task) == ~SameDocument(task, Current) \/ task = Current
WriteLands ==
    /\ saver.queue # <<>>
    /\ Kept(Head(saver.queue).task) \/ Head(saver.queue).task.key \in DOMAIN text
    /\ LET head == Head(saver.queue)
           done == [saver EXCEPT !.written = head.task, !.queue = Tail(@),
                                 !.pending = IF @ = head.task /\ ~saver.timer THEN None ELSE @]
           again == ~Settled(head.task)
       IN /\ text' = Store(head.task)
          /\ saver' = IF again /\ head.by # {}
                      THEN [done EXCEPT !.pending = Current, !.timer = FALSE,
                                        !.queue = Append(@, Entry(Current, head.by))]
                      ELSE done
          /\ ops' = [s \in Slots |-> IF s \in head.by /\ ~again
                                     THEN [ops[s] EXCEPT !.pc = "flushed"] ELSE ops[s]]
    /\ UNCHANGED <<disk, screen, flags, edits, calls>>

\* The version is gone: the write is refused, and those who wait for it give up.
WriteRefused ==
    /\ saver.queue # <<>>
    /\ ~Kept(Head(saver.queue).task) /\ Head(saver.queue).task.key \notin DOMAIN text
    /\ LET waiting == Head(saver.queue).by
           kinds == {ops[s].kind : s \in waiting}
       IN /\ saver' = [saver EXCEPT !.queue = Tail(@)]
          /\ ops' = [s \in Slots |-> IF s \in waiting THEN Idle ELSE ops[s]]
          /\ busy' = (busy /\ ~\E s \in waiting : ops[s].kind \in VersionKinds /\ ops[s].valid)
          /\ mutating' = (mutating /\ kinds \cap Mutations = {})
          /\ transcribing' = (transcribing /\ "transcribe" \notin kinds)
          /\ renaming' = (renaming /\ "title" \notin kinds)
          /\ initialLoad' = (initialLoad /\ ~\E s \in waiting : ops[s].kind \in {"load", "title"} /\ ops[s].valid)
          /\ status' = "ready"
    /\ UNCHANGED <<store, ui, newest, edits, calls>>

TimerFires == /\ saver.timer
              /\ saver' = [saver EXCEPT !.timer = FALSE, !.queue = Append(@, Entry(saver.pending, {}))]
              /\ UNCHANGED <<store, screen, ops, flags, edits, calls>>

Usable == ~busy /\ status = "ready" /\ ~renaming

\* mutateTranscript
Edit == /\ Usable /\ ~initialLoad /\ edits < MaxEdits
        /\ Current # None /\ ~ui.original
        /\ edits' = edits + 1
        /\ newest' = (Current.key :> edits') @@ newest
        /\ Show([ui EXCEPT !.content.rev = edits'], None)
        /\ UNCHANGED <<store, initialLoad, status, busy, ops, flags, calls>>

Goto(s, op) == /\ ops' = [ops EXCEPT ![s] = op]
               /\ UNCHANGED <<busy, mutating>>
\* finally: versionBusy is cleared by the last request only.
Finish(s) == /\ ops' = [ops EXCEPT ![s] = Idle]
             /\ busy' = (busy /\ ~ops[s].valid)
             /\ mutating' = (mutating /\ ops[s].kind \notin Mutations)
Same == UNCHANGED <<ui, saver>>
Rest == UNCHANGED <<newest, initialLoad, status, transcribing, renaming, edits, calls>>

-----------------------------------------------------------------------------
(* Versions: useVersions.ts                                                 *)

\* The controls are inert on a busy screen; an assistant only asks versionBusy.
\* Which label is renamed makes no difference: it is that of the version shown.
Begin(s, kind) ==
    /\ kind \in Kinds \cap VersionKinds
    /\ Call(s) /\ ui.loaded /\ ~mutating
    /\ IF kind = "ai" THEN ~busy /\ ui.active \in DOMAIN ui.models ELSE Usable
    /\ \E k \in VersionsOf(ui.audio) :
          /\ k.model \in DOMAIN ui.models
          /\ kind \in {"ai", "rename"} => k.model = ui.active /\ k.edit = ShownEdit(ui)
          /\ Flush(Overtaken(ops, VersionKinds), s, Op(kind, ui.audio, k.model, k.edit))
    /\ busy' = TRUE /\ mutating' = (kind \in Mutations)
    /\ UNCHANGED <<store, ui, newest, initialLoad, status, transcribing, renaming, edits>>

FirstStep(op) == CASE op.kind = "select" -> IF op.edit = 0 THEN "original" ELSE "read"
                   [] op.kind \in {"copy", "ai"} -> "create"
                   [] op.kind = "rename" -> "label"
                   [] op.kind = "delete" -> "remove"

Resume(s) ==
    /\ ops[s].kind \in VersionKinds /\ ops[s].pc = "flushed"
    /\ IF IsCurrent(ops[s])
       THEN Goto(s, [ops[s] EXCEPT !.pc = FirstStep(ops[s]),
                                   !.got = IF ops[s].kind = "ai" THEN ui.content ELSE None])
       ELSE Finish(s)
    /\ UNCHANGED store /\ Same /\ Rest

Shows(m, models, content, original) ==
    [ui EXCEPT !.models = models, !.active = m, !.content = content,
               !.original = original, !.loaded = TRUE]
\* What an operation shows last, unless it was overtaken.
Publish(s, u, content) == /\ Finish(s)
                          /\ IF IsCurrent(ops[s]) THEN Show(u, content) ELSE Same

\* selectEdit
ReadEdit(s) ==
    LET op == ops[s]
    IN /\ Calls(s, "select", "read")
       /\ IF Has(op.audio, op.model, op.edit)
          THEN Goto(s, [op EXCEPT !.pc = "index", !.got = text[Key(op.audio, op.model, op.edit)]])
          ELSE Finish(s)
       /\ UNCHANGED store /\ Same /\ Rest

ReadIndex(s) ==
    LET op == ops[s]
    IN /\ Calls(s, "select", "index")
       /\ IF IsCurrent(op)
          THEN Goto(s, [op EXCEPT !.pc = "persist",
                                  !.index = [m \in DOMAIN Models(op.audio) |->
                                                IF m = op.model
                                                THEN [Models(op.audio)[m] EXCEPT !.active = op.edit]
                                                ELSE Models(op.audio)[m]]])
          ELSE Finish(s)
       /\ UNCHANGED store /\ Same /\ Rest

\* persistActiveModel refuses a version that is gone.
Chosen(a, m, e) == [disk EXCEPT ![a].active = m, ![a].models[m].active = e]
Persist(s) ==
    LET op == ops[s]
    IN /\ Calls(s, "select", "persist")
       /\ IF Has(op.audio, op.model, op.edit)
          THEN /\ disk' = Chosen(op.audio, op.model, op.edit)
               /\ Publish(s, Shows(op.model, op.index, op.got, FALSE), op.got)
          ELSE Finish(s) /\ Same /\ UNCHANGED disk
       /\ UNCHANGED text /\ Rest

OpenOriginal(s) ==
    LET op == ops[s]
        content == text[Key(op.audio, op.model, 0)]
    IN /\ Calls(s, "select", "original")
       /\ IF Has(op.audio, op.model, 0)
          THEN Publish(s, Shows(op.model, ui.models, content, TRUE), content)
          ELSE Finish(s) /\ Same
       /\ UNCHANGED store /\ Rest

\* createEdit, of confirmNaming and of createAIEdit: the reviewed text was read
\* from the file it is made from.  A copy of a read-only version is a new group.
Copied(a, m, focus) ==
    IF V!ForksGroup(Models(a)[m])
    THEN [index |-> V!AddModel(disk[a], V!OneEdit(FALSE, "v", None), focus),
          key |-> Key(a, V!NextModel(disk[a]), 1)]
    ELSE [index |-> V!Focus(V!Put(disk[a], m, V!AddEdit(Models(a)[m], "v", None, focus)), m, focus),
          key |-> Key(a, m, V!NextEdit(Models(a)[m]))]
Make(copy) == /\ disk' = [disk EXCEPT ![copy.key.audio] = copy.index]
              /\ text' = (copy.key :> Own(copy.key)) @@ text

Create(s) ==
    LET op == ops[s]
    IN /\ Calls(s, "copy", "create") \/ Calls(s, "ai", "create")
       /\ IF /\ Has(op.audio, op.model, op.edit)
             /\ op.kind = "ai" => text[Key(op.audio, op.model, op.edit)] = op.got
          THEN \E copy \in {Copied(op.audio, op.model, TRUE)} :
                  /\ Make(copy)
                  /\ Publish(s, Shows(copy.key.model, copy.index.models, Own(copy.key), FALSE),
                             Own(copy.key))
          ELSE Finish(s) /\ Same /\ UNCHANGED store
       /\ Rest

\* renameVersion and confirmNaming: the index comes from the disk.
Rename(s) ==
    LET op == ops[s]
    IN /\ Calls(s, "rename", "label")
       /\ IF Has(op.audio, op.model, op.edit)
          THEN Publish(s, [ui EXCEPT !.models = Models(op.audio)], None)
          ELSE Finish(s) /\ Same
       /\ UNCHANGED store /\ Rest

\* confirmDelete: the replacement is read before its name is published.
Fallback(index) == IF index.active \in DOMAIN index.models THEN index.active
                   ELSE V!First(DOMAIN index.models)
FallbackEdit(model) == IF model.active \in DOMAIN model.edits THEN model.active
                       ELSE V!First(DOMAIN model.edits)
Removed(op) == IF op.edit = 0 THEN V!WithoutOriginal(disk[op.audio], op.model)
               ELSE V!WithoutEdit(disk[op.audio], op.model, op.edit)
RemovedShown(op) == /\ op.was.active = op.model
                    /\ IF op.was.original THEN op.edit = 0 ELSE op.edit = op.was.edit /\ op.edit # 0
AfterRemoval(index) ==
    IF DOMAIN index.models = {}
    THEN [ui EXCEPT !.models = index.models, !.active = 0, !.loaded = FALSE, !.original = FALSE]
    ELSE [ui EXCEPT !.models = index.models]
\* ... and not first, for the properties to be tried on.
ReplacesAtOnce(op, index) == FALSE
Replaces(op, index) == RemovedShown(op) /\ DOMAIN index.models # {}
RemoveVersion(s) ==
    LET op == ops[s]
    IN /\ Calls(s, "delete", "remove")
       /\ IF ~Has(op.audio, op.model, op.edit)
          THEN Finish(s) /\ Same /\ UNCHANGED <<store, newest>>
          ELSE \E index \in {Removed(op)}, gone \in {{Key(op.audio, op.model, op.edit)}} :
                  /\ disk' = [disk EXCEPT ![op.audio] = index]
                  /\ text' = Restrict(text, DOMAIN text \ gone)
                  /\ newest' = Restrict(newest, DOMAIN newest \ gone)
                  /\ IF IsCurrent(op) /\ Replaces(op, index)
                     THEN Goto(s, [op EXCEPT !.pc = "replace", !.index = index]) /\ Same
                     ELSE Publish(s, AfterRemoval(index), None)
       /\ UNCHANGED <<initialLoad, status, transcribing, renaming, edits, calls>>

Replace(s) ==
    LET op == ops[s]
        m == Fallback(op.index)
        e == FallbackEdit(op.index.models[m])
    IN /\ Calls(s, "delete", "replace")
       /\ IF Has(op.audio, m, e)
          THEN Publish(s, Shows(m, op.index.models, text[Key(op.audio, m, e)], e = 0),
                       text[Key(op.audio, m, e)])
          ELSE Finish(s) /\ Same
       /\ UNCHANGED store /\ Rest

\* An assistant saves a version in the background: setActive is false.
Background ==
    /\ "background" \in Kinds /\ calls < MaxOps /\ calls' = calls + 1
    /\ \E k \in VersionsOf(ui.audio) : Make(Copied(k.audio, k.model, FALSE))
    /\ UNCHANGED <<screen, saver, ops, flags, edits>>

\* Another window on the folder opens a version.
OtherWindow ==
    /\ "window" \in Kinds /\ calls < MaxOps /\ calls' = calls + 1
    /\ \E k \in VersionsOf(ui.audio) : k.edit # 0 /\ disk' = Chosen(k.audio, k.model, k.edit)
    /\ UNCHANGED <<text, screen, saver, ops, flags, edits>>

-----------------------------------------------------------------------------
(* Recordings: loadAudio, finishImport                                      *)

LoadKinds == {"load"}

Load(s) ==
    /\ "load" \in Kinds
    /\ Call(s) /\ Usable /\ ~transcribing
    /\ \E a \in Audios \ {ui.audio} :
          Flush(Overtaken(ops, LoadKinds), s, Op("load", a, 0, 0))
    /\ UNCHANGED <<store, screen, flags, edits>>

\* finishImport stores the transcript as a group of its own, and loads it.
Import(s) ==
    /\ "import" \in Kinds
    /\ Call(s) /\ Usable
    /\ \E a \in Audios : ops' = [ops EXCEPT ![s] = [Op("import", a, 0, 0) EXCEPT !.pc = "store"]]
    /\ UNCHANGED <<store, screen, saver, flags, edits>>
AddGroup(a, group, edited) ==
    LET m == V!NextModel(disk[a])
        keys == {Key(a, m, e) : e \in IF edited THEN {0, 1} ELSE {0}}
    IN /\ disk' = [disk EXCEPT ![a] = V!AddModel(disk[a], group, TRUE)]
       /\ text' = [k \in keys |-> Own(k)] @@ text
ImportStored(s) ==
    /\ Calls(s, "import", "store")
    /\ AddGroup(ops[s].audio, [V!OneEdit(TRUE, "v", None) EXCEPT !.original = "file"], TRUE)
    /\ IF transcribing THEN ops' = [ops EXCEPT ![s] = Idle] /\ UNCHANGED saver
       ELSE Flush(Overtaken(ops, LoadKinds), s, Op("load", ops[s].audio, 0, 0))
    /\ UNCHANGED <<screen, flags, edits, calls>>

\* onLoadStart, unless another load began or a transcription did.
LoadStartsFirst(s) ==
    /\ At(s, "load", "flushed")
    /\ ops' = [ops EXCEPT ![s] = IF @.valid THEN [@ EXCEPT !.pc = "index"] ELSE Idle]
    /\ initialLoad' = TRUE /\ status' = "loading"
    /\ UNCHANGED <<store, ui, newest, busy, saver, flags, edits, calls>>
LoadStarts(s) ==
    /\ At(s, "load", "flushed")
    /\ IF ops[s].valid /\ ~transcribing
       THEN /\ ops' = [ops EXCEPT ![s].pc = "index"]
            /\ initialLoad' = TRUE /\ status' = "loading"
       ELSE ops' = [ops EXCEPT ![s] = Idle] /\ UNCHANGED <<initialLoad, status>>
    /\ UNCHANGED <<store, ui, newest, busy, saver, flags, edits, calls>>

LoadIndex(s) ==
    /\ Calls(s, "load", "index")
    /\ ops' = [ops EXCEPT ![s].pc = "content", ![s].index = disk[ops[s].audio]]
    /\ UNCHANGED <<store, screen, saver, flags, edits, calls>>

\* readEdited looks for the version in the index on disk, and onLoaded shows it
\* under the index that was read before.  A load that was overtaken shows
\* nothing, and ends nothing.
Opened(a) == LET m == Fallback(disk[a]) IN Key(a, m, FallbackEdit(Models(a)[m]))
Loaded(a, index, content) ==
    LET model == index.models[Fallback(index)]
    IN [audio |-> a, models |-> index.models, active |-> index.active, content |-> content,
        original |-> model.designated \/ (DOMAIN model.edits = {} /\ model.original # None),
        loaded |-> TRUE]
NotTranscribed(a) == [audio |-> a, models |-> <<>>, active |-> 0, content |-> None,
                      original |-> FALSE, loaded |-> FALSE]
LoadContent(s) ==
    LET op == ops[s]
    IN /\ Calls(s, "load", "content")
       /\ IF ~op.valid THEN ops' = [ops EXCEPT ![s] = Idle] /\ Same /\ UNCHANGED <<busy, status>>
          ELSE /\ ops' = Overtaken([ops EXCEPT ![s] = [op EXCEPT !.pc = "refresh", !.index = None]],
                                   VersionKinds)
               /\ busy' = FALSE /\ status' = "ready"
               /\ IF DOMAIN op.index.models = {} \/ DOMAIN Models(op.audio) = {}
                  THEN Show(NotTranscribed(op.audio), None)
                  ELSE \E content \in {text[Opened(op.audio)]} :
                          Show(Loaded(op.audio, op.index, content), content)
       /\ UNCHANGED <<store, newest, initialLoad, flags, edits, calls>>

\* A load that fails ends, unless it was overtaken.
LoadFails(s) ==
    /\ Calls(s, "load", "index") \/ Calls(s, "load", "content")
    /\ calls < MaxOps /\ calls' = calls + 1
    /\ ops' = [ops EXCEPT ![s] = Idle]
    /\ initialLoad' = (initialLoad /\ ~ops[s].valid)
    /\ status' = IF ops[s].valid THEN "ready" ELSE status
    /\ UNCHANGED <<store, ui, newest, busy, saver, flags, edits>>

\* refreshAudioList is over.
LoadEnds(s) ==
    /\ At(s, "load", "refresh")
    /\ ops' = [ops EXCEPT ![s] = Idle]
    /\ initialLoad' = FALSE
    /\ UNCHANGED <<store, ui, newest, status, busy, saver, flags, edits, calls>>

-----------------------------------------------------------------------------
(* useTranscription: a service answers while the user works.                *)

Transcribe(s) ==
    /\ "transcribe" \in Kinds
    /\ Call(s) /\ Usable /\ ~transcribing
    /\ transcribing' = TRUE
    /\ Flush(ops, s, Op("transcribe", ui.audio, 0, 0))
    /\ UNCHANGED <<store, screen, mutating, renaming, edits>>

InContext(op) == op.audio = ui.audio /\ op.was = Shown
Answered(s) ==
    LET op == ops[s]
    IN /\ op.kind = "transcribe" /\ op.pc = "flushed"
       /\ IF op.model = 0 /\ InContext(op)
          THEN Flush(ops, s, [op EXCEPT !.model = 1])
          ELSE ops' = [ops EXCEPT ![s].pc = "create"] /\ UNCHANGED saver
       /\ UNCHANGED <<store, screen, flags, edits, calls>>

\* createModel; the result is shown only where the job was started.
Transcribed(s) ==
    LET op == ops[s]
        m == V!NextModel(disk[op.audio])
        content == Own(Key(op.audio, m, 0))
    IN /\ Calls(s, "transcribe", "create")
       /\ AddGroup(op.audio, V!Original(FALSE, "file"), FALSE)
       /\ transcribing' = FALSE
       /\ IF InContext(op)
          THEN /\ ops' = Overtaken([ops EXCEPT ![s] = Idle], VersionKinds)
               /\ busy' = FALSE /\ status' = "ready"
               /\ Show(Shows(m, disk'[op.audio].models, content, TRUE), content)
          ELSE ops' = [ops EXCEPT ![s] = Idle] /\ Same /\ UNCHANGED <<busy, status>>
       /\ UNCHANGED <<newest, initialLoad, mutating, renaming, edits, calls>>

-----------------------------------------------------------------------------
(* renameCurrentAudio: the content is kept, and the index read again.       *)

Title(s) ==
    /\ "title" \in Kinds
    /\ Call(s) /\ Usable /\ ui.loaded
    /\ renaming' = TRUE
    /\ Flush(ops, s, Op("title", ui.audio, 0, 0))
    /\ UNCHANGED <<store, screen, mutating, transcribing, edits>>

TitleStarts(s) ==
    /\ At(s, "title", "flushed")
    /\ status' = "loading"
    /\ IF ui.loaded
       THEN /\ ops' = [ops EXCEPT ![s].pc = "rename", ![s].got = ui.content]
            /\ initialLoad' = TRUE /\ UNCHANGED renaming
       ELSE ops' = [ops EXCEPT ![s] = Idle] /\ initialLoad' = FALSE /\ renaming' = FALSE
    /\ UNCHANGED <<store, ui, newest, busy, saver, mutating, transcribing, edits, calls>>

\* The recording has its new name: its text is shown under it.
TitleShown(s) ==
    /\ Calls(s, "title", "rename")
    /\ ops' = [ops EXCEPT ![s].pc = "index"]
    /\ Show([ui EXCEPT !.audio = ops[s].audio, !.content = ops[s].got, !.loaded = TRUE], None)
    /\ UNCHANGED <<store, newest, initialLoad, status, busy, flags, edits, calls>>

TitleEnds(s) ==
    /\ Calls(s, "title", "index")
    /\ ops' = Overtaken([ops EXCEPT ![s] = Idle], VersionKinds)
    /\ initialLoad' = FALSE
    /\ LET now == [ui EXCEPT !.models = Models(ops[s].audio), !.active = disk[ops[s].audio].active]
       IN ui' = now /\ saver' = Rendered(now, None, FALSE)
    /\ busy' = FALSE /\ status' = "ready" /\ renaming' = FALSE
    /\ UNCHANGED <<store, newest, mutating, transcribing, edits, calls>>

-----------------------------------------------------------------------------
Start(a) == LET m == [V!OneEdit(FALSE, "v", None) EXCEPT !.original = "file"]
            IN [models |-> <<V!AddEdit(m, "v", None, FALSE)>>, active |-> 1]
Init == /\ disk = [a \in Audios |-> Start(a)]
        /\ text = [k \in {Key(a, 1, e) : a \in Audios, e \in 0..2} |-> Own(k)]
        /\ newest = <<>>
        /\ \E a \in {CHOOSE a \in Audios : TRUE} : ui = Loaded(a, disk[a], Own(Key(a, 1, 1)))
        /\ initialLoad = FALSE /\ status = "ready" /\ busy = FALSE
        /\ saver = [written |-> Current, base |-> None, pending |-> None, timer |-> FALSE,
                    queue |-> <<>>]
        /\ ops = [s \in Slots |-> Idle] /\ line = <<>>
        /\ mutating = FALSE /\ transcribing = FALSE /\ renaming = FALSE
        /\ crossed = FALSE
        /\ edits = 0 /\ calls = 0

VersionStep(s) == \/ Resume(s) \/ ReadEdit(s) \/ ReadIndex(s) \/ Persist(s) \/ OpenOriginal(s)
                  \/ Create(s) \/ Rename(s) \/ RemoveVersion(s) \/ Replace(s)
LoadStep(s) == \/ ImportStored(s) \/ LoadStarts(s) \/ LoadIndex(s) \/ LoadContent(s) \/ LoadEnds(s)
OtherStep(s) == Answered(s) \/ Transcribed(s) \/ TitleStarts(s) \/ TitleShown(s) \/ TitleEnds(s)
Step(s) == VersionStep(s) \/ LoadStep(s) \/ OtherStep(s)

Starts(s) == \/ \E kind \in VersionKinds : Begin(s, kind)
             \/ Load(s) \/ Import(s) \/ Transcribe(s) \/ Title(s)
\* A load shows the content of one index under another, the earlier, or reads
\* again the version whose text waits to be saved; a title change does not go on
\* with the version it was called for; a change of version that a load or a title
\* change has overtaken still changes the index on disk.
Meant(op) == Key(op.audio, op.was.active, op.was.edit)
Stale(s) == /\ ops[s].valid
            /\ \/ /\ At(s, "load", "content")
                  /\ \/ ops[s].index # disk[ops[s].audio]
                     \/ saver.pending # None /\ saver.pending.key = ShownKey(ui')
               \/ /\ At(s, "title", "flushed") \/ At(s, "title", "rename") \/ At(s, "title", "index")
                  /\ \E u \in {ui, ui'} : ShownKey(u) # Meant(ops[s])
Late(s) == ops[s].kind \in VersionKinds /\ ~IsCurrent(ops[s]) /\ ops[s].audio = ui.audio /\ disk' # disk
Crosses(s) == ops'[s] # ops[s] /\ (Stale(s) \/ Late(s))

After == /\ line' = Lined(ops')
         /\ crossed' = (crossed \/ \E s \in Slots : Crosses(s))

Next == /\ \/ Edit \/ TimerFires \/ WriteLands \/ WriteRefused \/ Background \/ OtherWindow
           \/ \E s \in Slots : Starts(s) \/ Step(s) \/ LoadFails(s)
        /\ After

Spec == Init /\ [][Next]_vars

\* Calls of the store end and promises resume; a service answers.
Fairness == /\ WF_vars((WriteLands \/ WriteRefused) /\ After)
            /\ \A s \in Slots : WF_vars(Step(s) /\ After)
FairSpec == Spec /\ Fairness

-----------------------------------------------------------------------------
TypeOK == /\ \A a \in Audios : DOMAIN Models(a) # {} => disk[a].active \in DOMAIN Models(a)
          /\ DOMAIN text = UNION {VersionsOf(a) : a \in Audios}
          /\ ui.audio \in Audios
          /\ {initialLoad, busy, mutating, transcribing, renaming} \subseteq BOOLEAN

\* Every version on disk holds its own text, and automatic saving would write
\* the content on the screen into the version it was read from, whichever
\* operations of the window run into one another, until one of them has crossed
\* a load or a change of title as Stale and Late say: loadAudio reads the index
\* and the text by two calls (useFolder.ts:121-122), renameCurrentAudio keeps
\* the text and reads the index again (App.tsx:1172, 1191), and an assistant's
\* copy that was overtaken is still made and chosen (useVersions.ts:230-234).
\* Then it can fail, though memory and disk should agree (useImport.ts:55).
WritesOwn == crossed \/
             /\ \A k \in DOMAIN text : text[k].of = k
             /\ Current # None /\ Current.key.edit # 0 => Current.content.of = Current.key

\* What the user typed is on disk, on the screen, or about to be written, as
\* long as its version exists, through every change of what is shown that did
\* not cross another; one that reads a version again whose text waits to be
\* saved counts as crossed (useFolder.ts:112).
EditsKept == crossed \/
             \A k \in DOMAIN newest \cap DOMAIN text :
                newest[k] \in {c.rev : c \in {text[k], ui.content} \cup
                    {task.content : task \in ({saver.pending} \ {None})
                        \cup {saver.queue[i].task : i \in DOMAIN saver.queue}}}

\* The screen does not stay inert: a load or a change of version ends.
UsableAgain == [](~Usable => <>Usable)
=============================================================================
