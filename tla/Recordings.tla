------------------------------ MODULE Recordings ------------------------------
(* A folder of recordings and what frontend/src/localStore.ts keeps beside   *)
(* each: the container `<stem>.transcript` with an index and the files of    *)
(* the versions.  The operations that move whole recordings are modelled:    *)
(* finding the container of a recording, opening it, the migration of the    *)
(* older layouts, a first version, a save, a new title, and the rename by    *)
(* verified copies.  inDirectory runs one at a time.  Each is a plan of file *)
(* operations, any of which may fail or be the last before the program ends. *)
(*                                                                           *)
(* A recording is told by its size and first bytes; Bytes are the values of  *)
(* that fingerprint.  No two names share a stem, so a name stands for its    *)
(* stem too.  The index is written whole (ManuscriptStore has its recovery). *)
EXTENDS Naturals, FiniteSets, Sequences, SequencesExt

CONSTANTS Names, Bytes, Part,   \* names of audio files, what they hold, and a file not yet copied
          Titles, Versions,     \* interview titles; numbers of versions
          None,
          Outside,              \* what is left to the user who renames files outside:
                                \* "live" while the program runs, "again" transcribes
                                \* the recording anew, "unmarked" has no fingerprint,
                                \* "reuse" takes a name with files of an older layout
          ScanFaults,           \* does the scan for older layouts fail?
          MaxEdits, MaxCalls, MaxFaults   \* bounds: saves of a version, calls, failures

RecordingsAssumption ==
    /\ Versions \subseteq Nat /\ ScanFaults \in BOOLEAN
    /\ Outside \subseteq {"live", "again", "unmarked", "reuse"}
    /\ {MaxEdits, MaxCalls, MaxFaults} \subseteq Nat

VARIABLES
    audio,           \* the audio files: what each name holds
    box,             \* the containers, by the stem of their name
    side, root,      \* the older layouts: `<stem>.edited.json`, and an index in the folder itself
    mem,             \* the caches of resolveTranscriptDir
    open, listed,    \* the recording on screen; legacyEntries, those to be migrated
    op, report,      \* the running operation; what the last one reported
    saved,           \* history: the latest text saved of every version of every recording
    strayed,         \* history: the recordings given a name with another's container,
                     \* and those to whose containers they were written then
    calls, faults    \* counters behind the bounds

disk == <<audio, box>>
screen == <<open, listed>>
count == <<calls, faults>>
history == <<saved, strayed>>
vars == <<disk, side, root, mem, screen, op, report, history, count>>

FileNames == ({"id"} \cup Titles) \X Versions    \* m1-e1.json, or after a title
Text(b, v, k) == <<b, v, k>>
Empty == [index |-> None, file |-> [f \in FileNames |-> None]]
NoFiles == [v \in Versions |-> None]
Index(n, print, of) == [audio |-> n, print |-> print, of |-> of]
Held(ix) == {v \in Versions : ix.of[v] # None}
Kept(x) == {f \in FileNames : x.file[f] # None}

NoMem == [dir |-> [n \in Names |-> None], print |-> [n \in Names |-> None], scan |-> None]
Idle == [kind |-> "idle"]

-----------------------------------------------------------------------------
(* Which container belongs to a recording?                                  *)

\* scanTranscriptContainers keeps its first answer until the caches are dropped.
Scan == [s \in Names |-> IF box[s] = None THEN None ELSE box[s].index]
Scanned(m) == IF m.scan # None THEN m.scan ELSE Scan
Fingerprint(m, n) == IF m.print[n] # None THEN m.print[n] ELSE audio[n]
\* Is the container the recording's?
Matches(ix, print, n) == ix # None /\ (ix.print = print \/ ix.audio = n)

\* resolveTranscriptDir: by the cache, by the stem, by the fingerprint.  Only a
\* hit is remembered; with several matches the order of the folder decides.
Resolved(m, n) ==
    IF m.dir[n] # None THEN {m.dir[n]}
    ELSE IF box[n] # None THEN {n}
    ELSE LET found == {s \in Names : Matches(Scanned(m)[s], Fingerprint(m, n), n)}
         IN IF found = {} THEN {None} ELSE found
Looked(m, n, s) ==
    LET fast == m.dir[n] # None \/ box[n] # None
    IN [dir |-> [m.dir EXCEPT ![n] = s],
        print |-> IF fast THEN m.print ELSE [m.print EXCEPT ![n] = Fingerprint(m, n)],
        scan |-> IF fast THEN m.scan ELSE Scanned(m)]

HasBox(s) == s # None /\ box[s] # None
Indexed(s) == HasBox(s) /\ box[s].index # None
\* m1484: files without an index are damaged, not untranscribed.
Damaged(s) == HasBox(s) /\ ~Indexed(s) /\ Kept(box[s]) # {}
Contents(s) == IF Indexed(s)
            THEN [v \in Held(box[s].index) |-> box[s].file[box[s].index.of[v]]] ELSE <<>>
Whole(s) == Indexed(s) /\ \A v \in DOMAIN Contents(s) : Contents(s)[v] # None

\* Of the two names the second has a container, but not the one of the recording.
Strays(n, new) == HasBox(new) /\ Resolved(NoMem, n) # {new}
Owner(s) == IF Indexed(s) THEN {box[s].index.print} \ {None} ELSE {}
Writes(b, s) == strayed' = strayed \cup (IF b \in strayed THEN Owner(s) ELSE {})

Migrates(n) == side[n] # None \/ (root # None /\ root.audio = n)
\* findLegacyEntries takes every recording without a container of its own, if
\* the folder has an index of the older layout.
Legacy == {n \in Names : audio[n] # None /\ box[n] = None /\ (side[n] # None \/ root # None)}
\* listAudioFiles asks the fingerprint of each that nothing else tells.
Listing(m) ==
    LET unknown == {n \in Names : audio[n] # None /\ box[n] = None /\ ~Migrates(n)}
    IN [m EXCEPT !.scan = Scanned(m),
                 !.print = [n \in Names |-> IF n \in unknown THEN Fingerprint(m, n) ELSE m.print[n]]]

-----------------------------------------------------------------------------
(* A plan is a sequence of stages; a stage is a set of file operations, done *)
(* in the order the folder lists them.                                       *)
Audio(n, b) == [do |-> "audio", at |-> n, set |-> b]
Box(s, x) == [do |-> "box", at |-> s, set |-> x]
Put(s, f, t) == [do |-> "file", at |-> s, file |-> f, set |-> t]
Publish(s, ix) == [do |-> "index", at |-> s, set |-> ix]
When(cond, stages) == IF cond THEN stages ELSE <<>>

Holding(x, s) == {Put(s, f, x.file[f]) : f \in Kept(x)} \cup
                 (IF x.index = None THEN {} ELSE {Publish(s, x.index)})
Emptying(x, s) == {Put(s, f, None) : f \in Kept(x)} \cup
                  (IF x.index = None THEN {} ELSE {Publish(s, None)})
RemoveBox(x, s) == <<Emptying(x, s), {Box(s, None)}>>

Do(step) ==
    CASE step.do = "audio" -> audio' = [audio EXCEPT ![step.at] = step.set] /\ UNCHANGED box
      [] step.do = "box" -> box' = [box EXCEPT ![step.at] = step.set] /\ UNCHANGED audio
      [] step.do = "file" -> box' = [box EXCEPT ![step.at].file[step.file] = step.set] /\ UNCHANGED audio
      [] step.do = "index" -> box' = [box EXCEPT ![step.at].index = step.set] /\ UNCHANGED audio

\* syncTranscriptNames: copies under the new names one after the other, then the
\* index, then the old files go.
Titled(t, v) == <<t, v>>
Renamed(ix, t) == [ix EXCEPT !.of = [v \in Versions |-> IF ix.of[v] = None THEN None ELSE Titled(t, v)]]
Sync(ix, texts, s, t) ==
    LET order == SetToSortSeq(Held(ix), <)
        new == {Titled(t, v) : v \in Held(ix)}
        old == {ix.of[v] : v \in Held(ix)}
    IN [i \in DOMAIN order |-> {Put(s, Titled(t, order[i]), texts[order[i]])}]
       \o <<{Publish(s, Renamed(ix, t))}, {Put(s, f, None) : f \in old \ new}>>
CanSync(x, t) ==
    \A v \in Held(x.index) : Titled(t, v) \in {x.index.of[w] : w \in Held(x.index)} \/ x.file[Titled(t, v)] = None

\* renameAudio: verified copies of the audio and of the container, the new name
\* in the index, the title in the files; then the sources are removed.
CopyPlan(n, s, new, t) ==
    LET x == box[s]
        ix == [x.index EXCEPT !.audio = new]
    IN <<{Audio(new, Part)}, {Audio(new, audio[n])}>>
       \o <<{Box(new, Empty)}, Holding(x, new), {Publish(new, ix)}>> \o Sync(ix, Contents(s), new, t)
RemovePlan(n, s) == RemoveBox(box[s], s) \o <<{Audio(n, None)}>>

\* Its recovery puts the sources back from the copies, as they were before the
\* title, and then removes the copies.
RebuildPlan ==
    LET x == op.box
        copy == box[op.new]
        s == op.at
        published == {copy.index.of[v] : v \in Held(copy.index)}
        originals == {x.index.of[v] : v \in Held(x.index)}
    IN When(box[s] = None, <<{Box(s, Empty)}>>)
       \o <<Holding(copy, s), {Publish(s, x.index)},
                 {Put(s, f, x.file[f]) : f \in originals},
                 {Put(s, f, None) : f \in published \ originals}>>
       \o When(audio[op.name] = None, <<{Audio(op.name, audio[op.new])}>>)
DropBoxPlan == When(box[op.new] # None, RemoveBox(box[op.new], op.new))
\* What a mistake might do: a copy that broke off stays.
DropAudioOnceWhole == When(audio[op.new] \notin {None, Part}, <<{Audio(op.new, None)}>>)
DropAudioPlan == When(audio[op.new] # None, <<{Audio(op.new, None)}>>)

\* What a mistake might do: the index comes before the files.
MigrateIndexFirst(n) ==
    LET texts == IF side[n] # None THEN side[n] ELSE root.texts
        print == IF side[n] # None THEN None ELSE Fingerprint(mem, n)
        of == [v \in Versions |-> IF v \in DOMAIN texts THEN <<"id", v>> ELSE None]
    IN When(box[n] = None, <<{Box(n, Empty)}>>)
       \o <<{Publish(n, Index(n, print, of))}, {Put(n, <<"id", v>>, texts[v]) : v \in DOMAIN texts}>>
\* migrateLegacySidecar, and migrateRootV2, the only one to note the fingerprint.
MigratePlan(n) ==
    LET texts == IF side[n] # None THEN side[n] ELSE root.texts
        print == IF side[n] # None THEN None ELSE Fingerprint(mem, n)
        of == [v \in Versions |-> IF v \in DOMAIN texts THEN <<"id", v>> ELSE None]
        order == SetToSortSeq(DOMAIN texts, <)
    IN When(box[n] = None, <<{Box(n, Empty)}>>)
       \o [i \in DOMAIN order |-> {Put(n, <<"id", order[i]>>, texts[order[i]])}]
       \o <<{Publish(n, Index(n, print, of))}>>

-----------------------------------------------------------------------------
Latest(b, v) == saved[b][v]
Is(kind) == op.kind = kind
Steps == op.kind # "idle" /\ op.todo # <<>>
Call == op = Idle /\ calls < MaxCalls /\ calls' = calls + 1 /\ UNCHANGED faults
Some(todo) == SelectSeq(todo, LAMBDA stage : stage # {})
Plan(kind, n, todo) == [kind |-> kind, name |-> n, todo |-> Some(todo)]

\* loadAudio reads the index, which migrates an older layout; afterwards the
\* list is made again.
Shows(n) == open' = n /\ \/ listed' = Legacy
                         \/ ScanFaults /\ faults < MaxFaults /\ UNCHANGED listed
Open(n) ==
    /\ Call /\ audio[n] # None /\ open # n
    /\ \E s \in Resolved(mem, n) :
          /\ ~Damaged(s)
          /\ IF ~Indexed(s) /\ Migrates(n)
             THEN /\ op' = Plan("open", n, MigratePlan(n))
                  /\ mem' = Looked(mem, n, s) /\ UNCHANGED screen
             ELSE /\ Shows(n) /\ mem' = Listing(Looked(mem, n, s)) /\ UNCHANGED op
    /\ report' = "none"
    /\ UNCHANGED <<disk, side, root, history>>

\* handleMigrateLegacy: every recording of the list, with or without a container.
MigrateAll ==
    /\ Call /\ listed # {}
    /\ op' = [kind |-> "migrate", name |-> None, todo |-> <<>>, rest |-> {n \in listed : Migrates(n)}]
    /\ report' = "none"
    /\ UNCHANGED <<disk, side, root, mem, screen, history>>
NextEntry ==
    /\ Is("migrate") /\ op.todo = <<>>
    /\ \E n \in op.rest :
          op' = [op EXCEPT !.todo = MigratePlan(n), !.rest = @ \ {n}]
    /\ UNCHANGED <<disk, side, root, mem, screen, report, history, count>>

\* createModel writes to the container of the stem, and adds to the index that
\* the recording had, wherever it is.
Transcribe ==
    /\ Call /\ open # None
    /\ audio[open] \in Bytes
    /\ \E s \in IF mem.dir[open] # None THEN {mem.dir[open]} ELSE {open} :
          LET ix == IF Indexed(s) THEN box[s].index ELSE Index(open, None, NoFiles)
              b == audio[open]
              v == Cardinality(Held(ix)) + 1
              print == IF ix.print # None THEN ix.print ELSE Fingerprint(mem, open)
          IN /\ ~Damaged(s) /\ (~Indexed(s) => ~Migrates(open))
             /\ v \in Versions /\ saved[b][v] = 0
             /\ "again" \in Outside \/ Resolved(mem, open) \subseteq {open, None}
             /\ op' = Plan("create", open, When(box[open] = None, <<{Box(open, Empty)}>>)
                             \o <<{Put(open, <<"id", v>>, Text(b, v, 1))},
                                  {Publish(open, Index(open, print, [ix.of EXCEPT ![v] = <<"id", v>>]))}>>)
             /\ mem' = [mem EXCEPT !.dir[open] = s, !.print[open] = IF ix.print # None THEN @ ELSE print]
             /\ Writes(audio[open], s)
    /\ report' = "none"
    /\ UNCHANGED <<disk, side, root, screen, saved>>

\* saveActiveEdit (Autosave has when, ManuscriptStore what may go wrong).
Save(v) ==
    /\ Call /\ open # None
    /\ \E s \in Resolved(mem, open) :
          /\ Indexed(s) /\ box[s].index.of[v] # None
          /\ LET b == audio[open]
                 k == Latest(b, v) + 1
             IN /\ b \in Bytes /\ Contents(s)[v] # None
                /\ k <= MaxEdits
                /\ box' = [box EXCEPT ![s].file[box[s].index.of[v]] = Text(b, v, k)]
                /\ saved' = [saved EXCEPT ![b][v] = k]
          /\ mem' = Looked(mem, open, s)
          /\ Writes(audio[open], s)
    /\ UNCHANGED <<audio, side, root, screen, op, report>>

\* A new title in a project: the audio keeps its name.
Retitle(t) ==
    /\ Call /\ open # None
    /\ \E s \in Resolved(mem, open) :
          /\ Whole(s) /\ CanSync(box[s], t)
          /\ op' = Plan("retitle", open, Sync(box[s].index, Contents(s), s, t)) @@ [at |-> s, box |-> box[s]]
          /\ mem' = Looked(mem, open, s)
    /\ report' = "none"
    /\ UNCHANGED <<disk, side, root, screen, history>>

Rename(new, t) ==
    /\ Call /\ open # None /\ audio[open] # None
    /\ new # open /\ audio[new] = None /\ box[new] = None
    /\ \E s \in Resolved(mem, open) :
          /\ Whole(s) /\ CanSync(box[s], t)
          /\ op' = Plan("rename", open, CopyPlan(open, s, new, t) \o RemovePlan(open, s))
                   @@ [at |-> s, new |-> new, removes |-> Len(RemovePlan(open, s)),
                       box |-> box[s], before |-> disk]
          /\ mem' = Looked(mem, open, s)
    /\ report' = "none"
    /\ UNCHANGED <<disk, side, root, screen, history>>

-----------------------------------------------------------------------------
Step ==
    /\ Steps
    /\ \E step \in Head(op.todo) :
          /\ Do(step)
          /\ LET left == Head(op.todo) \ {step}
             IN op' = [op EXCEPT !.todo = IF left = {} THEN Tail(@) ELSE <<left>> \o Tail(@)]
          /\ saved' = IF Is("create") /\ step.do = "index"
                      THEN [saved EXCEPT ![audio[op.name]] =
                              [v \in Versions |-> IF @[v] = 0 /\ step.set.of[v] # None THEN 1 ELSE @[v]]]
                      ELSE saved
    /\ UNCHANGED <<side, root, mem, screen, report, strayed, count>>

Ends(kind) == Is(kind) /\ op.todo = <<>> /\ op' = Idle

Opened == /\ Ends("open") /\ report' = "ok"
          /\ Shows(op.name) /\ mem' = Listing(NoMem)
          /\ UNCHANGED <<disk, side, root, history, count>>
Migrated == /\ Ends("migrate") /\ op.rest = {} /\ report' = "ok"
            /\ listed' = Legacy /\ mem' = Listing(mem)
            /\ UNCHANGED <<disk, side, root, open, history, count>>
Created == /\ Ends("create") /\ report' = "ok"
           /\ UNCHANGED <<disk, side, root, mem, screen, history, count>>
Retitled == /\ Ends("retitle") /\ report' = "ok"
            /\ UNCHANGED <<disk, side, root, mem, screen, history, count>>
RenameDone == /\ Ends("rename") /\ report' = "ok"
              /\ open' = op.new /\ listed' = Legacy
              /\ mem' = Listing(Looked(NoMem, op.new, op.new))
              /\ UNCHANGED <<disk, side, root, history, count>>
\* After a failure; the caches go whatever came of the recovery.
GaveUp == /\ \/ Ends("back") /\ report' = "failed"
             \/ Ends("undo") /\ report' = op.outcome
          /\ mem' = IF op.forget THEN NoMem ELSE mem
          /\ UNCHANGED <<disk, side, root, screen, history, count>>

\* A file operation fails.  A migration and a first version leave what they wrote.
Fault == Steps /\ faults < MaxFaults /\ faults' = faults + 1 /\ UNCHANGED calls
Fails ==
    /\ Fault /\ op.kind \in {"open", "migrate", "create"}
    /\ op' = Idle /\ report' = "failed"
    /\ UNCHANGED <<disk, side, root, mem, screen, history>>
RetitleFails ==
    /\ Fault /\ Is("retitle")
    /\ LET s == op.at
           old == {op.box.index.of[v] : v \in Held(op.box.index)}
       IN op' = Plan("back", op.name,
                     <<{Put(s, f, op.box.file[f]) : f \in old}, {Publish(s, op.box.index)},
                       {Put(s, f, None) : f \in Kept(box[s]) \ Kept(op.box)}>>)
                @@ [forget |-> FALSE, outcome |-> "failed"]
    /\ UNCHANGED <<disk, side, root, mem, screen, report, history>>
Recovery(outcome) == [new |-> op.new, before |-> op.before, forget |-> TRUE,
                      outcome |-> outcome, audio |-> Len(DropAudioPlan)]
RenameFails ==
    /\ Fault /\ Is("rename")
    /\ IF Len(op.todo) > op.removes
       THEN op' = Plan("undo", op.name, DropBoxPlan \o DropAudioPlan)
                  @@ Recovery("failed")
       ELSE op' = [op EXCEPT !.kind = "rebuild", !.todo = Some(RebuildPlan)]
    /\ UNCHANGED <<disk, side, root, mem, screen, report, history>>
Rebuilt ==
    /\ Is("rebuild") /\ op.todo = <<>>
    /\ op' = Plan("undo", op.name, DropBoxPlan \o DropAudioPlan)
             @@ Recovery("failed")
    /\ UNCHANGED <<disk, side, root, mem, screen, report, history, count>>
\* The recovery fails too: a copy that may be the only one stays, and the audio
\* is removed even when the container could not be.
RecoveryFails ==
    /\ Fault
    /\ \/ Is("back") /\ op' = [op EXCEPT !.kind = "undo", !.todo = <<>>, !.outcome = "unrecovered"]
       \/ /\ Is("rebuild")
          /\ op' = Plan("undo", op.name, <<>>) @@ Recovery("unrecovered")
       \/ /\ Is("undo")
          /\ op' = [op EXCEPT !.outcome = "unrecovered",
                              !.todo = IF Len(@) > op.audio THEN DropAudioPlan ELSE <<>>]
    /\ UNCHANGED <<disk, side, root, mem, screen, report, history>>

\* The program ends; at the next start the folder is listed anew.
Starts == open' = None /\ op' = Idle /\ report' = "none" /\ mem' = NoMem
Crash ==
    /\ faults < MaxFaults /\ op # Idle /\ faults' = faults + 1
    /\ Starts /\ listed' = Legacy
    /\ UNCHANGED <<disk, side, root, history, calls>>

\* The user renames an audio file in the file manager, which leaves its
\* container where it is.
Move(n, new) ==
    /\ Call
    /\ audio[n] # None /\ audio[new] = None
    /\ "reuse" \in Outside \/ ~Migrates(new)
    /\ "unmarked" \in Outside \/
          (~Migrates(n) /\ \A s \in Resolved(NoMem, n) : Indexed(s) => box[s].index.print # None)
    /\ audio' = [audio EXCEPT ![new] = audio[n], ![n] = None]
    /\ IF "live" \in Outside THEN UNCHANGED <<mem, open, listed, op, report>>
       ELSE Starts /\ listed' = {m \in Names : audio'[m] # None /\ box[m] = None
                                              /\ (side[m] # None \/ root # None)}
    /\ strayed' = strayed \cup (IF Strays(n, new) THEN {audio[n]} ELSE {})
    /\ UNCHANGED <<box, side, root, saved>>

-----------------------------------------------------------------------------
\* Every recording is transcribed or not, in the layout of today with or without
\* a fingerprint, or in one of the older layouts.
Layouts == {"none", "own", "unmarked", "side", "root"}
Init ==
    \E at \in [Bytes -> Names], layout \in [Bytes -> Layouts] :
        LET Of(b) == 1 :> Text(b, 1, 1)
            At(n) == {b \in Bytes : at[b] = n}
            Has(n, k) == \E b \in At(n) : layout[b] \in k
            The(n) == CHOOSE b \in At(n) : TRUE
            rooted == {b \in Bytes : layout[b] = "root"}
        IN /\ \A b, c \in Bytes : b # c => at[b] # at[c]
           /\ Cardinality(rooted) <= 1
           /\ audio = [n \in Names |-> IF At(n) = {} THEN None ELSE The(n)]
           /\ box = [n \in Names |-> IF ~Has(n, {"own", "unmarked"}) THEN None
                 ELSE [index |-> Index(n, IF Has(n, {"own"}) THEN The(n) ELSE None,
                                       [NoFiles EXCEPT ![1] = <<"id", 1>>]),
                       file |-> [Empty.file EXCEPT ![<<"id", 1>>] = Text(The(n), 1, 1)]]]
           /\ side = [n \in Names |-> IF Has(n, {"side"}) THEN Of(The(n)) ELSE None]
           /\ root = IF rooted = {} THEN None
                     ELSE LET b == CHOOSE b \in rooted : TRUE
                          IN [audio |-> at[b], texts |-> [v \in Versions |-> Text(b, v, 1)]]
           /\ saved = [b \in Bytes |-> [v \in Versions |->
                 IF layout[b] = "root" \/ (layout[b] # "none" /\ v = 1) THEN 1 ELSE 0]]
           /\ listed = {n \in Names : Has(n, Layouts) /\ ~Has(n, {"own", "unmarked"})
                                      /\ (Has(n, {"side"}) \/ rooted # {})}
           /\ strayed = {}
           /\ mem = NoMem /\ open = None /\ op = Idle /\ report = "none"
           /\ calls = 0 /\ faults = 0

Next == \/ \E n \in Names : Open(n)
        \/ MigrateAll \/ NextEntry \/ Transcribe
        \/ \E v \in Versions : Save(v)
        \/ \E t \in Titles : Retitle(t)
        \/ \E n \in Names, t \in Titles : Rename(n, t)
        \/ Step \/ Opened \/ Migrated \/ Created \/ Retitled \/ RenameDone \/ GaveUp
        \/ Fails \/ RetitleFails \/ RenameFails \/ Rebuilt \/ RecoveryFails
        \/ Crash
        \/ \E n, new \in Names : Move(n, new)

Spec == Init /\ [][Next]_vars

-----------------------------------------------------------------------------
(* Properties.                                                               *)

TypeOK ==
    /\ audio \in [Names -> Bytes \cup {Part, None}]
    /\ \A n \in Names : box[n] # None => DOMAIN box[n].file = FileNames
    /\ open \in Names \cup {None} /\ listed \subseteq Names
    /\ saved \in [Bytes -> [Versions -> 0 .. MaxEdits + 1]]
    /\ calls \in 0 .. MaxCalls /\ faults \in 0 .. MaxFaults

\* What a program started now would give for a name.
Given(n) == UNION {{Contents(s)[v] : v \in DOMAIN Contents(s)} : s \in Resolved(NoMem, n)}

\* Whatever operation fails or is cut off, and wherever: every version of every
\* recording, as it was last saved, is found under a name of that recording - or
\* is still in its older layout, and no container of its own has an index.
\* Excused is a recording to which the user, outside, gave a name with a
\* container that is not the recording's: the name comes before the fingerprint
\* (resolveTranscriptDir), so the texts of the one stay unseen, and what is
\* saved for it gets in among those of the other.
StillOpens ==
    \A b \in Bytes \ strayed : \A v \in Versions : saved[b][v] # 0 =>
        \E n \in Names :
            /\ audio[n] = b
            /\ \/ Text(b, v, saved[b][v]) \in Given(n)
               \/ Migrates(n) /\ ~Indexed(n) /\ saved[b][v] = 1

\* A recording is never shown the text of another, and one that is in the
\* folder once, with one container, is shown its latest (a rename reported as
\* not recovered leaves two).  The same recordings are excused.
ReadsOwn ==
    op = Idle =>
    \A n \in Names : audio[n] \in Bytes \ strayed =>
        \A s \in Resolved(mem, n) : \A v \in DOMAIN Contents(s) :
            LET b == audio[n]
                once == /\ \A m \in Names : audio[m] = b => m = n
                        /\ \A x \in Names : Indexed(x) /\ box[x].index.print = b => x = s
            IN /\ Contents(s)[v] # None => Contents(s)[v] \in {Text(b, v, k) : k \in 1 .. saved[b][v]}
               /\ once => Contents(s)[v] = Text(b, v, saved[b][v])

\* A rename that is reported as done has moved the recording with all its
\* versions, one reported as failed has left the folder as it was, and only one
\* reported as not recovered leaves both.
Moved(now) == 
    LET was == op.before
        n == op.name
    IN /\ now[1] = [was[1] EXCEPT ![n] = None, ![op.new] = was[1][n]]
       /\ now[2][op.at] = None
       /\ now[2][op.new].index.audio = op.new
       /\ \A s \in Names \ {op.at, op.new} : now[2][s] = was[2][s]
       /\ \A v \in Versions : was[2][op.at].index.of[v] # None =>
             now[2][op.new].file[now[2][op.new].index.of[v]] = was[2][op.at].file[was[2][op.at].index.of[v]]
RenameWhole ==
    [][/\ RenameDone => Moved(disk)
       /\ GaveUp /\ Is("undo") /\ op.outcome = "failed" /\ op.forget => disk = op.before]_vars
=============================================================================
