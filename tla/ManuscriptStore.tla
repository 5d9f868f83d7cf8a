--------------------------- MODULE ManuscriptStore ---------------------------
(* The transcript container of one interview: the handlers of               *)
(* frontend/src/localStore.ts that create, copy, save, relabel, designate   *)
(* and remove versions, over the recoverable index of                       *)
(* frontend/src/lib/manifestRecovery.ts.                                    *)
(*                                                                          *)
(* inDirectory queues the handlers of a directory, so one runs at a time.   *)
(* Each decides from the index it read what to write, publish and delete:   *)
(* its plan.  The plan is then carried out one file operation a step, and   *)
(* each of them can fail or be cut off by the end of the program.           *)
EXTENDS Versions

CONSTANTS StuckLate,   \* may the rollback fail of an index write that took effect?
          MaxFaults,   \* bounds of the exploration: interrupted operations,
                       \* the rollback of the last one not counted,
          MaxSteps     \* and these with the calls

ASSUME FaultAssumption == StuckLate \in BOOLEAN /\ {MaxFaults, MaxSteps} \subseteq Nat

VARIABLES
    file,                     \* what each transcript file holds
    canonical, backup, swap,  \* manifest.json, its .bak and its .crswap
    pc, plan, previous,       \* the running call, and the index it replaces
    before,                   \* what the file it writes held
    report,                   \* what the last call reported
    from, want,               \* history: the versions before it and as asked
    calls, faults             \* counters behind the bounds

index == <<canonical, backup, swap>>
call == <<plan, before, from, want, calls>>
vars == <<file, index, pc, previous, report, call, faults>>

Plan(n, t, ix, gone) == [write |-> n, text |-> t, index |-> ix, drop |-> gone, tidy |-> FALSE]
Publish(ix) == Plan(Null, Null, ix, Null)
Writing(n, t, ix) == Plan(n, t, ix, Null)
Dropping(n, ix) == Plan(Null, Null, ix, n)
Tidied(p) == [p EXCEPT !.tidy = TRUE]

-----------------------------------------------------------------------------
(* readRecoverableManifest, and the check of readManifestUnlocked that a     *)
(* container without an index is empty.  Torn stands for the exception.     *)
Readable(n) == file[n] \in Texts
Complete(ix) == Sound(ix) /\ \A n \in Files(ix) : Readable(n)
Recovered == IF Sound(canonical) THEN canonical
             ELSE IF Complete(backup) THEN backup
             ELSE IF Complete(swap) THEN swap
             ELSE IF {canonical, backup, swap} = {Null} THEN Null ELSE Torn
Read == LET ix == Recovered
        IN IF ix = Null /\ \E n \in Names : file[n] # Null THEN Torn ELSE ix
Found == Read \notin {Null, Torn}

\* The versions a reader finds, and those a plan is to leave.
Shown(ix, f) == LET kept == ReadOnly(ix)
                IN [n \in Files(ix) |-> [text |-> f[n], readonly |-> n \in kept]]
Known == LET ix == Read IN IF ix \in {Null, Torn} THEN NoModels ELSE ix
Versions == LET ix == Read IN IF ix \in {Null, Torn} THEN Shown(NoModels, file) ELSE Shown(ix, file)
After(p) == Shown(p.index, IF p.write = Null THEN file ELSE [file EXCEPT ![p.write] = p.text])

\* A container may be new, migrated from the layout before groups, or hold an
\* import and a copy of it.
Import == AddModel(NoModels, OneEdit(TRUE, Default, Slot(1)), TRUE)
ImportAndCopy(l) == Put(Import, 1, AddEdit(Import.models[1], l, Labelled(l), TRUE))
NoFiles == [n \in Names |-> Null]

Init == /\ \/ file = NoFiles /\ canonical = Null /\ backup = Null
           \/ \E s, t \in Texts :
                 /\ file = [NoFiles EXCEPT ![OldEdit] = s, ![OldOriginal] = t]
                 /\ canonical = Migrated /\ backup = Null
           \/ \E s, t \in Texts, l \in Labels \ {Default} :
                 /\ file = [NoFiles EXCEPT ![Slot(1)] = s, ![Labelled(l)] = t]
                 /\ canonical = ImportAndCopy(l) /\ backup = Import
        /\ swap = Null
        /\ pc = "idle" /\ plan = Publish(NoModels) /\ previous = Null
        /\ before = Null /\ report = "none"
        /\ from = Versions /\ want = Versions
        /\ calls = 0 /\ faults = 0

-----------------------------------------------------------------------------
(* The handlers.  A call that is rejected changes nothing and is no step.   *)

Begin(p) == /\ plan' = p /\ pc' = IF p.write = Null THEN "keep" ELSE "write"
            /\ before' = IF p.write = Null THEN Null ELSE file[p.write]
            /\ previous' = Null /\ report' = "none"
            /\ from' = Versions /\ want' = After(p)
            /\ calls' = calls + 1
            /\ UNCHANGED <<file, index, faults>>

Groups == DOMAIN Known.models
Group(i) == Known.models[i]
Room == NextModel(Known) \in ModelIds
FreeLabelOfIndex(l) == l \notin TakenLabels(Known)
FreeLabel(l) == l \notin TakenLabels(Known) /\ file[Labelled(l)] = Null

\* A finished transcription, or an imported original: the file is read-only.
CreateOriginal ==
    \E imported \in BOOLEAN, t \in Texts :
        LET n == OriginalAt(IF Groups = {} THEN 0 ELSE calls + 1)
        IN /\ Room /\ file[n] = Null
           /\ Begin(Writing(n, t, AddModel(Known, Original(imported, n), TRUE)))

\* A group whose file is named after its number, and written without a look at
\* what is there: an imported text, or an unnamed copy of another version.
Numbered(imported, l, t, focus) ==
    LET n == Slot(NextModel(Known))
    IN /\ Room
       /\ imported \/ l = Default
       /\ Begin(Writing(n, t, AddModel(Known, OneEdit(imported, l, n), focus)))
CreateNumbered == \E imported, focus \in BOOLEAN, l \in Labels, t \in Texts :
                     Numbered(imported, l, t, focus)

\* createEdit copies the original, or an edit, or what was made of it in a review.
CreateEdit ==
    \E i \in Groups, focus \in BOOLEAN, t \in Texts :
        \E n \in {OriginalFile(Group(i))} \cup EditFiles(Group(i)) :
            /\ n # Null /\ Readable(n)
            /\ \/ /\ ForksGroup(Group(i)) /\ t = file[n]
                  /\ \E l \in Labels : Numbered(Group(i).imported, l, t, focus)
               \/ \E l \in Labels :
                  /\ FreeLabel(l)
                  /\ IF ForksGroup(Group(i))
                     THEN /\ Room
                          /\ Begin(Writing(Labelled(l), t,
                                 AddModel(Known, OneEdit(Group(i).imported, l, Labelled(l)), focus)))
                     ELSE /\ NextEdit(Group(i)) \in EditIds
                          /\ Begin(Tidied(Writing(Labelled(l), t,
                                 Focus(Put(Known, i, AddEdit(Group(i), l, Labelled(l), focus)), i, focus))))

\* Autosave writes the edit, then the index; a background save puts the edit
\* back when the index cannot follow.
SaveEditAny == \E i \in Groups, t \in Texts :
    \E n \in EditFiles(Group(i)) : Begin(Writing(n, t, Known))
SaveEdit == \E i \in Groups, t \in Texts :
    \E n \in EditFiles(Group(i)) :
        /\ ~Group(i).designated
        /\ \/ Begin(Writing(n, t, Known))
           \/ Readable(n) /\ Begin(Tidied(Writing(n, t, Known)))

\* Interview details, link identities and the labels of groups are in the index.
SaveDetails == Found /\ Begin(Publish(Known))

PersistActive == \E i \in Groups :
    \/ Begin(Publish(Focus(Known, i, TRUE)))
    \/ \E e \in DOMAIN Group(i).edits :
         /\ ~Group(i).designated
         /\ Begin(Publish(Focus(Put(Known, i, [Group(i) EXCEPT !.active = e]), i, TRUE)))

RenameEdit == \E i \in Groups : \E e \in DOMAIN Group(i).edits : \E l \in Labels :
    /\ l = Group(i).edits[e].label \/ l \notin TakenLabels(Known)
    /\ Begin(Publish(Put(Known, i, [Group(i) EXCEPT !.edits[e].label = l])))

\* An import may be made read-only, and editable again.
Designate == \E i \in Groups : \E e \in DOMAIN Group(i).edits \cup {0} :
    /\ Group(i).imported
    /\ Begin(Publish(Put(Known, i,
           [Group(i) EXCEPT !.designated = TRUE,
                            !.active = IF e # 0 THEN e ELSE @,
                            !.fixed = IF e # 0 THEN e ELSE Group(i).active])))
Undesignate == \E i \in Groups :
    LET m == Group(i) IN
    /\ m.imported
    /\ IF DOMAIN m.edits # {}
       THEN Begin(Publish(Put(Known, i, [m EXCEPT !.designated = FALSE, !.fixed = 0])))
       ELSE /\ Readable(m.original)
            /\ Begin(Writing(m.original, file[m.original],
                             Put(Known, i, OneEdit(TRUE, Default, m.original))))

Remove(i, e) == Begin(Dropping(Group(i).edits[e].file, WithoutEdit(Known, i, e)))
RemoveEdit == \E i \in Groups : \E e \in DOMAIN Group(i).edits : Remove(i, e)
RemoveOriginal == \E i \in Groups :
    LET m == Group(i) IN
    IF m.original # Null THEN Begin(Dropping(m.original, WithoutOriginal(Known, i)))
    ELSE m.designated /\ Pinned(m) \in DOMAIN m.edits /\ Remove(i, Pinned(m))

\* One call at a time in a container that can be read.
Budget == calls + faults < MaxSteps
Handlers == /\ pc = "idle" /\ calls < MaxCalls /\ Budget /\ Read # Torn
            /\ \/ CreateOriginal \/ CreateNumbered \/ CreateEdit \/ SaveEdit \/ SaveDetails
               \/ PersistActive \/ RenameEdit \/ Designate \/ Undesignate
               \/ RemoveEdit \/ RemoveOriginal

-----------------------------------------------------------------------------
(* Carrying a plan out.                                                     *)

Goto(p) == pc' = p /\ UNCHANGED <<report, call, previous>>
Return(r) == /\ pc' = "idle" /\ report' = r
             /\ plan' = Publish(NoModels) /\ previous' = Null /\ before' = Null
             /\ from' = Versions' /\ want' = Versions' /\ UNCHANGED calls

WriteFile == /\ pc = "write"
             /\ file' = [file EXCEPT ![plan.write] = plan.text]
             /\ Goto("keep")
             /\ UNCHANGED <<index, faults>>

\* writeRecoverableManifest: the index it replaces becomes the backup first.
Keep == /\ pc = "keep"
        /\ previous' = Recovered
        /\ backup' = IF Recovered = Null THEN backup ELSE Recovered
        /\ pc' = "publish"
        /\ UNCHANGED <<file, canonical, swap, report, call, faults>>

PublishIndex == /\ pc = "publish"
                /\ canonical' = plan.index
                /\ UNCHANGED <<file, backup, swap, faults>>
                /\ IF plan.drop = Null THEN Return("done") ELSE Goto("drop")

\* An exception leaves the call, through its catch block if it has one.
Leave == IF plan.tidy THEN Goto("tidy") ELSE Return("failed")

Restore == /\ pc = "restore"
           /\ canonical' = previous
           /\ UNCHANGED <<file, backup, swap, faults>>
           /\ Leave

Drop == /\ pc = "drop"
        /\ file' = [file EXCEPT ![plan.drop] = Null]
        /\ UNCHANGED <<index, faults>>
        /\ Return("done")

\* The file could not be deleted: the old index is written again, unguarded.
Undrop == /\ pc = "undrop"
          /\ canonical' = previous
          /\ UNCHANGED <<file, backup, swap, faults>>
          /\ Return("failed")

Tidy == /\ pc = "tidy"
        /\ file' = [file EXCEPT ![plan.write] = before]
        /\ UNCHANGED <<index, faults>>
        /\ Return("failed")

-----------------------------------------------------------------------------
(* Failures and the end of the program.                                     *)

\* What a write that was cut off leaves of an index: the old text, the new one,
\* a broken one, or none at all with the new text in the browser's swap file.
Cut(ix) ==
    \/ UNCHANGED <<canonical, swap>>
    \/ canonical' = ix /\ UNCHANGED swap
    \/ canonical' = Torn /\ UNCHANGED swap
    \/ canonical' \in {canonical, Null} /\ swap' = ix

\* What the running operation, cut off, leaves on the disk.  A file that did not
\* exist is created empty before it is written.
Partial ==
    \/ UNCHANGED <<file, index>>
    \/ /\ pc = "write"
       /\ \E c \in {plan.text} \cup (IF before = Null THEN {Torn} ELSE {}) :
             file' = [file EXCEPT ![plan.write] = c]
       /\ UNCHANGED index
    \/ /\ pc = "keep" /\ Recovered # Null
       /\ backup' \in {Recovered, Torn} /\ UNCHANGED <<file, canonical, swap>>
    \/ /\ UNCHANGED <<file, backup>>
       /\ \/ pc = "publish" /\ Cut(plan.index)
          \/ pc = "restore" /\ canonical # previous /\ Cut(previous)
          \/ pc = "undrop" /\ Cut(previous)

Spare == IF pc \in {"restore", "undrop", "tidy"} THEN faults <= MaxFaults
         ELSE faults < MaxFaults /\ Budget

Fault == /\ pc # "idle" /\ Spare
         /\ (pc = "restore" /\ canonical = plan.index) => StuckLate
         /\ Partial
         /\ faults' = faults + 1
         /\ CASE pc = "publish" /\ previous # Null -> Goto("restore")
              [] pc = "drop" -> Goto("undrop")
              [] pc \in {"undrop", "tidy"} -> Return("failed")
              [] OTHER -> Leave

Crash == /\ pc # "idle" /\ Spare
         /\ Partial
         /\ faults' = faults + 1
         /\ Return("none")

Next == \/ Handlers
        \/ WriteFile \/ Keep \/ PublishIndex \/ Restore \/ Drop \/ Undrop \/ Tidy
        \/ Fault \/ Crash

Spec == Init /\ [][Next]_vars

-----------------------------------------------------------------------------
IsPlan(p) == \E D \in SUBSET ModelIds :
    p \in [write : Names \cup {Null}, text : Texts \cup {Null}, index : Index(D),
          drop : Names \cup {Null}, tidy : BOOLEAN]
Positions == {"idle", "write", "keep", "publish", "restore", "drop", "undrop", "tidy"}

\* Type correctness: the container and the running call.
TypeOK == /\ file \in [Names -> Texts \cup {Null, Torn}]
          /\ \A ix \in {canonical, backup, swap, previous} \ {Null, Torn} : IsIndex(ix)
          /\ pc \in Positions /\ IsPlan(plan) /\ previous # Torn
          /\ before \in Texts \cup {Null, Torn}
          /\ report \in {"none", "done", "failed"}
          /\ calls \in 0..MaxCalls /\ faults \in 0..(MaxFaults + 1)

Shelf == INSTANCE VersionSet WITH shown <- Versions, busy <- pc # "idle"

\* The store keeps the promise of VersionSet: whatever fails or stops, a call
\* leaves the versions as they were or as asked, it touches one version, never
\* the text of a read-only one, and it reports success only when it is so.
OneVersionAtATime == Shelf!Spec

\* No two versions share a file, though a file keeps the name its first label
\* gave it when the label changes and becomes free for another edit.
NoSharedFile ==
    LET ms == plan.index.models
    IN \A i, j \in DOMAIN ms : \A d \in VersionsOf(ms[i]), e \in VersionsOf(ms[j]) :
          FileOf(ms[i], d) = FileOf(ms[j], e) => i = j /\ d = e
=============================================================================
