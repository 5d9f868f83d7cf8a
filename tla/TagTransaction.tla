--------------------------- MODULE TagTransaction ---------------------------
(* The undo-journal protocol of frontend/src/lib/tagFileTransaction.ts:     *)
(* commitTagFileTransaction changes several project files as one, and       *)
(* recoverTagFileTransaction puts an interrupted commit back.  One step is  *)
(* one awaited file operation, so that a crash, a failed operation or       *)
(* another program can come between any two of them.                        *)
(*                                                                          *)
(* A file holds Null (it does not exist), Empty (created, never filled) or  *)
(* one of Texts.  The journal is a file of its own; its text is a state and *)
(* the request.                                                             *)
EXTENDS Integers, Sequences, FiniteSets, Functions

CONSTANTS Files,        \* the patchable files
          Texts,        \* the non-empty texts they can hold
          Null, Empty,  \* a missing file, an empty one
          Deletes,      \* may a request remove files (renames do)?
          LateFaults,   \* the write phases whose step may fail after its effect
          ForeignMid,   \* may another program write while a call runs?
          MaxRequests, MaxFaults, MaxEdits   \* bounds of the exploration

WritePhases == {"prepare", "apply", "mark", "putback", "remove"}

ASSUME FilesAssumption == Null \notin Texts /\ Empty \notin Texts /\ Null # Empty
ASSUME ModeAssumption ==
    Deletes \in BOOLEAN /\ ForeignMid \in BOOLEAN /\ LateFaults \subseteq WritePhases
ASSUME BoundAssumption == MaxRequests \in Nat /\ MaxFaults \in Nat /\ MaxEdits \in Nat

VARIABLES
    file,      \* what each file holds on disk
    journal,   \* the journal file: its state and the request written in it
    pc,        \* the program's position; "closed" is a program not running
    caller,    \* who runs recovery: "open", "commit", or its catch, "rollback"
    tx,        \* the last request; the running one's patches and their order
    undo,      \* the request restore() is putting back
    idx,       \* position in the patch list of the running loop
    outcome,   \* what the last call reported
    landed,    \* history: did the last request reach its commit point?
    requests, faults, edits   \* counters behind the bounds

disk == <<file, journal>>
memory == <<pc, caller, undo, idx, outcome>>
counters == <<requests, faults, edits>>
vars == <<disk, memory, tx, landed, counters>>

Contents == Texts \cup {Null, Empty}
Stored == Texts \cup {Null}
Generations == [Files -> Contents]

Blank == [f \in Files |-> Null]
NoTx == [order |-> <<>>, before |-> Blank, after |-> Blank]
Changed(t) == {f \in Files : t.before[f] # t.after[f]}

\* The patch lists a caller can ask for, the unchanged patches filtered out:
\* `order` lists the files that change, each once.  The caller parsed what it
\* read, so it never starts from an empty file; only a rename removes one.
Orders == {s \in UNION {[1..n -> Files] : n \in 0..Cardinality(Files)} : IsInjective(s)}
Requests ==
    {t \in [order : Orders, before : [Files -> Stored], after : [Files -> Stored]] :
        /\ Range(t.order) = Changed(t)
        /\ \A f \in Files \ Changed(t) : t.before[f] = Null
        /\ Deletes \/ \A f \in Changed(t) : t.after[f] # Null}

Absent == [state |-> "absent", tx |-> NoTx]
Created == [state |-> "empty", tx |-> NoTx]
Prepared(t) == [state |-> "prepared", tx |-> t]
Committed(t) == [state |-> "committed", tx |-> t]

Init == /\ file \in [Files -> Stored]
        /\ journal = Absent
        /\ pc = "closed" /\ caller = "open" /\ outcome = "none"
        /\ tx = NoTx /\ undo = NoTx /\ idx = 0
        /\ landed = FALSE
        /\ requests = 0 /\ faults = 0 /\ edits = 0

-----------------------------------------------------------------------------
(* Control: where a finished or a failed part of a call continues.          *)

Goto(p, i) == /\ pc' = p /\ idx' = i
              /\ UNCHANGED <<caller, undo, outcome>>

Return(p, report) == /\ pc' = p /\ idx' = 0 /\ undo' = NoTx
                     /\ outcome' = report
                     /\ UNCHANGED caller

\* Recovery is over: the opener is done, a commit goes on to its own patches.
Recovered ==
    \/ caller = "open" /\ Return("idle", "opened")
    \/ caller = "commit" /\ tx.order = <<>> /\ Return("idle", "nothing")
    \/ /\ caller = "commit" /\ tx.order # <<>>
       /\ pc' = "check" /\ idx' = 1 /\ undo' = NoTx
       /\ UNCHANGED <<caller, outcome>>
    \/ caller = "rollback" /\ Return("idle", "rolled_back")

\* An exception: inside the try block it starts the rollback, inside the
\* rollback it becomes `recovery_required`, elsewhere the call fails.
Unwind(report) ==
    \/ /\ pc \in {"prepare", "apply", "mark"}
       /\ pc' = "inspect" /\ caller' = "rollback" /\ undo' = tx /\ idx' = 1
       /\ UNCHANGED outcome
    \/ /\ pc \notin {"prepare", "apply", "mark"}
       /\ \/ caller = "rollback" /\ Return("idle", "recovery_required")
          \/ caller = "commit" /\ Return("idle", report)
          \/ caller = "open" /\ Return("closed", report)

-----------------------------------------------------------------------------
(* recoverTagFileTransaction and restore                                    *)

ReadJournal ==
    /\ pc = "recover"
    /\ \/ journal.state = "absent" /\ Recovered
       \/ journal.state \in {"empty", "committed"} /\ Goto("remove", 0)
       \/ /\ journal.state = "prepared"
          /\ pc' = "inspect" /\ undo' = journal.tx /\ idx' = 1
          /\ UNCHANGED <<caller, outcome>>
    /\ UNCHANGED <<disk, tx, landed, counters>>

\* The file the running loop is at, and what it should come to hold.
Cursor == IF pc \in {"check", "apply"} THEN tx.order[idx] ELSE undo.order[idx]
Wanted == IF pc = "apply" THEN tx.after[Cursor] ELSE undo.before[Cursor]

\* restore() accepts either generation, or a file it began to create.
AcceptedAny(t, f) == Contents
Accepted(t, f) == {t.before[f], t.after[f]}
                     \cup IF t.before[f] = Null THEN {Empty} ELSE {}

Inspect ==
    /\ pc = "inspect"
    /\ IF file[Cursor] \in Accepted(undo, Cursor)
       THEN IF idx < Len(undo.order)
            THEN Goto("inspect", idx + 1)
            ELSE Goto("putback", idx)
       ELSE Unwind("conflict")
    /\ UNCHANGED <<disk, tx, landed, counters>>

\* The restoring loop runs backwards; past the first patch the journal goes.
NextPutBackButLast == IF idx > 2 THEN Goto("putback", idx - 1) ELSE Goto("remove", 0)
NextPutBack == IF idx > 1 THEN Goto("putback", idx - 1) ELSE Goto("remove", 0)

AlreadyBack == /\ pc = "putback" /\ file[Cursor] = Wanted
               /\ NextPutBack
               /\ UNCHANGED <<disk, tx, landed, counters>>

-----------------------------------------------------------------------------
(* commitTagFileTransaction                                                 *)

Begin == \E t \in Requests :
    /\ pc = "idle" /\ requests < MaxRequests
    /\ requests' = requests + 1
    /\ tx' = t /\ landed' = FALSE
    /\ pc' = "recover" /\ caller' = "commit" /\ idx' = 0 /\ outcome' = "none"
    /\ UNCHANGED <<disk, undo, faults, edits>>

Check ==
    /\ pc = "check"
    /\ IF file[Cursor] = tx.before[Cursor]
       THEN IF idx < Len(tx.order) THEN Goto("check", idx + 1) ELSE Goto("prepare", 0)
       ELSE Return("idle", "concurrent_change")
    /\ UNCHANGED <<disk, tx, landed, counters>>

\* createWritable on a missing file first creates it empty.
Create ==
    /\ \/ /\ pc = "prepare" /\ journal.state = "absent"
          /\ journal' = Created /\ UNCHANGED file
       \/ /\ pc \in {"apply", "putback"} /\ file[Cursor] = Null /\ Wanted # Null
          /\ file' = [file EXCEPT ![Cursor] = Empty] /\ UNCHANGED journal
    /\ UNCHANGED <<memory, tx, landed, counters>>

\* What the write of the current phase does to the disk when it takes effect:
\* an atomic close, or the removal of an entry.
Effect ==
    \/ /\ pc = "prepare" /\ journal.state # "absent"
       /\ journal' = Prepared(tx) /\ UNCHANGED <<file, landed>>
    \/ /\ pc \in {"apply", "putback"}
       /\ file[Cursor] # Null \/ Wanted = Null
       /\ file[Cursor] # Wanted \/ pc = "apply"
       /\ file' = [file EXCEPT ![Cursor] = Wanted] /\ UNCHANGED <<journal, landed>>
    \/ /\ pc = "mark"
       /\ journal' = Committed(tx) /\ landed' = TRUE /\ UNCHANGED file
    \/ /\ pc = "remove" /\ journal.state # "absent"
       /\ journal' = Absent /\ UNCHANGED <<file, landed>>

\* After its last patch a commit marks the journal.
NextPatchUnmarked == IF idx < Len(tx.order) THEN Goto("apply", idx + 1)
                                            ELSE Goto("cleanup", 0)
NextPatch == IF idx < Len(tx.order) THEN Goto("apply", idx + 1) ELSE Goto("mark", 0)

Write ==
    /\ Effect
    /\ \/ pc = "prepare" /\ Goto("apply", 1)
       \/ pc = "apply" /\ NextPatch
       \/ pc = "mark" /\ Goto("cleanup", 0)
       \/ pc = "putback" /\ NextPutBack
       \/ pc = "remove" /\ Recovered
    /\ UNCHANGED <<tx, counters>>

\* A journal that was never created cannot be removed: removeEntry throws.
NothingToRemove == /\ pc = "remove" /\ journal.state = "absent"
                   /\ Unwind("failed")
                   /\ UNCHANGED <<disk, tx, landed, counters>>

Cleanup == /\ pc = "cleanup"
           /\ journal' = Absent
           /\ Return("idle", "committed")
           /\ UNCHANGED <<file, tx, landed, counters>>

-----------------------------------------------------------------------------
(* Failures, crashes and other programs                                     *)

Open == /\ pc = "closed"
        /\ pc' = "recover" /\ caller' = "open" /\ outcome' = "none"
        /\ UNCHANGED <<disk, undo, idx, tx, landed, counters>>

Running == pc \notin {"closed", "idle"}

\* The awaited operation throws before it has done anything.  The last removal
\* of the journal is the one whose failure is ignored.
Fault == /\ Running /\ faults < MaxFaults
         /\ \/ pc = "cleanup" /\ Return("idle", "committed")
            \/ pc # "cleanup" /\ Unwind("failed")
         /\ faults' = faults + 1
         /\ UNCHANGED <<disk, tx, landed, requests, edits>>

\* The write takes effect and then close() or the read that verifies it throws.
LateFault == /\ pc \in LateFaults /\ faults < MaxFaults
             /\ Effect /\ Unwind("failed")
             /\ faults' = faults + 1
             /\ UNCHANGED <<tx, requests, edits>>

Crash == /\ pc # "closed" /\ faults < MaxFaults
         /\ Return("closed", "none")
         /\ faults' = faults + 1
         /\ UNCHANGED <<disk, tx, landed, requests, edits>>

ForeignEdit == /\ edits < MaxEdits
               /\ Running => ForeignMid
               /\ \E f \in Files : \E c \in Contents \ {file[f]} :
                     file' = [file EXCEPT ![f] = c]
               /\ edits' = edits + 1
               /\ UNCHANGED <<journal, memory, tx, landed, requests, faults>>

-----------------------------------------------------------------------------
Steps == \/ ReadJournal \/ Inspect \/ AlreadyBack \/ Check
         \/ Create \/ Write \/ NothingToRemove \/ Cleanup

Next == Steps \/ Begin \/ Open \/ Fault \/ LateFault \/ Crash \/ ForeignEdit

Spec == Init /\ [][Next]_vars

\* A running call goes on: every awaited file operation settles.
FairSpec == Spec /\ WF_vars(Steps) /\ WF_vars(Open)

-----------------------------------------------------------------------------
Positions == {"closed", "idle", "recover", "inspect", "check", "cleanup"} \cup WritePhases
Reports == {"none", "opened", "nothing", "committed", "rolled_back", "conflict",
            "concurrent_change", "failed", "recovery_required"}
Txs == {t \in [order : Seq(Files), before : Generations, after : Generations] :
           IsInjective(t.order) /\ Range(t.order) = Changed(t)}

\* Type correctness: the disk, the journal and the control state of both calls.
TypeOK == /\ file \in Generations
          /\ journal \in [state : {"absent", "empty", "prepared", "committed"}, tx : Txs]
          /\ pc \in Positions /\ caller \in {"open", "commit", "rollback"}
          /\ tx \in Txs /\ undo \in Txs /\ idx \in Nat
          /\ outcome \in Reports /\ landed \in BOOLEAN
          /\ requests \in Nat /\ faults \in Nat /\ edits \in Nat

\* What an interrupted commit can itself have left in a file it changes.
Own(t, f) == {t.before[f], t.after[f]}
                \cup IF Null \in {t.before[f], t.after[f]} THEN {Empty} ELSE {}

\* What a file means to a reader, who recovers first: the old generation as long
\* as the journal of the commit that was changing it is only prepared.
Meaning == [f \in Files |->
               IF /\ journal.state = "prepared" /\ f \in Changed(journal.tx)
                  /\ file[f] \in Own(journal.tx, f)
               THEN journal.tx.before[f] ELSE file[f]]

Atomic == INSTANCE AtomicFiles WITH store <- Meaning, request <- tx

\* The protocol implements the atomic commit of AtomicFiles: whatever crashes,
\* fails or is edited in between, the files of a request change meaning together,
\* once, at the write of the committed journal, and a recovery changes none.
AtomicUpdate == Atomic!Spec

\* No step of a commit, a rollback or a recovery replaces what another program
\* put in a file: it only ever replaces its own generations (restore's check).
KeepsForeign ==
    [][\A f \in Files : (pc \in {"apply", "putback"} /\ file'[f] # file[f])
                            => \/ file[f] \in Own(IF pc = "apply" THEN tx ELSE undo, f)
                               \/ edits' > edits]_vars

\* What a commit reports is what happened: success exactly past the commit point.
TrueReport == /\ outcome = "committed" => landed
              /\ outcome \in {"rolled_back", "concurrent_change", "recovery_required"}
                    => ~landed
=============================================================================
