------------------------ MODULE TagTransactionProofs ------------------------
(* Machine-checked facts about TagTransaction, for any files, texts, bounds *)
(* and modes.                                                               *)
EXTENDS TagTransaction, SequenceTheorems, TLAPS

-----------------------------------------------------------------------------
(* Requests and patch lists                                                 *)

\* A caller's request is a well-formed patch list.
LEMMA RequestsAreTxs == Requests \subseteq Txs
<1> SUFFICES ASSUME NEW t \in Requests PROVE t \in Txs
  OBVIOUS
<1>1. /\ t \in [order : Orders, before : [Files -> Stored], after : [Files -> Stored]]
      /\ Range(t.order) = Changed(t)
  BY DEF Requests
<1>2. t.order \in Seq(Files) /\ IsInjective(t.order)
  <2>1. PICK n \in 0..Cardinality(Files) : t.order \in [1..n -> Files]
    BY <1>1 DEF Orders
  <2>2. IsInjective(t.order)
    BY <1>1 DEF Orders
  <2> QED BY <2>1, <2>2, SeqDef, n \in Nat
<1>3. t.before \in Generations /\ t.after \in Generations
  BY <1>1 DEF Generations, Stored, Contents
<1>4. t = [order |-> t.order, before |-> t.before, after |-> t.after]
  BY <1>1
<1> QED BY <1>1, <1>2, <1>3, <1>4 DEF Txs

\* The empty patch list is one.
LEMMA NoTxIsTx == NoTx \in Txs
<1>1. Blank \in Generations
  BY DEF Blank, Generations, Contents
<1>2. <<>> \in Seq(Files) /\ Range(<<>>) = {} /\ IsInjective(<<>>)
  BY DEF Range, IsInjective
<1>3. Changed(NoTx) = {}
  BY DEF Changed, NoTx
<1> QED BY <1>1, <1>2, <1>3 DEF NoTx, Txs

\* A patch list names exactly the files it changes.
LEMMA TxOrder ==
    ASSUME NEW t \in Txs
    PROVE  /\ t.order \in Seq(Files) /\ t.order \in [1..Len(t.order) -> Files]
           /\ Len(t.order) \in Nat
           /\ t.before \in Generations /\ t.after \in Generations
           /\ \A k \in 1..Len(t.order) : t.order[k] \in Changed(t)
           /\ \A f \in Changed(t) : \E k \in 1..Len(t.order) : t.order[k] = f
           /\ \A j, k \in 1..Len(t.order) : t.order[j] = t.order[k] => j = k
           /\ t.order # <<>> => Len(t.order) >= 1
<1>1. t.order \in Seq(Files) /\ IsInjective(t.order) /\ Range(t.order) = Changed(t)
      /\ t.before \in Generations /\ t.after \in Generations
  BY DEF Txs
<1>2. t.order \in [1..Len(t.order) -> Files] /\ Len(t.order) \in Nat
  BY <1>1
<1>3. DOMAIN t.order = 1..Len(t.order)
  BY <1>2
<1> QED BY <1>1, <1>2, <1>3 DEF Range, IsInjective

-----------------------------------------------------------------------------
(* Type correctness                                                         *)

\* The loops stay inside their patch lists, and a journal is never empty of patches.
LoopsOK == /\ pc \in {"check", "apply"} => idx \in 1..Len(tx.order)
           /\ pc \in {"inspect", "putback"} => idx \in 1..Len(undo.order)
           /\ pc \in {"prepare", "apply", "mark"} => tx.order # <<>>
           /\ journal.state \in {"prepared", "committed"} => journal.tx.order # <<>>
           /\ pc \in {"check", "prepare", "apply", "mark", "cleanup"} => caller = "commit"

TypeInv == TypeOK /\ LoopsOK

\* The initial states are well typed.
LEMMA TypeInit == Init => TypeInv
<1> SUFFICES ASSUME Init PROVE TypeInv
  OBVIOUS
<1>1. file \in Generations
  BY DEF Init, Generations, Contents, Stored
<1>2. journal \in [state : {"absent", "empty", "prepared", "committed"}, tx : Txs]
      /\ journal.state = "absent"
  BY NoTxIsTx DEF Init, Absent
<1> QED BY <1>1, <1>2, NoTxIsTx DEF Init, TypeInv, TypeOK, LoopsOK, Positions, Reports

\* Every step keeps the types and the loop bounds.
LEMMA TypeStep == TypeInv /\ [Next]_vars => TypeInv'
<1> SUFFICES ASSUME TypeInv, [Next]_vars PROVE TypeInv'
  OBVIOUS
<1> USE DEF Positions, Reports, WritePhases
<1>0. /\ \A t \in Txs : Len(t.order) \in Nat /\ (t.order # <<>> => Len(t.order) >= 1)
      /\ journal.tx \in Txs /\ tx \in Txs /\ undo \in Txs /\ NoTx \in Txs
  BY TxOrder, NoTxIsTx DEF TypeInv, TypeOK
<1>1. ASSUME Recovered, UNCHANGED <<tx, counters, journal.state, journal.tx>>, caller \in {"open", "commit", "rollback"}
      PROVE  /\ pc' \in {"idle", "check"} /\ caller' \in {"open", "commit", "rollback"}
             /\ undo' \in Txs /\ idx' \in Nat /\ outcome' \in Reports
             /\ pc' = "check" => (idx' \in 1..Len(tx'.order) /\ caller' = "commit")
  BY <1>0, <1>1 DEF Recovered, Return, TypeInv, TypeOK
<1>2. ASSUME NEW report \in {"conflict", "failed"}, Unwind(report), UNCHANGED tx
      PROVE  /\ pc' \in {"idle", "closed", "inspect"} /\ caller' \in {"open", "commit", "rollback"}
             /\ undo' \in Txs /\ idx' \in Nat /\ outcome' \in Reports
             /\ pc' = "inspect" => idx' \in 1..Len(undo'.order)
  BY <1>0, <1>2 DEF Unwind, Return, TypeInv, TypeOK, LoopsOK
<1>3. CASE ReadJournal
  <2>1. CASE journal.state = "absent"
    BY <1>0, <1>1, <1>3, <2>1 DEF ReadJournal, TypeInv, TypeOK, LoopsOK, disk, counters
  <2>2. CASE journal.state # "absent"
    BY <1>0, <1>3, <2>2 DEF ReadJournal, Goto, TypeInv, TypeOK, LoopsOK, disk, counters
  <2> QED BY <2>1, <2>2
<1>4. CASE Inspect
  <2>1. CASE file[Cursor] \in Accepted(undo, Cursor)
    BY <1>0, <1>4, <2>1 DEF Inspect, Goto, TypeInv, TypeOK, LoopsOK, disk, counters
  <2>2. CASE file[Cursor] \notin Accepted(undo, Cursor)
    BY <1>0, <1>2, <1>4, <2>2 DEF Inspect, TypeInv, TypeOK, LoopsOK, disk, counters
  <2> QED BY <2>1, <2>2
<1>5. CASE AlreadyBack
  BY <1>0, <1>5 DEF AlreadyBack, NextPutBack, Goto, TypeInv, TypeOK, LoopsOK, disk, counters
<1>6. CASE Check
  BY <1>0, <1>6 DEF Check, Goto, Return, TypeInv, TypeOK, LoopsOK, disk, counters
<1>7. ASSUME pc \in {"apply", "putback"}
      PROVE  Cursor \in Files /\ Wanted \in Contents
  BY <1>0, <1>7, TxOrder DEF TypeInv, LoopsOK, Cursor, Wanted, Generations, Changed
<1>8. CASE Create
  BY <1>0, <1>7, <1>8 DEF Create, Created, TypeInv, TypeOK, LoopsOK, memory, counters, Generations, Contents
<1>9. ASSUME Effect, UNCHANGED tx
      PROVE  /\ file' \in Generations /\ landed' \in BOOLEAN
             /\ journal' \in [state : {"absent", "empty", "prepared", "committed"}, tx : Txs]
             /\ journal'.state \in {"prepared", "committed"} => journal'.tx.order # <<>>
  <2>1. CASE pc = "prepare"
    BY <1>0, <1>9, <2>1 DEF Effect, Prepared, TypeInv, TypeOK, LoopsOK
  <2>2. CASE pc \in {"apply", "putback"}
    <3>1. file' = [file EXCEPT ![Cursor] = Wanted] /\ UNCHANGED <<journal, landed>>
      BY <1>9, <2>2 DEF Effect
    <3> QED BY <1>0, <1>7, <2>2, <3>1 DEF TypeInv, TypeOK, LoopsOK, Generations
  <2>3. CASE pc = "mark"
    BY <1>0, <1>9, <2>3 DEF Effect, Committed, TypeInv, TypeOK, LoopsOK
  <2>4. CASE pc = "remove"
    BY <1>0, <1>9, <2>4 DEF Effect, Absent, TypeInv, TypeOK, LoopsOK
  <2> QED BY <1>9, <2>1, <2>2, <2>3, <2>4 DEF Effect
<1>10. CASE Write
  <2>1. CASE pc = "remove"
    BY <1>0, <1>1, <1>9, <1>10, <2>1 DEF Write, TypeInv, TypeOK, LoopsOK, counters, Recovered, Return
  <2>2. CASE pc # "remove"
    BY <1>0, <1>9, <1>10, <2>2 DEF Write, Goto, NextPutBack, NextPatch, TypeInv, TypeOK, LoopsOK, counters
  <2> QED BY <2>1, <2>2
<1>11. CASE NothingToRemove
  BY <1>0, <1>2, <1>11 DEF NothingToRemove, TypeInv, TypeOK, LoopsOK, disk, counters
<1>12. CASE Cleanup
  BY <1>0, <1>12 DEF Cleanup, Return, Absent, TypeInv, TypeOK, LoopsOK, counters
<1>13. CASE Begin
  <2>1. PICK t \in Requests : tx' = t
    BY <1>13 DEF Begin
  <2>2. tx' \in Txs
    BY <2>1, RequestsAreTxs
  <2>3. /\ pc' = "recover" /\ caller' = "commit" /\ idx' = 0 /\ outcome' = "none"
        /\ landed' = FALSE /\ requests' = requests + 1
        /\ UNCHANGED <<file, journal, undo, faults, edits>>
    BY <1>13 DEF Begin, disk
  <2>4. requests' \in Nat
    BY <2>3 DEF TypeInv, TypeOK
  <2>6. landed' \in BOOLEAN
    BY <2>3, Zenon
  <2>5. LoopsOK'
    BY <2>3 DEF TypeInv, LoopsOK
  <2> QED BY <1>0, <2>2, <2>3, <2>4, <2>5, <2>6 DEF TypeInv, TypeOK
<1>14. CASE Open
  BY <1>14 DEF Open, TypeInv, TypeOK, LoopsOK, disk, counters
<1>15. CASE Fault
  <2>1. CASE pc = "cleanup"
    BY <1>0, <1>15, <2>1 DEF Fault, Return, TypeInv, TypeOK, LoopsOK, disk
  <2>2. CASE pc # "cleanup"
    BY <1>0, <1>2, <1>15, <2>2 DEF Fault, TypeInv, TypeOK, LoopsOK, disk
  <2> QED BY <2>1, <2>2
<1>16. CASE LateFault
  BY <1>0, <1>2, <1>9, <1>16 DEF LateFault, TypeInv, TypeOK, LoopsOK
<1>17. CASE Crash
  BY <1>0, <1>17 DEF Crash, Return, TypeInv, TypeOK, LoopsOK, disk
<1>18. CASE ForeignEdit
  BY <1>0, <1>18 DEF ForeignEdit, TypeInv, TypeOK, LoopsOK, memory, Generations
<1>19. CASE UNCHANGED vars
  BY <1>0, <1>19 DEF vars, disk, memory, counters, TypeInv, TypeOK, LoopsOK
<1> QED BY <1>3, <1>4, <1>5, <1>6, <1>8, <1>10, <1>11, <1>12, <1>13, <1>14, <1>15,
           <1>16, <1>17, <1>18, <1>19 DEF Next, Steps

\* Spec keeps the disk, the journal and both calls' control state well typed.
THEOREM TypeCorrect == Spec => []TypeOK
<1>1. Init => TypeInv
  BY TypeInit
<1>2. TypeInv /\ [Next]_vars => TypeInv'
  BY TypeStep
<1> QED BY <1>1, <1>2, PTL DEF Spec, TypeInv
-----------------------------------------------------------------------------
(* The inductive invariant of the protocol                                  *)

\* The modes the main theorems are about: other programs write only while no
\* call is running, and the write of the committed mark does not fail late.
Quiet == ForeignMid = FALSE /\ "mark" \notin LateFaults

AllBefore(t) == \A f \in Changed(t) : file[f] = t.before[f]
AllOwn(t) == \A f \in Changed(t) : file[f] \in Own(t, f)

\* Before its commit point a request has not landed and nothing was reported.
NotLanded == pc \notin {"closed", "idle", "cleanup"} /\ caller \in {"commit", "rollback"} => ~landed
JournalOK == /\ journal.state = "absent" => journal = Absent
             /\ journal.state = "empty" => journal = Created

\* What the disk looks like at each position of a commit...
CommitOK ==
    /\ pc = "check" => /\ journal = Absent
                       /\ \A k \in 1..idx - 1 : file[tx.order[k]] = tx.before[tx.order[k]]
    /\ pc = "prepare" => journal.state \in {"absent", "empty"} /\ AllBefore(tx)
    /\ pc = "apply" => /\ journal = Prepared(tx) /\ AllOwn(tx)
                       /\ \A k \in 1..idx - 1 : file[tx.order[k]] = tx.after[tx.order[k]]
    /\ pc = "mark" => /\ journal = Prepared(tx)
                      /\ \A f \in Changed(tx) : file[f] = tx.after[f]
    /\ pc = "cleanup" => journal.state = "committed" /\ landed

\* ... and of a restore: what it has passed is its own, or back.
RestoreOK ==
    /\ pc \in {"inspect", "putback"} =>
          /\ journal.state # "committed"
          /\ journal.state = "prepared" => journal.tx = undo
          /\ journal.state # "prepared" => AllBefore(undo)
    /\ pc = "inspect" => \A k \in 1..idx - 1 : file[undo.order[k]] \in Own(undo, undo.order[k])
    /\ pc = "putback" =>
          /\ AllOwn(undo)
          /\ \A k \in idx + 1..Len(undo.order) : file[undo.order[k]] = undo.before[undo.order[k]]
    /\ pc = "remove" /\ journal.state = "prepared" => AllBefore(journal.tx)

ReportOK == TrueReport /\ (Running => outcome = "none") /\ (pc = "recover" => caller # "rollback")

ProtocolInv == TypeInv /\ NotLanded /\ JournalOK /\ CommitOK /\ RestoreOK /\ ReportOK
\* restore() accepts only what the commit can have left behind.
LEMMA AcceptedIsOwn == \A t, f : Accepted(t, f) \subseteq Own(t, f)
BY DEF Accepted, Own

\* A commit starts in the invariant of the protocol.
LEMMA ProtocolInit == Init => ProtocolInv
<1> SUFFICES ASSUME Init PROVE ProtocolInv
  OBVIOUS
<1>1. TypeInv
  BY TypeInit
<1> QED BY <1>1 DEF Init, Absent, ProtocolInv, NotLanded, JournalOK, CommitOK, RestoreOK,
                    ReportOK, TrueReport, Running

\* Where a failed call goes keeps the invariant, the disk being as a restore needs it.
LEMMA UnwindOK ==
    ASSUME ProtocolInv, TypeInv', NEW report \in {"conflict", "failed"}, Unwind(report),
           UNCHANGED <<tx, landed>>, JournalOK',
           pc \in {"prepare", "apply", "mark"} =>
              /\ journal'.state # "committed"
              /\ journal'.state = "prepared" => journal'.tx = tx
              /\ journal'.state # "prepared" => \A f \in Changed(tx) : file'[f] = tx.before[f],
           Running
    PROVE  ProtocolInv'
<1>1. NotLanded'
  BY DEF Unwind, Return, ProtocolInv, NotLanded, Running, TypeInv, LoopsOK
<1>2. CommitOK'
  BY DEF Unwind, Return, CommitOK
<1>3. RestoreOK'
  <2>1. CASE pc \in {"prepare", "apply", "mark"}
    <3>1. pc' = "inspect" /\ undo' = tx /\ idx' = 1
      BY <2>1 DEF Unwind
    <3>2. \A k \in 1..idx' - 1 : FALSE
      BY <3>1
    <3> QED BY <2>1, <3>1, <3>2 DEF RestoreOK, AllBefore
  <2>2. CASE pc \notin {"prepare", "apply", "mark"}
    BY <2>2 DEF Unwind, Return, RestoreOK
  <2> QED BY <2>1, <2>2
<1>4. ReportOK'
  BY DEF Unwind, Return, ProtocolInv, ReportOK, TrueReport, NotLanded, Running, TypeInv, LoopsOK
<1> QED BY <1>1, <1>2, <1>3, <1>4 DEF ProtocolInv

\* So does where a finished recovery goes.
LEMMA RecoveredOK ==
    ASSUME ProtocolInv, TypeInv', Recovered, UNCHANGED <<tx, landed, file>>,
           pc \in {"recover", "remove"}, journal' = Absent
    PROVE  ProtocolInv'
<1>1. NotLanded'
  BY DEF Recovered, Return, ProtocolInv, NotLanded
<1>2. JournalOK'
  BY DEF JournalOK, Absent
<1>3. CommitOK'
  BY DEF Recovered, Return, CommitOK
<1>4. RestoreOK'
  BY DEF Recovered, Return, RestoreOK, Absent
<1>5. ReportOK'
  BY DEF Recovered, Return, ProtocolInv, ReportOK, TrueReport, NotLanded, Running
<1> QED BY <1>1, <1>2, <1>3, <1>4, <1>5 DEF ProtocolInv
\* Every step keeps the invariant.
LEMMA ProtocolStep ==
    ASSUME Quiet, ProtocolInv, [Next]_vars
    PROVE  ProtocolInv'
<1>0. TypeInv' /\ TypeInv /\ JournalOK /\ CommitOK /\ RestoreOK /\ NotLanded /\ ReportOK
  BY TypeStep DEF ProtocolInv
<1>1. /\ tx \in Txs /\ undo \in Txs /\ journal.tx \in Txs /\ file \in Generations
      /\ idx \in Nat /\ caller \in {"open", "commit", "rollback"}
  BY <1>0 DEF TypeInv, TypeOK
<1> DEFINE Kept == UNCHANGED <<file, journal, tx, landed>>
<1>2. CASE ReadJournal
  <2>1. CASE journal.state = "absent"
    BY <1>0, <1>2, <2>1, RecoveredOK DEF ReadJournal, JournalOK, disk
  <2>2. CASE journal.state # "absent"
    <3>1. Kept /\ pc = "recover" /\ pc' \in {"remove", "inspect"} /\ UNCHANGED <<caller, outcome>>
      BY <1>2, <2>2 DEF ReadJournal, Goto, disk
    <3>2. pc' = "inspect" => journal.state = "prepared" /\ undo' = journal.tx /\ idx' = 1
      BY <1>2, <2>2 DEF ReadJournal, Goto
    <3>3. pc' = "remove" => journal.state # "prepared"
      BY <1>2, <2>2 DEF ReadJournal, Goto
    <3>4. RestoreOK'
      <4>1. pc' = "inspect" => \A k \in 1..idx' - 1 : FALSE
        BY <3>2
      <4> QED BY <3>1, <3>2, <3>3, <4>1 DEF RestoreOK
    <3> QED BY <1>0, <3>1, <3>4 DEF ProtocolInv, NotLanded, JournalOK, CommitOK, ReportOK,
                                    TrueReport, Running
  <2> QED BY <2>1, <2>2
<1>3. CASE Inspect
  <2> Kept /\ pc = "inspect" /\ Cursor = undo.order[idx] /\ idx \in 1..Len(undo.order)
    BY <1>0, <1>3 DEF Inspect, Cursor, disk, TypeInv, LoopsOK
  <2>1. CASE file[Cursor] \in Accepted(undo, Cursor)
    <3>1. /\ UNCHANGED <<caller, undo, outcome>>
          /\ \/ idx < Len(undo.order) /\ pc' = "inspect" /\ idx' = idx + 1
             \/ idx = Len(undo.order) /\ pc' = "putback" /\ idx' = idx
      BY <1>1, <1>3, <2>1, TxOrder DEF Inspect, Goto
    <3>2. \A k \in 1..idx : file[undo.order[k]] \in Own(undo, undo.order[k])
      BY <1>0, <1>1, <2>1, AcceptedIsOwn DEF RestoreOK
    <3>3. RestoreOK'
      <4>1. CASE pc' = "inspect"
        BY <1>0, <1>1, <3>1, <3>2, <4>1 DEF RestoreOK, AllBefore
      <4>2. CASE pc' = "putback"
        <5>1. AllOwn(undo)
          BY <1>1, <3>1, <3>2, <4>2, TxOrder DEF AllOwn
        <5>2. \A k \in idx' + 1..Len(undo.order) : FALSE
          BY <1>1, <3>1, <4>2, TxOrder
        <5> QED BY <1>0, <3>1, <4>2, <5>1, <5>2 DEF RestoreOK, AllOwn, AllBefore
      <4> QED BY <3>1, <4>1, <4>2
    <3> QED BY <1>0, <3>1, <3>3 DEF ProtocolInv, NotLanded, JournalOK, CommitOK, ReportOK,
                                    TrueReport, Running
  <2>2. CASE file[Cursor] \notin Accepted(undo, Cursor)
    <3>1. Unwind("conflict")
      BY <1>3, <2>2 DEF Inspect
    <3> QED BY <1>0, <3>1, UnwindOK DEF Running, JournalOK
  <2> QED BY <2>1, <2>2
<1>4. ASSUME pc = "putback", NextPutBack, UNCHANGED <<tx, landed, journal>>,
             AllOwn(undo)', file'[Cursor] = undo.before[Cursor],
             \A f \in Files \ {Cursor} : file'[f] = file[f]
      PROVE  ProtocolInv'
  <2>1. Cursor = undo.order[idx] /\ idx \in 1..Len(undo.order) /\ UNCHANGED <<caller, undo, outcome>>
    BY <1>0, <1>4 DEF Cursor, TypeInv, LoopsOK, NextPutBack, Goto
  <2>2. \A k \in idx..Len(undo.order) : file'[undo.order[k]] = undo.before[undo.order[k]]
    BY <1>0, <1>1, <1>4, <2>1, TxOrder DEF RestoreOK, Changed
  <2>3. RestoreOK'
    <3>1. CASE idx > 1
      <4>1. pc' = "putback" /\ idx' = idx - 1
        BY <1>4, <3>1 DEF NextPutBack, Goto
      <4>2. journal.state # "prepared" => AllBefore(undo)'
        BY <1>0, <1>1, <1>4, <2>1, TxOrder DEF RestoreOK, AllBefore, Changed
      <4>3. \A k \in idx' + 1..Len(undo.order) : file'[undo.order[k]] = undo.before[undo.order[k]]
        BY <1>1, <2>2, <4>1
      <4> QED BY <1>0, <1>4, <2>1, <4>1, <4>2, <4>3 DEF RestoreOK
    <3>2. CASE idx = 1
      <4>1. pc' = "remove"
        BY <1>4, <3>2 DEF NextPutBack, Goto
      <4>2. \A f \in Changed(undo) : file'[f] = undo.before[f]
        BY <1>1, <2>2, <3>2, TxOrder
      <4> QED BY <1>0, <1>4, <4>1, <4>2 DEF RestoreOK, AllBefore
    <3> QED BY <1>1, <2>1, <3>1, <3>2
  <2> QED BY <1>0, <1>4, <2>1, <2>3 DEF NextPutBack, Goto, ProtocolInv, NotLanded, JournalOK,
                                        CommitOK, ReportOK, TrueReport, Running
<1>5. CASE AlreadyBack
  <2>1. file[Cursor] = undo.before[Cursor] /\ pc = "putback" /\ NextPutBack /\ Kept
    BY <1>5 DEF AlreadyBack, Wanted, disk
  <2>2. AllOwn(undo)'
    BY <1>0, <2>1 DEF RestoreOK, AllOwn, NextPutBack, Goto
  <2> QED BY <1>4, <2>1, <2>2
<1>6. CASE Check
  <2> Kept /\ pc = "check" /\ Cursor = tx.order[idx] /\ idx \in 1..Len(tx.order) /\ caller = "commit"
    BY <1>0, <1>6 DEF Check, Cursor, disk, TypeInv, LoopsOK
  <2>1. CASE file[Cursor] = tx.before[Cursor]
    <3>1. /\ UNCHANGED <<caller, undo, outcome>>
          /\ \/ idx < Len(tx.order) /\ pc' = "check" /\ idx' = idx + 1
             \/ idx = Len(tx.order) /\ pc' = "prepare"
      BY <1>1, <1>6, <2>1, TxOrder DEF Check, Goto
    <3>2. \A k \in 1..idx : file[tx.order[k]] = tx.before[tx.order[k]]
      BY <1>0, <1>1, <2>1 DEF CommitOK
    <3>3. CommitOK'
      <4>1. CASE pc' = "check"
        BY <1>0, <1>1, <3>1, <3>2, <4>1 DEF CommitOK
      <4>2. CASE pc' = "prepare"
        BY <1>0, <1>1, <3>1, <3>2, <4>2, TxOrder DEF CommitOK, AllBefore, Absent
      <4> QED BY <3>1, <4>1, <4>2
    <3> QED BY <1>0, <3>1, <3>3 DEF ProtocolInv, NotLanded, JournalOK, RestoreOK, ReportOK,
                                    TrueReport, Running
  <2>2. CASE file[Cursor] # tx.before[Cursor]
    <3>1. pc' = "idle" /\ outcome' = "concurrent_change"
      BY <1>6, <2>2 DEF Check, Return
    <3> QED BY <1>0, <3>1 DEF ProtocolInv, NotLanded, JournalOK, CommitOK, RestoreOK, ReportOK,
                              TrueReport, Running
  <2> QED BY <2>1, <2>2
<1>7. CASE Open
  BY <1>0, <1>7 DEF Open, disk, ProtocolInv, NotLanded, JournalOK, CommitOK, RestoreOK, ReportOK,
                    TrueReport, Running
<1>8. CASE Crash
  BY <1>0, <1>8 DEF Crash, Return, disk, ProtocolInv, NotLanded, JournalOK, CommitOK, RestoreOK,
                    ReportOK, TrueReport, Running
<1>9. CASE ForeignEdit
  <2>1. pc \in {"closed", "idle"} /\ UNCHANGED <<journal, pc, caller, outcome, landed>>
    BY <1>9 DEF ForeignEdit, Running, Quiet, memory
  <2> QED BY <1>0, <2>1 DEF ProtocolInv, NotLanded, JournalOK, CommitOK, RestoreOK, ReportOK,
                            TrueReport, Running
<1>10. CASE Begin
  <2>1. /\ pc' = "recover" /\ caller' = "commit" /\ outcome' = "none" /\ landed' = FALSE
        /\ UNCHANGED <<file, journal>>
    BY <1>10 DEF Begin, disk
  <2> QED BY <1>0, <2>1 DEF ProtocolInv, NotLanded, JournalOK, CommitOK, RestoreOK, ReportOK,
                            TrueReport, Running
<1>11. CASE Cleanup
  <2>1. /\ pc = "cleanup" /\ pc' = "idle" /\ outcome' = "committed" /\ landed' = landed
        /\ journal' = Absent
    BY <1>11 DEF Cleanup, Return
  <2> QED BY <1>0, <2>1 DEF ProtocolInv, NotLanded, JournalOK, CommitOK, RestoreOK, ReportOK,
                            TrueReport, Running, Absent
<1>12. ASSUME Running, Kept, Unwind("failed")
       PROVE  ProtocolInv'
  <2>1. JournalOK'
    BY <1>0, <1>12 DEF JournalOK
  <2>2. pc \in {"prepare", "apply", "mark"} =>
              /\ journal.state # "committed"
              /\ journal.state = "prepared" => journal.tx = tx
              /\ journal.state # "prepared" => \A f \in Changed(tx) : file[f] = tx.before[f]
    BY <1>0 DEF CommitOK, Prepared, AllBefore
  <2> QED BY <1>12, <1>0, <2>1, <2>2, UnwindOK
<1>13. CASE NothingToRemove
  BY <1>12, <1>13 DEF NothingToRemove, disk, Running
<1>14. CASE Fault
  <2>1. CASE pc = "cleanup"
    <3>1. pc' = "idle" /\ outcome' = "committed" /\ Kept
      BY <1>14, <2>1 DEF Fault, Return, disk
    <3> QED BY <1>0, <2>1, <3>1 DEF ProtocolInv, NotLanded, JournalOK, CommitOK, RestoreOK, ReportOK,
                                    TrueReport, Running
  <2>2. CASE pc # "cleanup"
    BY <1>12, <1>14, <2>2 DEF Fault, disk
  <2> QED BY <2>1, <2>2
<1>15. CASE Create
  <2> UNCHANGED <<pc, caller, undo, idx, outcome, tx, landed>>
    BY <1>15 DEF Create, memory
  <2>1. CASE pc = "prepare"
    <3>1. journal' = Created /\ file' = file
      BY <1>15, <2>1 DEF Create
    <3> QED BY <1>0, <2>1, <3>1 DEF ProtocolInv, NotLanded, JournalOK, CommitOK, RestoreOK, ReportOK,
                                    TrueReport, Running, Created, AllBefore
  <2>2. CASE pc = "apply"
    <3>1. /\ file[Cursor] = Null /\ tx.after[Cursor] # Null
          /\ file' = [file EXCEPT ![Cursor] = Empty] /\ journal' = journal
      BY <1>15, <2>2 DEF Create, Wanted
    <3>2. Cursor = tx.order[idx] /\ idx \in 1..Len(tx.order) /\ Cursor \in Changed(tx) /\ Cursor \in Files
      BY <1>0, <1>1, <2>2, TxOrder DEF Cursor, TypeInv, LoopsOK, Changed
    <3>3. Empty \in Own(tx, Cursor)
      BY <1>0, <2>2, <3>1, <3>2, FilesAssumption DEF Own, CommitOK, AllOwn
    <3>4. AllOwn(tx)'
      BY <1>0, <1>1, <2>2, <3>1, <3>2, <3>3 DEF AllOwn, CommitOK, Generations, Changed
    <3>5. \A k \in 1..idx - 1 : file'[tx.order[k]] = tx.after[tx.order[k]]
      BY <1>0, <1>1, <2>2, <3>1, <3>2, TxOrder DEF CommitOK, Generations
    <3> QED BY <1>0, <2>2, <3>1, <3>4, <3>5 DEF ProtocolInv, NotLanded, JournalOK, CommitOK, RestoreOK,
                                              ReportOK, TrueReport, Running
  <2>3. CASE pc = "putback"
    <3>1. /\ file[Cursor] = Null /\ undo.before[Cursor] # Null
          /\ file' = [file EXCEPT ![Cursor] = Empty] /\ journal' = journal
      BY <1>15, <2>3 DEF Create, Wanted
    <3>2. Cursor = undo.order[idx] /\ idx \in 1..Len(undo.order) /\ Cursor \in Changed(undo) /\ Cursor \in Files
      BY <1>0, <1>1, <2>3, TxOrder DEF Cursor, TypeInv, LoopsOK, Changed
    <3>3. Empty \in Own(undo, Cursor)
      BY <1>0, <2>3, <3>1, <3>2, FilesAssumption DEF Own, RestoreOK, AllOwn
    <3>4. AllOwn(undo)'
      BY <1>0, <1>1, <2>3, <3>1, <3>2, <3>3 DEF AllOwn, RestoreOK, Generations, Changed
    <3>5. \A k \in idx + 1..Len(undo.order) : file'[undo.order[k]] = undo.before[undo.order[k]]
      BY <1>0, <1>1, <2>3, <3>1, <3>2, TxOrder DEF RestoreOK, Generations
    <3>6. journal.state = "prepared"
      BY <1>0, <2>3, <3>1, <3>2 DEF RestoreOK, AllBefore
    <3> QED BY <1>0, <2>3, <3>1, <3>4, <3>5, <3>6 DEF ProtocolInv, NotLanded, JournalOK, CommitOK,
                                              RestoreOK, ReportOK, TrueReport, Running
  <2> QED BY <1>15, <2>1, <2>2, <2>3 DEF Create
\* The effect of writing the current patch, whether or not the write then fails.
<1>16. ASSUME Effect, pc = "apply", UNCHANGED tx
       PROVE  /\ UNCHANGED <<journal, landed>> /\ AllOwn(tx)'
              /\ \A k \in 1..idx : file'[tx.order[k]] = tx.after[tx.order[k]]
              /\ idx \in 1..Len(tx.order) /\ caller = "commit"
  <2>1. file' = [file EXCEPT ![Cursor] = tx.after[Cursor]] /\ UNCHANGED <<journal, landed>>
    BY <1>16 DEF Effect, Wanted
  <2>2. Cursor = tx.order[idx] /\ idx \in 1..Len(tx.order) /\ Cursor \in Changed(tx) /\ Cursor \in Files
    BY <1>0, <1>1, <1>16, TxOrder DEF Cursor, TypeInv, LoopsOK, Changed
  <2>3. AllOwn(tx)'
    BY <1>0, <1>1, <1>16, <2>1, <2>2 DEF AllOwn, CommitOK, Generations, Changed, Own
  <2>4. \A k \in 1..idx : file'[tx.order[k]] = tx.after[tx.order[k]]
    BY <1>0, <1>1, <1>16, <2>1, <2>2, TxOrder DEF CommitOK, Generations
  <2> QED BY <1>0, <1>16, <2>1, <2>2, <2>3, <2>4 DEF TypeInv, LoopsOK
<1>17. ASSUME Effect, pc = "putback", UNCHANGED <<tx, undo>>
       PROVE  /\ UNCHANGED <<journal, landed>> /\ AllOwn(undo)'
              /\ file'[Cursor] = undo.before[Cursor]
              /\ \A f \in Files \ {Cursor} : file'[f] = file[f]
  <2>1. file' = [file EXCEPT ![Cursor] = undo.before[Cursor]] /\ UNCHANGED <<journal, landed>>
    BY <1>17 DEF Effect, Wanted
  <2>2. Cursor \in Files
    BY <1>0, <1>1, <1>17, TxOrder DEF Cursor, TypeInv, LoopsOK
  <2>3. AllOwn(undo)'
    BY <1>0, <1>1, <1>17, <2>1, <2>2 DEF AllOwn, RestoreOK, Generations, Changed, Own
  <2> QED BY <1>1, <2>1, <2>2, <2>3 DEF Generations
<1>18. CASE Write
  <2> UNCHANGED tx
    BY <1>18 DEF Write
  <2>1. CASE pc = "prepare"
    <3>1. /\ journal' = Prepared(tx) /\ file' = file /\ landed' = landed /\ pc' = "apply" /\ idx' = 1
          /\ UNCHANGED <<caller, undo, outcome>>
      BY <1>18, <2>1 DEF Write, Effect, Goto
    <3>2. CommitOK'
      <4>1. \A k \in 1..idx' - 1 : FALSE
        BY <3>1
      <4> QED BY <1>0, <2>1, <3>1, <4>1 DEF CommitOK, AllBefore, AllOwn, Own
    <3> QED BY <1>0, <2>1, <3>1, <3>2 DEF ProtocolInv, NotLanded, JournalOK, RestoreOK, ReportOK,
                                    TrueReport, Running, Prepared
  <2>2. CASE pc = "apply"
    <3>1. /\ UNCHANGED <<caller, undo, outcome>>
          /\ \/ idx < Len(tx.order) /\ pc' = "apply" /\ idx' = idx + 1
             \/ idx = Len(tx.order) /\ pc' = "mark"
      BY <1>1, <1>16, <1>18, <2>2, TxOrder DEF Write, NextPatch, Goto
    <3>2. CommitOK'
      <4>1. CASE pc' = "apply"
        BY <1>0, <1>1, <1>16, <1>18, <2>2, <3>1, <4>1 DEF CommitOK, Write
      <4>2. CASE pc' = "mark"
        <5>1. \A f \in Changed(tx) : file'[f] = tx.after[f]
          BY <1>1, <1>16, <1>18, <2>2, <3>1, <4>2, TxOrder DEF Write
        <5> QED BY <1>0, <1>16, <1>18, <2>2, <4>2, <5>1 DEF CommitOK, Write
      <4> QED BY <3>1, <4>1, <4>2
    <3> QED BY <1>0, <1>16, <1>18, <2>2, <3>1, <3>2 DEF Write, ProtocolInv, NotLanded, JournalOK,
                                    RestoreOK, ReportOK, TrueReport, Running
  <2>3. CASE pc = "mark"
    <3>1. /\ journal' = Committed(tx) /\ landed' = TRUE /\ file' = file /\ pc' = "cleanup"
          /\ UNCHANGED <<caller, undo, outcome>>
      BY <1>18, <2>3 DEF Write, Effect, Goto
    <3> QED BY <1>0, <2>3, <3>1 DEF ProtocolInv, NotLanded, JournalOK, CommitOK, RestoreOK, ReportOK,
                                    TrueReport, Running, Committed
  <2>4. CASE pc = "putback"
    <3>1. NextPutBack /\ UNCHANGED undo
      BY <1>18, <2>4 DEF Write, NextPutBack, Goto
    <3> QED BY <1>4, <1>17, <1>18, <2>4, <3>1 DEF Write
  <2>5. CASE pc = "remove"
    <3>1. Recovered /\ journal' = Absent /\ UNCHANGED <<landed, file>>
      BY <1>18, <2>5 DEF Write, Effect
    <3> QED BY <1>0, <2>5, <3>1, RecoveredOK
  <2> QED BY <1>18, <2>1, <2>2, <2>3, <2>4, <2>5 DEF Write
<1>19. CASE LateFault
  <2> UNCHANGED tx /\ pc # "mark" /\ Effect /\ Unwind("failed")
    BY <1>19 DEF LateFault, Quiet
  <2>1. /\ pc \in {"prepare", "apply", "putback", "remove"} /\ UNCHANGED landed /\ JournalOK'
        /\ pc \in {"prepare", "apply"} =>
              /\ journal'.state = "prepared" /\ journal'.tx = tx
    BY <1>0 DEF Effect, Prepared, Absent, JournalOK, CommitOK
  <2> QED BY <1>0, <2>1, UnwindOK DEF Running
<1>20. CASE UNCHANGED vars
  BY <1>0, <1>20 DEF vars, disk, memory, ProtocolInv, NotLanded, JournalOK, CommitOK, RestoreOK,
                     ReportOK, TrueReport, Running, AllBefore, AllOwn
<1> QED BY <1>2, <1>3, <1>5, <1>6, <1>7, <1>8, <1>9, <1>10, <1>11, <1>13, <1>14, <1>15, <1>18,
           <1>19, <1>20 DEF Next, Steps

\* With the modes of Quiet, the protocol's invariant holds in every state.
THEOREM ProtocolCorrect == ASSUME Quiet PROVE Spec => []ProtocolInv
<1>1. ProtocolInv /\ [Next]_vars => ProtocolInv'
  BY ProtocolStep
<1> QED BY <1>1, ProtocolInit, PTL DEF Spec

\* What a commit reports is what happened to its files.
THEOREM ReportsCorrect == ASSUME Quiet PROVE Spec => []TrueReport
<1>1. ProtocolInv => TrueReport
  BY DEF ProtocolInv, ReportOK
<1> QED BY <1>1, ProtocolCorrect, PTL

-----------------------------------------------------------------------------
(* Other programs' files                                                    *)

\* A commit, a rollback or a recovery replaces only its own generations.
THEOREM ForeignKept == ASSUME Quiet PROVE Spec => KeepsForeign
<1> DEFINE Mine == \A f \in Files : (pc \in {"apply", "putback"} /\ file'[f] # file[f])
                       => \/ file[f] \in Own(IF pc = "apply" THEN tx ELSE undo, f)
                          \/ edits' > edits
<1>1. ProtocolInv /\ [Next]_vars => [Mine]_vars
  <2> SUFFICES ASSUME ProtocolInv, [Next]_vars, NEW f \in Files,
                      pc \in {"apply", "putback"}, file'[f] # file[f]
               PROVE  file[f] \in Own(IF pc = "apply" THEN tx ELSE undo, f)
    OBVIOUS
  <2>1. Create \/ Effect
    BY DEF Next, Steps, ReadJournal, Inspect, AlreadyBack, Check, Write, NothingToRemove, Cleanup,
           Begin, Open, Fault, LateFault, Crash, ForeignEdit, Running, Quiet, vars, disk
  <2>2. file'[f] # file[f] => f = Cursor
    BY <2>1 DEF Create, Effect, ProtocolInv, TypeInv, TypeOK, Generations
  <2>3. Cursor \in Changed(IF pc = "apply" THEN tx ELSE undo)
    BY TxOrder DEF Cursor, ProtocolInv, TypeInv, TypeOK, LoopsOK
  <2> QED BY <2>2, <2>3 DEF ProtocolInv, CommitOK, RestoreOK, AllOwn
<1> QED BY <1>1, ProtocolCorrect, PTL DEF Spec, KeepsForeign

-----------------------------------------------------------------------------
(* The protocol implements the atomic commit                                *)

\* What the files mean while the journal is not a prepared one is what they hold.
LEMMA MeaningPlain == ASSUME journal.state # "prepared", file \in Generations PROVE Meaning = file
BY DEF Meaning, Generations

\* A file's meaning is one of its contents.
LEMMA MeaningType == TypeOK => Meaning \in Generations
<1> SUFFICES ASSUME TypeOK PROVE Meaning \in Generations
  OBVIOUS
<1>1. journal.tx.before \in Generations /\ file \in Generations
  BY TxOrder DEF TypeOK
<1> QED BY <1>1 DEF Meaning, Generations

\* An initial state is an initial state of the atomic commit.
LEMMA AtomicInit == Init => Atomic!Init
<1> SUFFICES ASSUME Init PROVE Atomic!Init
  OBVIOUS
<1>1. TypeOK
  BY TypeInit DEF TypeInv
<1>2. Atomic!Changed(tx) = {}
  BY DEF Init, NoTx, Atomic!Changed
<1> QED BY <1>1, <1>2, MeaningType DEF Init, Atomic!Init, Atomic!Generations, Generations

\* Every step is a step of the atomic commit or changes nothing in it.
LEMMA AtomicStep ==
    ASSUME Quiet, ProtocolInv, [Next]_vars
    PROVE  [Atomic!Next]_(Atomic!vars)
<1>0. TypeInv' /\ TypeInv /\ JournalOK /\ CommitOK /\ RestoreOK /\ NotLanded
  BY TypeStep DEF ProtocolInv
<1>1. /\ tx \in Txs /\ undo \in Txs /\ journal.tx \in Txs /\ file \in Generations
      /\ file' \in Generations
  BY <1>0 DEF TypeInv, TypeOK
<1>2. ASSUME UNCHANGED <<file, journal, tx, landed, edits>> PROVE UNCHANGED Atomic!vars
  BY <1>2 DEF Meaning, Atomic!vars
<1>3. CASE ReadJournal \/ Inspect \/ AlreadyBack \/ Check \/ NothingToRemove \/ Open \/ Fault
           \/ Crash \/ UNCHANGED vars
  <2>1. UNCHANGED <<file, journal, tx, landed, edits>>
    BY <1>3 DEF ReadJournal, Inspect, AlreadyBack, Check, NothingToRemove, Open, Fault, Crash,
                vars, disk, counters
  <2> QED BY <1>2, <2>1
<1>4. CASE Begin
  <2>1. PICK t \in Requests : tx' = t
    BY <1>4 DEF Begin
  <2>2. tx'.before \in Generations /\ tx'.after \in Generations
    BY <2>1, RequestsAreTxs, TxOrder
  <2>3. landed' = FALSE /\ UNCHANGED <<file, journal, edits>>
    BY <1>4 DEF Begin, disk
  <2>4. UNCHANGED Meaning
    BY <2>3 DEF Meaning
  <2>5. Atomic!Request
    BY <2>2, <2>3, <2>4 DEF Atomic!Request, Atomic!Generations, Generations
  <2> QED BY <2>5 DEF Atomic!Next
<1>5. CASE ForeignEdit
  <2>1. PICK f \in Files : \E c \in Contents \ {file[f]} : file' = [file EXCEPT ![f] = c]
    BY <1>5 DEF ForeignEdit
  <2>2. PICK c \in Contents : file' = [file EXCEPT ![f] = c]
    BY <2>1
  <2>3. UNCHANGED <<journal, tx, landed>> /\ edits' = edits + 1
    BY <1>5 DEF ForeignEdit
  <2>4. Meaning' = [Meaning EXCEPT ![f] = Meaning'[f]]
    BY <1>1, <2>2, <2>3 DEF Meaning, Generations
  <2>5. Meaning'[f] \in Contents
    <3>1. (TypeOK => Meaning \in Generations)'
      BY MeaningType, PTL
    <3> QED BY <1>0, <3>1 DEF TypeInv, Generations
  <2>6. Atomic!Edit
    BY <2>3, <2>4, <2>5 DEF Atomic!Edit
  <2> QED BY <2>6 DEF Atomic!Next
\* A write that leaves one of the commit's own contents changes no meaning.
<1>6. ASSUME UNCHANGED <<journal, tx, landed, edits>>, journal.state = "prepared",
             NEW f \in Changed(journal.tx), NEW c \in Own(journal.tx, f),
             file[f] \in Own(journal.tx, f), file' = [file EXCEPT ![f] = c]
      PROVE  UNCHANGED Atomic!vars
  <2>1. file'[f] \in Own(journal.tx, f) /\ \A g \in Files \ {f} : file'[g] = file[g]
    BY <1>1, <1>6 DEF Changed, Generations
  <2>2. \A g \in Files : Meaning'[g] = Meaning[g]
    BY <1>6, <2>1 DEF Meaning
  <2> QED BY <1>6, <2>2 DEF Meaning, Atomic!vars
\* So does a change of the journal that leaves the files as they are read.
<1>7. ASSUME UNCHANGED <<file, tx, landed, edits>>,
             journal.state = "prepared" => AllBefore(journal.tx),
             journal'.state = "prepared" => \A f \in Changed(journal'.tx) :
                                               file[f] = journal'.tx.before[f]
      PROVE  UNCHANGED Atomic!vars
  <2>1. \A f \in Files : Meaning[f] = file[f] /\ Meaning'[f] = file[f]
    BY <1>7 DEF Meaning, AllBefore
  <2> QED BY <1>7, <2>1 DEF Meaning, Atomic!vars
<1>8. CASE Create
  <2> UNCHANGED <<tx, landed, edits>>
    BY <1>8 DEF Create, counters
  <2>1. CASE pc = "prepare"
    <3>1. journal.state = "absent" /\ journal' = Created /\ file' = file
      BY <1>8, <2>1 DEF Create
    <3> QED BY <1>7, <3>1 DEF Created
  <2>2. CASE pc = "apply"
    <3>1. file[Cursor] = Null /\ tx.after[Cursor] # Null
          /\ file' = [file EXCEPT ![Cursor] = Empty] /\ journal' = journal
      BY <1>8, <2>2 DEF Create, Wanted
    <3>2. Cursor \in Changed(tx)
      BY <1>0, <1>1, <2>2, TxOrder DEF Cursor, TypeInv, LoopsOK
    <3>3. file[Cursor] \in Own(tx, Cursor) /\ Empty \in Own(tx, Cursor)
      BY <1>0, <2>2, <3>1, <3>2, FilesAssumption DEF Own, CommitOK, AllOwn
    <3>4. journal.state = "prepared" /\ journal.tx = tx
      BY <1>0, <2>2 DEF CommitOK, Prepared
    <3> QED BY <1>6, <3>1, <3>2, <3>3, <3>4
  <2>3. CASE pc = "putback"
    <3>1. file[Cursor] = Null /\ undo.before[Cursor] # Null
          /\ file' = [file EXCEPT ![Cursor] = Empty] /\ journal' = journal
      BY <1>8, <2>3 DEF Create, Wanted
    <3>2. Cursor \in Changed(undo)
      BY <1>0, <1>1, <2>3, TxOrder DEF Cursor, TypeInv, LoopsOK
    <3>3. file[Cursor] \in Own(undo, Cursor) /\ Empty \in Own(undo, Cursor)
      BY <1>0, <2>3, <3>1, <3>2, FilesAssumption DEF Own, RestoreOK, AllOwn
    <3>4. journal.state = "prepared" /\ journal.tx = undo
      BY <1>0, <2>3, <3>1, <3>2 DEF RestoreOK, AllBefore
    <3> QED BY <1>6, <3>1, <3>2, <3>3, <3>4
  <2> QED BY <1>8, <2>1, <2>2, <2>3 DEF Create
<1>9. ASSUME Effect, UNCHANGED <<tx, edits>>
      PROVE  Atomic!Commit \/ UNCHANGED Atomic!vars
  <2>1. CASE pc = "prepare"
    <3>1. journal' = Prepared(tx) /\ UNCHANGED <<file, landed>>
      BY <1>9, <2>1 DEF Effect
    <3>2. journal.state # "prepared" /\ AllBefore(tx)
      BY <1>0, <2>1 DEF CommitOK
    <3> QED BY <1>7, <1>9, <3>1, <3>2 DEF Prepared, AllBefore
  <2>2. CASE pc = "apply"
    <3>1. file' = [file EXCEPT ![Cursor] = tx.after[Cursor]] /\ UNCHANGED <<journal, landed>>
      BY <1>9, <2>2 DEF Effect, Wanted
    <3>2. Cursor \in Changed(tx)
      BY <1>0, <1>1, <2>2, TxOrder DEF Cursor, TypeInv, LoopsOK
    <3>3. file[Cursor] \in Own(tx, Cursor) /\ tx.after[Cursor] \in Own(tx, Cursor)
      BY <1>0, <2>2, <3>2 DEF Own, CommitOK, AllOwn
    <3>4. journal.state = "prepared" /\ journal.tx = tx
      BY <1>0, <2>2 DEF CommitOK, Prepared
    <3> QED BY <1>6, <1>9, <3>1, <3>2, <3>3, <3>4
  <2>3. CASE pc = "putback"
    <3>1. /\ file' = [file EXCEPT ![Cursor] = undo.before[Cursor]] /\ UNCHANGED <<journal, landed>>
          /\ file[Cursor] # undo.before[Cursor]
      BY <1>9, <2>3 DEF Effect, Wanted
    <3>2. Cursor \in Changed(undo)
      BY <1>0, <1>1, <2>3, TxOrder DEF Cursor, TypeInv, LoopsOK
    <3>3. file[Cursor] \in Own(undo, Cursor) /\ undo.before[Cursor] \in Own(undo, Cursor)
      BY <1>0, <2>3, <3>2 DEF Own, RestoreOK, AllOwn
    <3>4. journal.state = "prepared" /\ journal.tx = undo
      BY <1>0, <2>3, <3>1, <3>2 DEF RestoreOK, AllBefore
    <3> QED BY <1>6, <1>9, <3>1, <3>2, <3>3, <3>4
  <2>4. CASE pc = "mark"
    <3>1. journal' = Committed(tx) /\ landed' = TRUE /\ file' = file
      BY <1>9, <2>4 DEF Effect
    <3>2. journal = Prepared(tx) /\ \A f \in Changed(tx) : file[f] = tx.after[f]
      BY <1>0, <2>4 DEF CommitOK
    <3>3. ~landed
      BY <1>0, <2>4 DEF NotLanded, TypeInv, LoopsOK
    <3>4. \A f \in Changed(tx) : Meaning[f] = tx.before[f]
      BY <1>1, <3>2 DEF Meaning, Prepared, Own, Changed
    <3>5. Meaning' = [f \in Files |-> IF f \in Changed(tx) THEN tx.after[f] ELSE Meaning[f]]
      BY <1>1, <3>1, <3>2 DEF Meaning, Prepared, Committed, Changed, Generations
    <3>6. Atomic!Changed(tx) = Changed(tx)
      BY DEF Atomic!Changed, Changed
    <3> QED BY <1>9, <3>1, <3>3, <3>4, <3>5, <3>6 DEF Atomic!Commit
  <2>5. CASE pc = "remove"
    <3>1. journal' = Absent /\ UNCHANGED <<file, landed>>
      BY <1>9, <2>5 DEF Effect
    <3> QED BY <1>0, <1>7, <1>9, <2>5, <3>1 DEF RestoreOK, Absent
  <2> QED BY <1>9, <2>1, <2>2, <2>3, <2>4, <2>5 DEF Effect
<1>10. CASE Write \/ LateFault
  BY <1>9, <1>10 DEF Write, LateFault, counters, Atomic!Next
<1>11. CASE Cleanup
  <2>1. journal.state = "committed" /\ journal' = Absent /\ UNCHANGED <<file, tx, landed, edits>>
    BY <1>0, <1>11 DEF Cleanup, CommitOK, counters
  <2> QED BY <1>7, <2>1 DEF Absent
<1> QED BY <1>3, <1>4, <1>5, <1>8, <1>10, <1>11 DEF Next, Steps

\* The journal protocol implements the atomic commit of AtomicFiles.
THEOREM CommitIsAtomic == ASSUME Quiet PROVE Spec => AtomicUpdate
<1>1. ProtocolInv /\ [Next]_vars => [Atomic!Next]_(Atomic!vars)
  BY AtomicStep
<1> QED BY <1>1, AtomicInit, ProtocolCorrect, PTL DEF Spec, AtomicUpdate, Atomic!Spec
=============================================================================
