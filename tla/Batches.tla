------------------------------ MODULE Batches ------------------------------
(* The data of an AI continuation: the text of a version, the batches a     *)
(* task cuts it into, and the record of a task                              *)
(* (frontend/src/lib/continuationBatch.ts, incrementalContinuation.ts).     *)
(*                                                                          *)
(* A text is a sequence of segments.  Of the words of a segment only the    *)
(* number of the user's and of the AI's changes is kept: the AI replaces    *)
(* what it read, so writing over a text it did not read shows as a change   *)
(* of the user that is gone.                                                *)
EXTENDS Naturals, Sequences, SequencesExt, FiniteSets

CONSTANTS None,
          BatchSize  \* the segments of a batch (24 in the code)

ASSUME BatchAssumption == BatchSize \in Nat \ {0}

Ids(text) == {seg.id : seg \in ToSet(text)}
Position(text, s) == CHOOSE i \in DOMAIN text : text[i].id = s
Smaller(m, n) == IF m < n THEN m ELSE n
Larger(m, n) == IF m < n THEN n ELSE m

-----------------------------------------------------------------------------
\* checkContinuationGuard: the batch and its neighbours are what they were.
GuardHolds(text, guard) ==
    /\ guard[1].id \in Ids(text)
    /\ LET p == Position(text, guard[1].id)
       IN  SubSeq(text, p, Smaller(p + Len(guard) - 1, Len(text))) = guard

\* What the batch was when it was read.
Read(batch, s) == batch.guard[Position(batch.guard, s)]

\* applyAISuggestions: a change replaces the text, or removes the segments.
Edited(text, batch) ==
    [i \in DOMAIN text |-> IF text[i].id \in ToSet(batch.ids)
                           THEN [Read(batch, text[i].id) EXCEPT !.ai = @ + 1]
                           ELSE text[i]]
Suggested(text, batch) ==
    IF batch.kind = "edit" THEN Edited(text, batch)
    ELSE IF batch.kind = "delete" THEN SelectSeq(text, LAMBDA seg : seg.id \notin ToSet(batch.ids))
    ELSE text

\* applyContinuationBatch and stampContinuationReceipt: text and receipt are
\* one document.  log is history: the receipts this text went through.
Receipt(t, batch, v) == [task |-> t, batch |-> batch.id, ver |-> v, ids |-> ToSet(batch.ids)]
WithBatch(doc, t, batch, v) ==
    [text |-> Suggested(doc.text, batch),
     receipts |-> [doc.receipts EXCEPT ![t] = Receipt(t, batch, v)],
     log |-> Append(doc.log, [task |-> t, ver |-> v, ids |-> ToSet(batch.ids)])]

-----------------------------------------------------------------------------
(* A task.  Its request is the task its chain of successors began with and  *)
(* the segments that one was for.                                           *)
RemainingOf(task) == SelectSeq(task.ids, LAMBDA s : s \notin task.done)
Selected(task) == LET r == RemainingOf(task) IN SubSeq(r, 1, Smaller(BatchSize, Len(r)))

\* A planned segment is gone, or others have come in between.
PlanChanged(text, ids) ==
    \/ ~(ToSet(ids) \subseteq Ids(text))
    \/ LET span == SubSeq(text, Position(text, ids[1]), Position(text, Last(ids)))
       IN  [i \in DOMAIN span |-> span[i].id] # ids

NewBatch(text, ids, b) ==
    [id |-> b, ids |-> ids, kind |-> None,
     guard |-> SubSeq(text, Larger(1, Position(text, ids[1]) - 1),
                            Smaller(Len(text), Position(text, Last(ids)) + 1))]

\* finish(): the receipt is part of the record, in one write of the journal.
FinishedUncounted(task, receipt, v) ==
    [task EXCEPT !.target = v, !.saved = @ \cup {receipt.batch}, !.last = receipt.batch,
                 !.pending = None, !.batch = None, !.reason = None]
Finished(task, receipt, v) ==
    LET done == task.done \cup receipt.ids
        over == IF task.state = "cancelled" THEN "cancelled"
                ELSE IF done = ToSet(task.ids) THEN "completed" ELSE "draft"
    IN  [task EXCEPT !.target = v, !.done = done, !.saved = @ \cup {receipt.batch},
                     !.last = receipt.batch, !.pending = None, !.batch = None,
                     !.state = over,
                     !.reason = IF over = "cancelled" THEN "user" ELSE None]

\* progress(): the tasks of one request, up to task t.
Chain(tasks, t) == {x \in DOMAIN tasks : tasks[x] # None /\ tasks[x].root = tasks[t].root /\ x <= t}
SavedOf(tasks, t) == UNION {tasks[x].done : x \in Chain(tasks, t)}
RequestComplete(tasks, t) ==
    /\ tasks[t].state = "completed" /\ tasks[t].pending = None
    /\ tasks[t].whole \subseteq SavedOf(tasks, t)
=============================================================================
