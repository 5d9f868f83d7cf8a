------------------------- MODULE ProjectTagsProofs -------------------------
(* Machine-checked facts about ProjectTags, for any windows, tasks, changes  *)
(* and paths: text and tag metadata of a version always have the same        *)
(* segments, through saves, transactions, undo and redo, what a client is    *)
(* told of its task is what happened, and the project has every tag that a   *)
(* version refers to.                                                        *)
EXTENDS ProjectTags, WellFoundedInduction, TLAPS

-----------------------------------------------------------------------------
(* Operations on tags keep the segments of each version.                     *)
RowFields == {"ids", "segs"}
AreRows(rows) == \A x \in DOMAIN rows : DOMAIN rows[x] = RowFields
SameSegments(rows, next) ==
    DOMAIN next = DOMAIN rows /\ \A x \in DOMAIN rows : DOMAIN next[x].segs = DOMAIN rows[x].segs
Keeps(rows, out) == out # None => SameSegments(rows, out.rows)

LEMMA OutcomeKeeps ==
    ASSUME NEW rows, NEW lib, NEW next, SameSegments(rows, next)
    PROVE  Keeps(rows, Outcome(lib, next))
BY DEF Keeps, Outcome

LEMMA GiveKeeps ==
    ASSUME NEW rows, AreRows(rows), NEW v \in DOMAIN rows, NEW s, NEW made
    PROVE  Keeps(rows, Give(rows, v, s, made))
<1> DEFINE row == Admitted(made.lib, rows[v], {made.tag})
           given == IF s \in DOMAIN row.segs THEN [row EXCEPT !.segs[s] = @ \cup {made.tag}] ELSE row
           next == [rows EXCEPT ![v] = given]
<1>1. row # None => DOMAIN row = RowFields /\ row.segs = rows[v].segs
  BY DEF Admitted, AreRows, RowFields
<1>2. Give(rows, v, s, made) \in {None, Outcome(made.lib, next)} /\ (row = None => Give(rows, v, s, made) = None)
  BY DEF Give
<1>3. row # None => SameSegments(rows, next)
  <2> HIDE DEF row
  <2>1. row # None => DOMAIN given.segs = DOMAIN rows[v].segs BY <1>1 DEF RowFields
  <2> HIDE DEF given
  <2> QED BY <2>1 DEF SameSegments
<1> HIDE DEF next
<1> QED BY <1>2, <1>3, OutcomeKeeps DEF Keeps

LEMMA OnlyFacts ==
    ASSUME NEW row, NEW ts
    PROVE  DOMAIN Only(row, ts) = RowFields /\ DOMAIN Only(row, ts).segs = DOMAIN row.segs
BY DEF Only, RowFields

LEMMA MappedFacts ==
    ASSUME NEW row, NEW f
    PROVE  DOMAIN Mapped(row, f) = RowFields /\ DOMAIN Mapped(row, f).segs = DOMAIN row.segs
BY DEF Mapped, RowFields

LEMMA UnassignKeeps ==
    ASSUME NEW rows, AreRows(rows), NEW v \in DOMAIN rows, NEW lib, NEW s, NEW t
    PROVE  /\ Keeps(rows, Unassign(lib, rows, v, s, t))
           /\ Keeps(rows, DropBranch(lib, rows, v, t))
<1> DEFINE kept == DOMAIN lib \ Branch(lib, t)
           fewer == [rows EXCEPT ![v].segs[s] = @ \ {t}]
           dropped == [rows EXCEPT ![v] = Only(@, kept)]
<1>1. SameSegments(rows, fewer) BY DEF SameSegments, AreRows, RowFields
<1>2. SameSegments(rows, dropped)
  <2> HIDE DEF kept
  <2> QED BY OnlyFacts DEF SameSegments
<1> QED BY <1>1, <1>2, OutcomeKeeps DEF Unassign, DropBranch

LEMMA BecomeKeeps ==
    ASSUME NEW rows, NEW lib, NEW next
    PROVE  Keeps(rows, Become(lib, next, rows))
<1> DEFINE row(v) == Only(rows[v], DOMAIN next)
           became == [v \in DOMAIN rows |-> [row(v) EXCEPT !.ids = Closed(next, @)]]
<1>1. \A v : DOMAIN row(v) = RowFields /\ DOMAIN row(v).segs = DOMAIN rows[v].segs BY OnlyFacts
<1>2. Become(lib, next, rows) \in {None, Outcome(next, became)} BY Zenon DEF Become
<1>3. SameSegments(rows, became)
  <2> HIDE DEF row
  <2> QED BY <1>1 DEF SameSegments, RowFields
<1> HIDE DEF became
<1> QED BY <1>2, <1>3, OutcomeKeeps DEF Keeps

LEMMA DisplacedKeeps ==
    ASSUME NEW rows, NEW lib, NEW base, NEW place, NEW merge
    PROVE  Keeps(rows, Displaced(lib, base, rows, place, merge))
<1> DEFINE to == [u \in DOMAIN base |-> IF u \in DOMAIN place THEN place[u].id ELSE u]
           next == [u \in {to[x] : x \in DOMAIN base} |-> IF u \in DOMAIN place THEN place[u].tag ELSE base[u]]
           row(v) == Mapped(rows[v], to)
           moved == [v \in DOMAIN rows |-> [row(v) EXCEPT !.ids = Closed(next, @)]]
<1>1. Displaced(lib, base, rows, place, merge) \in {None, Outcome(next, moved)} BY Zenon DEF Displaced
<1>2. SameSegments(rows, moved)
  <2> HIDE DEF to, next
  <2>1. \A v : DOMAIN row(v) = RowFields /\ DOMAIN row(v).segs = DOMAIN rows[v].segs BY MappedFacts
  <2> HIDE DEF row
  <2> QED BY <2>1 DEF SameSegments, RowFields
<1> HIDE DEF moved, next
<1> QED BY <1>1, <1>2, OutcomeKeeps DEF Keeps

LEMMA ShareKeeps ==
    ASSUME NEW rows, NEW lib, NEW t, NEW path, NEW merge, NEW n
    PROVE  Keeps(rows, Share(lib, rows, t, path, merge, n))
<1>1. \A base, parent, name : Keeps(rows, Moved(lib, base, rows, t, parent, name, merge))
  BY DisplacedKeeps DEF Moved
<1>2. Keeps(rows, None) BY DEF Keeps
<1>3. \E base, parent, name :
         Share(lib, rows, t, path, merge, n) \in {None, Moved(lib, base, rows, t, parent, name, merge)}
  BY Zenon DEF Share
<1> QED BY <1>1, <1>2, <1>3

\* Whatever the change, the versions read have the same segments afterwards.
LEMMA ApplyKeeps ==
    ASSUME NEW rows, AreRows(rows), NEW v \in DOMAIN rows, NEW lib, NEW c, NEW n,
           c.act \in {"create", "add", "become", "assign", "unassign", "drop", "share", "delete"}
    PROVE  Keeps(rows, Apply(lib, rows, v, c, n))
<1>1. CASE c.act = "create" BY <1>1, GiveKeeps DEF Apply
<1>2. CASE c.act = "add" BY <1>2, GiveKeeps DEF Apply
<1>3. CASE c.act = "become" BY <1>3, BecomeKeeps DEF Apply
<1>4. CASE c.tag \notin DOMAIN lib /\ c.act \in {"assign", "unassign", "drop", "share", "delete"}
  BY <1>4 DEF Apply, Keeps
<1>5. CASE c.tag \in DOMAIN lib /\ c.act = "assign" BY <1>5, GiveKeeps DEF Apply
<1>6. CASE c.tag \in DOMAIN lib /\ c.act = "unassign" BY <1>6, UnassignKeeps DEF Apply
<1>7. CASE c.tag \in DOMAIN lib /\ c.act = "drop" BY <1>7, UnassignKeeps DEF Apply
<1>8. CASE c.tag \in DOMAIN lib /\ c.act = "share" BY <1>8, ShareKeeps DEF Apply
<1>9. CASE c.tag \in DOMAIN lib /\ c.act = "delete" BY <1>9, BecomeKeeps DEF Apply
<1> QED BY <1>1, <1>2, <1>3, <1>4, <1>5, <1>6, <1>7, <1>8, <1>9

-----------------------------------------------------------------------------
(* The inductive invariant.                                                  *)
ActNames == {"create", "add", "become", "assign", "unassign", "drop", "share", "delete"}
MetaFields == {"token", "ids", "segs", "hash"}
ViewFields == {"win", "v", "doc", "kept", "past", "future", "tpast", "tfuture"}
IndexFields == {"rev", "head", "lib", "reqs"}
Known(ix) == DOMAIN ix = IndexFields /\ ix.rev \in Nat

TypeInv ==
    /\ Known(index) /\ DOMAIN body = DOMAIN meta /\ \A v \in DOMAIN meta : DOMAIN meta[v] = MetaFields
    /\ DOMAIN snap = Windows /\ \A w \in Windows : snap[w] # None => Known(snap[w]) /\ snap[w].rev <= index.rev
TaskInv ==
    /\ DOMAIN task = Tasks /\ DOMAIN told = Tasks
    /\ \A t \in Tasks : "pc" \in DOMAIN task[t]
    /\ \A t \in Tasks : task[t].pc \in {"draft", "applying"} =>
           /\ {"c", "v"} \subseteq DOMAIN task[t]
           /\ task[t].c.act \in ActNames /\ task[t].v \in DOMAIN meta

\* Both sides of a receipt have the same segments, in all that can be undone or
\* redone; where the index is the one that undo was asked for, it can.
GoodReceipt(r) == \A x \in DOMAIN r.versions :
    DOMAIN r.versions[x][1].row.segs = DOMAIN r.versions[x][2].row.segs
History(s) == s \in Seq(Range(s)) /\ \A e \in Range(s) : GoodReceipt(e.receipt)
Showing(x) == /\ DOMAIN x = ViewFields /\ x.v \in DOMAIN meta /\ x.win \in Windows
              /\ History(x.tpast) /\ History(x.tfuture)
ViewInv == view # None \/ op.pc # "idle" => Showing(view)
OpInv ==
    /\ op.pc \in {"idle", "asked", "locked", "restore"}
    /\ op.pc \in {"asked", "locked"} => op.c.act \in ActNames
    /\ op.pc = "restore" =>
          /\ GoodReceipt(op.receipt) /\ op.rev \in Nat /\ op.rev <= index.rev
          /\ op.rev = index.rev => (IF op.redo THEN view.tfuture ELSE view.tpast) # <<>>

\* The answers to the client and the receipts of the project agree with the
\* state of the task.
AnswerInv ==
    /\ \A t \in Tasks : t \in index.reqs => task[t].pc = "completed"
    /\ \A t \in Tasks : "saved" \in told[t] => t \in index.reqs
    /\ \A t \in Tasks : told[t] \cap {"failed", "cancelled"} # {} =>
           task[t].pc \in {"failed", "cancelled", "gone"}

IInv == TypeInv /\ TaskInv /\ ViewInv /\ OpInv /\ Openable /\ AnswerInv

-----------------------------------------------------------------------------
(* Histories and receipts.                                                   *)
LEMMA HistoryFacts ==
    ASSUME NEW s, History(s)
    PROVE  /\ \A e : GoodReceipt(e.receipt) => History(Append(s, e)) /\ Append(s, e) # <<>>
           /\ s # <<>> => History(Front(s)) /\ GoodReceipt(Last(s).receipt)
<1>1. ASSUME NEW e, GoodReceipt(e.receipt) PROVE History(Append(s, e)) /\ Append(s, e) # <<>>
  <2> DEFINE S == Range(s) \cup {e}
  <2>1. s \in Seq(S) BY DEF History, Range
  <2>2. Append(s, e) \in Seq(S) /\ Append(s, e) # <<>> BY <2>1
  <2>3. \A i \in DOMAIN Append(s, e) : Append(s, e)[i] \in S BY <2>1, <2>2
  <2>4. Append(s, e) \in Seq(Range(Append(s, e))) BY <2>2 DEF Range
  <2>5. \A d \in Range(Append(s, e)) : GoodReceipt(d.receipt)
    BY <1>1, <2>3 DEF Range, History
  <2> QED BY <2>2, <2>4, <2>5 DEF History
<1>2. ASSUME s # <<>> PROVE History(Front(s)) /\ GoodReceipt(Last(s).receipt)
  <2>1. Len(s) \in Nat /\ Len(s) > 0 /\ s \in Seq(Range(s)) BY <1>2 DEF History
  <2>2. Last(s) \in Range(s) BY <2>1 DEF Last, Range
  <2>3. /\ Front(s) \in Seq(Range(s)) /\ DOMAIN Front(s) = 1 .. (Len(s) - 1)
        /\ \A i \in DOMAIN Front(s) : Front(s)[i] = s[i]
    BY <2>1 DEF Front
  <2>4. \A i \in DOMAIN Front(s) : Front(s)[i] \in Range(s) BY <2>3
  <2>5. Front(s) \in Seq(Range(Front(s))) BY <2>3 DEF Range
  <2> QED BY <2>2, <2>4, <2>5 DEF History, Range
<1> QED BY <1>1, <1>2

LEMMA PatchFacts ==
    ASSUME TypeInv, NEW versions, NEW side,
           \A x \in DOMAIN versions \cap DOMAIN meta :
               DOMAIN versions[x][side].row.segs = DOMAIN meta[x].segs
    PROVE  /\ DOMAIN Patched(versions, side) = DOMAIN meta
           /\ \A x \in DOMAIN meta : /\ DOMAIN Patched(versions, side)[x] = MetaFields
                                     /\ DOMAIN Patched(versions, side)[x].segs = DOMAIN meta[x].segs
BY DEF Patched, TypeInv, MetaFields

\* What a transaction writes, if it is not refused.
WritesWell(done, t) ==
    /\ Known(done.index) /\ GoodReceipt(done.receipt)
    /\ done.index.reqs = index.reqs \cup ({t} \ {None})
    /\ done.index = index \/ done.index.rev = index.rev + 1
    /\ done.changed \/ t # None => done.index.rev = index.rev + 1
    /\ \A x \in DOMAIN done.receipt.versions \cap DOMAIN meta :
          DOMAIN done.receipt.versions[x][2].row.segs = DOMAIN meta[x].segs

LEMMA TransactedFacts ==
    ASSUME TypeInv, NEW w, NEW rev, NEW v \in DOMAIN meta, NEW c, c.act \in ActNames, NEW t,
           NEW done, done = Transacted(w, rev, v, c, t), done # None
    PROVE  WritesWell(done, t)
<1> DEFINE rows == [x \in Read(c, v) |-> Row(meta[x])]
           out == Apply(index.lib, rows, v, c, fresh + 1)
           changed == {x \in DOMAIN rows : out.rows[x] # rows[x]}
           moved == changed # {} \/ out.lib # index.lib
           versions == [x \in changed |-> <<[row |-> rows[x], token |-> meta[x].token],
                                            [row |-> out.rows[x], token |-> fresh]>>]
<1>1. AreRows(rows) /\ v \in DOMAIN rows /\ \A x \in DOMAIN rows : rows[x].segs = meta[x].segs
  BY DEF AreRows, Row, RowFields, Read
<1>2. out # None /\ done = Written(rows, out, c, t)
  BY DEF Transacted, Accounted
<1>3. Keeps(rows, out)
  <2> HIDE DEF rows
  <2> QED BY <1>1, ApplyKeeps DEF ActNames
<1>4. \A x \in DOMAIN rows : DOMAIN out.rows[x].segs = DOMAIN rows[x].segs
  BY <1>2, <1>3 DEF Keeps, SameSegments
<1> HIDE DEF rows, out
<1> DEFINE next == IF moved \/ t # None
                   THEN [rev |-> index.rev + 1, head |-> IF moved THEN fresh ELSE index.head, lib |-> out.lib,
                         reqs |-> index.reqs \cup ({t} \ {None})]
                   ELSE index
           receipt == [shared |-> IsShared(c), libs |-> <<index.lib, out.lib>>, heads |-> <<index.head, fresh>>,
                       versions |-> versions]
<1>5. done.changed = moved /\ done.index = next /\ done.receipt.versions = versions
  <2>1. Written(rows, out, c, t) = [changed |-> moved, index |-> next, receipt |-> receipt]
    BY Zenon DEF Written
  <2> HIDE DEF next, versions, moved
  <2> QED BY <1>2, <2>1
<1>6. GoodReceipt(done.receipt)
  <2>1. \A x \in DOMAIN versions :
           /\ x \in DOMAIN rows /\ versions[x][1].row = rows[x] /\ versions[x][2].row = out.rows[x]
    OBVIOUS
  <2> HIDE DEF versions
  <2> QED BY <1>4, <1>5, <2>1 DEF GoodReceipt
<1>7. \A x \in DOMAIN versions \cap DOMAIN meta : DOMAIN versions[x][2].row.segs = DOMAIN meta[x].segs
  BY <1>1, <1>4
<1> HIDE DEF moved, versions
<1>8. Known(done.index)
  <2>1. CASE moved \/ t # None BY <1>5, <2>1 DEF TypeInv, Known, IndexFields
  <2>2. CASE ~ (moved \/ t # None) BY <1>5, <2>2 DEF TypeInv
  <2> QED BY <2>1, <2>2
<1>9. /\ done.index = index \/ done.index.rev = index.rev + 1
      /\ done.changed \/ t # None => done.index.rev = index.rev + 1
      /\ done.index.reqs = index.reqs \cup ({t} \ {None})
  <2>1. CASE moved \/ t # None BY <1>5, <2>1
  <2>2. CASE ~ (moved \/ t # None) BY <1>5, <2>2
  <2> QED BY <2>1, <2>2
<1> QED BY <1>5, <1>6, <1>7, <1>8, <1>9 DEF WritesWell

-----------------------------------------------------------------------------
(* Steps of the editor that write nothing.                                   *)
LEMMA EditorKeeps ==
    ASSUME IInv, UNCHANGED <<index, body, meta, snap, task, told>>, ViewInv', OpInv'
    PROVE  IInv'
<1>1. TypeInv' BY DEF IInv, TypeInv, Known
<1>2. TaskInv' BY DEF IInv, TaskInv
<1>3. Openable' BY DEF IInv, Openable, Fits
<1>4. AnswerInv' BY DEF IInv, AnswerInv
<1> QED BY <1>1, <1>2, <1>3, <1>4 DEF IInv

LEMMA NoHistory == History(<<>>)
BY DEF History, Range

LEMMA EnterInv ==
    ASSUME IInv, NEW w \in Windows, NEW v \in DOMAIN meta, Enter(w, v)
    PROVE  IInv'
<1>1. Showing(view)' /\ UNCHANGED <<index, body, meta, snap, task, told>> /\ op' = Idle
  BY NoHistory DEF Enter, Showing, ViewFields, History, GoodReceipt, disk, tasks
<1>2. OpInv' BY <1>1 DEF OpInv, Idle
<1> QED BY <1>1, <1>2, EditorKeeps DEF ViewInv

LEMMA LeaveInv ==
    ASSUME IInv, Leave
    PROVE  IInv'
BY EditorKeeps DEF Leave, ViewInv, OpInv, Idle, disk, tasks

\* What a change of the text leaves of the histories of tag commands.
LEMMA EditInv ==
    ASSUME IInv, Edit \/ Undo
    PROVE  IInv'
<1>1. /\ view # None /\ op.pc \in {"idle", "asked"} /\ Showing(view)
      /\ UNCHANGED <<index, body, meta, snap, task, told, op>>
  BY DEF Edit, Undo, MayEdit, IInv, ViewInv, disk, tasks
<1>2. Showing(view)'
  <2>1. CASE Edit
    <3>1. PICK doc : view' = [Committed(view, doc, None) EXCEPT !.tfuture = <<>>] BY <2>1 DEF Edit
    <3>2. /\ DOMAIN view' = ViewFields /\ view'.v = view.v /\ view'.win = view.win
          /\ view'.tpast = view.tpast /\ view'.tfuture = <<>>
      BY <1>1, <3>1 DEF Committed, Showing, ViewFields
    <3> QED BY <1>1, <3>2, NoHistory DEF Showing, History, GoodReceipt
  <2>2. CASE Undo
    <3>1. view' = Undone(view) \/ view' = Redone(view) BY <2>2 DEF Undo
    <3>2. /\ DOMAIN view' = ViewFields /\ view'.v = view.v /\ view'.win = view.win
          /\ view'.tpast = view.tpast /\ view'.tfuture = view.tfuture
      BY <1>1, <3>1 DEF Undone, Redone, Showing, ViewFields
    <3> QED BY <1>1, <3>2 DEF Showing, History, GoodReceipt
  <2> QED BY <2>1, <2>2
<1>3. OpInv' BY <1>1 DEF IInv, OpInv
<1> QED BY <1>1, <1>2, <1>3, EditorKeeps DEF ViewInv

\* Every change asked for is one of those that Apply knows.
LEMMA ChangesFacts ==
    ASSUME NEW lib, NEW doc, NEW acts, NEW c \in Changes(lib, doc, acts)
    PROVE  c.act \in ActNames /\ \A l : AsAsked(c, l).act \in ActNames
<1>1. c.act \in ActNames
  <2> DEFINE Made1 == UNION {{[Ask(act) EXCEPT !.path = p, !.seg = 1] : p \in Paths} : act \in {"create", "add"}}
             Given == {[Ask("assign") EXCEPT !.tag = t, !.seg = 1] : t \in DOMAIN lib \ doc.segs[1]}
             Taken == {[Ask("unassign") EXCEPT !.tag = t, !.seg = 1] : t \in doc.segs[1]}
             Dropped == {[Ask("drop") EXCEPT !.tag = t] : t \in doc.ids}
             Deleted == {[Ask("delete") EXCEPT !.tag = t] : t \in doc.ids}
             Shared == UNION {{[Ask("share") EXCEPT !.tag = t, !.path = p, !.merge = Named(lib, Last(p)) # {}] :
                                  p \in Paths} : t \in doc.ids}
  <2>1. \A x \in Made1 : x.act \in ActNames
    <3> TAKE x \in Made1
    <3>1. PICK act \in {"create", "add"} : x \in {[Ask(act) EXCEPT !.path = p, !.seg = 1] : p \in Paths}
      OBVIOUS
    <3>2. PICK p \in Paths : x = [Ask(act) EXCEPT !.path = p, !.seg = 1] BY <3>1
    <3> QED BY <3>1, <3>2 DEF Ask, ActNames
  <2>2. \A x \in Given : x.act \in ActNames BY DEF Ask, ActNames
  <2>3. \A x \in Taken : x.act \in ActNames BY DEF Ask, ActNames
  <2>4. \A x \in Dropped : x.act \in ActNames BY DEF Ask, ActNames
  <2>5. \A x \in Deleted : x.act \in ActNames BY DEF Ask, ActNames
  <2>6. \A x \in Shared : x.act \in ActNames
    <3> TAKE x \in Shared
    <3>1. PICK t \in doc.ids : x \in {[Ask("share") EXCEPT !.tag = t, !.path = p, !.merge = Named(lib, Last(p)) # {}] :
                                        p \in Paths}
      OBVIOUS
    <3>2. PICK p \in Paths : x = [Ask("share") EXCEPT !.tag = t, !.path = p, !.merge = Named(lib, Last(p)) # {}]
      BY <3>1
    <3> QED BY <3>2 DEF Ask, ActNames
  <2>7. c \in Made1 \cup Given \cup Taken \cup Dropped \cup Deleted \cup Shared BY Zenon DEF Changes
  <2> HIDE DEF Made1, Given, Taken, Dropped, Deleted, Shared
  <2> QED BY <2>1, <2>2, <2>3, <2>4, <2>5, <2>6, <2>7
<1>2. \A l : c.act = "delete" => AsAsked(c, l).act = "become"
  BY DEF AsAsked
<1> QED BY <1>1, <1>2 DEF AsAsked, ActNames

LEMMA CommandInv ==
    ASSUME IInv, Command
    PROVE  IInv'
<1>1. /\ view # None /\ UNCHANGED <<index, body, meta, snap, task, told, view>>
  BY DEF Command, MayEdit, disk, tasks
<1>2. op'.pc = "asked" /\ op'.c.act \in ActNames BY ChangesFacts DEF Command
<1>3. ViewInv' BY <1>1 DEF IInv, ViewInv, Showing, History, GoodReceipt
<1>4. OpInv' BY <1>2 DEF OpInv
<1> QED BY <1>1, <1>3, <1>4, EditorKeeps

LEMMA UndoTagsInv ==
    ASSUME IInv, UndoTags
    PROVE  IInv'
<1>1. /\ view # None /\ Showing(view) /\ UNCHANGED <<index, body, meta, snap, task, told, view>>
  BY DEF UndoTags, MayEdit, IInv, ViewInv, disk, tasks
<1>2. PICK redo \in BOOLEAN :
         /\ IF redo THEN CanRedo ELSE CanUndo
         /\ op' = [pc |-> "restore", redo |-> redo, rev |-> snap[view.win].rev,
                   receipt |-> Last(IF redo THEN view.tfuture ELSE view.tpast).receipt]
  BY DEF UndoTags
<1>3. (IF redo THEN view.tfuture ELSE view.tpast) # <<>> BY <1>2 DEF CanRedo, CanUndo
<1>4. GoodReceipt(op'.receipt)
  <2>1. op'.receipt = Last(IF redo THEN view.tfuture ELSE view.tpast).receipt BY <1>2
  <2>2. History(IF redo THEN view.tfuture ELSE view.tpast) BY <1>1 DEF Showing
  <2> QED BY <1>3, <2>1, <2>2, HistoryFacts
<1>5. OpInv'
  <2>1. /\ op'.pc = "restore" /\ op'.redo = redo /\ op'.rev = snap[view.win].rev /\ view' = view /\ index' = index
    BY <1>1, <1>2
  <2>2. snap[view.win].rev \in Nat /\ snap[view.win].rev <= index.rev
    BY <1>1 DEF UndoTags, MayEdit, IInv, TypeInv, Known, Showing
  <2>3. (IF op'.redo THEN view'.tfuture ELSE view'.tpast) # <<>> BY <1>3, <2>1
  <2> QED BY <1>4, <2>1, <2>2, <2>3 DEF OpInv
<1>6. ViewInv' BY <1>1 DEF IInv, ViewInv, Showing, History, GoodReceipt
<1> QED BY <1>1, <1>5, <1>6, EditorKeeps

LEMMA BeginInv ==
    ASSUME IInv, Begin
    PROVE  IInv'
<1>1. UNCHANGED <<index, body, meta, snap, task, told, view>> /\ op.pc = "asked"
  BY DEF Begin, disk, tasks
<1>2. op' = Idle \/ (op'.pc = "locked" /\ op'.c = op.c) BY DEF Begin
<1>3. OpInv' BY <1>1, <1>2 DEF IInv, OpInv, Idle
<1>4. ViewInv' BY <1>1, <1>2 DEF IInv, ViewInv, Showing, History, GoodReceipt, Idle
<1> QED BY <1>1, <1>3, <1>4, EditorKeeps

-----------------------------------------------------------------------------
(* Steps that write.                                                         *)
LEMMA SaveInv ==
    ASSUME IInv, NEW stamped \in BOOLEAN, Save(stamped)
    PROVE  IInv'
<1>1. /\ view # None /\ Showing(view) /\ UNCHANGED <<index, snap, task, told, op>>
  BY DEF Save, IInv, ViewInv, tasks
<1>2. view.v \in DOMAIN meta /\ view.v \in DOMAIN body BY <1>1 DEF Showing, IInv, TypeInv
<1>3. body' = [body EXCEPT ![view.v] = Body(view.doc)] BY DEF Save
<1>4. /\ DOMAIN body' = DOMAIN meta' /\ DOMAIN meta' = DOMAIN meta
      /\ \A v \in DOMAIN meta' : DOMAIN meta'[v] = MetaFields /\ DOMAIN meta'[v].segs = body'[v].dom
  <2>1. CASE stamped
    <3>1. meta' = [meta EXCEPT ![view.v] = [token |-> meta[view.v].token, ids |-> view.doc.ids,
                                            segs |-> view.doc.segs, hash |-> Body(view.doc)]]
      BY <2>1 DEF Save
    <3> QED BY <1>2, <1>3, <3>1 DEF IInv, TypeInv, Openable, Fits, Body, MetaFields
  <2>2. CASE ~ stamped
    <3>1. meta' = meta /\ SameTags(view.doc, meta[view.v]) BY <2>2 DEF Save
    <3>2. view.doc.segs = meta[view.v].segs BY <3>1 DEF SameTags, Row
    <3> QED BY <1>2, <1>3, <3>1, <3>2 DEF IInv, TypeInv, Openable, Fits, Body
  <2> QED BY <2>1, <2>2
<1>5. /\ DOMAIN view' = ViewFields /\ view'.v = view.v /\ view'.win = view.win
      /\ view'.tpast = view.tpast /\ view'.tfuture = view.tfuture
  BY <1>1 DEF Save, Showing, ViewFields
<1>6. TypeInv' BY <1>1, <1>4 DEF IInv, TypeInv, Known
<1>7. TaskInv' BY <1>1, <1>4 DEF IInv, TaskInv
<1>8. ViewInv' BY <1>1, <1>4, <1>5 DEF ViewInv, Showing, History, GoodReceipt
<1>9. OpInv' BY <1>1, <1>5 DEF IInv, OpInv
<1>10. Openable' BY <1>4 DEF Openable, Fits
<1>11. AnswerInv' BY <1>1 DEF IInv, AnswerInv
<1> QED BY <1>6, <1>7, <1>8, <1>9, <1>10, <1>11 DEF IInv

LEMMA PublishedFacts ==
    ASSUME Showing(view), NEW receipt, GoodReceipt(receipt), NEW key
    PROVE  /\ DOMAIN Published(receipt, key) = ViewFields
           /\ Published(receipt, key).v = view.v /\ Published(receipt, key).win = view.win
           /\ History(Published(receipt, key).tpast) /\ History(Published(receipt, key).tfuture)
<1> DEFINE doc == TagsOf(view.doc, receipt, 2)
           entry == [receipt |-> receipt, before |-> Anchor(view.doc), after |-> Anchor(doc), key |-> key]
<1> HIDE DEF doc
<1>1. entry.receipt = receipt OBVIOUS
<1> HIDE DEF entry
<1>2. Published(receipt, key)
        = [Committed(view, doc, key) EXCEPT !.kept = doc, !.tpast = Append(@, entry), !.tfuture = <<>>]
  BY Zenon DEF Published, doc, entry
<1>3. /\ DOMAIN Committed(view, doc, key) = ViewFields
      /\ Committed(view, doc, key).v = view.v /\ Committed(view, doc, key).win = view.win
      /\ Committed(view, doc, key).tpast = view.tpast
  BY DEF Committed, Showing, ViewFields
<1>4. /\ DOMAIN Published(receipt, key) = ViewFields
      /\ Published(receipt, key).v = view.v /\ Published(receipt, key).win = view.win
      /\ Published(receipt, key).tpast = Append(view.tpast, entry) /\ Published(receipt, key).tfuture = <<>>
  BY <1>2, <1>3 DEF ViewFields
<1>5. History(Append(view.tpast, entry)) BY <1>1, HistoryFacts DEF Showing
<1> QED BY <1>4, <1>5, NoHistory

LEMMA ShowsAfter ==
    ASSUME Showing(view), NEW receipt, GoodReceipt(receipt), NEW key, DOMAIN meta \subseteq DOMAIN meta',
           view' = Published(receipt, key)
    PROVE  Showing(view)'
<1> DEFINE x == Published(receipt, key)
<1>1. /\ DOMAIN x = ViewFields /\ x.v = view.v /\ x.win = view.win
      /\ History(x.tpast) /\ History(x.tfuture)
  BY Zenon, PublishedFacts
<1> HIDE DEF x
<1>2. view' = x BY Zenon DEF x
<1>3. /\ DOMAIN view' = ViewFields /\ view'.v = view.v /\ view'.win = view.win
      /\ History(view'.tpast) /\ History(view'.tfuture)
  BY <1>1, <1>2
<1> QED BY <1>3 DEF Showing, History, GoodReceipt

\* What a step that replaces the fields of one side of a receipt leaves as it was.
LEMMA PatchedInv ==
    ASSUME IInv, NEW versions, NEW side, meta' = Patched(versions, side), body' = body,
           \A x \in DOMAIN versions \cap DOMAIN meta :
               DOMAIN versions[x][side].row.segs = DOMAIN meta[x].segs,
           Known(index'), index' = index \/ index'.rev = index.rev + 1,
           DOMAIN snap' = Windows, \A w \in Windows : snap'[w] \in {snap[w], index'}
    PROVE  TypeInv' /\ Openable' /\ DOMAIN meta' = DOMAIN meta
<1>1. /\ DOMAIN meta' = DOMAIN meta
      /\ \A x \in DOMAIN meta : DOMAIN meta'[x] = MetaFields /\ DOMAIN meta'[x].segs = DOMAIN meta[x].segs
  BY PatchFacts DEF IInv
<1>2. \A w \in Windows : snap'[w] # None => Known(snap'[w]) /\ snap'[w].rev <= index'.rev
  BY DEF IInv, TypeInv, Known
<1>3. TypeInv' BY <1>1, <1>2 DEF IInv, TypeInv, Known
<1>4. Openable' BY <1>1 DEF IInv, TypeInv, Openable, Fits
<1> QED BY <1>1, <1>3, <1>4

LEMMA TransactInv ==
    ASSUME IInv, Transact
    PROVE  IInv'
<1>1. op.pc = "locked" /\ op' = Idle /\ UNCHANGED <<body, task, told>> BY DEF Transact, tasks
<1>2. Showing(view) /\ op.c.act \in ActNames BY <1>1 DEF IInv, ViewInv, OpInv
<1>3. OpInv' BY <1>1 DEF OpInv, Idle
<1>4. CASE UNCHANGED <<index, meta, snap, view>>
  <2>1. ViewInv' BY <1>1, <1>2, <1>4 DEF ViewInv, Showing, History, GoodReceipt, Idle
  <2> QED BY <1>1, <1>3, <1>4, <2>1, EditorKeeps
<1>5. CASE ~ UNCHANGED <<index, meta, snap, view>>
  <2>1. PICK done : /\ done = Transacted(view.win, op.rev, view.v, op.c, None) /\ done # None
                    /\ Commit(done) /\ snap' = [snap EXCEPT ![view.win] = done.index]
                    /\ view' = Published(done.receipt, done.index.rev)
    BY <1>5 DEF Transact
  <2>2. /\ Known(done.index) /\ GoodReceipt(done.receipt) /\ done.index.reqs = index.reqs
        /\ done.index = index \/ done.index.rev = index.rev + 1
        /\ \A x \in DOMAIN done.receipt.versions \cap DOMAIN meta :
              DOMAIN done.receipt.versions[x][2].row.segs = DOMAIN meta[x].segs
    <3>1. view.v \in DOMAIN meta BY <1>2 DEF Showing
    <3>2. TypeInv BY DEF IInv
    <3>3. WritesWell(done, None) BY <1>2, <2>1, <3>1, <3>2, TransactedFacts
    <3>4. index.reqs \cup ({None} \ {None}) = index.reqs OBVIOUS
    <3> QED BY <3>3, <3>4 DEF WritesWell
  <2>3. TypeInv' /\ Openable' /\ DOMAIN meta' = DOMAIN meta
    <3>1. index' = done.index /\ meta' = Patched(done.receipt.versions, 2) BY <2>1 DEF Commit
    <3>2. DOMAIN snap' = Windows /\ \A w \in Windows : snap'[w] \in {snap[w], index'}
      BY <2>1, <3>1 DEF IInv, TypeInv
    <3>3. /\ Known(index')
          /\ index' = index \/ index'.rev = index.rev + 1
          /\ \A x \in DOMAIN done.receipt.versions \cap DOMAIN meta :
                 DOMAIN done.receipt.versions[x][2].row.segs = DOMAIN meta[x].segs
          /\ body' = body
      BY <1>1, <2>2, <3>1
    <3> QED BY Zenon, <3>1, <3>2, <3>3, PatchedInv
  <2>4. Showing(view)' BY <1>2, <2>1, <2>2, <2>3, ShowsAfter
  <2>5. TaskInv' BY <1>1, <2>3 DEF IInv, TaskInv
  <2>6. AnswerInv' BY <1>1, <2>1, <2>2 DEF IInv, AnswerInv, Commit
  <2> QED BY <1>3, <2>3, <2>4, <2>5, <2>6 DEF IInv, ViewInv
<1> QED BY <1>4, <1>5

\* Undo and redo put one side of a receipt back where the other is there.
LEMMA RestoreTagsInv ==
    ASSUME IInv, RestoreTags
    PROVE  IInv'
<1> DEFINE to == IF op.redo THEN 2 ELSE 1
           x == IF op.redo THEN Redone(view) ELSE Undone(view)
<1>1. op.pc = "restore" /\ op' = Idle /\ UNCHANGED <<body, task, told>> BY DEF RestoreTags, tasks
<1>2. Showing(view) /\ GoodReceipt(op.receipt) BY <1>1 DEF IInv, ViewInv, OpInv
<1>3. OpInv' BY <1>1 DEF OpInv, Idle
<1>4. CASE UNCHANGED <<index, meta, snap, view>>
  <2>1. ViewInv' BY <1>1, <1>2, <1>4 DEF ViewInv, Showing, History, GoodReceipt, Idle
  <2> QED BY <1>1, <1>3, <1>4, <2>1, EditorKeeps
<1>5. CASE ~ UNCHANGED <<index, meta, snap, view>>
  <2>1. /\ Restorable(view.win, op.rev, op.receipt, 3 - to)
        /\ index' = Restored(op.receipt, to) /\ meta' = Patched(op.receipt.versions, to)
        /\ snap' = [snap EXCEPT ![view.win] = index']
        /\ view' = [x EXCEPT !.kept = x.doc,
               !.tpast = IF op.redo THEN Append(@, Last(view.tfuture)) ELSE Front(@),
               !.tfuture = IF op.redo THEN Front(@) ELSE Append(@, Last(view.tpast))]
    BY <1>5 DEF RestoreTags
  <2>2. \A y \in DOMAIN op.receipt.versions \cap DOMAIN meta :
           DOMAIN op.receipt.versions[y][to].row.segs = DOMAIN meta[y].segs
    <3> TAKE y \in DOMAIN op.receipt.versions \cap DOMAIN meta
    <3>1. Row(meta[y]) = op.receipt.versions[y][3 - to].row BY <2>1 DEF Restorable
    <3>2. meta[y].segs = op.receipt.versions[y][3 - to].row.segs BY <3>1 DEF Row
    <3>3. DOMAIN op.receipt.versions[y][1].row.segs = DOMAIN op.receipt.versions[y][2].row.segs
      BY <1>2 DEF GoodReceipt
    <3>4. (to = 1 /\ 3 - to = 2) \/ (to = 2 /\ 3 - to = 1) OBVIOUS
    <3> QED BY <3>2, <3>3, <3>4
  <2>3. Known(index') /\ index'.rev = index.rev + 1 /\ index'.reqs = index.reqs
    BY <2>1 DEF Restored, IInv, TypeInv, Known, IndexFields
  <2>4. TypeInv' /\ Openable' /\ DOMAIN meta' = DOMAIN meta
    <3>1. DOMAIN snap' = Windows /\ \A w \in Windows : snap'[w] \in {snap[w], index'}
      BY <2>1 DEF IInv, TypeInv
    <3> HIDE DEF to
    <3> QED BY <1>1, <2>1, <2>2, <2>3, <3>1, PatchedInv
  <2>5. (IF op.redo THEN view.tfuture ELSE view.tpast) # <<>>
    BY <1>1, <2>1 DEF Restorable, IInv, OpInv
  <2>6. /\ DOMAIN x = ViewFields /\ x.v = view.v /\ x.win = view.win
        /\ x.tpast = view.tpast /\ x.tfuture = view.tfuture
    BY <1>2 DEF Undone, Redone, Showing, ViewFields
  <2>7. Showing(view)'
    <3> HIDE DEF x
    <3>1. /\ DOMAIN view' = ViewFields /\ view'.v = view.v /\ view'.win = view.win
          /\ view'.tpast = (IF op.redo THEN Append(view.tpast, Last(view.tfuture)) ELSE Front(view.tpast))
          /\ view'.tfuture = (IF op.redo THEN Front(view.tfuture) ELSE Append(view.tfuture, Last(view.tpast)))
      BY <2>1, <2>6 DEF ViewFields
    <3>2. History(view.tpast) /\ History(view.tfuture) BY <1>2 DEF Showing
    <3>3. History(view'.tpast) /\ History(view'.tfuture)
      <4>1. CASE op.redo
        <5>1. History(Front(view.tfuture)) /\ GoodReceipt(Last(view.tfuture).receipt)
          BY <2>5, <3>2, <4>1, HistoryFacts
        <5>2. History(Append(view.tpast, Last(view.tfuture))) BY <3>2, <5>1, HistoryFacts
        <5> QED BY <3>1, <4>1, <5>1, <5>2
      <4>2. CASE ~ op.redo
        <5>1. History(Front(view.tpast)) /\ GoodReceipt(Last(view.tpast).receipt)
          BY <2>5, <3>2, <4>2, HistoryFacts
        <5>2. History(Append(view.tfuture, Last(view.tpast))) BY <3>2, <5>1, HistoryFacts
        <5> QED BY <3>1, <4>2, <5>1, <5>2
      <4> QED BY <4>1, <4>2
    <3> QED BY <1>2, <2>4, <3>1, <3>3 DEF Showing, History, GoodReceipt
  <2>8. TaskInv' BY <1>1, <2>4 DEF IInv, TaskInv
  <2>9. AnswerInv' BY <1>1, <2>3 DEF IInv, AnswerInv
  <2> QED BY <1>3, <2>4, <2>7, <2>8, <2>9 DEF IInv, ViewInv
<1> QED BY <1>4, <1>5

-----------------------------------------------------------------------------
(* The tasks of AI clients.                                                  *)
Becomes(t, next, answers) ==
    /\ DOMAIN task' = Tasks /\ DOMAIN told' = Tasks
    /\ task'[t] = next /\ told'[t] = told[t] \cup answers
    /\ \A u \in Tasks : u # t => task'[u] = task[u] /\ told'[u] = told[u]

\* What a step leaves as it was that is about one task only.
LEMMA TaskStep ==
    ASSUME IInv, NEW t \in Tasks, NEW next, NEW answers,
           UNCHANGED <<index, body, meta, snap, view, op>>,
           Becomes(t, next, answers), "pc" \in DOMAIN next,
           next.pc \in {"draft", "applying"} =>
               {"c", "v"} \subseteq DOMAIN next /\ next.c.act \in ActNames /\ next.v \in DOMAIN meta,
           task[t].pc # "completed", answers \subseteq {"failed", "cancelled"},
           answers # {} \/ task[t].pc \in {"failed", "cancelled", "gone"} =>
               next.pc \in {"failed", "cancelled", "gone"}
    PROVE  IInv'
<1>1. TypeInv' BY DEF IInv, TypeInv, Known
<1>2. TaskInv' BY DEF IInv, TaskInv, Becomes
<1>3. ViewInv' BY DEF IInv, ViewInv, Showing, History, GoodReceipt
<1>4. OpInv' BY DEF IInv, OpInv
<1>5. Openable' BY DEF IInv, Openable, Fits
<1>6. AnswerInv'
  <2>1. t \notin index.reqs /\ "saved" \notin told[t] BY DEF IInv, AnswerInv
  <2>2. \A u \in Tasks : u # t => task'[u] = task[u] /\ told'[u] = told[u] BY DEF Becomes
  <2>3. task'[t] = next /\ told'[t] = told[t] \cup answers BY DEF Becomes
  <2>4. told'[t] \cap {"failed", "cancelled"} # {} => next.pc \in {"failed", "cancelled", "gone"}
    BY <2>3 DEF IInv, AnswerInv
  <2>5. "saved" \notin told'[t] BY <2>1, <2>3
  <2> QED BY <2>1, <2>2, <2>3, <2>4, <2>5 DEF IInv, AnswerInv
<1> QED BY <1>1, <1>2, <1>3, <1>4, <1>5, <1>6 DEF IInv

LEMMA PrepareInv ==
    ASSUME IInv, NEW t \in Tasks, NEW w \in Windows, NEW v \in DOMAIN meta, Prepare(t, w, v)
    PROVE  IInv'
<1>1. PICK c \in Changes(index.lib, meta[v], TaskActs) :
         task' = [task EXCEPT ![t] = [pc |-> "draft", win |-> w, v |-> v, c |-> c, print |-> Signature(v),
                                      rev |-> 0, ended |-> FALSE]]
  BY DEF Prepare
<1> DEFINE next == [pc |-> "draft", win |-> w, v |-> v, c |-> c, print |-> Signature(v), rev |-> 0, ended |-> FALSE]
<1>2. /\ "pc" \in DOMAIN next /\ next.pc = "draft"
      /\ {"c", "v"} \subseteq DOMAIN next /\ next.c = c /\ next.v = v
  OBVIOUS
<1> HIDE DEF next
<1>3. c.act \in ActNames BY ChangesFacts
<1>4. task[t].pc = "idle" /\ UNCHANGED <<index, body, meta, snap, view, op, told>>
  BY DEF Prepare, Idle, disk
<1>5. Becomes(t, next, {})
  <2>1. task' = [task EXCEPT ![t] = next] BY <1>1 DEF next
  <2> QED BY <1>4, <2>1 DEF Becomes, IInv, TaskInv
<1> QED BY <1>2, <1>3, <1>4, <1>5, TaskStep

LEMMA FailsFacts ==
    ASSUME IInv, NEW t \in Tasks, task[t].pc \in {"draft", "applying"}
    PROVE  "pc" \in DOMAIN [task[t] EXCEPT !.pc = "failed"] /\ [task[t] EXCEPT !.pc = "failed"].pc = "failed"
BY DEF IInv, TaskInv

LEMMA ApplyTaskInv ==
    ASSUME IInv, NEW t \in Tasks, ApplyTask(t)
    PROVE  IInv'
<1>1. task[t].pc = "draft" /\ UNCHANGED <<index, body, meta, snap, view, op>> BY DEF ApplyTask, disk
<1>2. CASE task' = [task EXCEPT ![t].pc = "applying", ![t].rev = index.rev] /\ UNCHANGED told
  <2> DEFINE next == [[task[t] EXCEPT !.pc = "applying"] EXCEPT !.rev = index.rev]
  <2>1. DOMAIN next = DOMAIN task[t] /\ next.pc = "applying" /\ next.c = task[t].c /\ next.v = task[t].v
    BY <1>1 DEF IInv, TaskInv
  <2>2. Becomes(t, next, {})
    BY <1>2 DEF Becomes, IInv, TaskInv
  <2> HIDE DEF next
  <2>3. /\ {"c", "v"} \subseteq DOMAIN next /\ next.c.act \in ActNames /\ next.v \in DOMAIN meta
        /\ "pc" \in DOMAIN next
    BY <1>1, <2>1 DEF IInv, TaskInv
  <2> QED BY <1>1, <2>1, <2>2, <2>3, TaskStep
<1>3. CASE Fails(t)
  <2> DEFINE next == [task[t] EXCEPT !.pc = "failed"]
  <2>1. "pc" \in DOMAIN next /\ next.pc = "failed" BY <1>1, FailsFacts
  <2>2. Becomes(t, next, {"failed"})
    BY <1>3 DEF Becomes, Fails, Tell, IInv, TaskInv
  <2> HIDE DEF next
  <2> QED BY <1>1, <2>1, <2>2, TaskStep
<1> QED BY <1>2, <1>3 DEF ApplyTask

LEMMA CancelInv ==
    ASSUME IInv, NEW t \in Tasks, Cancel(t)
    PROVE  IInv'
<1> DEFINE next == IF task[t].pc = "applying" THEN [task[t] EXCEPT !.ended = TRUE] ELSE [pc |-> "cancelled"]
<1>1. task[t].pc \in {"draft", "applying", "failed"} /\ UNCHANGED <<index, body, meta, snap, view, op>>
  BY DEF Cancel, Blocks, disk
<1>2. Becomes(t, next, Cancelled(t))
  <2>1. task' = [task EXCEPT ![t] = next] /\ told' = [told EXCEPT ![t] = @ \cup Cancelled(t)]
    BY DEF Cancel, Tell
  <2> HIDE DEF next
  <2> QED BY <2>1 DEF Becomes, IInv, TaskInv
<1>3. CASE task[t].pc = "applying"
  <2>1. DOMAIN next = DOMAIN task[t] /\ next.pc = "applying" /\ next.c = task[t].c /\ next.v = task[t].v
    BY <1>3 DEF IInv, TaskInv
  <2> HIDE DEF next
  <2>2. /\ {"c", "v"} \subseteq DOMAIN next /\ next.c.act \in ActNames /\ next.v \in DOMAIN meta
        /\ "pc" \in DOMAIN next
    BY <1>3, <2>1 DEF IInv, TaskInv
  <2>3. Cancelled(t) = {} BY <1>3 DEF Cancelled
  <2> QED BY <1>1, <1>2, <1>3, <2>1, <2>2, <2>3, TaskStep
<1>4. CASE task[t].pc # "applying"
  <2>1. "pc" \in DOMAIN next /\ next.pc = "cancelled" BY <1>4
  <2> HIDE DEF next
  <2>2. Cancelled(t) = {"cancelled"} BY <1>4 DEF Cancelled
  <2> QED BY <1>1, <1>2, <2>1, <2>2, TaskStep
<1> QED BY <1>3, <1>4

LEMMA CommitTaskInv ==
    ASSUME IInv, NEW t \in Tasks, CommitTask(t)
    PROVE  IInv'
<1>1. task[t].pc = "applying" /\ UNCHANGED <<body, op>> BY DEF CommitTask
<1>2. task[t].c.act \in ActNames /\ task[t].v \in DOMAIN meta BY <1>1 DEF IInv, TaskInv
<1>3. CASE Fails(t) /\ UNCHANGED <<index, meta, snap, view>>
  <2> DEFINE next == [task[t] EXCEPT !.pc = "failed"]
  <2>1. "pc" \in DOMAIN next /\ next.pc = "failed" BY <1>1, FailsFacts
  <2>2. Becomes(t, next, {"failed"})
    BY <1>3 DEF Becomes, Fails, Tell, IInv, TaskInv
  <2> HIDE DEF next
  <2> QED BY <1>1, <1>3, <2>1, <2>2, TaskStep
<1>4. ASSUME NEW done, done = Transacted(task[t].win, task[t].rev, task[t].v, task[t].c, t), done # None,
             Commit(done), Shown(t, done), task' = [task EXCEPT ![t] = [pc |-> "completed"]], Tell(t, {"saved"})
      PROVE  IInv'
  <2>1. WritesWell(done, t)
    <3>1. TypeInv BY DEF IInv
    <3> QED BY <1>2, <1>4, <3>1, TransactedFacts
  <2>2. t # None BY NoneAssumption
  <2>3. /\ index' = done.index /\ Known(index') /\ index'.rev = index.rev + 1
        /\ index'.reqs = index.reqs \cup {t}
    BY <1>4, <2>1, <2>2 DEF Commit, WritesWell
  <2>4. DOMAIN snap' = Windows /\ \A w \in Windows : snap'[w] \in {snap[w], index'}
    BY <1>4, <2>3 DEF Shown, IInv, TypeInv
  <2>5. TypeInv' /\ Openable' /\ DOMAIN meta' = DOMAIN meta
    <3>1. meta' = Patched(done.receipt.versions, 2) BY <1>4 DEF Commit
    <3>2. \A x \in DOMAIN done.receipt.versions \cap DOMAIN meta :
             DOMAIN done.receipt.versions[x][2].row.segs = DOMAIN meta[x].segs
      BY <2>1 DEF WritesWell
    <3>3. body' = body /\ Known(index') /\ (index' = index \/ index'.rev = index.rev + 1) BY <1>1, <2>3
    <3> QED BY Zenon, <2>4, <3>1, <3>2, <3>3, PatchedInv
  <2>6. ViewInv'
    <3>1. CASE view' = view
      BY <1>1, <2>5, <3>1 DEF IInv, ViewInv, Showing, History, GoodReceipt
    <3>2. CASE view' # view
      <4>1. view # None /\ view' = Published(done.receipt, done.index.rev) BY <1>4, <3>2 DEF Shown, Reaches
      <4>2. Showing(view) /\ GoodReceipt(done.receipt) BY <2>1, <4>1 DEF IInv, ViewInv, WritesWell
      <4> QED BY <2>5, <4>1, <4>2, ShowsAfter DEF ViewInv
    <3> QED BY <3>1, <3>2
  <2>7. OpInv'
    <3>1. op.pc = "restore" => op.rev # index'.rev /\ op.rev <= index'.rev
      BY <2>3 DEF IInv, OpInv, TypeInv, Known
    <3> QED BY <1>1, <3>1 DEF IInv, OpInv, GoodReceipt
  <2>8. TaskInv' BY <1>4, <2>5 DEF Tell, IInv, TaskInv
  <2>9. AnswerInv'
    <3>1. /\ task'[t].pc = "completed" /\ told'[t] = told[t] \cup {"saved"}
          /\ \A u \in Tasks : u # t => task'[u] = task[u] /\ told'[u] = told[u]
      BY <1>4 DEF Tell, IInv, TaskInv
    <3>2. told[t] \cap {"failed", "cancelled"} = {} BY <1>1 DEF IInv, AnswerInv
    <3> QED BY <2>3, <3>1, <3>2 DEF IInv, AnswerInv
  <2> QED BY <2>5, <2>6, <2>7, <2>8, <2>9 DEF IInv
<1> QED BY <1>3, <1>4 DEF CommitTask

-----------------------------------------------------------------------------
(* What else happens to the project and its windows.                         *)
LEMMA OtherSaveInv ==
    ASSUME IInv, NEW w \in Windows, OtherSave(w)
    PROVE  IInv'
<1>1. /\ index' = [index EXCEPT !.rev = @ + 1] /\ snap' = [snap EXCEPT ![w] = index']
      /\ UNCHANGED <<body, meta, view, op, task, told>>
  BY DEF OtherSave, tasks
<1>2. Known(index') /\ index'.rev = index.rev + 1 /\ index'.reqs = index.reqs
  BY <1>1 DEF IInv, TypeInv, Known, IndexFields
<1>3. TypeInv' BY <1>1, <1>2 DEF IInv, TypeInv, Known
<1>4. TaskInv' BY <1>1 DEF IInv, TaskInv
<1>5. ViewInv' BY <1>1 DEF IInv, ViewInv, Showing, History, GoodReceipt
<1>6. OpInv'
  <2>1. op.pc = "restore" => op.rev # index'.rev /\ op.rev <= index'.rev
    BY <1>2 DEF IInv, OpInv, TypeInv, Known
  <2> QED BY <1>1, <2>1 DEF IInv, OpInv, GoodReceipt
<1>7. Openable' BY <1>1 DEF IInv, Openable, Fits
<1>8. AnswerInv' BY <1>1, <1>2 DEF IInv, AnswerInv
<1> QED BY <1>3, <1>4, <1>5, <1>6, <1>7, <1>8 DEF IInv

LEMMA CloseInv ==
    ASSUME IInv, NEW w \in Windows, Close(w)
    PROVE  IInv'
<1>1. /\ snap' = [snap EXCEPT ![w] = None] /\ UNCHANGED <<index, body, meta, told>>
      /\ (view' = None /\ op' = Idle) \/ UNCHANGED <<view, op>>
      /\ task' = [t \in Tasks |-> IF Blocks(t) /\ task[t].win = w THEN [pc |-> "gone"] ELSE task[t]]
  BY DEF Close, disk
<1>2. \A t \in Tasks : task'[t] = task[t] \/ (task'[t].pc = "gone" /\ "pc" \in DOMAIN task'[t]
                                               /\ task[t].pc # "completed")
  BY <1>1 DEF Blocks
<1>3. TypeInv' BY <1>1 DEF IInv, TypeInv, Known
<1>4. TaskInv'
  <2>1. DOMAIN task' = Tasks BY <1>1
  <2> QED BY <1>1, <1>2, <2>1 DEF IInv, TaskInv
<1>5. ViewInv' BY <1>1 DEF IInv, ViewInv, Showing, History, GoodReceipt, Idle
<1>6. OpInv' BY <1>1 DEF IInv, OpInv, GoodReceipt, Idle
<1>7. Openable' BY <1>1 DEF IInv, Openable, Fits
<1>8. AnswerInv' BY <1>1, <1>2 DEF IInv, AnswerInv
<1> QED BY <1>3, <1>4, <1>5, <1>6, <1>7, <1>8 DEF IInv

LEMMA OpenInv ==
    ASSUME IInv, NEW w \in Windows, Open(w)
    PROVE  IInv'
<1>1. snap' = [snap EXCEPT ![w] = index] /\ UNCHANGED <<index, body, meta, view, op, task, told>>
  BY DEF Open, disk, tasks
<1>2. TypeInv' BY <1>1 DEF IInv, TypeInv, Known
<1>3. TaskInv' BY <1>1 DEF IInv, TaskInv
<1>4. ViewInv' BY <1>1 DEF IInv, ViewInv, Showing, History, GoodReceipt
<1>5. OpInv' BY <1>1 DEF IInv, OpInv, GoodReceipt
<1>6. Openable' BY <1>1 DEF IInv, Openable, Fits
<1>7. AnswerInv' BY <1>1 DEF IInv, AnswerInv
<1> QED BY <1>2, <1>3, <1>4, <1>5, <1>6, <1>7 DEF IInv

LEMMA ForkInv ==
    ASSUME IInv, NEW v \in DOMAIN meta, Fork(v)
    PROVE  IInv'
<1>1. /\ UNCHANGED <<index, snap, view, op, task, told>> /\ 3 \notin DOMAIN meta
      /\ body' = WithCopy(body, v) /\ meta' = [WithCopy(meta, v) EXCEPT ![3].token = fresh]
  BY DEF Fork, tasks
<1>2. /\ DOMAIN body' = DOMAIN meta \cup {3} /\ body'[3] = body[v]
      /\ \A x \in DOMAIN meta : body'[x] = body[x]
  BY <1>1 DEF WithCopy, IInv, TypeInv
<1>3. /\ DOMAIN meta' = DOMAIN meta \cup {3} /\ meta'[3] = [meta[v] EXCEPT !.token = fresh]
      /\ \A x \in DOMAIN meta : meta'[x] = meta[x]
  BY <1>1 DEF WithCopy
<1>4. DOMAIN meta'[3] = MetaFields /\ meta'[3].segs = meta[v].segs
  BY <1>3 DEF IInv, TypeInv, MetaFields
<1>5. TypeInv' BY <1>1, <1>2, <1>3, <1>4 DEF IInv, TypeInv, Known
<1>6. TaskInv' BY <1>1, <1>3 DEF IInv, TaskInv
<1>7. ViewInv' BY <1>1, <1>3 DEF IInv, ViewInv, Showing, History, GoodReceipt
<1>8. OpInv' BY <1>1 DEF IInv, OpInv, GoodReceipt
<1>9. Openable'
  <2>1. \A x \in DOMAIN meta : DOMAIN meta[x].segs = body[x].dom BY DEF IInv, Openable, Fits
  <2>2. DOMAIN meta'[3].segs = body'[3].dom BY <1>2, <1>4, <2>1
  <2>3. \A x \in DOMAIN meta : DOMAIN meta'[x].segs = body'[x].dom BY <1>2, <1>3, <2>1
  <2>4. \A x \in DOMAIN meta' : DOMAIN meta'[x].segs = body'[x].dom BY <1>3, <2>2, <2>3
  <2> QED BY <2>4 DEF Openable, Fits
<1>10. AnswerInv' BY <1>1 DEF IInv, AnswerInv
<1> QED BY <1>5, <1>6, <1>7, <1>8, <1>9, <1>10 DEF IInv

-----------------------------------------------------------------------------
(* The specification.                                                        *)
LEMMA InitInv == Init => IInv
<1> SUFFICES ASSUME Init PROVE IInv OBVIOUS
<1>1. TypeInv BY DEF Init, TypeInv, Known, IndexFields, Meta, MetaFields
<1>2. TaskInv BY DEF Init, TaskInv, Idle
<1>3. ViewInv /\ OpInv BY DEF Init, ViewInv, OpInv, Idle
<1>4. Openable
  <2>1. DOMAIN meta = {1, 2} /\ DOMAIN meta[1].segs = {1, 2} /\ DOMAIN meta[2].segs = {1, 2}
    BY DEF Init, Meta
  <2>2. body[1].dom = {1, 2} /\ body[2].dom = {1, 2} BY DEF Init, Text0
  <2> QED BY <2>1, <2>2 DEF Openable, Fits
<1>5. AnswerInv BY DEF Init, AnswerInv
<1> QED BY <1>1, <1>2, <1>3, <1>4, <1>5 DEF IInv

LEMMA StepInv == IInv /\ [Next]_vars => IInv'
<1> SUFFICES ASSUME IInv, [Next]_vars PROVE IInv' OBVIOUS
<1>1. ASSUME NEW w \in Windows, OtherSave(w) \/ Close(w) \/ Open(w) PROVE IInv'
  BY <1>1, OtherSaveInv, CloseInv, OpenInv
<1>2. ASSUME NEW w \in Windows, NEW v \in DOMAIN meta, Enter(w, v) PROVE IInv' BY <1>2, EnterInv
<1>3. ASSUME NEW stamped \in BOOLEAN, Save(stamped) PROVE IInv' BY <1>3, SaveInv
<1>4. CASE Leave BY <1>4, LeaveInv
<1>5. CASE Edit \/ Undo BY <1>5, EditInv
<1>6. CASE Command BY <1>6, CommandInv
<1>7. CASE UndoTags BY <1>7, UndoTagsInv
<1>8. CASE Begin BY <1>8, BeginInv
<1>9. CASE Transact BY <1>9, TransactInv
<1>10. CASE RestoreTags BY <1>10, RestoreTagsInv
<1>11. ASSUME NEW t \in Tasks, ApplyTask(t) \/ CommitTask(t) \/ Cancel(t) PROVE IInv'
  BY <1>11, ApplyTaskInv, CommitTaskInv, CancelInv
<1>12. ASSUME NEW t \in Tasks, NEW w \in Windows, NEW v \in DOMAIN meta, Prepare(t, w, v) PROVE IInv'
  BY <1>12, PrepareInv
<1>13. ASSUME NEW v \in DOMAIN meta, Fork(v) PROVE IInv' BY <1>13, ForkInv
<1>14. CASE UNCHANGED vars
  <2>1. UNCHANGED <<index, body, meta, snap, view, op, task, told>> BY <1>14 DEF vars, disk, tasks
  <2>2. ViewInv' /\ OpInv' BY <2>1 DEF IInv, ViewInv, OpInv, Showing, History, GoodReceipt
  <2> QED BY <2>1, <2>2, EditorKeeps
<1> QED BY <1>1, <1>2, <1>3, <1>4, <1>5, <1>6, <1>7, <1>8, <1>9, <1>10, <1>11, <1>12, <1>13, <1>14 DEF Next

\* The strengthened invariant holds of every behaviour, for any windows, tasks,
\* changes and paths (useProjectTags.ts, projectTagTasks.ts, tagSidecar.ts).
THEOREM Invariance == Spec => []IInv
BY InitInv, StepInv, PTL DEF Spec

\* The text and the tag metadata of a version have the same segments at any
\* time, so that applySidecar() of hydrateTagDocument accepts them.
THEOREM AlwaysOpenable == Spec => []Openable
<1>1. IInv => Openable BY DEF IInv
<1> QED BY <1>1, Invariance, PTL

\* A client is told that its task was saved only where the project has the
\* task's receipt, and that it failed or was cancelled only where it has not
\* (tags_apply and tags_cancel of projectTagTasks.ts).
THEOREM AnswersHonest == Spec => []AnswersTrue
<1>1. ASSUME IInv PROVE AnswersTrue
  <2>1. \A t \in Tasks : t \in index.reqs => task[t].pc = "completed" BY <1>1 DEF IInv, AnswerInv
  <2>2. \A t \in Tasks : "saved" \in told[t] => t \in index.reqs BY <1>1 DEF IInv, AnswerInv
  <2>3. \A t \in Tasks : told[t] \cap {"failed", "cancelled"} # {} => task[t].pc \in {"failed", "cancelled", "gone"}
    BY <1>1 DEF IInv, AnswerInv
  <2> QED BY <2>1, <2>2, <2>3 DEF AnswersTrue
<1> QED BY <1>1, Invariance, PTL

-----------------------------------------------------------------------------
(* What a path adds to a library.                                            *)
Extends(lib, next) == DOMAIN lib \subseteq DOMAIN next /\ \A t \in DOMAIN lib : next[t] = lib[t]

\* One step along a path, and the walk along all of it as Made defines it.
Along(lib, path, n, at, i) ==
    IF i = 0 THEN [lib |-> lib, tag |-> Root]
    ELSE LET was == at[i - 1]
             new == Tag(path[i], was.tag)
             found == {t \in DOMAIN was.lib : was.lib[t] = new}
         IN IF found # {} THEN [was EXCEPT !.tag = CHOOSE t \in found : TRUE]
            ELSE [lib |-> WithTag(was.lib, n + i, new), tag |-> n + i]
Walks(lib, path, n, k, at) == at = [i \in 0 .. k |-> Along(lib, path, n, at, i)]

\* There is a walk of every length: if not there is a least length without one,
\* and the walk before it goes one further.
LEMMA WalkExists ==
    ASSUME NEW lib, NEW path, NEW n, NEW m \in Nat
    PROVE  \E at : Walks(lib, path, n, m, at)
<1> DEFINE Missing == {k \in Nat : ~ \E at : Walks(lib, path, n, k, at)}
           R == {p \in Nat \X Nat : p[1] < p[2]}
<1> SUFFICES ASSUME Missing # {} PROVE FALSE OBVIOUS
<1>1. IsWellFoundedOn(R, Nat)
  BY NatLessThanWellFounded DEF OpToRel
<1>2. \A x, y \in Nat : <<y, x>> \in R <=> y < x OBVIOUS
<1>3. PICK k \in Missing : \A y \in Missing : ~ (<<y, k>> \in R)
  <2>1. Missing \in SUBSET Nat OBVIOUS
  <2> HIDE DEF Missing, R
  <2> QED BY <1>1, <2>1, WFMin
<1> HIDE DEF R
<1>4. k \in Nat /\ \A y \in Nat : y < k => \E at : Walks(lib, path, n, y, at)
  BY <1>2, <1>3
<1>5. \A at : ~ Walks(lib, path, n, k, at) BY <1>3
<1>6. CASE k = 0
  <2> DEFINE at == [i \in 0 .. 0 |-> [lib |-> lib, tag |-> Root]]
  <2>1. Walks(lib, path, n, 0, at) BY DEF Walks, Along
  <2> QED BY <1>5, <1>6, <2>1
<1>7. CASE k # 0
  <2>1. k - 1 \in Nat /\ k - 1 < k BY <1>4, <1>7
  <2>2. PICK f : Walks(lib, path, n, k - 1, f) BY <1>4, <2>1
  <2> DEFINE at == [i \in 0 .. k |-> IF i < k THEN f[i] ELSE Along(lib, path, n, f, k)]
  <2>3. \A i \in 0 .. (k - 1) : at[i] = f[i] BY <1>4
  <2>4. \A i \in 0 .. k : Along(lib, path, n, at, i) = Along(lib, path, n, f, i)
    <3> TAKE i \in 0 .. k
    <3>1. i # 0 => at[i - 1] = f[i - 1]
      <4>1. i # 0 => i - 1 \in 0 .. (k - 1) BY <1>4
      <4> HIDE DEF at
      <4> QED BY <2>3, <4>1
    <3> HIDE DEF at
    <3> QED BY <3>1, Zenon DEF Along
  <2>5. \A i \in 0 .. (k - 1) : f[i] = Along(lib, path, n, f, i)
    <3> DEFINE step(i) == Along(lib, path, n, f, i)
    <3>1. f = [i \in 0 .. (k - 1) |-> step(i)] BY <2>2 DEF Walks
    <3> HIDE DEF step
    <3>2. \A i \in 0 .. (k - 1) : f[i] = step(i) BY <3>1
    <3> QED BY <3>2 DEF step
  <2>6. \A i \in 0 .. k : at[i] = Along(lib, path, n, at, i)
    <3> TAKE i \in 0 .. k
    <3>1. CASE i < k
      <4>1. i \in 0 .. (k - 1) BY <1>4, <3>1
      <4>2. at[i] = f[i] BY <2>3, <4>1
      <4> HIDE DEF at
      <4> QED BY <2>4, <2>5, <4>1, <4>2
    <3>2. CASE i = k
      <4>1. at[i] = Along(lib, path, n, f, k) BY <1>4, <3>2
      <4> HIDE DEF at
      <4> QED BY <2>4, <3>2, <4>1
    <3> QED BY <1>4, <3>1, <3>2
  <2>7. at = [i \in 0 .. k |-> at[i]] OBVIOUS
  <2> HIDE DEF at
  <2>8. Walks(lib, path, n, k, at)
    <3> DEFINE step(i) == Along(lib, path, n, at, i)
    <3>1. \A i \in 0 .. k : at[i] = step(i) BY <2>6
    <3> HIDE DEF step
    <3>2. at = [i \in 0 .. k |-> step(i)] BY <2>7, <3>1
    <3> QED BY <3>2 DEF Walks, step
  <2> QED BY <1>5, <2>8
<1> QED BY <1>6, <1>7

LEMMA ExtendsFacts ==
    ASSUME NEW a, NEW b, NEW c
    PROVE  /\ Extends(a, a) /\ (Extends(a, b) /\ Extends(b, c) => Extends(a, c))
           /\ \A t, tag : Extends(a, WithTag(a, t, tag))
BY DEF Extends, WithTag

LEMMA WalkExtends ==
    ASSUME NEW lib, NEW path, NEW n, NEW m \in Nat, NEW at, Walks(lib, path, n, m, at)
    PROVE  \A i \in 0 .. m : Extends(lib, at[i].lib)
<1> DEFINE Missing == {i \in 0 .. m : ~ Extends(lib, at[i].lib)}
           R == {p \in Nat \X Nat : p[1] < p[2]}
<1> SUFFICES ASSUME Missing # {} PROVE FALSE OBVIOUS
<1>1. IsWellFoundedOn(R, Nat)
  BY NatLessThanWellFounded DEF OpToRel
<1>2. \A x, y \in Nat : <<y, x>> \in R <=> y < x OBVIOUS
<1>3. PICK k \in Missing : \A y \in Missing : ~ (<<y, k>> \in R)
  <2>1. Missing \in SUBSET Nat OBVIOUS
  <2> HIDE DEF Missing, R
  <2> QED BY <1>1, <2>1, WFMin
<1> HIDE DEF R
<1>4. k \in 0 .. m /\ ~ Extends(lib, at[k].lib) BY <1>3
<1>5. \A i \in 0 .. m : i < k => Extends(lib, at[i].lib)
  <2> TAKE i \in 0 .. m
  <2> HAVE i < k
  <2>1. <<i, k>> \in R BY <1>2, <1>4
  <2> QED BY <1>3, <2>1
<1>6. at[k] = Along(lib, path, n, at, k)
  <2> DEFINE step(i) == Along(lib, path, n, at, i)
  <2>1. at = [i \in 0 .. m |-> step(i)] BY DEF Walks
  <2> HIDE DEF step
  <2>2. at[k] = step(k) BY <1>4, <2>1
  <2> QED BY <2>2 DEF step
<1>7. CASE k = 0 BY <1>4, <1>6, <1>7, ExtendsFacts DEF Along
<1>8. CASE k # 0
  <2> DEFINE was == at[k - 1]
             new == Tag(path[k], was.tag)
             found == {t \in DOMAIN was.lib : was.lib[t] = new}
  <2>1. Extends(lib, was.lib) BY <1>4, <1>5, <1>8
  <2>2. at[k] = IF found # {} THEN [was EXCEPT !.tag = CHOOSE t \in found : TRUE]
                ELSE [lib |-> WithTag(was.lib, n + k, new), tag |-> n + k]
    BY <1>6, <1>8, Zenon DEF Along
  <2>3. at[k].lib = was.lib \/ at[k].lib = WithTag(was.lib, n + k, new)
    <3> HIDE DEF found, new
    <3> QED BY <2>2
  <2> DEFINE next == WithTag(was.lib, n + k, new)
  <2>4. Extends(was.lib, was.lib) /\ Extends(was.lib, next) BY ExtendsFacts
  <2> HIDE DEF was, new, found, next
  <2>5. Extends(was.lib, at[k].lib) BY <2>3, <2>4 DEF next
  <2>6. Extends(lib, at[k].lib) BY <2>1, <2>5, ExtendsFacts
  <2> QED BY <1>4, <2>6
<1> QED BY <1>7, <1>8

LEMMA MadeExtends ==
    ASSUME NEW lib, NEW path, Len(path) \in Nat, NEW n, Made(lib, path, n) # None
    PROVE  Extends(lib, Made(lib, path, n).lib)
<1> DEFINE at == CHOOSE at : Walks(lib, path, n, Len(path), at)
           made == at[Len(path)]
<1>1. Made(lib, path, n) = IF MayBecome(lib, made.lib) THEN made ELSE None
  BY Zenon DEF Made, Walks, Along
<1>2. Walks(lib, path, n, Len(path), at)
  BY WalkExists
<1> HIDE DEF at
<1>3. Extends(lib, made.lib) BY <1>2, WalkExtends
<1> QED BY <1>1, <1>3

-----------------------------------------------------------------------------
(* Operations leave segments with tags that their version admits, and these   *)
(* with a library that has them.                                             *)
Uses(x) == 1 \in DOMAIN x.segs /\ \A s \in DOMAIN x.segs : x.segs[s] \subseteq x.ids
Preserves(rows, next) == \A x \in DOMAIN rows : Uses(rows[x]) => Uses(next[x])
Defines(rows, out) == out # None =>
    /\ DOMAIN out.rows = DOMAIN rows /\ Preserves(rows, out.rows)
    /\ \A x \in DOMAIN rows : IsCollection(out.lib, out.rows[x].ids)

LEMMA ExtensionKeeps ==
    ASSUME NEW lib, NEW next, Extends(lib, next), NEW ids, IsCollection(lib, ids)
    PROVE  IsCollection(next, ids)
BY DEF Extends, IsCollection

LEMMA OutcomeDefines ==
    ASSUME NEW rows, NEW lib, NEW next, DOMAIN next = DOMAIN rows, Preserves(rows, next)
    PROVE  /\ Defines(rows, Outcome(lib, next))
           /\ Outcome(lib, next) # None => Outcome(lib, next).lib = lib
BY DEF Defines, Outcome

LEMMA ClosedFacts ==
    ASSUME NEW lib, NEW ids
    PROVE  ids \subseteq Closed(lib, ids)
BY DEF Closed

LEMMA GiveDefines ==
    ASSUME NEW rows, AreRows(rows), NEW v \in DOMAIN rows, NEW s, NEW made
    PROVE  /\ Defines(rows, Give(rows, v, s, made))
           /\ Give(rows, v, s, made) # None => made # None /\ Give(rows, v, s, made).lib = made.lib
<1> DEFINE row == Admitted(made.lib, rows[v], {made.tag})
           given == IF s \in DOMAIN row.segs THEN [row EXCEPT !.segs[s] = @ \cup {made.tag}] ELSE row
           next == [rows EXCEPT ![v] = given]
<1>1. CASE made = None \/ row = None
  BY <1>1 DEF Give, Defines
<1>2. CASE made # None /\ row # None
  <2>1. Give(rows, v, s, made) = Outcome(made.lib, next)
    <3> HIDE DEF row
    <3>1. Give(rows, v, s, made) = IF row = None THEN None ELSE Outcome(made.lib, next)
      BY <1>2, Zenon DEF Give, row
    <3> HIDE DEF next
    <3> QED BY <1>2, <3>1
  <2>2. DOMAIN row = RowFields /\ row.segs = rows[v].segs /\ rows[v].ids \cup {made.tag} \subseteq row.ids
    <3> DEFINE ids == Closed(made.lib, rows[v].ids \cup {made.tag})
    <3>1. row = [rows[v] EXCEPT !.ids = ids] BY <1>2, Zenon DEF Admitted
    <3>2. rows[v].ids \cup {made.tag} \subseteq ids BY ClosedFacts
    <3> HIDE DEF ids, row
    <3> QED BY <3>1, <3>2 DEF AreRows, RowFields
  <2>3. Uses(rows[v]) => Uses(given)
    <3> HIDE DEF row
    <3>1. given.ids = row.ids /\ DOMAIN given.segs = DOMAIN row.segs BY <2>2 DEF RowFields
    <3>2. \A x \in DOMAIN row.segs : given.segs[x] \subseteq row.segs[x] \cup {made.tag} BY <2>2 DEF RowFields
    <3> HIDE DEF given
    <3> QED BY <2>2, <3>1, <3>2 DEF Uses
  <2> HIDE DEF row, given
  <2>4. DOMAIN next = DOMAIN rows /\ Preserves(rows, next) BY <2>3 DEF Preserves
  <2> HIDE DEF next
  <2> QED BY <1>2, <2>1, <2>4, OutcomeDefines
<1> QED BY <1>1, <1>2

LEMMA OnlyUses ==
    ASSUME NEW row, NEW ts
    PROVE  Uses(row) => Uses(Only(row, ts))
BY DEF Uses, Only

LEMMA UnassignDefines ==
    ASSUME NEW rows, AreRows(rows), NEW v \in DOMAIN rows, NEW lib, NEW s, NEW t
    PROVE  /\ Defines(rows, Unassign(lib, rows, v, s, t))
           /\ Unassign(lib, rows, v, s, t) # None => Unassign(lib, rows, v, s, t).lib = lib
           /\ Defines(rows, DropBranch(lib, rows, v, t))
           /\ DropBranch(lib, rows, v, t) # None => DropBranch(lib, rows, v, t).lib = lib
<1> DEFINE kept == DOMAIN lib \ Branch(lib, t)
           fewer == [rows EXCEPT ![v].segs[s] = @ \ {t}]
           dropped == [rows EXCEPT ![v] = Only(@, kept)]
<1>1. DOMAIN fewer = DOMAIN rows /\ Preserves(rows, fewer)
  <2>1. DOMAIN fewer = DOMAIN rows /\ \A x \in DOMAIN rows : x # v => fewer[x] = rows[x] OBVIOUS
  <2>2. /\ fewer[v].ids = rows[v].ids /\ DOMAIN fewer[v].segs = DOMAIN rows[v].segs
        /\ \A x \in DOMAIN rows[v].segs : fewer[v].segs[x] \subseteq rows[v].segs[x]
    BY DEF AreRows, RowFields
  <2> HIDE DEF fewer
  <2> QED BY <2>1, <2>2 DEF Preserves, Uses
<1>2. DOMAIN dropped = DOMAIN rows /\ Preserves(rows, dropped)
  <2> HIDE DEF kept
  <2> QED BY OnlyUses DEF Preserves
<1>3. Unassign(lib, rows, v, s, t) = Outcome(lib, fewer) BY Zenon DEF Unassign
<1>4. DropBranch(lib, rows, v, t) = Outcome(lib, dropped) BY Zenon DEF DropBranch
<1> HIDE DEF fewer, dropped
<1> QED BY <1>1, <1>2, <1>3, <1>4, OutcomeDefines

LEMMA ClosedUses ==
    ASSUME NEW row, DOMAIN row = RowFields, NEW lib
    PROVE  Uses(row) => Uses([row EXCEPT !.ids = Closed(lib, @)])
<1> DEFINE ids == Closed(lib, row.ids)
<1>1. row.ids \subseteq ids BY ClosedFacts
<1> HIDE DEF ids
<1>2. Uses(row) => Uses([row EXCEPT !.ids = ids]) BY <1>1 DEF Uses, RowFields
<1> QED BY <1>2 DEF ids

LEMMA BecomeDefines ==
    ASSUME NEW rows, NEW lib, NEW next
    PROVE  Defines(rows, Become(lib, next, rows))
<1> DEFINE row(v) == Only(rows[v], DOMAIN next)
           became == [v \in DOMAIN rows |-> [row(v) EXCEPT !.ids = Closed(next, @)]]
<1>1. \A v : DOMAIN row(v) = RowFields /\ (Uses(rows[v]) => Uses(row(v))) BY OnlyFacts, OnlyUses
<1>2. Become(lib, next, rows) \in {None, Outcome(next, became)} BY Zenon DEF Become
<1>3. DOMAIN became = DOMAIN rows /\ Preserves(rows, became)
  <2> HIDE DEF row
  <2> QED BY <1>1, ClosedUses DEF Preserves
<1> HIDE DEF became
<1> QED BY <1>2, <1>3, OutcomeDefines DEF Defines

LEMMA MappedUses ==
    ASSUME NEW row, NEW f
    PROVE  Uses(row) => Uses(Mapped(row, f))
BY DEF Uses, Mapped

LEMMA DisplacedDefines ==
    ASSUME NEW rows, NEW lib, NEW base, NEW place, NEW merge
    PROVE  Defines(rows, Displaced(lib, base, rows, place, merge))
<1> DEFINE to == [u \in DOMAIN base |-> IF u \in DOMAIN place THEN place[u].id ELSE u]
           next == [u \in {to[x] : x \in DOMAIN base} |-> IF u \in DOMAIN place THEN place[u].tag ELSE base[u]]
           row(v) == Mapped(rows[v], to)
           moved == [v \in DOMAIN rows |-> [row(v) EXCEPT !.ids = Closed(next, @)]]
<1>1. Displaced(lib, base, rows, place, merge) \in {None, Outcome(next, moved)} BY Zenon DEF Displaced
<1>2. DOMAIN moved = DOMAIN rows /\ Preserves(rows, moved)
  <2> HIDE DEF to, next
  <2>1. \A v : DOMAIN row(v) = RowFields /\ (Uses(rows[v]) => Uses(row(v))) BY MappedFacts, MappedUses
  <2> HIDE DEF row
  <2> QED BY <2>1, ClosedUses DEF Preserves
<1> HIDE DEF moved, next
<1> QED BY <1>1, <1>2, OutcomeDefines DEF Defines

LEMMA ShareDefines ==
    ASSUME NEW rows, NEW lib, NEW t, NEW path, NEW merge, NEW n
    PROVE  Defines(rows, Share(lib, rows, t, path, merge, n))
<1>1. \A base, parent, name : Defines(rows, Moved(lib, base, rows, t, parent, name, merge))
  BY DisplacedDefines DEF Moved
<1>2. Defines(rows, None) BY DEF Defines
<1>3. \E base, parent, name :
         Share(lib, rows, t, path, merge, n) \in {None, Moved(lib, base, rows, t, parent, name, merge)}
  BY Zenon DEF Share
<1> QED BY <1>1, <1>2, <1>3

LEMMA ResolvedExtends ==
    ASSUME NEW lib, NEW path, Len(path) \in Nat, NEW n, Resolved(lib, path, n) # None
    PROVE  Extends(lib, Resolved(lib, path, n).lib)
<1> DEFINE same == Named(lib, path[1])
           found == [lib |-> lib, tag |-> CHOOSE t \in same : TRUE]
<1>1. Resolved(lib, path, n) \in {None, found, Made(lib, path, n)} BY Zenon DEF Resolved
<1>2. found.lib = lib OBVIOUS
<1> HIDE DEF found
<1> QED BY <1>1, <1>2, MadeExtends, ExtendsFacts

\* Only a shared change takes from the library what others than the versions
\* that it reads may use.
LEMMA ApplyDefines ==
    ASSUME NEW rows, AreRows(rows), NEW v \in DOMAIN rows, NEW lib, NEW c, NEW n,
           c.act \in ActNames, c.act \in {"create", "add"} => Len(c.path) \in Nat
    PROVE  /\ Defines(rows, Apply(lib, rows, v, c, n))
           /\ ~ IsShared(c) /\ Apply(lib, rows, v, c, n) # None => Extends(lib, Apply(lib, rows, v, c, n).lib)
<1>1. ASSUME c.act \in {"create", "add"}
      PROVE  /\ Defines(rows, Apply(lib, rows, v, c, n))
             /\ Apply(lib, rows, v, c, n) # None => Extends(lib, Apply(lib, rows, v, c, n).lib)
  <2>1. PICK made \in {Made(lib, c.path, n), Resolved(lib, c.path, n)} : Apply(lib, rows, v, c, n) = Give(rows, v, c.seg, made)
    BY <1>1 DEF Apply
  <2>2. made # None => Extends(lib, made.lib) BY <1>1, <2>1, MadeExtends, ResolvedExtends
  <2> QED BY <2>1, <2>2, GiveDefines
<1>2. CASE c.tag \notin DOMAIN lib /\ c.act \in {"assign", "unassign", "drop", "share", "delete"}
  BY <1>2 DEF Apply, Defines
<1>3. ASSUME c.tag \in DOMAIN lib, c.act = "assign"
      PROVE  /\ Defines(rows, Apply(lib, rows, v, c, n))
             /\ Apply(lib, rows, v, c, n) # None => Extends(lib, Apply(lib, rows, v, c, n).lib)
  <2> DEFINE made == [lib |-> lib, tag |-> c.tag]
  <2>1. Apply(lib, rows, v, c, n) = Give(rows, v, c.seg, made) BY <1>3 DEF Apply
  <2>2. made.lib = lib OBVIOUS
  <2> HIDE DEF made
  <2> QED BY <2>1, <2>2, GiveDefines, ExtendsFacts
<1>4. ASSUME c.tag \in DOMAIN lib, c.act \in {"unassign", "drop"}
      PROVE  /\ Defines(rows, Apply(lib, rows, v, c, n))
             /\ Apply(lib, rows, v, c, n) # None => Extends(lib, Apply(lib, rows, v, c, n).lib)
  <2>1. Apply(lib, rows, v, c, n) \in {Unassign(lib, rows, v, c.seg, c.tag), DropBranch(lib, rows, v, c.tag)}
    BY <1>4 DEF Apply
  <2> QED BY <2>1, UnassignDefines, ExtendsFacts
<1>5. ASSUME c.act = "become" \/ (c.tag \in DOMAIN lib /\ c.act \in {"share", "delete"})
      PROVE  Defines(rows, Apply(lib, rows, v, c, n)) /\ IsShared(c)
  <2>1. CASE c.act = "become" BY <2>1, BecomeDefines DEF Apply, IsShared
  <2>2. CASE c.tag \in DOMAIN lib /\ c.act = "share" BY <2>2, ShareDefines DEF Apply, IsShared
  <2>3. CASE c.tag \in DOMAIN lib /\ c.act = "delete" BY <2>3, BecomeDefines DEF Apply, IsShared
  <2> QED BY <1>5, <2>1, <2>2, <2>3
<1> QED BY <1>1, <1>2, <1>3, <1>4, <1>5 DEF ActNames

-----------------------------------------------------------------------------
(* What the heads and the tokens stand for.  A head names a state of the tags *)
(* of the project: its library L[h] and the token K[h][v] of each version v;  *)
(* a token of a version names the ids T[v][k] that it admits.  Undo and redo  *)
(* go back to earlier heads and tokens, and to what these stood for.          *)
Originals == {1, 2}
DocFields == {"text", "ids", "segs", "token"}

\* Each state that a head names has the tags that its versions admit.
Chronicle(L, K, T, n) ==
    /\ DOMAIN L = Nat /\ DOMAIN K = Nat /\ DOMAIN T = Originals
    /\ \A v \in Originals : DOMAIN T[v] = Nat
    /\ \A h \in Nat : \A v \in Originals : K[h][v] \in 0 .. (n - 1) /\ IsCollection(L[h], T[v][K[h][v]])
Dated(T, n, v, token, row) == token \in 0 .. (n - 1) /\ row.ids = T[v][token] /\ Uses(row)

\* Both sides of a receipt are states that were; what it does not name is the
\* same on both.
TrueReceipt(L, K, T, n, r) ==
    /\ \A s \in {1, 2} : r.heads[s] \in 0 .. (n - 1) /\ L[r.heads[s]] = r.libs[s]
    /\ \A x \in Originals \cap DOMAIN r.versions : \A s \in {1, 2} :
          LET field == r.versions[x][s]
          IN field.token = K[r.heads[s]][x] /\ Dated(T, n, x, field.token, field.row)
    /\ \A x \in Originals \ DOMAIN r.versions : K[r.heads[1]][x] = K[r.heads[2]][x]

\* The documents and the receipts of an editor.
GoodDoc(T, n, v, doc) == DOMAIN doc = DocFields /\ Dated(T, n, v, doc.token, doc)
Docs(T, n, v, s) == s \in Seq(Range(s)) /\ \A e \in Range(s) : GoodDoc(T, n, v, e.doc)
Receipts(L, K, T, n, s) == \A e \in Range(s) : TrueReceipt(L, K, T, n, e.receipt)
Shows(L, K, T, n, x) ==
    /\ x.v \in Originals => GoodDoc(T, n, x.v, x.doc) /\ Docs(T, n, x.v, x.past) /\ Docs(T, n, x.v, x.future)
    /\ Receipts(L, K, T, n, x.tpast) /\ Receipts(L, K, T, n, x.tfuture)

\* The disk, the editor and its command agree with one such account.
Stored(L, K, T) ==
    /\ index.head \in 0 .. (fresh - 1) /\ index.lib = L[index.head]
    /\ \A v \in Originals : /\ meta[v].token = K[index.head][v]
                            /\ Dated(T, fresh, v, meta[v].token, meta[v])
Account(L, K, T) ==
    /\ Chronicle(L, K, T, fresh) /\ Stored(L, K, T)
    /\ view # None \/ op.pc # "idle" => Shows(L, K, T, fresh, view)
    /\ op.pc = "restore" => TrueReceipt(L, K, T, fresh, op.receipt)

Asked(c) == c.act \in {"create", "add"} => c.path \in Paths
AskInv ==
    /\ op.pc \in {"asked", "locked"} => Asked(op.c)
    /\ op.pc = "restore" /\ op.rev = index.rev => (IF op.redo THEN view.future ELSE view.past) # <<>>
    /\ \A t \in Tasks : task[t].pc \in {"draft", "applying"} => Asked(task[t].c)
TagInv ==
    /\ fresh \in Nat /\ Originals \subseteq DOMAIN meta /\ AskInv
    /\ \E L, K, T : Account(L, K, T)

\* An account may be continued with new heads and tokens.
Continues(L, K, T, n, A, B, C) ==
    /\ \A h \in 0 .. (n - 1) : A[h] = L[h] /\ B[h] = K[h]
    /\ \A v \in Originals : \A k \in 0 .. (n - 1) : C[v][k] = T[v][k]

LEMMA ContinuesFacts ==
    ASSUME NEW L, NEW K, NEW T, NEW n \in Nat, NEW A, NEW B, NEW C, NEW m \in Nat, n <= m,
           Continues(L, K, T, n, A, B, C)
    PROVE  /\ \A v \in Originals : \A token, row : Dated(T, n, v, token, row) => Dated(C, m, v, token, row)
           /\ \A r : TrueReceipt(L, K, T, n, r) => TrueReceipt(A, B, C, m, r)
           /\ \A x : Shows(L, K, T, n, x) => Shows(A, B, C, m, x)
<1>1. \A v \in Originals : \A token, row : Dated(T, n, v, token, row) => Dated(C, m, v, token, row)
  BY DEF Dated, Continues
<1>2. \A r : TrueReceipt(L, K, T, n, r) => TrueReceipt(A, B, C, m, r)
  <2> TAKE r
  <2> HAVE TrueReceipt(L, K, T, n, r)
  <2>1. \A s \in {1, 2} : r.heads[s] \in 0 .. (n - 1) /\ A[r.heads[s]] = r.libs[s] /\ B[r.heads[s]] = K[r.heads[s]]
    BY DEF TrueReceipt, Continues
  <2> QED BY <1>1, <2>1 DEF TrueReceipt
<1>3. \A v \in Originals : \A doc : GoodDoc(T, n, v, doc) => GoodDoc(C, m, v, doc) BY <1>1 DEF GoodDoc
<1>4. \A x : Shows(L, K, T, n, x) => Shows(A, B, C, m, x)
  BY <1>2, <1>3 DEF Shows, Docs, Receipts
<1> QED BY <1>1, <1>2, <1>4

LEMMA SameContinues ==
    ASSUME NEW L, NEW K, NEW T, NEW n \in Nat, NEW m \in Nat, n <= m
    PROVE  /\ Continues(L, K, T, n, L, K, T)
           /\ Chronicle(L, K, T, n) => Chronicle(L, K, T, m)
BY DEF Continues, Chronicle

-----------------------------------------------------------------------------
(* A transaction continues the account.                                      *)
LEMMA TransactedTrue ==
    ASSUME TypeInv, fresh \in Nat, Originals \subseteq DOMAIN meta,
           NEW L, NEW K, NEW T, Chronicle(L, K, T, fresh), Stored(L, K, T),
           NEW w, NEW rev, NEW v \in DOMAIN meta, NEW c, c.act \in ActNames, Asked(c), NEW t,
           NEW done, done = Transacted(w, rev, v, c, t), done # None
    PROVE  \E A, B, C :
              /\ Chronicle(A, B, C, fresh + 5) /\ Continues(L, K, T, fresh, A, B, C)
              /\ done.index.head \in 0 .. (fresh + 4) /\ done.index.lib = A[done.index.head]
              /\ \A x \in Originals : LET now == Patched(done.receipt.versions, 2)[x] IN
                    now.token = B[done.index.head][x] /\ Dated(C, fresh + 5, x, now.token, now)
              /\ done.changed => TrueReceipt(A, B, C, fresh + 5, done.receipt)
<1> DEFINE rows == [x \in Read(c, v) |-> Row(meta[x])]
           out == Apply(index.lib, rows, v, c, fresh + 1)
           changed == {x \in DOMAIN rows : out.rows[x] # rows[x]}
           moved == changed # {} \/ out.lib # index.lib
           versions == [x \in changed |-> <<[row |-> rows[x], token |-> meta[x].token],
                                            [row |-> out.rows[x], token |-> fresh]>>]
           next == IF moved \/ t # None
                   THEN [rev |-> index.rev + 1, head |-> IF moved THEN fresh ELSE index.head, lib |-> out.lib,
                         reqs |-> index.reqs \cup ({t} \ {None})]
                   ELSE index
           receipt == [shared |-> IsShared(c), libs |-> <<index.lib, out.lib>>, heads |-> <<index.head, fresh>>,
                       versions |-> versions]
<1>1. /\ AreRows(rows) /\ v \in DOMAIN rows /\ DOMAIN rows = Read(c, v)
      /\ \A x \in DOMAIN rows : rows[x].segs = meta[x].segs /\ rows[x].ids = meta[x].ids
  BY DEF AreRows, Row, RowFields, Read
<1>2. out # None /\ done = Written(rows, out, c, t)
  BY DEF Transacted, Accounted
<1>3. /\ DOMAIN out.rows = DOMAIN rows /\ Preserves(rows, out.rows)
      /\ \A x \in DOMAIN rows : IsCollection(out.lib, out.rows[x].ids)
      /\ ~ IsShared(c) => Extends(index.lib, out.lib)
  <2>1. c.act \in {"create", "add"} => Len(c.path) \in Nat BY PathsAssumption DEF Asked
  <2> HIDE DEF rows
  <2>2. Defines(rows, out) /\ (~ IsShared(c) /\ out # None => Extends(index.lib, out.lib))
    BY <1>1, <2>1, ApplyDefines
  <2> HIDE DEF out
  <2> QED BY <1>2, <2>2 DEF Defines
<1>4. \A x \in Originals : Dated(T, fresh, x, meta[x].token, meta[x]) /\ meta[x].token = K[index.head][x]
  BY DEF Stored
<1>5. \A x \in Originals \cap DOMAIN rows :
         Uses(rows[x]) /\ Uses(out.rows[x]) /\ rows[x].ids = T[x][meta[x].token]
  <2> HIDE DEF rows, out
  <2> QED BY <1>1, <1>3, <1>4 DEF Dated, Uses, Preserves
<1>6. \A x \in Originals : x \notin changed => IsCollection(out.lib, T[x][meta[x].token])
  <2> TAKE x \in Originals
  <2> HAVE x \notin changed
  <2>1. CASE x \in DOMAIN rows
    <3>1. out.rows[x] = rows[x] BY <2>1
    <3> HIDE DEF rows, out
    <3> QED BY <1>3, <1>5, <2>1, <3>1
  <2>2. CASE x \notin DOMAIN rows
    <3>1. ~ IsShared(c) BY <1>1, <2>2 DEF Read
    <3>2. IsCollection(index.lib, T[x][meta[x].token])
      BY <1>4 DEF Stored, Chronicle
    <3> HIDE DEF rows, out
    <3> QED BY <1>3, <3>1, <3>2, ExtensionKeeps
  <2> QED BY <2>1, <2>2
<1> HIDE DEF rows, out
<1>7. done.changed = moved /\ done.index = next /\ done.receipt = receipt
  <2>1. Written(rows, out, c, t) = [changed |-> moved, index |-> next, receipt |-> receipt]
    BY Zenon DEF Written
  <2> HIDE DEF next, receipt, moved
  <2> QED BY <1>2, <2>1
<1>8. /\ DOMAIN versions = changed /\ changed \subseteq DOMAIN rows
      /\ \A x \in changed : /\ versions[x][1].row = rows[x] /\ versions[x][1].token = meta[x].token
                            /\ versions[x][2].row = out.rows[x] /\ versions[x][2].token = fresh
  OBVIOUS
<1> DEFINE patched == Patched(versions, 2)
<1>9. \A x \in Originals :
         /\ x \notin changed => patched[x] = meta[x]
         /\ x \in changed => patched[x].token = fresh /\ patched[x].ids = out.rows[x].ids
                             /\ patched[x].segs = out.rows[x].segs
  <2> HIDE DEF versions, changed
  <2> QED BY <1>8 DEF Patched
<1>10. /\ done.receipt.versions = versions /\ done.receipt.libs = <<index.lib, out.lib>>
       /\ done.receipt.heads = <<index.head, fresh>>
  <2> HIDE DEF versions
  <2> QED BY <1>7
<1>11. CASE ~ moved
  <2>1. done.index.head = index.head /\ done.index.lib = index.lib /\ ~ done.changed /\ changed = {}
    <3>1. changed = {} /\ out.lib = index.lib BY <1>11
    <3> HIDE DEF versions, receipt, changed, moved
    <3>2. next.head = index.head /\ next.lib = index.lib BY <1>11, <3>1
    <3> HIDE DEF next
    <3> QED BY <1>7, <1>11, <3>1, <3>2
  <2> HIDE DEF moved, next, receipt, versions, changed
  <2>2. \A x \in Originals : patched[x] = meta[x] BY <1>9, <2>1
  <2> HIDE DEF patched
  <2>3. Continues(L, K, T, fresh, L, K, T) /\ Chronicle(L, K, T, fresh + 5)
    BY SameContinues
  <2>4. \A x \in Originals : Dated(T, fresh + 5, x, meta[x].token, meta[x])
    BY <1>4 DEF Dated
  <2>5. index.head \in 0 .. (fresh + 4) /\ index.lib = L[index.head] BY DEF Stored
  <2> QED BY <1>4, <1>10, <2>1, <2>2, <2>3, <2>4, <2>5 DEF patched
<1>12. CASE moved
  <2> DEFINE A == [L EXCEPT ![fresh] = out.lib]
             tokens == [x \in Originals |-> IF x \in changed THEN fresh ELSE meta[x].token]
             B == [K EXCEPT ![fresh] = tokens]
             C == [x \in Originals |-> [T[x] EXCEPT ![fresh] = out.rows[x].ids]]
  <2>1. done.index.head = fresh /\ done.index.lib = out.lib
    BY <1>7, <1>12
  <2> HIDE DEF moved, next, receipt, versions, changed, patched
  <2>2. /\ DOMAIN A = Nat /\ A[fresh] = out.lib /\ \A h \in Nat : h # fresh => A[h] = L[h]
        /\ DOMAIN B = Nat /\ B[fresh] = tokens /\ \A h \in Nat : h # fresh => B[h] = K[h]
        /\ DOMAIN C = Originals
        /\ \A x \in Originals : /\ DOMAIN C[x] = Nat /\ C[x][fresh] = out.rows[x].ids
                                /\ \A k \in Nat : k # fresh => C[x][k] = T[x][k]
    <3> HIDE DEF tokens
    <3> QED BY DEF Chronicle
  <2>3. \A x \in Originals : tokens[x] = IF x \in changed THEN fresh ELSE meta[x].token OBVIOUS
  <2> HIDE DEF A, B, C, tokens
  <2>4. Continues(L, K, T, fresh, A, B, C) BY <2>2 DEF Continues
  <2>5. \A x \in Originals : meta[x].token \in 0 .. (fresh - 1) /\ C[x][meta[x].token] = T[x][meta[x].token]
    BY <1>4, <2>2 DEF Dated
  <2>6. \A x \in Originals : tokens[x] \in 0 .. (fresh + 4) /\ IsCollection(out.lib, C[x][tokens[x]])
    BY <1>3, <1>6, <1>8, <2>2, <2>3, <2>5
  <2>7. \A h \in Nat : h # fresh => \A x \in Originals :
           B[h][x] \in 0 .. (fresh + 4) /\ IsCollection(A[h], C[x][B[h][x]])
    <3> TAKE h \in Nat
    <3> HAVE h # fresh
    <3> TAKE x \in Originals
    <3>1. K[h][x] \in 0 .. (fresh - 1) /\ IsCollection(L[h], T[x][K[h][x]]) BY DEF Chronicle
    <3>2. C[x][K[h][x]] = T[x][K[h][x]] /\ K[h][x] \in 0 .. (fresh + 4) BY <2>2, <3>1
    <3> QED BY <2>2, <3>1, <3>2
  <2>8. Chronicle(A, B, C, fresh + 5)
    BY <2>2, <2>6, <2>7 DEF Chronicle
  <2>9. \A x \in Originals : /\ patched[x].token = tokens[x]
                             /\ Dated(C, fresh + 5, x, patched[x].token, patched[x])
    <3> TAKE x \in Originals
    <3>1. CASE x \in changed
      <4>1. Uses(out.rows[x]) BY <1>5, <1>8, <3>1
      <4>2. Uses(patched[x]) BY <1>9, <3>1, <4>1 DEF Uses
      <4> QED BY <1>9, <2>2, <2>3, <3>1, <4>2 DEF Dated
    <3>2. CASE x \notin changed
      BY <1>4, <1>9, <2>3, <2>5, <3>2 DEF Dated
    <3> QED BY <3>1, <3>2
  <2>10. TrueReceipt(A, B, C, fresh + 5, done.receipt)
    <3>1. \A x \in Originals \cap changed :
             /\ Dated(C, fresh + 5, x, meta[x].token, rows[x]) /\ Dated(C, fresh + 5, x, fresh, out.rows[x])
             /\ meta[x].token = K[index.head][x] /\ tokens[x] = fresh
      BY <1>4, <1>5, <1>8, <2>2, <2>3, <2>5 DEF Dated
    <3>2. index.head \in 0 .. (fresh - 1) /\ A[index.head] = index.lib /\ B[index.head] = K[index.head]
      BY <2>2 DEF Stored
    <3>3. \A x \in Originals \ changed : tokens[x] = K[index.head][x] BY <1>4, <2>3
    <3>4. \A s \in {1, 2} : /\ done.receipt.heads[s] \in 0 .. (fresh + 4)
                            /\ A[done.receipt.heads[s]] = done.receipt.libs[s]
      BY <1>10, <2>2, <3>2
    <3>5. \A x \in Originals \cap DOMAIN versions : \A s \in {1, 2} :
             /\ versions[x][s].token = B[done.receipt.heads[s]][x]
             /\ Dated(C, fresh + 5, x, versions[x][s].token, versions[x][s].row)
      BY <1>8, <1>10, <2>2, <3>1, <3>2
    <3>6. \A x \in Originals \ DOMAIN versions : B[done.receipt.heads[1]][x] = B[done.receipt.heads[2]][x]
      BY <1>8, <1>10, <2>2, <3>2, <3>3
    <3>7. (fresh + 5) - 1 = fresh + 4 OBVIOUS
    <3> QED BY <1>10, <3>4, <3>5, <3>6, <3>7, Zenon DEF TrueReceipt
  <2>11. /\ done.index.head \in 0 .. (fresh + 4) /\ done.index.lib = A[done.index.head]
         /\ B[done.index.head] = tokens
    BY <2>1, <2>2
  <2>12. \A x \in Originals : LET now == Patched(done.receipt.versions, 2)[x] IN
            now.token = B[done.index.head][x] /\ Dated(C, fresh + 5, x, now.token, now)
    BY <1>10, <2>9, <2>11 DEF patched
  <2> QED BY <2>4, <2>8, <2>10, <2>11, <2>12
<1> QED BY <1>11, <1>12

-----------------------------------------------------------------------------
(* What the editor shows after a change, an undo and a transaction.          *)
LEMMA RangeFacts ==
    ASSUME NEW s, s \in Seq(Range(s))
    PROVE  /\ \A e : /\ Append(s, e) \in Seq(Range(Append(s, e))) /\ Range(Append(s, e)) \subseteq Range(s) \cup {e}
                     /\ <<e>> \o s \in Seq(Range(<<e>> \o s)) /\ Range(<<e>> \o s) \subseteq Range(s) \cup {e}
           /\ s # <<>> => /\ Last(s) \in Range(s) /\ Head(s) \in Range(s)
                          /\ Front(s) \in Seq(Range(Front(s))) /\ Range(Front(s)) \subseteq Range(s)
                          /\ Tail(s) \in Seq(Range(Tail(s))) /\ Range(Tail(s)) \subseteq Range(s)
<1>1. ASSUME NEW e PROVE /\ Append(s, e) \in Seq(Range(Append(s, e))) /\ Range(Append(s, e)) \subseteq Range(s) \cup {e}
                         /\ <<e>> \o s \in Seq(Range(<<e>> \o s)) /\ Range(<<e>> \o s) \subseteq Range(s) \cup {e}
  <2> DEFINE S == Range(s) \cup {e}
             a == Append(s, e)
             b == <<e>> \o s
  <2>1. s \in Seq(S) /\ <<e>> \in Seq(S) BY DEF Range
  <2>2. a \in Seq(S) /\ b \in Seq(S) BY <2>1
  <2> HIDE DEF a, b
  <2>3. \A q \in Seq(S) : q \in Seq(Range(q)) /\ Range(q) \subseteq S
    <3> HIDE DEF S
    <3> QED BY DEF Range
  <2> QED BY <2>2, <2>3 DEF a, b
<1>2. ASSUME s # <<>> PROVE /\ Last(s) \in Range(s) /\ Head(s) \in Range(s)
                            /\ Front(s) \in Seq(Range(Front(s))) /\ Range(Front(s)) \subseteq Range(s)
                            /\ Tail(s) \in Seq(Range(Tail(s))) /\ Range(Tail(s)) \subseteq Range(s)
  <2> DEFINE S == Range(s)
  <2>1. s \in Seq(S) /\ Len(s) \in Nat /\ Len(s) > 0 BY <1>2
  <2>2. \A i \in 1 .. Len(s) : s[i] \in S BY <2>1 DEF Range
  <2>3. Last(s) \in S /\ Head(s) \in S BY <2>1, <2>2 DEF Last
  <2> HIDE DEF S
  <2>4. Tail(s) \in Seq(S) /\ Front(s) \in Seq(S) BY <2>1, <2>2 DEF Front
  <2>5. \A q \in Seq(S) : q \in Seq(Range(q)) /\ Range(q) \subseteq S BY DEF Range
  <2> QED BY <2>3, <2>4, <2>5 DEF S
<1> QED BY <1>1, <1>2

LEMMA DocsFacts ==
    ASSUME NEW T, NEW n, NEW v, NEW s, Docs(T, n, v, s)
    PROVE  /\ \A e : GoodDoc(T, n, v, e.doc) => Docs(T, n, v, Append(s, e)) /\ Docs(T, n, v, <<e>> \o s)
           /\ s # <<>> => /\ GoodDoc(T, n, v, Last(s).doc) /\ GoodDoc(T, n, v, Head(s).doc)
                          /\ Docs(T, n, v, Front(s)) /\ Docs(T, n, v, Tail(s))
<1>1. s \in Seq(Range(s)) /\ \A e \in Range(s) : GoodDoc(T, n, v, e.doc) BY DEF Docs
<1>2. ASSUME NEW e, GoodDoc(T, n, v, e.doc) PROVE Docs(T, n, v, Append(s, e)) /\ Docs(T, n, v, <<e>> \o s)
  <2> DEFINE a == Append(s, e)
             b == <<e>> \o s
  <2>1. a \in Seq(Range(a)) /\ Range(a) \subseteq Range(s) \cup {e} BY <1>1, RangeFacts
  <2>2. b \in Seq(Range(b)) /\ Range(b) \subseteq Range(s) \cup {e} BY <1>1, RangeFacts
  <2> HIDE DEF a, b
  <2>3. Docs(T, n, v, a) /\ Docs(T, n, v, b) BY <1>1, <1>2, <2>1, <2>2 DEF Docs
  <2> QED BY <2>3 DEF a, b
<1>3. ASSUME s # <<>> PROVE /\ GoodDoc(T, n, v, Last(s).doc) /\ GoodDoc(T, n, v, Head(s).doc)
                            /\ Docs(T, n, v, Front(s)) /\ Docs(T, n, v, Tail(s))
  BY <1>1, <1>3, RangeFacts DEF Docs
<1> QED BY Zenon, <1>2, <1>3

LEMMA ReceiptsFacts ==
    ASSUME NEW L, NEW K, NEW T, NEW n, NEW s, s \in Seq(Range(s)), Receipts(L, K, T, n, s)
    PROVE  /\ \A e : TrueReceipt(L, K, T, n, e.receipt) => Receipts(L, K, T, n, Append(s, e))
           /\ s # <<>> => TrueReceipt(L, K, T, n, Last(s).receipt) /\ Receipts(L, K, T, n, Front(s))
<1>1. \A e \in Range(s) : TrueReceipt(L, K, T, n, e.receipt) BY DEF Receipts
<1>2. ASSUME NEW e, TrueReceipt(L, K, T, n, e.receipt) PROVE Receipts(L, K, T, n, Append(s, e))
  <2> DEFINE a == Append(s, e)
  <2>1. Range(a) \subseteq Range(s) \cup {e} BY RangeFacts
  <2> HIDE DEF a
  <2>2. Receipts(L, K, T, n, a) BY <1>1, <1>2, <2>1 DEF Receipts
  <2> QED BY <2>2 DEF a
<1>3. ASSUME s # <<>> PROVE TrueReceipt(L, K, T, n, Last(s).receipt) /\ Receipts(L, K, T, n, Front(s))
  BY <1>1, <1>3, RangeFacts DEF Receipts
<1> QED BY <1>2, <1>3

LEMMA EmptyHistories ==
    ASSUME NEW L, NEW K, NEW T, NEW n, NEW v
    PROVE  Docs(T, n, v, <<>>) /\ Receipts(L, K, T, n, <<>>)
BY DEF Docs, Receipts, Range

\* What is shown where the lists of tag commands are as they were.
SameHistories(x, y) ==
    DOMAIN y = ViewFields /\ y.v = x.v /\ y.win = x.win /\ y.tpast = x.tpast /\ y.tfuture = x.tfuture

LEMMA CommittedShows ==
    ASSUME NEW L, NEW K, NEW T, NEW n, NEW x, DOMAIN x = ViewFields, Shows(L, K, T, n, x), NEW doc, NEW key,
           x.v \in Originals => GoodDoc(T, n, x.v, doc)
    PROVE  Shows(L, K, T, n, Committed(x, doc, key)) /\ SameHistories(x, Committed(x, doc, key))
<1> DEFINE entry == [doc |-> x.doc, key |-> key]
           y == Committed(x, doc, key)
<1>1. entry.doc = x.doc OBVIOUS
<1>2. y = [x EXCEPT !.doc = doc, !.past = Append(@, entry), !.future = <<>>] BY DEF Committed
<1> HIDE DEF entry, y
<1>3. SameHistories(x, y) /\ y.doc = doc /\ y.past = Append(x.past, entry) /\ y.future = <<>>
  BY <1>2 DEF SameHistories, ViewFields
<1>4. x.v \in Originals => Docs(T, n, x.v, Append(x.past, entry)) /\ Docs(T, n, x.v, <<>>)
  BY <1>1, DocsFacts, EmptyHistories DEF Shows
<1>5. Shows(L, K, T, n, y) BY <1>3, <1>4 DEF Shows, SameHistories
<1> QED BY <1>3, <1>5 DEF y

LEMMA UndoneShows ==
    ASSUME NEW L, NEW K, NEW T, NEW n, NEW x, DOMAIN x = ViewFields, Shows(L, K, T, n, x)
    PROVE  /\ SameHistories(x, Undone(x)) /\ SameHistories(x, Redone(x))
           /\ x.past # <<>> => Shows(L, K, T, n, Undone(x))
           /\ x.future # <<>> => Shows(L, K, T, n, Redone(x))
<1>1. SameHistories(x, Undone(x)) /\ SameHistories(x, Redone(x))
  BY DEF SameHistories, Undone, Redone, ViewFields
<1>2. ASSUME x.past # <<>> PROVE Shows(L, K, T, n, Undone(x))
  <2> DEFINE entry == [doc |-> x.doc, key |-> Last(x.past).key]
             y == Undone(x)
  <2>1. entry.doc = x.doc OBVIOUS
  <2>2. y = [x EXCEPT !.doc = Last(x.past).doc, !.past = Front(@), !.future = <<entry>> \o @] BY DEF Undone
  <2> HIDE DEF entry, y
  <2>3. y.doc = Last(x.past).doc /\ y.past = Front(x.past) /\ y.future = <<entry>> \o x.future
    BY <2>2 DEF ViewFields
  <2>4. x.v \in Originals => /\ Docs(T, n, x.v, <<entry>> \o x.future) /\ Docs(T, n, x.v, Front(x.past))
                             /\ GoodDoc(T, n, x.v, Last(x.past).doc)
    BY <1>2, <2>1, DocsFacts DEF Shows
  <2>5. SameHistories(x, y) BY <1>1 DEF y
  <2>6. Shows(L, K, T, n, y) BY <2>3, <2>4, <2>5 DEF Shows, SameHistories
  <2> QED BY <2>6 DEF y
<1>3. ASSUME x.future # <<>> PROVE Shows(L, K, T, n, Redone(x))
  <2> DEFINE entry == [doc |-> x.doc, key |-> Head(x.future).key]
             y == Redone(x)
  <2>1. entry.doc = x.doc OBVIOUS
  <2>2. y = [x EXCEPT !.doc = Head(x.future).doc, !.future = Tail(@), !.past = Append(@, entry)] BY DEF Redone
  <2> HIDE DEF entry, y
  <2>3. y.doc = Head(x.future).doc /\ y.past = Append(x.past, entry) /\ y.future = Tail(x.future)
    BY <2>2 DEF ViewFields
  <2>4. x.v \in Originals => /\ Docs(T, n, x.v, Append(x.past, entry)) /\ Docs(T, n, x.v, Tail(x.future))
                             /\ GoodDoc(T, n, x.v, Head(x.future).doc)
    BY <1>3, <2>1, DocsFacts DEF Shows
  <2>5. SameHistories(x, y) BY <1>1 DEF y
  <2>6. Shows(L, K, T, n, y) BY <2>3, <2>4, <2>5 DEF Shows, SameHistories
  <2> QED BY <2>6 DEF y
<1> QED BY <1>1, <1>2, <1>3

LEMMA PublishedShows ==
    ASSUME NEW L, NEW K, NEW T, NEW n, Showing(view), Shows(L, K, T, n, view),
           NEW receipt, TrueReceipt(L, K, T, n, receipt), NEW key
    PROVE  Shows(L, K, T, n, Published(receipt, key))
<1> DEFINE doc == TagsOf(view.doc, receipt, 2)
           entry == [receipt |-> receipt, before |-> Anchor(view.doc), after |-> Anchor(doc), key |-> key]
           y == Committed(view, doc, key)
           z == Published(receipt, key)
<1>1. view.v \in Originals => GoodDoc(T, n, view.v, doc)
  <2> HAVE view.v \in Originals
  <2>1. GoodDoc(T, n, view.v, view.doc) BY DEF Shows
  <2>2. CASE view.v \notin DOMAIN receipt.versions BY <2>1, <2>2 DEF TagsOf
  <2>3. CASE view.v \in DOMAIN receipt.versions
    <3> DEFINE field == receipt.versions[view.v][2]
    <3>1. Dated(T, n, view.v, field.token, field.row) BY <2>3 DEF TrueReceipt
    <3>2. doc = WithTags(view.doc, field) BY <2>3 DEF TagsOf
    <3> HIDE DEF field, doc
    <3>3. /\ DOMAIN doc = DocFields /\ doc.ids = field.row.ids /\ doc.segs = field.row.segs
          /\ doc.token = field.token
      BY <2>1, <3>2 DEF WithTags, GoodDoc, DocFields
    <3> QED BY <3>1, <3>3 DEF GoodDoc, Dated, Uses
  <2> QED BY <2>2, <2>3
<1> HIDE DEF doc
<1>2. entry.receipt = receipt OBVIOUS
<1> HIDE DEF entry
<1>3. Shows(L, K, T, n, y) /\ SameHistories(view, y) BY <1>1, CommittedShows DEF Showing
<1>4. z = [y EXCEPT !.kept = doc, !.tpast = Append(@, entry), !.tfuture = <<>>]
  BY Zenon DEF Published, doc, entry
<1> HIDE DEF y, z
<1>5. /\ z.v = y.v /\ z.doc = y.doc /\ z.past = y.past /\ z.future = y.future
      /\ z.tpast = Append(view.tpast, entry) /\ z.tfuture = <<>>
  BY <1>3, <1>4 DEF SameHistories, ViewFields
<1>6. Receipts(L, K, T, n, Append(view.tpast, entry)) /\ Receipts(L, K, T, n, <<>>)
  BY <1>2, ReceiptsFacts, EmptyHistories DEF Shows, Showing, History
<1>7. Shows(L, K, T, n, z) BY <1>3, <1>5, <1>6 DEF Shows
<1> QED BY <1>7 DEF z

-----------------------------------------------------------------------------
(* Each step keeps an account.                                               *)
LEMMA KeepsAccount ==
    ASSUME TagInv, UNCHANGED <<index, meta>>, fresh' \in Nat, fresh <= fresh', AskInv',
           \A L, K, T : Account(L, K, T) =>
               /\ view' # None \/ op'.pc # "idle" => Shows(L, K, T, fresh, view')
               /\ op'.pc = "restore" => TrueReceipt(L, K, T, fresh, op'.receipt)
    PROVE  TagInv'
<1>1. PICK L, K, T : Account(L, K, T) BY DEF TagInv
<1>2. fresh \in Nat /\ Originals \subseteq DOMAIN meta BY DEF TagInv
<1>3. Continues(L, K, T, fresh, L, K, T) /\ Chronicle(L, K, T, fresh')
  BY <1>1, <1>2, SameContinues DEF Account
<1>4. /\ \A v \in Originals : \A token, row : Dated(T, fresh, v, token, row) => Dated(T, fresh', v, token, row)
      /\ \A r : TrueReceipt(L, K, T, fresh, r) => TrueReceipt(L, K, T, fresh', r)
      /\ \A x : Shows(L, K, T, fresh, x) => Shows(L, K, T, fresh', x)
  BY <1>2, <1>3, ContinuesFacts
<1>5. index'.head \in 0 .. (fresh' - 1) BY <1>1, <1>2 DEF Account, Stored
<1>6. Stored(L, K, T)' BY <1>1, <1>4, <1>5 DEF Account, Stored
<1>7. Account(L, K, T)' BY <1>1, <1>3, <1>4, <1>6 DEF Account
<1> QED BY <1>2, <1>7 DEF TagInv

LEMMA EnterTags ==
    ASSUME IInv, TagInv, NEW w \in Windows, NEW v \in DOMAIN meta, Enter(w, v)
    PROVE  TagInv'
<1> DEFINE doc == [text |-> body[v].text, ids |-> meta[v].ids, segs |-> meta[v].segs, token |-> meta[v].token]
<1>1. /\ op' = Idle /\ UNCHANGED <<index, meta, task, fresh>>
      /\ view' = [win |-> w, v |-> v, doc |-> doc, kept |-> doc, past |-> <<>>, future |-> <<>>,
                  tpast |-> <<>>, tfuture |-> <<>>]
  BY DEF Enter, disk, tasks
<1>2. AskInv' BY <1>1 DEF TagInv, AskInv, Idle
<1>3. DOMAIN doc = DocFields /\ doc.ids = meta[v].ids /\ doc.segs = meta[v].segs /\ doc.token = meta[v].token
  BY DEF DocFields
<1> HIDE DEF doc
<1>4. /\ view'.v = v /\ view'.doc = doc /\ view'.past = <<>> /\ view'.future = <<>>
      /\ view'.tpast = <<>> /\ view'.tfuture = <<>>
  BY <1>1
<1>5. \A L, K, T : Account(L, K, T) => Shows(L, K, T, fresh, view')
  <2> TAKE L, K, T
  <2> HAVE Account(L, K, T)
  <2>1. v \in Originals => GoodDoc(T, fresh, v, doc)
    BY <1>3 DEF Account, Stored, GoodDoc, Dated, Uses
  <2> QED BY <1>4, <2>1, EmptyHistories DEF Shows
<1>6. op'.pc = "idle" BY <1>1 DEF Idle
<1>7. fresh' \in Nat /\ fresh <= fresh' BY <1>1 DEF TagInv
<1> QED BY <1>1, <1>2, <1>5, <1>6, <1>7, KeepsAccount

LEMMA LeaveTags ==
    ASSUME TagInv, Leave
    PROVE  TagInv'
<1>1. view' = None /\ op'.pc = "idle" /\ UNCHANGED <<index, meta, task, fresh>>
  BY DEF Leave, Idle, disk, tasks
<1>2. AskInv' /\ fresh' \in Nat /\ fresh <= fresh' BY <1>1 DEF TagInv, AskInv
<1> QED BY <1>1, <1>2, KeepsAccount

LEMMA EditTags ==
    ASSUME IInv, TagInv, Edit
    PROVE  TagInv'
<1>1. /\ view # None /\ op.pc \in {"idle", "asked"} /\ UNCHANGED <<index, meta, task, op>> /\ fresh' = fresh + 1
  BY DEF Edit, MayEdit, disk, tasks
<1>2. Showing(view) BY <1>1 DEF IInv, ViewInv
<1>3. PICK doc \in {[view.doc EXCEPT !.text = fresh]} \cup
                   (IF 2 \in DOMAIN view.doc.segs THEN {[view.doc EXCEPT !.segs = Joined(@)]} ELSE {}) :
         view' = [Committed(view, doc, None) EXCEPT !.tfuture = <<>>]
  BY DEF Edit
<1>4. AskInv' /\ fresh' \in Nat /\ fresh <= fresh' BY <1>1 DEF TagInv, AskInv
<1>5. \A L, K, T : Account(L, K, T) => Shows(L, K, T, fresh, view')
  <2> TAKE L, K, T
  <2> HAVE Account(L, K, T)
  <2>1. Shows(L, K, T, fresh, view) BY <1>1 DEF Account
  <2>2. view.v \in Originals => GoodDoc(T, fresh, view.v, doc)
    <3> HAVE view.v \in Originals
    <3>1. GoodDoc(T, fresh, view.v, view.doc) BY <2>1 DEF Shows
    <3>2. CASE doc = [view.doc EXCEPT !.text = fresh]
      <4>1. /\ DOMAIN doc = DocFields /\ doc.ids = view.doc.ids /\ doc.segs = view.doc.segs
            /\ doc.token = view.doc.token
        BY <3>1, <3>2 DEF GoodDoc, DocFields
      <4> QED BY <3>1, <4>1 DEF GoodDoc, Dated, Uses
    <3>3. CASE 2 \in DOMAIN view.doc.segs /\ doc = [view.doc EXCEPT !.segs = Joined(@)]
      <4>1. /\ DOMAIN doc = DocFields /\ doc.ids = view.doc.ids /\ doc.token = view.doc.token
            /\ doc.segs = <<view.doc.segs[1] \cup view.doc.segs[2]>>
        BY <3>1, <3>3 DEF GoodDoc, DocFields, Joined
      <4>2. Uses(view.doc) BY <3>1 DEF GoodDoc, Dated
      <4>3. view.doc.segs[1] \cup view.doc.segs[2] \subseteq view.doc.ids BY <3>3, <4>2 DEF Uses
      <4>4. Uses(doc) BY <4>1, <4>3 DEF Uses
      <4> QED BY <3>1, <4>1, <4>4 DEF GoodDoc, Dated
    <3> QED BY <1>3, <3>2, <3>3
  <2> DEFINE y == Committed(view, doc, None)
  <2>3. Shows(L, K, T, fresh, y) /\ SameHistories(view, y)
    BY <1>2, <2>1, <2>2, CommittedShows DEF Showing
  <2> HIDE DEF y
  <2>4. view' = [y EXCEPT !.tfuture = <<>>] BY <1>3 DEF y
  <2>5. /\ view'.v = y.v /\ view'.doc = y.doc /\ view'.past = y.past /\ view'.future = y.future
        /\ view'.tpast = y.tpast /\ view'.tfuture = <<>>
    BY <2>3, <2>4 DEF SameHistories, ViewFields
  <2> QED BY <2>3, <2>5, EmptyHistories DEF Shows
<1>6. op'.pc # "restore" BY <1>1
<1> QED BY <1>1, <1>4, <1>5, <1>6, KeepsAccount

LEMMA UndoTagged ==
    ASSUME IInv, TagInv, Undo
    PROVE  TagInv'
<1>1. /\ view # None /\ op.pc = "idle" /\ UNCHANGED <<index, meta, task, op, fresh>>
      /\ \/ view.past # <<>> /\ view' = Undone(view)
         \/ view.future # <<>> /\ view' = Redone(view)
  BY DEF Undo, MayEdit, disk, tasks
<1>2. Showing(view) BY <1>1 DEF IInv, ViewInv
<1>3. AskInv' /\ fresh' \in Nat /\ fresh <= fresh' BY <1>1 DEF TagInv, AskInv
<1>4. \A L, K, T : Account(L, K, T) => Shows(L, K, T, fresh, view')
  <2> TAKE L, K, T
  <2> HAVE Account(L, K, T)
  <2>1. Shows(L, K, T, fresh, view) BY <1>1 DEF Account
  <2> QED BY <1>1, <1>2, <2>1, UndoneShows DEF Showing
<1> QED BY <1>1, <1>3, <1>4, KeepsAccount

\* A save writes the ids that the token of the file stands for.
LEMMA SaveTags ==
    ASSUME IInv, TagInv, NEW stamped \in BOOLEAN, Save(stamped)
    PROVE  TagInv'
<1>1. /\ view # None /\ Current(view.doc, meta[view.v]) /\ UNCHANGED <<index, task, op, fresh>>
  BY DEF Save, tasks
<1>2. Showing(view) BY <1>1 DEF IInv, ViewInv
<1>3. /\ \/ view' = view
         \/ view' = [view EXCEPT !.kept = view.doc]
      /\ \/ meta' = meta
         \/ meta' = [meta EXCEPT ![view.v] = [token |-> meta[view.v].token, ids |-> view.doc.ids,
                                              segs |-> view.doc.segs, hash |-> Body(view.doc)]]
  BY DEF Save
<1>4. /\ SameHistories(view, view') /\ view'.doc = view.doc /\ view'.past = view.past
      /\ view'.future = view.future
  BY <1>2, <1>3 DEF SameHistories, Showing, ViewFields
<1>5. AskInv' BY <1>1, <1>4 DEF TagInv, AskInv
<1>6. PICK L, K, T : Account(L, K, T) BY DEF TagInv
<1>7. Shows(L, K, T, fresh, view) BY <1>1, <1>6 DEF Account
<1>8. Shows(L, K, T, fresh, view') BY <1>4, <1>7 DEF Shows, SameHistories
<1>9. \A v \in Originals : meta'[v].token = meta[v].token /\ Dated(T, fresh, v, meta'[v].token, meta'[v])
  <2> TAKE v \in Originals
  <2>1. Dated(T, fresh, v, meta[v].token, meta[v]) BY <1>6 DEF Account, Stored
  <2>2. CASE meta'[v] = meta[v] BY <2>1, <2>2
  <2>3. CASE meta'[v] # meta[v]
    <3>1. v = view.v /\ v \in DOMAIN meta BY <1>3, <2>3 DEF TagInv
    <3>2. meta'[v] = [token |-> meta[v].token, ids |-> view.doc.ids, segs |-> view.doc.segs, hash |-> Body(view.doc)]
      BY <1>3, <2>3, <3>1
    <3>3. Dated(T, fresh, v, view.doc.token, view.doc) BY <1>7, <3>1 DEF Shows, GoodDoc
    <3>4. view.doc.ids = meta[v].ids
      <4>1. Row(view.doc) = Row(meta[v]) => view.doc.ids = meta[v].ids BY DEF Row
      <4> QED BY <1>1, <2>1, <3>1, <3>3, <4>1 DEF Current, Dated
    <3>5. meta'[v].token = meta[v].token /\ meta'[v].ids = view.doc.ids /\ meta'[v].segs = view.doc.segs BY <3>2
    <3> QED BY <2>1, <3>3, <3>4, <3>5 DEF Dated, Uses
  <2> QED BY <2>2, <2>3
<1>10. Stored(L, K, T)' BY <1>1, <1>6, <1>9 DEF Account, Stored
<1>11. Account(L, K, T)' BY <1>1, <1>6, <1>8, <1>10 DEF Account
<1>12. DOMAIN meta' = DOMAIN meta BY <1>3
<1> QED BY <1>1, <1>5, <1>11, <1>12 DEF TagInv

LEMMA ChangesAsked ==
    ASSUME NEW lib, NEW doc, NEW acts, NEW c \in Changes(lib, doc, acts)
    PROVE  Asked(c) /\ \A l : Asked(AsAsked(c, l))
<1> DEFINE Made1 == UNION {{[Ask(act) EXCEPT !.path = p, !.seg = 1] : p \in Paths} : act \in {"create", "add"}}
           Given == {[Ask("assign") EXCEPT !.tag = t, !.seg = 1] : t \in DOMAIN lib \ doc.segs[1]}
           Taken == {[Ask("unassign") EXCEPT !.tag = t, !.seg = 1] : t \in doc.segs[1]}
           Left == {[Ask("drop") EXCEPT !.tag = t] : t \in doc.ids}
           Deleted == {[Ask("delete") EXCEPT !.tag = t] : t \in doc.ids}
           Shared == UNION {{[Ask("share") EXCEPT !.tag = t, !.path = p, !.merge = Named(lib, Last(p)) # {}] :
                                p \in Paths} : t \in doc.ids}
<1>1. \A x \in Made1 : Asked(x)
  <2> TAKE x \in Made1
  <2>1. PICK act \in {"create", "add"} : x \in {[Ask(act) EXCEPT !.path = p, !.seg = 1] : p \in Paths}
    OBVIOUS
  <2>2. PICK p \in Paths : x = [Ask(act) EXCEPT !.path = p, !.seg = 1] BY <2>1
  <2>3. x.path = p BY <2>2 DEF Ask
  <2> QED BY <2>3 DEF Asked
<1>2. \A x \in Given \cup Taken \cup Left \cup Deleted : x.act \notin {"create", "add"} BY DEF Ask
<1>3. \A x \in Shared : x.act \notin {"create", "add"}
  <2> TAKE x \in Shared
  <2>1. PICK t \in doc.ids : x \in {[Ask("share") EXCEPT !.tag = t, !.path = p, !.merge = Named(lib, Last(p)) # {}] :
                                      p \in Paths}
    OBVIOUS
  <2>2. PICK p \in Paths : x = [Ask("share") EXCEPT !.tag = t, !.path = p, !.merge = Named(lib, Last(p)) # {}]
    BY <2>1
  <2> QED BY <2>2 DEF Ask
<1>4. c \in Made1 \cup (Given \cup Taken \cup Left \cup Deleted) \cup Shared BY Zenon DEF Changes
<1> HIDE DEF Made1, Given, Taken, Left, Deleted, Shared
<1>5. Asked(c) BY <1>1, <1>2, <1>3, <1>4 DEF Asked
<1>6. \A l : AsAsked(c, l) = c \/ AsAsked(c, l).act = "become"
  <2> TAKE l
  <2>1. CASE c.act = "delete"
    <3> DEFINE rest == Without(l, Branch(l, c.tag))
    <3>1. AsAsked(c, l) = [[c EXCEPT !.act = "become"] EXCEPT !.lib = rest] BY <2>1 DEF AsAsked
    <3>2. c \in Deleted \/ "act" \in DOMAIN c
      <4>1. \A x \in Made1 \cup (Given \cup Taken \cup Left \cup Deleted) \cup Shared : "act" \in DOMAIN x
        <5>1. \A x \in Given \cup Taken \cup Left \cup Deleted : "act" \in DOMAIN x
          BY DEF Ask, Given, Taken, Left, Deleted
        <5>2. \A x \in Made1 : "act" \in DOMAIN x
          <6> TAKE x \in Made1
          <6>1. PICK act \in {"create", "add"}, p \in Paths : x = [Ask(act) EXCEPT !.path = p, !.seg = 1]
            BY DEF Made1
          <6> QED BY <6>1 DEF Ask
        <5>3. \A x \in Shared : "act" \in DOMAIN x
          <6> TAKE x \in Shared
          <6>1. PICK t \in doc.ids, p \in Paths :
                   x = [Ask("share") EXCEPT !.tag = t, !.path = p, !.merge = Named(lib, Last(p)) # {}]
            BY DEF Shared
          <6> QED BY <6>1 DEF Ask
        <5> QED BY <5>1, <5>2, <5>3
      <4> QED BY <1>4, <4>1
    <3>3. c \in Deleted => "act" \in DOMAIN c BY DEF Deleted, Ask
    <3> HIDE DEF rest
    <3> QED BY <3>1, <3>2, <3>3
  <2>2. CASE c.act # "delete" BY <2>2 DEF AsAsked
  <2> QED BY <2>1, <2>2
<1> QED BY <1>5, <1>6 DEF Asked

LEMMA CommandTags ==
    ASSUME IInv, TagInv, Command
    PROVE  TagInv'
<1>1. view # None /\ UNCHANGED <<index, meta, view, task, fresh>> BY DEF Command, MayEdit, disk, tasks
<1>2. op'.pc = "asked" /\ Asked(op'.c)
  <2>1. PICK c \in Changes(snap[view.win].lib, view.doc, Acts) :
           op' = [pc |-> "asked", c |-> AsAsked(c, snap[view.win].lib)]
    BY DEF Command
  <2>2. op'.pc = "asked" /\ op'.c = AsAsked(c, snap[view.win].lib) BY <2>1
  <2> QED BY <2>2, ChangesAsked
<1>3. AskInv' /\ fresh' \in Nat /\ fresh <= fresh' BY <1>1, <1>2 DEF TagInv, AskInv, Asked
<1> QED BY <1>1, <1>2, <1>3, KeepsAccount DEF Account

LEMMA UndoTagsTags ==
    ASSUME IInv, TagInv, UndoTags
    PROVE  TagInv'
<1>1. view # None /\ UNCHANGED <<index, meta, view, task, fresh>> BY DEF UndoTags, MayEdit, disk, tasks
<1>2. Showing(view) BY <1>1 DEF IInv, ViewInv
<1>3. PICK redo \in BOOLEAN :
         /\ IF redo THEN CanRedo ELSE CanUndo
         /\ op' = [pc |-> "restore", redo |-> redo, rev |-> snap[view.win].rev,
                   receipt |-> Last(IF redo THEN view.tfuture ELSE view.tpast).receipt]
  BY DEF UndoTags
<1>4. /\ (IF redo THEN view.tfuture ELSE view.tpast) # <<>>
      /\ (IF redo THEN view.future ELSE view.past) # <<>>
  BY <1>3 DEF CanRedo, CanUndo
<1>5. /\ op'.pc = "restore" /\ op'.redo = redo
      /\ op'.receipt = Last(IF redo THEN view.tfuture ELSE view.tpast).receipt
  BY <1>3
<1>6. AskInv' /\ fresh' \in Nat /\ fresh <= fresh' BY <1>1, <1>4, <1>5 DEF TagInv, AskInv, Asked
<1>7. ASSUME NEW L, NEW K, NEW T, Account(L, K, T)
      PROVE  Shows(L, K, T, fresh, view') /\ TrueReceipt(L, K, T, fresh, op'.receipt)
  <2>1. Shows(L, K, T, fresh, view) BY <1>1, <1>7 DEF Account
  <2>2. Receipts(L, K, T, fresh, view.tpast) /\ Receipts(L, K, T, fresh, view.tfuture) BY <2>1 DEF Shows
  <2>3. view.tpast \in Seq(Range(view.tpast)) /\ view.tfuture \in Seq(Range(view.tfuture))
    BY <1>2 DEF Showing, History
  <2>4. CASE redo BY <1>4, <1>5, <2>2, <2>3, <2>4, ReceiptsFacts, <1>1, <2>1
  <2>5. CASE ~ redo BY <1>4, <1>5, <2>2, <2>3, <2>5, ReceiptsFacts, <1>1, <2>1
  <2> QED BY <2>4, <2>5
<1> QED BY <1>1, <1>6, <1>7, KeepsAccount

LEMMA BeginTags ==
    ASSUME IInv, TagInv, Begin
    PROVE  TagInv'
<1>1. op.pc = "asked" /\ UNCHANGED <<index, meta, view, task, fresh>> BY DEF Begin, disk, tasks
<1>2. op' = Idle \/ (op'.pc = "locked" /\ op'.c = op.c) BY DEF Begin
<1>3. AskInv' /\ fresh' \in Nat /\ fresh <= fresh' BY <1>1, <1>2 DEF TagInv, AskInv, Asked, Idle
<1>4. op'.pc # "restore" /\ \A L, K, T : Account(L, K, T) => Shows(L, K, T, fresh, view')
  BY <1>1, <1>2 DEF Account, Idle
<1> QED BY <1>1, <1>3, <1>4, KeepsAccount

\* After a transaction the account goes on with what it has written.
LEMMA CommitTags ==
    ASSUME IInv, TagInv, NEW w, NEW rev, NEW v \in DOMAIN meta, NEW c, c.act \in ActNames, Asked(c), NEW t,
           NEW done, done = Transacted(w, rev, v, c, t), done # None, Commit(done), AskInv',
           NEW key, \/ view' = view
                    \/ /\ done.changed /\ (view # None \/ op.pc # "idle")
                       /\ view' = Published(done.receipt, key),
           op' = Idle \/ UNCHANGED op
    PROVE  TagInv'
<1>1. PICK L, K, T : Account(L, K, T) BY DEF TagInv
<1>2. fresh \in Nat /\ Originals \subseteq DOMAIN meta /\ TypeInv BY DEF TagInv, IInv
<1>3. PICK A, B, C :
         /\ Chronicle(A, B, C, fresh + 5) /\ Continues(L, K, T, fresh, A, B, C)
         /\ done.index.head \in 0 .. (fresh + 4) /\ done.index.lib = A[done.index.head]
         /\ \A x \in Originals : LET now == Patched(done.receipt.versions, 2)[x] IN
               now.token = B[done.index.head][x] /\ Dated(C, fresh + 5, x, now.token, now)
         /\ done.changed => TrueReceipt(A, B, C, fresh + 5, done.receipt)
  BY <1>1, <1>2, TransactedTrue DEF Account
<1>4. index' = done.index /\ meta' = Patched(done.receipt.versions, 2) /\ fresh' = fresh + 5 BY DEF Commit
<1>5. DOMAIN meta' = DOMAIN meta BY <1>4 DEF Patched
<1>6. /\ fresh' \in Nat
      /\ \A r : TrueReceipt(L, K, T, fresh, r) => TrueReceipt(A, B, C, fresh', r)
      /\ \A x : Shows(L, K, T, fresh, x) => Shows(A, B, C, fresh', x)
  <2>1. fresh + 5 \in Nat /\ fresh <= fresh + 5 BY <1>2
  <2> QED BY <1>2, <1>3, <1>4, <2>1, ContinuesFacts
<1>7. Stored(A, B, C)'
  <2>1. index'.head \in 0 .. (fresh' - 1) BY <1>2, <1>3, <1>4
  <2>2. \A x \in Originals : meta'[x].token = B[index'.head][x] /\ Dated(C, fresh', x, meta'[x].token, meta'[x])
    BY <1>3, <1>4
  <2> QED BY <1>3, <1>4, <2>1, <2>2 DEF Stored
<1>8. view' # None \/ op'.pc # "idle" => Shows(A, B, C, fresh', view')
  <2>1. CASE view' = view
    <3>1. view' # None \/ op'.pc # "idle" => view # None \/ op.pc # "idle" BY <2>1 DEF Idle
    <3> QED BY <1>1, <1>6, <2>1, <3>1 DEF Account
  <2>2. CASE done.changed /\ (view # None \/ op.pc # "idle") /\ view' = Published(done.receipt, key)
    <3>1. Showing(view) /\ Shows(A, B, C, fresh', view) BY <1>1, <1>6, <2>2 DEF IInv, ViewInv, Account
    <3>2. TrueReceipt(A, B, C, fresh', done.receipt) BY <1>3, <1>4, <2>2
    <3> HIDE DEF Commit
    <3>3. Shows(A, B, C, fresh', Published(done.receipt, key)) BY <3>1, <3>2, PublishedShows
    <3> QED BY <2>2, <3>3
  <2> QED BY <2>1, <2>2
<1>9. op'.pc = "restore" => TrueReceipt(A, B, C, fresh', op'.receipt)
  BY <1>1, <1>6 DEF Account, Idle
<1>10. Account(A, B, C)' BY <1>3, <1>4, <1>7, <1>8, <1>9 DEF Account
<1> QED BY <1>2, <1>5, <1>6, <1>10 DEF TagInv

LEMMA TransactTags ==
    ASSUME IInv, TagInv, Transact
    PROVE  TagInv'
<1>1. op.pc = "locked" /\ op' = Idle /\ UNCHANGED task BY DEF Transact, tasks
<1>2. Showing(view) /\ op.c.act \in ActNames /\ Asked(op.c)
  BY <1>1 DEF IInv, ViewInv, OpInv, TagInv, AskInv
<1>3. AskInv' BY <1>1 DEF TagInv, AskInv, Idle
<1>4. CASE UNCHANGED <<index, meta, snap, view, fresh>>
  <2>1. fresh' \in Nat /\ fresh <= fresh' BY <1>4 DEF TagInv
  <2>2. op'.pc = "idle" BY <1>1 DEF Idle
  <2> QED BY <1>1, <1>3, <1>4, <2>1, <2>2, KeepsAccount DEF Account
<1>5. CASE ~ UNCHANGED <<index, meta, snap, view, fresh>>
  <2>1. PICK done : /\ done = Transacted(view.win, op.rev, view.v, op.c, None) /\ done # None /\ done.changed
                    /\ Commit(done) /\ view' = Published(done.receipt, done.index.rev)
    BY <1>5 DEF Transact
  <2>2. view.v \in DOMAIN meta BY <1>2 DEF Showing
  <2> QED BY <1>1, <1>2, <1>3, <2>1, <2>2, CommitTags
<1> QED BY <1>4, <1>5

\* Undo and redo go to the other state of their receipt.
LEMMA RestoreTagged ==
    ASSUME IInv, TagInv, RestoreTags
    PROVE  TagInv'
<1> DEFINE to == IF op.redo THEN 2 ELSE 1
           x == IF op.redo THEN Redone(view) ELSE Undone(view)
<1>1. op.pc = "restore" /\ op' = Idle /\ UNCHANGED <<body, task, fresh>> BY DEF RestoreTags, tasks
<1>2. Showing(view) BY <1>1 DEF IInv, ViewInv
<1>3. AskInv' BY <1>1 DEF TagInv, AskInv, Idle
<1>4. op'.pc = "idle" /\ fresh' \in Nat /\ fresh <= fresh' BY <1>1 DEF Idle, TagInv
<1>5. CASE UNCHANGED <<index, meta, snap, view>>
  BY <1>1, <1>3, <1>4, <1>5, KeepsAccount DEF Account
<1>6. CASE ~ UNCHANGED <<index, meta, snap, view>>
  <2>1. /\ Restorable(view.win, op.rev, op.receipt, 3 - to)
        /\ index' = Restored(op.receipt, to) /\ meta' = Patched(op.receipt.versions, to)
        /\ view' = [x EXCEPT !.kept = x.doc,
               !.tpast = IF op.redo THEN Append(@, Last(view.tfuture)) ELSE Front(@),
               !.tfuture = IF op.redo THEN Front(@) ELSE Append(@, Last(view.tpast))]
    BY <1>6 DEF RestoreTags
  <2>2. PICK L, K, T : Account(L, K, T) BY DEF TagInv
  <2>3. TrueReceipt(L, K, T, fresh, op.receipt) /\ Shows(L, K, T, fresh, view) BY <1>1, <2>2 DEF Account
  <2>4. /\ (IF op.redo THEN view.tfuture ELSE view.tpast) # <<>>
        /\ (IF op.redo THEN view.future ELSE view.past) # <<>>
    BY <1>1, <2>1 DEF Restorable, IInv, OpInv, TagInv, AskInv
  <2>5. SameHistories(view, x) /\ Shows(L, K, T, fresh, x)
    BY <1>2, <2>3, <2>4, UndoneShows DEF Showing
  <2>6. (to = 1 /\ 3 - to = 2) \/ (to = 2 /\ 3 - to = 1) OBVIOUS
  <2> HIDE DEF to, x
  <2>7. /\ view'.v = x.v /\ view'.doc = x.doc /\ view'.past = x.past /\ view'.future = x.future
        /\ view'.tpast = (IF op.redo THEN Append(view.tpast, Last(view.tfuture)) ELSE Front(view.tpast))
        /\ view'.tfuture = (IF op.redo THEN Front(view.tfuture) ELSE Append(view.tfuture, Last(view.tpast)))
    BY <2>1, <2>5 DEF SameHistories, ViewFields
  <2>8. Receipts(L, K, T, fresh, view'.tpast) /\ Receipts(L, K, T, fresh, view'.tfuture)
    <3>1. Receipts(L, K, T, fresh, view.tpast) /\ Receipts(L, K, T, fresh, view.tfuture) BY <2>3 DEF Shows
    <3>2. view.tpast \in Seq(Range(view.tpast)) /\ view.tfuture \in Seq(Range(view.tfuture))
      BY <1>2 DEF Showing, History
    <3>3. CASE op.redo
      <4>1. /\ TrueReceipt(L, K, T, fresh, Last(view.tfuture).receipt)
            /\ Receipts(L, K, T, fresh, Front(view.tfuture))
        BY <2>4, <3>1, <3>2, <3>3, ReceiptsFacts
      <4>2. Receipts(L, K, T, fresh, Append(view.tpast, Last(view.tfuture)))
        BY <3>1, <3>2, <4>1, ReceiptsFacts
      <4> QED BY <2>7, <3>3, <4>1, <4>2
    <3>4. CASE ~ op.redo
      <4>1. /\ TrueReceipt(L, K, T, fresh, Last(view.tpast).receipt)
            /\ Receipts(L, K, T, fresh, Front(view.tpast))
        BY <2>4, <3>1, <3>2, <3>4, ReceiptsFacts
      <4>2. Receipts(L, K, T, fresh, Append(view.tfuture, Last(view.tpast)))
        BY <3>1, <3>2, <4>1, ReceiptsFacts
      <4> QED BY <2>7, <3>4, <4>1, <4>2
    <3> QED BY <3>3, <3>4
  <2>9. Shows(L, K, T, fresh, view') BY <2>5, <2>7, <2>8 DEF Shows
  <2>10. /\ op.receipt.heads[to] \in 0 .. (fresh - 1) /\ L[op.receipt.heads[to]] = op.receipt.libs[to]
         /\ index.head = op.receipt.heads[3 - to]
    BY <2>1, <2>3, <2>6 DEF TrueReceipt, Restorable, AtHead
  <2>11. index'.head = op.receipt.heads[to] /\ index'.lib = op.receipt.libs[to]
    BY <2>1 DEF Restored, IInv, TypeInv, Known, IndexFields
  <2>12. \A v \in Originals : /\ meta'[v].token = K[index'.head][v]
                              /\ Dated(T, fresh, v, meta'[v].token, meta'[v])
    <3> TAKE v \in Originals
    <3>1. v \in DOMAIN meta BY DEF TagInv
    <3>2. CASE v \notin DOMAIN op.receipt.versions
      <4>1. meta'[v] = meta[v] BY <2>1, <3>1, <3>2 DEF Patched
      <4>2. K[op.receipt.heads[to]][v] = K[op.receipt.heads[3 - to]][v]
        BY <2>3, <2>6, <3>2 DEF TrueReceipt
      <4>3. meta[v].token = K[index.head][v] /\ Dated(T, fresh, v, meta[v].token, meta[v])
        BY <2>2 DEF Account, Stored
      <4> QED BY <2>10, <2>11, <4>1, <4>2, <4>3
    <3>3. CASE v \in DOMAIN op.receipt.versions
      <4> DEFINE field == op.receipt.versions[v][to]
      <4>1. field.token = K[op.receipt.heads[to]][v] /\ Dated(T, fresh, v, field.token, field.row)
        BY <2>3, <2>6, <3>3 DEF TrueReceipt
      <4>2. meta'[v].token = field.token /\ meta'[v].ids = field.row.ids /\ meta'[v].segs = field.row.segs
        BY <2>1, <3>1, <3>3 DEF Patched
      <4> HIDE DEF field
      <4> QED BY <2>11, <4>1, <4>2 DEF Dated, Uses
    <3> QED BY <3>2, <3>3
  <2>13. Stored(L, K, T)' BY <1>1, <2>10, <2>11, <2>12 DEF Stored
  <2>14. Account(L, K, T)' BY <1>1, <1>4, <2>2, <2>9, <2>13 DEF Account
  <2>15. Originals \subseteq DOMAIN meta' BY <2>1 DEF Patched, TagInv
  <2> QED BY <1>3, <1>4, <2>14, <2>15 DEF TagInv
<1> QED BY <1>5, <1>6

-----------------------------------------------------------------------------
(* Tasks, windows and copies.                                                *)
LEMMA TaskTags ==
    ASSUME TagInv, UNCHANGED <<index, meta, view, op, fresh>>,
           \A t \in Tasks : task'[t].pc \in {"draft", "applying"} => Asked(task'[t].c)
    PROVE  TagInv'
<1>1. AskInv' /\ fresh' \in Nat /\ fresh <= fresh' BY DEF TagInv, AskInv, Asked
<1> QED BY <1>1, KeepsAccount DEF Account

LEMMA PrepareTags ==
    ASSUME IInv, TagInv, NEW t \in Tasks, NEW w \in Windows, NEW v \in DOMAIN meta, Prepare(t, w, v)
    PROVE  TagInv'
<1>1. UNCHANGED <<index, meta, view, op, fresh>> BY DEF Prepare, disk
<1>2. PICK c \in Changes(index.lib, meta[v], TaskActs) :
         task' = [task EXCEPT ![t] = [pc |-> "draft", win |-> w, v |-> v, c |-> c, print |-> Signature(v),
                                      rev |-> 0, ended |-> FALSE]]
  BY DEF Prepare
<1>3. Asked(c) BY ChangesAsked
<1>4. task'[t].c = c /\ \A u \in Tasks : u # t => task'[u] = task[u] BY <1>2 DEF IInv, TaskInv
<1>5. \A u \in Tasks : task'[u].pc \in {"draft", "applying"} => Asked(task'[u].c)
  BY <1>3, <1>4 DEF TagInv, AskInv
<1> QED BY <1>1, <1>5, TaskTags

LEMMA ApplyTaskTags ==
    ASSUME IInv, TagInv, NEW t \in Tasks, ApplyTask(t)
    PROVE  TagInv'
<1>1. task[t].pc = "draft" /\ UNCHANGED <<index, meta, view, op, fresh>> BY DEF ApplyTask, disk
<1>2. \/ task' = [task EXCEPT ![t].pc = "applying", ![t].rev = index.rev]
      \/ task' = [task EXCEPT ![t].pc = "failed"]
  BY DEF ApplyTask, Fails
<1>3. task'[t].c = task[t].c /\ \A u \in Tasks : u # t => task'[u] = task[u]
  BY <1>1, <1>2 DEF IInv, TaskInv
<1>4. \A u \in Tasks : task'[u].pc \in {"draft", "applying"} => Asked(task'[u].c)
  BY <1>1, <1>3 DEF TagInv, AskInv
<1> QED BY <1>1, <1>4, TaskTags

LEMMA CancelTags ==
    ASSUME IInv, TagInv, NEW t \in Tasks, Cancel(t)
    PROVE  TagInv'
<1>1. UNCHANGED <<index, meta, view, op, fresh>> BY DEF Cancel, disk
<1>2. task' = [task EXCEPT ![t] = IF @.pc = "applying" THEN [@ EXCEPT !.ended = TRUE] ELSE [pc |-> "cancelled"]]
  BY DEF Cancel
<1>3. \A u \in Tasks : u # t => task'[u] = task[u] BY <1>2 DEF IInv, TaskInv
<1>4. \/ task[t].pc = "applying" /\ task'[t].c = task[t].c
      \/ task'[t].pc = "cancelled"
  BY <1>2 DEF IInv, TaskInv
<1>5. \A u \in Tasks : task'[u].pc \in {"draft", "applying"} => Asked(task'[u].c)
  BY <1>3, <1>4 DEF TagInv, AskInv
<1> QED BY <1>1, <1>5, TaskTags

LEMMA CommitTaskTags ==
    ASSUME IInv, TagInv, NEW t \in Tasks, CommitTask(t)
    PROVE  TagInv'
<1>1. task[t].pc = "applying" /\ UNCHANGED op BY DEF CommitTask
<1>2. task[t].c.act \in ActNames /\ task[t].v \in DOMAIN meta /\ Asked(task[t].c)
  BY <1>1 DEF IInv, TaskInv, TagInv, AskInv
<1>3. CASE Fails(t) /\ UNCHANGED <<index, meta, snap, view, fresh>>
  <2>1. task'[t].pc = "failed" /\ \A u \in Tasks : u # t => task'[u] = task[u]
    BY <1>1, <1>3 DEF Fails, IInv, TaskInv
  <2>2. \A u \in Tasks : task'[u].pc \in {"draft", "applying"} => Asked(task'[u].c)
    BY <2>1 DEF TagInv, AskInv
  <2> QED BY <1>1, <1>3, <2>2, TaskTags
<1>4. ASSUME NEW done, done = Transacted(task[t].win, task[t].rev, task[t].v, task[t].c, t), done # None,
             Commit(done), Shown(t, done), task' = [task EXCEPT ![t] = [pc |-> "completed"]]
      PROVE  TagInv'
  <2>1. t # None /\ TypeInv BY NoneAssumption DEF IInv
  <2>2. WritesWell(done, t) BY <1>2, <1>4, <2>1, TransactedFacts
  <2>3. index'.rev = index.rev + 1 BY <1>4, <2>1, <2>2 DEF WritesWell, Commit
  <2>4. op.pc = "restore" => op.rev # index'.rev BY <2>3 DEF IInv, OpInv, TypeInv, Known
  <2>5. \A u \in Tasks : task'[u].pc \in {"draft", "applying"} => Asked(task'[u].c)
    <3>1. task'[t].pc = "completed" /\ \A u \in Tasks : u # t => task'[u] = task[u]
      BY <1>4 DEF IInv, TaskInv
    <3> QED BY <3>1 DEF TagInv, AskInv
  <2>6. AskInv' BY <1>1, <2>4, <2>5 DEF TagInv, AskInv, Asked
  <2>7. \/ view' = view
        \/ /\ done.changed /\ (view # None \/ op.pc # "idle")
           /\ view' = Published(done.receipt, done.index.rev)
    BY <1>4 DEF Shown, Reaches
  <2> QED BY <1>1, <1>2, <1>4, <2>6, <2>7, CommitTags
<1> QED BY <1>3, <1>4 DEF CommitTask

LEMMA WindowTags ==
    ASSUME IInv, TagInv, NEW w \in Windows, OtherSave(w) \/ Close(w) \/ Open(w)
    PROVE  TagInv'
<1>1. CASE OtherSave(w)
  <2>1. index' = [index EXCEPT !.rev = @ + 1] /\ UNCHANGED <<meta, view, op, task, fresh>>
    BY <1>1 DEF OtherSave, tasks
  <2>2. index'.head = index.head /\ index'.lib = index.lib /\ index'.rev = index.rev + 1
    BY <2>1 DEF IInv, TypeInv, Known, IndexFields
  <2>3. op.pc = "restore" => op.rev # index'.rev BY <2>2 DEF IInv, OpInv, TypeInv, Known
  <2>4. AskInv' BY <2>1, <2>3 DEF TagInv, AskInv, Asked
  <2>5. PICK L, K, T : Account(L, K, T) BY DEF TagInv
  <2>6. Account(L, K, T)' BY <2>1, <2>2, <2>5 DEF Account, Stored
  <2> QED BY <2>1, <2>4, <2>6 DEF TagInv
<1>2. CASE Close(w)
  <2>1. /\ UNCHANGED <<index, meta, fresh>>
        /\ (view' = None /\ op' = Idle) \/ UNCHANGED <<view, op>>
        /\ task' = [t \in Tasks |-> IF Blocks(t) /\ task[t].win = w THEN [pc |-> "gone"] ELSE task[t]]
    BY <1>2 DEF Close, disk
  <2>2. \A t \in Tasks : task'[t].pc \in {"draft", "applying"} => Asked(task'[t].c)
    <3>1. \A t \in Tasks : task'[t] = task[t] \/ task'[t].pc = "gone" BY <2>1
    <3> QED BY <3>1 DEF TagInv, AskInv
  <2>3. AskInv' BY <2>1, <2>2 DEF TagInv, AskInv, Asked, Idle
  <2>4. fresh' \in Nat /\ fresh <= fresh' BY <2>1 DEF TagInv
  <2> QED BY <2>1, <2>3, <2>4, KeepsAccount DEF Account, Idle
<1>3. CASE Open(w)
  <2>1. UNCHANGED <<index, meta, view, op, task, fresh>> BY <1>3 DEF Open, disk, tasks
  <2>2. \A t \in Tasks : task'[t].pc \in {"draft", "applying"} => Asked(task'[t].c)
    BY <2>1 DEF TagInv, AskInv
  <2> QED BY <2>1, <2>2, TaskTags
<1> QED BY <1>1, <1>2, <1>3

LEMMA ForkTags ==
    ASSUME IInv, TagInv, NEW v \in DOMAIN meta, Fork(v)
    PROVE  TagInv'
<1>1. /\ UNCHANGED <<index, view, op, task>> /\ fresh' = fresh + 1
      /\ meta' = [WithCopy(meta, v) EXCEPT ![3].token = fresh]
  BY DEF Fork, tasks
<1>2. Originals \subseteq DOMAIN meta' /\ \A x \in Originals : meta'[x] = meta[x]
  BY <1>1 DEF WithCopy, TagInv, Originals
<1>3. PICK L, K, T : Account(L, K, T) BY DEF TagInv
<1>4. fresh \in Nat /\ fresh' \in Nat /\ fresh <= fresh' BY <1>1 DEF TagInv
<1>5. Continues(L, K, T, fresh, L, K, T) /\ Chronicle(L, K, T, fresh')
  BY <1>3, <1>4, SameContinues DEF Account
<1>6. /\ \A x \in Originals : \A token, row : Dated(T, fresh, x, token, row) => Dated(T, fresh', x, token, row)
      /\ \A r : TrueReceipt(L, K, T, fresh, r) => TrueReceipt(L, K, T, fresh', r)
      /\ \A x : Shows(L, K, T, fresh, x) => Shows(L, K, T, fresh', x)
  BY <1>4, <1>5, ContinuesFacts
<1>7. index'.head \in 0 .. (fresh' - 1) BY <1>1, <1>3, <1>4 DEF Account, Stored
<1>8. Stored(L, K, T)' BY <1>1, <1>2, <1>3, <1>6, <1>7 DEF Account, Stored
<1>9. Account(L, K, T)' BY <1>1, <1>3, <1>5, <1>6, <1>8 DEF Account
<1>10. AskInv' BY <1>1 DEF TagInv, AskInv, Asked
<1> QED BY <1>2, <1>4, <1>9, <1>10 DEF TagInv

-----------------------------------------------------------------------------
(* The specification.                                                        *)
LEMMA InitTags == Init => TagInv
<1> SUFFICES ASSUME Init PROVE TagInv OBVIOUS
<1> DEFINE ids == <<{1, 2}, {3, 4}>>
           L == [h \in Nat |-> Tags0]
           K == [h \in Nat |-> [v \in Originals |-> 0]]
           T == [v \in Originals |-> [k \in Nat |-> ids[v]]]
<1>1. /\ index.head = 0 /\ index.lib = Tags0 /\ fresh = 5 /\ view = None /\ op.pc = "idle"
      /\ DOMAIN meta = {1, 2} /\ \A t \in Tasks : task[t].pc = "idle"
  BY DEF Init, Idle
<1>2. \A v \in Originals : meta[v].token = 0 /\ meta[v].ids = ids[v] /\ Uses(meta[v])
  <2>1. meta = <<Meta({1, 2}, <<{2}, {1}>>), Meta({3, 4}, <<{4}, {}>>)>> BY DEF Init
  <2>2. meta[1].token = 0 /\ meta[1].ids = {1, 2} /\ meta[1].segs = <<{2}, {1}>> BY <2>1 DEF Meta
  <2>3. meta[2].token = 0 /\ meta[2].ids = {3, 4} /\ meta[2].segs = <<{4}, {}>> BY <2>1 DEF Meta
  <2>4. Uses(meta[1]) BY <2>2 DEF Uses
  <2>5. Uses(meta[2]) BY <2>3 DEF Uses
  <2> QED BY <2>2, <2>3, <2>4, <2>5 DEF Originals
<1>3. \A v \in Originals : IsCollection(Tags0, ids[v])
  <2>1. /\ DOMAIN Tags0 = 1 .. 4
        /\ Tags0[1].name = "a" /\ Tags0[2].name = "b" /\ Tags0[3].name = "c" /\ Tags0[4].name = "b"
        /\ Tags0[1].parent = Root /\ Tags0[2].parent = 1 /\ Tags0[3].parent = Root /\ Tags0[4].parent = 3
    BY DEF Tags0, Tag
  <2>2. IsCollection(Tags0, {1, 2}) BY <2>1 DEF IsCollection
  <2>3. IsCollection(Tags0, {3, 4}) BY <2>1 DEF IsCollection
  <2> QED BY <2>2, <2>3 DEF Originals
<1> HIDE DEF ids
<1>4. /\ DOMAIN L = Nat /\ DOMAIN K = Nat /\ DOMAIN T = Originals /\ \A v \in Originals : DOMAIN T[v] = Nat
      /\ \A h \in Nat : L[h] = Tags0 /\ \A v \in Originals : K[h][v] = 0 /\ T[v][0] = ids[v]
  OBVIOUS
<1> HIDE DEF L, K, T
<1>5. Chronicle(L, K, T, fresh) BY <1>1, <1>3, <1>4 DEF Chronicle
<1>6. Stored(L, K, T) BY <1>1, <1>2, <1>4 DEF Stored, Dated
<1>7. Account(L, K, T) BY <1>1, <1>5, <1>6 DEF Account
<1>8. AskInv BY <1>1 DEF AskInv
<1> QED BY <1>1, <1>7, <1>8 DEF TagInv, Originals

LEMMA StepTags == IInv /\ TagInv /\ [Next]_vars => TagInv'
<1> SUFFICES ASSUME IInv, TagInv, [Next]_vars PROVE TagInv' OBVIOUS
<1>1. ASSUME NEW w \in Windows, OtherSave(w) \/ Close(w) \/ Open(w) PROVE TagInv' BY <1>1, WindowTags
<1>2. ASSUME NEW w \in Windows, NEW v \in DOMAIN meta, Enter(w, v) PROVE TagInv' BY <1>2, EnterTags
<1>3. ASSUME NEW stamped \in BOOLEAN, Save(stamped) PROVE TagInv' BY <1>3, SaveTags
<1>4. CASE Leave BY <1>4, LeaveTags
<1>5. CASE Edit BY <1>5, EditTags
<1>6. CASE Undo BY <1>6, UndoTagged
<1>7. CASE Command BY <1>7, CommandTags
<1>8. CASE UndoTags BY <1>8, UndoTagsTags
<1>9. CASE Begin BY <1>9, BeginTags
<1>10. CASE Transact BY <1>10, TransactTags
<1>11. CASE RestoreTags BY <1>11, RestoreTagged
<1>12. ASSUME NEW t \in Tasks, ApplyTask(t) \/ CommitTask(t) \/ Cancel(t) PROVE TagInv'
  BY <1>12, ApplyTaskTags, CommitTaskTags, CancelTags
<1>13. ASSUME NEW t \in Tasks, NEW w \in Windows, NEW v \in DOMAIN meta, Prepare(t, w, v) PROVE TagInv'
  BY <1>13, PrepareTags
<1>14. ASSUME NEW v \in DOMAIN meta, Fork(v) PROVE TagInv' BY <1>14, ForkTags
<1>15. CASE UNCHANGED vars
  <2>1. UNCHANGED <<index, meta, view, op, task, fresh>> BY <1>15 DEF vars, disk, tasks
  <2>2. \A t \in Tasks : task'[t].pc \in {"draft", "applying"} => Asked(task'[t].c)
    BY <2>1 DEF TagInv, AskInv
  <2> QED BY <2>1, <2>2, TaskTags
<1> QED BY <1>1, <1>2, <1>3, <1>4, <1>5, <1>6, <1>7, <1>8, <1>9, <1>10, <1>11, <1>12, <1>13, <1>14, <1>15 DEF Next

\* The versions that the project starts with, the sources of copies included,
\* refer to no tag that the project has not, by whatever order of commands, undo,
\* redo, saves, tasks and copies (validateTagCollection() of tagCollections.ts,
\* restoreProjectTagTransaction() of projectTagRepository.ts).  A copy can: that
\* is what Defined excuses.
THEOREM TagsDefined == Spec => []OwnTags
<1>1. ASSUME IInv, TagInv PROVE OwnTags
  <2>1. PICK L, K, T : Account(L, K, T) BY <1>1 DEF TagInv
  <2>2. \A v \in Originals : HasItsTags(v)
    <3> TAKE v \in Originals
    <3>1. meta[v].token = K[index.head][v] /\ Dated(T, fresh, v, meta[v].token, meta[v])
      BY <2>1 DEF Account, Stored
    <3>2. fresh \in Nat /\ index.head \in Nat /\ index.lib = L[index.head]
      BY <1>1, <2>1 DEF TagInv, Account, Stored
    <3>3. IsCollection(L[index.head], T[v][K[index.head][v]]) BY <2>1, <3>2 DEF Account, Chronicle
    <3> QED BY <3>1, <3>2, <3>3 DEF HasItsTags, Dated, Uses
  <2> QED BY <2>2 DEF OwnTags, Originals
<1>2. Init => TagInv BY InitTags
<1>3. IInv /\ TagInv /\ [Next]_vars => TagInv' BY StepTags
<1>4. Spec => []TagInv BY <1>2, <1>3, Invariance, PTL DEF Spec
<1> QED BY <1>1, <1>4, Invariance, PTL
=============================================================================
