--------------------------- MODULE AutosaveProofs ---------------------------
(* Machine-checked facts about Autosave, for any documents and any number of *)
(* edits, saves, navigations and failures, under two conditions on what the  *)
(* user and the disk do (README): no undo while a write is under way, and no *)
(* write that takes effect and fails.  Until the user edits between the      *)
(* flush of a load and its start (slipped), what is on the screen is then    *)
(* the newest content of its document, and every other document is on disk.  *)
EXTENDS Autosave, SequenceTheorems, TLAPS

\* What these facts are about: the user and the disk do neither of two things.
Careful == LateFaults = FALSE /\ UndoWhileSaving = FALSE

Contents == [doc : Docs, rev : Nat]
Items == [task : Contents, held : BOOLEAN, by : SUBSET Callers]
NavPcs == {"idle", "wait", "check", "passed", "read", "publish", "refresh"}
SavePcs == {"idle", "wait", "check", "passed"}
FlowFields == {"pc", "kind", "doc", "task"}
Dated(c) == c = None \/ c.rev <= edits

TypeInv ==
    /\ disk \in [Docs -> Nat] /\ newest \in [Docs -> Nat] /\ edits \in Nat
    /\ ui \in Contents /\ written \in Contents
    /\ base \in Contents \cup {None} /\ pending \in Contents \cup {None} /\ published \in Contents \cup {None}
    /\ past \subseteq Nat /\ queue \in Seq(Items)
    /\ writing \in BOOLEAN /\ loading \in BOOLEAN /\ timer \in BOOLEAN
    /\ DOMAIN nav = FlowFields /\ DOMAIN save = FlowFields
    /\ nav.pc \in NavPcs /\ nav.doc \in Docs /\ nav.kind \in {"load", "switch"} /\ save.pc \in SavePcs
    /\ nav.task \in Contents \cup {None} /\ save.task \in Contents \cup {None}

\* No content is from the future: an edit makes a revision that is nowhere.
DateInv ==
    /\ Dated(ui) /\ Dated(written) /\ Dated(base) /\ Dated(pending) /\ Dated(published)
    /\ Dated(nav.task) /\ Dated(save.task)
    /\ \A i \in DOMAIN queue : Dated(queue[i].task)
    /\ \A d \in Docs : disk[d] <= edits
    /\ \A rev \in past : rev <= edits

\* The chain of writes is about the document on the screen.  Where it holds the
\* content on the screen, nothing else comes after; where it holds what is
\* pending, its last entry releases that.
ChainInv ==
    /\ disk[written.doc] = written.rev
    /\ writing => queue # <<>> /\ queue[1].task # written
    /\ \A i \in DOMAIN queue : queue[i].task.doc = ui.doc
    /\ written = ui => \A i \in DOMAIN queue : queue[i].task = ui
    /\ \A i, j \in DOMAIN queue : i < j /\ queue[i].task = ui => queue[j].task = ui
    /\ \A i \in DOMAIN queue : queue[i].held => queue[i].task = ui
PendingInv ==
    /\ pending # None => pending = ui
    /\ pending # None /\ (pending = written \/ \E i \in DOMAIN queue : queue[i].task = pending)
           => queue # <<>> /\ queue[Len(queue)].held
    /\ timer => pending # None /\ \A i \in DOMAIN queue : ~queue[i].held
    /\ loading \/ base # None => queue = <<>> /\ pending = None
    /\ base # None => disk[base.doc] = base.rev

\* A caller waits for one entry, with the content it asked to be saved.
Waits(f, caller) ==
    /\ \A i \in DOMAIN queue : caller \in queue[i].by => f.pc = "wait" /\ queue[i].task = f.task
    /\ \A i, j \in DOMAIN queue : caller \in queue[i].by /\ caller \in queue[j].by => i = j
    /\ f.pc \in {"wait", "check"} => f.task # None
    /\ f.pc = "check" => written = f.task /\ base = None /\ ~loading

\* While the document on the screen is about to be replaced it is on disk.
Leaving == nav.pc \in {"passed", "read", "publish"} \/ published # None
NavInv ==
    /\ loading <=> nav.kind = "load" /\ nav.pc \in {"read", "publish", "refresh"}
    /\ nav.pc \in {"wait", "check", "passed", "read", "publish"} => published = None /\ base = None
    /\ nav.pc \in {"wait", "check"} => nav.task # None /\ nav.task.doc = ui.doc
    /\ nav.pc \in {"read", "publish"} /\ nav.kind = "load" => status = "loading"
    /\ nav.pc = "publish" => nav.task # None /\ nav.task.rev = disk[nav.task.doc]
    /\ published # None => published.rev = disk[published.doc]
    /\ Leaving => written = ui /\ base = None

\* What is newest of a document is on the screen, or on disk.
NewestInv ==
    /\ newest[ui.doc] = ui.rev
    /\ \A d \in Docs : d # ui.doc => disk[d] = newest[d]
StatusInv ==
    status = "saved" /\ published = None =>
        disk[ui.doc] = ui.rev /\ \A i \in DOMAIN queue : queue[i].task = ui

IInv == /\ TypeInv /\ DateInv /\ ChainInv /\ PendingInv
        /\ Waits(save, "save") /\ Waits(nav, "nav") /\ NavInv /\ NewestInv /\ StatusInv

-----------------------------------------------------------------------------
(* The chain of writes.                                                      *)
LEMMA NoneFact == None \notin Contents
BY DocsAssumption DEF Contents

LEMMA QueueFacts ==
    ASSUME NEW q \in Seq(Items)
    PROVE  /\ DOMAIN q = 1 .. Len(q) /\ Len(q) \in Nat
           /\ q = <<>> => Len(q) = 0
           /\ q # <<>> => Len(q) \in Nat \ {0} /\ 1 \in DOMAIN q /\ Len(q) \in DOMAIN q /\ Head(q) = q[1]
           /\ \A i \in DOMAIN q : q[i] \in Items
BY LenProperties, EmptySeq

LEMMA ReleasedFacts ==
    ASSUME NEW q \in Seq(Items)
    PROVE  /\ Released(q) \in Seq(Items) /\ Len(Released(q)) = Len(q) /\ DOMAIN Released(q) = DOMAIN q
           /\ \A i \in DOMAIN q : /\ Released(q)[i].task = q[i].task /\ Released(q)[i].by = q[i].by
                                  /\ ~Released(q)[i].held
           /\ q = <<>> <=> Released(q) = <<>>
<1>1. /\ DOMAIN q = 1 .. Len(q) /\ Len(q) \in Nat /\ \A i \in DOMAIN q : q[i] \in Items
  BY QueueFacts
<1>2. \A i \in DOMAIN q : [q[i] EXCEPT !.held = FALSE] \in Items BY <1>1 DEF Items
<1>3. Released(q) \in [1 .. Len(q) -> Items] BY <1>1, <1>2 DEF Released
<1>4. Released(q) \in Seq(Items) BY <1>1, <1>3, SeqDef
<1>5. Len(Released(q)) = Len(q) BY <1>1, <1>3, <1>4, LenProperties
<1>6. \A i \in DOMAIN q : Released(q)[i] = [q[i] EXCEPT !.held = FALSE] BY DEF Released
<1>7. q = <<>> <=> Released(q) = <<>> BY <1>4, <1>5, QueueFacts
<1> QED BY <1>1, <1>3, <1>4, <1>5, <1>6, <1>7 DEF Items

LEMMA AppendFacts ==
    ASSUME NEW q \in Seq(Items), NEW e \in Items
    PROVE  /\ Append(q, e) \in Seq(Items) /\ Append(q, e) # <<>>
           /\ Len(Append(q, e)) = Len(q) + 1 /\ DOMAIN Append(q, e) = DOMAIN q \cup {Len(q) + 1}
           /\ Append(q, e)[Len(q) + 1] = e /\ Len(q) + 1 \notin DOMAIN q
           /\ \A i \in DOMAIN q : Append(q, e)[i] = q[i] /\ i < Len(q) + 1
<1>1. DOMAIN q = 1 .. Len(q) /\ Len(q) \in Nat BY QueueFacts
<1>2. Append(q, e) \in Seq(Items) /\ Append(q, e) # <<>> /\ Len(Append(q, e)) = Len(q) + 1 BY AppendProperties
<1>3. DOMAIN Append(q, e) = 1 .. (Len(q) + 1) BY <1>2, QueueFacts
<1> QED BY <1>1, <1>2, <1>3, AppendProperties

LEMMA TailFacts ==
    ASSUME NEW q \in Seq(Items), q # <<>>
    PROVE  /\ Tail(q) \in Seq(Items) /\ Len(Tail(q)) = Len(q) - 1
           /\ \A i \in DOMAIN Tail(q) : i + 1 \in DOMAIN q /\ i + 1 # 1 /\ Tail(q)[i] = q[i + 1]
           /\ Tail(q) # <<>> => Tail(q)[Len(Tail(q))] = q[Len(q)] /\ Len(q) # 1
           /\ Tail(q) = <<>> => Len(q) = 1
<1>1. DOMAIN q = 1 .. Len(q) /\ Len(q) \in Nat \ {0} BY QueueFacts
<1>2. Tail(q) \in Seq(Items) /\ Len(Tail(q)) = Len(q) - 1 /\ \A i \in 1 .. Len(Tail(q)) : Tail(q)[i] = q[i + 1]
  BY HeadTailProperties
<1>3. DOMAIN Tail(q) = 1 .. (Len(q) - 1) BY <1>2, QueueFacts
<1>4. Tail(q) # <<>> => Len(q) - 1 \in Nat \ {0}
  <2>1. Tail(q) # <<>> => Len(Tail(q)) \in Nat \ {0} BY <1>2, EmptySeq
  <2> QED BY <1>2, <2>1
<1>5. Tail(q) = <<>> => Len(q) = 1
  <2>1. Tail(q) = <<>> => Len(Tail(q)) = 0 BY EmptySeq
  <2> QED BY <1>1, <1>2, <2>1
<1> QED BY <1>1, <1>2, <1>3, <1>4, <1>5

\* The content that Effect schedules, and what it leaves of the chain.
LEMMA EffectFacts ==
    ASSUME TypeInv, PendingInv, NEW c \in Contents, NEW b, Effect(c, b),
           pending = None \/ (~loading /\ pending.doc = c.doc)
    PROVE  /\ written' = Baseline(c, b) /\ base' = Unadopted(b)
           /\ queue' = Released(queue)
           /\ pending' = (IF loading \/ c = written' THEN None ELSE c)
           /\ timer' = (pending' # None)
<1> DEFINE task == IF loading THEN None ELSE c
<1>1. /\ written' = Baseline(c, b) /\ base' = Unadopted(b)
      /\ queue' = Released(queue) \o Outstanding(task)
      /\ pending' = (IF task # None /\ ~Unchanged(task, written') THEN task ELSE None)
      /\ timer' = (pending' # None)
  BY DEF Effect
<1>2. Outstanding(task) = <<>> BY NoneFact DEF Outstanding, SameDocument, TypeInv
<1>3. queue' = Released(queue) BY <1>1, <1>2, ReleasedFacts, ConcatEmptySeq DEF TypeInv
<1> QED BY <1>1, <1>3, NoneFact DEF Unchanged

-----------------------------------------------------------------------------
(* What the user does.                                                       *)
\* An edit, and undo or redo: the content is new, or the chain is empty.
LEMMA ShowInv ==
    ASSUME IInv, ~ slipped', Awaiting, Editable, NEW rev \in Nat, Show(rev), edits' \in Nat,
           edits <= edits', rev <= edits', rev > edits \/ queue = <<>>,
           past' \subseteq Nat, \A r \in past' : r <= edits'
    PROVE  IInv'
<1>1. /\ nav.pc \in {"idle", "wait", "refresh"} /\ save.pc \in {"idle", "wait", "passed"}
      /\ published = None
  BY DEF Awaiting, Editable, Show, IInv, TypeInv, NavInv, NavPcs, SavePcs
<1>2. /\ ui' \in Contents /\ ui'.doc = ui.doc /\ ui'.rev = rev /\ ui.doc \in Docs
      /\ newest' = [newest EXCEPT ![ui.doc] = rev] /\ status' = "unsaved" /\ Effect(ui', base)
      /\ UNCHANGED <<disk, published, loading, writing, rejected, save, nav>>
  BY DEF Show, IInv, TypeInv, Contents
<1>3. /\ written' = Baseline(ui', base) /\ base' = Unadopted(base) /\ queue' = Released(queue)
      /\ pending' = (IF loading \/ ui' = written' THEN None ELSE ui')
      /\ timer' = (pending' # None)
  <2>1. TypeInv /\ PendingInv BY DEF IInv
  <2>2. pending = None \/ (~loading /\ pending.doc = ui'.doc) BY <1>2 DEF IInv, PendingInv
  <2> QED BY <1>2, <2>1, <2>2, EffectFacts
<1>4. /\ queue' \in Seq(Items) /\ Len(queue') = Len(queue) /\ DOMAIN queue' = DOMAIN queue
      /\ \A i \in DOMAIN queue : queue'[i].task = queue[i].task /\ queue'[i].by = queue[i].by /\ ~queue'[i].held
      /\ queue = <<>> <=> queue' = <<>>
  BY <1>3, ReleasedFacts DEF IInv, TypeInv
<1>5. queue # <<>> => 1 \in DOMAIN queue BY QueueFacts DEF IInv, TypeInv
<1>6. queue = <<>> => DOMAIN queue = {} BY QueueFacts DEF IInv, TypeInv
<1>7. /\ written' \in Contents /\ disk[written'.doc] = written'.rev
      /\ written' # written \/ written' = ui' => queue = <<>>
      /\ \A i \in DOMAIN queue : queue[i].task # ui'
      /\ Dated(written')
  <2>1. CASE ~loading /\ base # None /\ ui' = base
    <3>1. written' = ui' /\ queue = <<>> BY <1>3, <2>1 DEF Baseline, IInv, PendingInv
    <3> QED BY <1>2, <1>6, <2>1, <3>1 DEF IInv, PendingInv, DateInv
  <2>2. CASE ~ (~loading /\ base # None /\ ui' = base)
    <3>1. written' = written BY <1>3, <2>2 DEF Baseline
    <3>2. written.rev <= edits /\ \A i \in DOMAIN queue : queue[i].task.rev <= edits
      BY NoneFact, QueueFacts DEF IInv, TypeInv, DateInv, Dated, Items
    <3>3. ui'.rev > edits \/ queue = <<>> BY <1>2
    <3>4. written = ui' => queue = <<>>
      BY <3>2, <3>3 DEF IInv, TypeInv, Contents
    <3>5. \A i \in DOMAIN queue : queue[i].task # ui'
      <4>1. CASE queue = <<>> BY <1>6, <4>1
      <4>2. CASE ui'.rev > edits
        <5> TAKE i \in DOMAIN queue
        <5>1. queue[i].task.rev \in Nat BY QueueFacts DEF IInv, TypeInv, Items, Contents
        <5> QED BY <3>2, <4>2, <5>1 DEF IInv, TypeInv
      <4> QED BY <3>3, <4>1, <4>2
    <3>6. Dated(written') BY <1>2, <3>1, <3>2 DEF Dated, IInv, TypeInv, Contents
    <3> QED BY <3>1, <3>4, <3>5, <3>6 DEF IInv, TypeInv, ChainInv
  <2> QED BY <2>1, <2>2
<1>8. base' \in {None, base} /\ (base' # None => loading) BY <1>3 DEF Unadopted
<1>9. pending' \in {None, ui'} /\ pending' # written'
  BY <1>3, <1>7, NoneFact DEF IInv, TypeInv
<1>10. TypeInv' BY <1>1, <1>2, <1>3, <1>4, <1>7, <1>8, <1>9 DEF IInv, TypeInv
<1>11. DateInv' 
  <2> \A c \in Contents \cup {None} : Dated(c) => c = None \/ c.rev <= edits'
    BY DEF IInv, TypeInv, Contents, Dated
  <2>1. Dated(ui)' /\ Dated(written)' BY <1>2, <1>7 DEF Dated
  <2>2. /\ Dated(base)' /\ Dated(pending)' /\ Dated(published)'
        /\ Dated(nav.task)' /\ Dated(save.task)'
    BY <1>2, <1>8, <1>9, <2>1 DEF IInv, TypeInv, DateInv, Dated
  <2>3. (\A i \in DOMAIN queue : Dated(queue[i].task))'
    <3> SUFFICES ASSUME NEW i \in DOMAIN queue PROVE queue[i].task = None \/ queue[i].task.rev <= edits'
      BY <1>4 DEF Dated
    <3> QED BY QueueFacts DEF IInv, TypeInv, DateInv, Items
  <2>4. (\A d \in Docs : disk[d] <= edits)' BY <1>2 DEF IInv, TypeInv, DateInv
  <2> QED BY <2>1, <2>2, <2>3, <2>4 DEF DateInv
<1>12. ChainInv' BY <1>2, <1>4, <1>5, <1>6, <1>7 DEF IInv, ChainInv
<1>13. PendingInv'
  <2>1. loading \/ base' # None => queue' = <<>> /\ pending' = None
    BY <1>2, <1>3, <1>4, <1>8 DEF IInv, PendingInv
  <2>2. base' # None => disk'[base'.doc] = base'.rev BY <1>2, <1>8 DEF IInv, PendingInv
  <2> QED BY <1>2, <1>3, <1>4, <1>7, <1>9, <2>1, <2>2 DEF PendingInv
<1>14. Waits(save, "save")' /\ Waits(nav, "nav")' BY <1>1, <1>2, <1>4 DEF IInv, Waits
<1>15. NavInv' BY <1>1, <1>2, <1>8 DEF IInv, NavInv, Leaving
<1>16. NewestInv' BY <1>2 DEF IInv, NewestInv, TypeInv
<1>17. StatusInv' BY <1>2 DEF StatusInv
<1> QED BY <1>10, <1>11, <1>12, <1>13, <1>14, <1>15, <1>16, <1>17 DEF IInv

LEMMA EditInv ==
    ASSUME IInv, ~ slipped', Edit
    PROVE  IInv'
<1>1. /\ Awaiting /\ Editable /\ edits' = edits + 1 /\ past' = past \cup {ui.rev} /\ Show(edits + 1)
  BY DEF Edit
<1>2. /\ edits \in Nat /\ ui.rev \in Nat /\ ui.rev <= edits /\ past \subseteq Nat
      /\ \A r \in past : r <= edits
  BY NoneFact DEF IInv, TypeInv, DateInv, Dated, Contents
<1>3. past' \subseteq Nat /\ \A r \in past' : r <= edits'
  <2>1. edits' = edits + 1 /\ past' = past \cup {ui.rev} BY <1>1
  <2>2. \A r \in past : r \in Nat /\ r <= edits + 1 BY <1>2
  <2>3. \A r \in past' : r \in Nat /\ r <= edits + 1 BY <1>2, <2>1, <2>2
  <2> QED BY <2>1, <2>3
<1>4. edits' \in Nat /\ edits <= edits' /\ edits + 1 <= edits' /\ edits + 1 > edits /\ edits + 1 \in Nat
  BY <1>1, <1>2
<1> QED BY <1>1, <1>3, <1>4, ShowInv

LEMMA UndoInv ==
    ASSUME IInv, Careful, ~ slipped', Undo
    PROVE  IInv'
<1>1. /\ Awaiting /\ Editable /\ past' = past \cup {ui.rev} /\ queue = <<>> /\ edits' = edits
  BY DEF Undo, Careful
<1>2. PICK rev \in past : Show(rev) BY DEF Undo
<1>3. /\ edits \in Nat /\ ui.rev \in Nat /\ ui.rev <= edits /\ past \subseteq Nat
      /\ \A r \in past : r <= edits
  BY NoneFact DEF IInv, TypeInv, DateInv, Dated, Contents
<1>4. past' \subseteq Nat /\ \A r \in past' : r <= edits' BY <1>1, <1>3
<1>5. rev \in Nat /\ rev <= edits' /\ edits' \in Nat /\ edits <= edits' BY <1>1, <1>3
<1> QED BY <1>1, <1>2, <1>4, <1>5, ShowInv

-----------------------------------------------------------------------------
(* The end of a write: the first entry leaves the chain.                     *)
LEMMA ResumeFacts ==
    ASSUME TypeInv, queue # <<>>, NEW caller, NEW ok \in BOOLEAN, NEW f, Waits(f, caller),
           DOMAIN f = FlowFields, f.pc \in NavPcs
    PROVE  \/ Resume(f, caller, ok) = f /\ caller \notin queue[1].by
           \/ /\ f.pc = "wait" /\ f.task = queue[1].task /\ caller \in queue[1].by
              /\ \/ ok /\ Resume(f, caller, ok) = [f EXCEPT !.pc = "check"]
                 \/ ~ok /\ Resume(f, caller, ok) = Idle
<1>1. Head(queue) = queue[1] /\ 1 \in DOMAIN queue BY QueueFacts DEF TypeInv
<1>2. CASE caller \notin queue[1].by BY <1>1, <1>2 DEF Resume
<1>3. CASE caller \in queue[1].by
  <2>1. f.pc = "wait" /\ f.task = queue[1].task BY <1>1, <1>3 DEF Waits
  <2>2. CASE ok
    <3>1. Resume(f, caller, ok) = [f EXCEPT !.pc = "check"] BY <1>1, <1>3, <2>1, <2>2 DEF Resume
    <3> QED BY <1>3, <2>1, <2>2, <3>1
  <2>3. CASE ~ok
    <3>1. Resume(f, caller, ok) = Idle BY <1>1, <1>3, <2>1, <2>3 DEF Resume
    <3> QED BY <1>3, <2>1, <2>3, <3>1
  <2> QED BY <2>2, <2>3
<1> QED BY <1>2, <1>3

\* What a settled entry leaves of the chain.
Pops(ok) ==
    /\ Settle(ok) /\ queue # <<>>
    /\ ok => /\ written' = queue[1].task /\ disk'[queue[1].task.doc] = queue[1].task.rev
             /\ \A d \in Docs : d # queue[1].task.doc => disk'[d] = disk[d]
             /\ (queue[1].held => pending' = None /\ status' = "saved")
             /\ (~queue[1].held => UNCHANGED <<pending, status>>)
    /\ ~ok => UNCHANGED <<written, disk, pending>> /\ status' = "error" /\ queue[1].task # written
    /\ written' # written => save.pc # "check" /\ nav.pc # "check"
    /\ disk' \in [Docs -> Nat]
    /\ UNCHANGED <<ui, past, published, newest, loading, base, timer, edits>>

LEMMA WaitsKept ==
    ASSUME IInv, NEW ok \in BOOLEAN, Pops(ok)
    PROVE  /\ Waits(save, "save")' /\ Waits(nav, "nav")'
           /\ save' \in {save, [save EXCEPT !.pc = "check"], Idle}
           /\ nav' \in {nav, [nav EXCEPT !.pc = "check"], Idle}
           /\ nav' # nav => nav.pc = "wait"
           /\ save' # save => save.pc = "wait"
<1>1. /\ queue' = Tail(queue) /\ queue # <<>> /\ loading = FALSE /\ base = None /\ 1 \in DOMAIN queue
      /\ save' = Resume(save, "save", ok) /\ nav' = Resume(nav, "nav", ok)
      /\ UNCHANGED <<loading, base>>
  BY QueueFacts DEF Pops, Settle, IInv, PendingInv, TypeInv
<1>2. /\ \A i \in DOMAIN queue' : i + 1 \in DOMAIN queue /\ i + 1 # 1 /\ queue'[i] = queue[i + 1] /\ i \in Nat
  <2>1. queue \in Seq(Items) BY DEF IInv, TypeInv
  <2>2. queue' \in Seq(Items) BY <1>1, <2>1, TailFacts
  <2>3. \A i \in DOMAIN queue' : i \in Nat BY <2>2, QueueFacts
  <2> QED BY <1>1, <2>1, <2>3, TailFacts
<1>3. ASSUME NEW f, NEW g, NEW caller, Waits(f, caller), g = Resume(f, caller, ok),
             DOMAIN f = FlowFields, f.pc \in NavPcs, written' # written => f.pc # "check"
      PROVE  /\ \A i \in DOMAIN queue' : caller \in queue'[i].by => g.pc = "wait" /\ queue'[i].task = g.task
             /\ \A i, j \in DOMAIN queue' : caller \in queue'[i].by /\ caller \in queue'[j].by => i = j
             /\ g.pc \in {"wait", "check"} => g.task # None
             /\ g.pc = "check" => written' = g.task /\ base' = None /\ ~loading'
             /\ g \in {f, [f EXCEPT !.pc = "check"], Idle}
             /\ g # f => f.pc = "wait"
  <2>1. \/ g = f /\ caller \notin queue[1].by
        \/ /\ f.pc = "wait" /\ f.task = queue[1].task /\ caller \in queue[1].by
           /\ \/ ok /\ g = [f EXCEPT !.pc = "check"]
              \/ ~ok /\ g = Idle
    <3>1. TypeInv BY DEF IInv
    <3>2. queue # <<>> BY <1>1
    <3>3. DOMAIN f = FlowFields /\ f.pc \in NavPcs /\ Waits(f, caller) /\ g = Resume(f, caller, ok) BY <1>3
    <3>4. \/ Resume(f, caller, ok) = f /\ caller \notin queue[1].by
          \/ /\ f.pc = "wait" /\ f.task = queue[1].task /\ caller \in queue[1].by
             /\ \/ ok /\ Resume(f, caller, ok) = [f EXCEPT !.pc = "check"]
                \/ ~ok /\ Resume(f, caller, ok) = Idle
      BY Zenon, <3>1, <3>2, <3>3, ResumeFacts
    <3> QED BY <3>3, <3>4
  <2>2. \A i, j \in DOMAIN queue' : caller \in queue'[i].by /\ caller \in queue'[j].by => i = j
    BY <1>2, <1>3 DEF Waits
  <2>3. CASE g = f /\ caller \notin queue[1].by
    BY <1>1, <1>2, <1>3, <2>2, <2>3 DEF Waits
  <2>4. CASE f.pc = "wait" /\ f.task = queue[1].task /\ caller \in queue[1].by /\ ok /\ g = [f EXCEPT !.pc = "check"]
    <3>1. \A i \in DOMAIN queue' : caller \notin queue'[i].by BY <1>1, <1>2, <1>3, <2>4 DEF Waits
    <3>2. g.pc = "check" /\ g.task = f.task BY <1>3, <2>4 DEF FlowFields
    <3>3. written' = f.task BY <2>4 DEF Pops
    <3>4. f.task # None BY <1>3, <2>4 DEF Waits
    <3> QED BY <1>1, <2>2, <2>4, <3>1, <3>2, <3>3, <3>4
  <2>5. CASE f.pc = "wait" /\ caller \in queue[1].by /\ ~ok /\ g = Idle
    <3>1. \A i \in DOMAIN queue' : caller \notin queue'[i].by BY <1>1, <1>2, <1>3, <2>5 DEF Waits
    <3> QED BY <2>2, <2>5, <3>1 DEF Idle
  <2> QED BY <2>1, <2>3, <2>4, <2>5
<1>4. /\ Waits(save, "save") /\ DOMAIN save = FlowFields /\ save.pc \in NavPcs /\ (written' # written => save.pc # "check")
      /\ Waits(nav, "nav") /\ DOMAIN nav = FlowFields /\ nav.pc \in NavPcs /\ (written' # written => nav.pc # "check")
  BY DEF IInv, TypeInv, Pops, NavPcs, SavePcs
<1>5. Waits(save, "save")' /\ save' \in {save, [save EXCEPT !.pc = "check"], Idle} /\ (save' # save => save.pc = "wait")
  BY <1>1, <1>3, <1>4 DEF Waits
<1>6. Waits(nav, "nav")' /\ nav' \in {nav, [nav EXCEPT !.pc = "check"], Idle} /\ (nav' # nav => nav.pc = "wait")
  BY <1>1, <1>3, <1>4 DEF Waits
<1> QED BY <1>5, <1>6

LEMMA PopsInv ==
    ASSUME IInv, NEW ok \in BOOLEAN, Pops(ok), past' = past
    PROVE  IInv'
<1> DEFINE task == queue[1].task
<1>1. /\ queue' = Tail(queue) /\ queue # <<>> /\ loading = FALSE /\ base = None /\ writing' = FALSE
      /\ UNCHANGED <<ui, published, newest, loading, base, timer, edits>>
  BY DEF Pops, Settle, IInv, PendingInv, TypeInv
<1>2. /\ queue \in Seq(Items) /\ 1 \in DOMAIN queue /\ Len(queue) \in DOMAIN queue
      /\ \A i \in DOMAIN queue : queue[i] \in Items /\ i \in Nat
  BY <1>1, QueueFacts DEF IInv, TypeInv
<1>3. /\ queue' \in Seq(Items)
      /\ \A i \in DOMAIN queue' : i + 1 \in DOMAIN queue /\ i + 1 # 1 /\ queue'[i] = queue[i + 1] /\ i \in Nat
      /\ queue' # <<>> => queue'[Len(queue')] = queue[Len(queue)] /\ Len(queue) # 1
      /\ queue' = <<>> => Len(queue) = 1
  <2>1. queue' \in Seq(Items) BY <1>1, <1>2, TailFacts
  <2>2. \A i \in DOMAIN queue' : i \in Nat BY <2>1, QueueFacts
  <2> QED BY <1>1, <1>2, <2>1, <2>2, TailFacts
<1>4. task \in Contents /\ task.doc = ui.doc /\ task.doc \in Docs /\ task.rev <= edits
  BY <1>2, NoneFact DEF Items, IInv, ChainInv, DateInv, Dated, TypeInv, Contents
<1>5. /\ Waits(save, "save")' /\ Waits(nav, "nav")'
      /\ save' \in {save, [save EXCEPT !.pc = "check"], Idle}
      /\ nav' \in {nav, [nav EXCEPT !.pc = "check"], Idle}
      /\ nav' # nav => nav.pc = "wait"
      /\ save' # save => save.pc = "wait"
  BY WaitsKept
<1>6. nav' = nav \/ (nav.pc = "wait" /\ nav'.pc \in {"check", "idle"} /\ DOMAIN nav' = FlowFields
                     /\ nav'.kind \in {"load", "switch"} /\ nav'.doc \in Docs /\ nav'.task \in {None, nav.task}
                     /\ (nav'.pc = "check" => nav'.task = nav.task))
  <2>1. CASE nav' = [nav EXCEPT !.pc = "check"] /\ nav' # nav
    BY <1>5, <2>1 DEF IInv, TypeInv, FlowFields
  <2>2. CASE nav' = Idle /\ nav' # nav
    BY <1>5, <2>2 DEF Idle, IInv, TypeInv, FlowFields, Contents
  <2> QED BY <1>5, <2>1, <2>2
<1>7. save' = save \/ (save'.pc \in {"check", "idle"} /\ DOMAIN save' = FlowFields /\ save'.task \in {None, save.task})
  BY <1>5 DEF Idle, IInv, TypeInv, FlowFields
<1>8. /\ written' \in {written, task} /\ pending' \in {None, pending}
      /\ disk' \in [Docs -> Nat] /\ disk'[written'.doc] = written'.rev
      /\ \A d \in Docs : disk'[d] # disk[d] => ok /\ d = ui.doc /\ disk'[d] = task.rev
  BY <1>4 DEF Pops, IInv, ChainInv, TypeInv
<1>9. TypeInv'
  <2>1. written' \in Contents BY <1>4, <1>8 DEF IInv, TypeInv
  <2> QED BY <1>1, <1>3, <1>6, <1>7, <1>8, <2>1 DEF IInv, TypeInv, NavPcs, SavePcs
<1>10. DateInv'
  <2>1. Dated(ui)' /\ Dated(written)' /\ Dated(base)' /\ Dated(pending)' /\ Dated(published)'
    BY <1>1, <1>4, <1>8 DEF IInv, DateInv, Dated
  <2>2. Dated(nav.task)' /\ Dated(save.task)' BY <1>1, <1>6, <1>7 DEF IInv, DateInv, Dated
  <2>3. (\A i \in DOMAIN queue : Dated(queue[i].task))' BY <1>1, <1>3 DEF IInv, DateInv, Dated
  <2>4. (\A d \in Docs : disk[d] <= edits)'
    BY <1>1, <1>4, <1>8, NoneFact DEF IInv, DateInv, TypeInv, Dated
  <2> QED BY <1>1, <2>1, <2>2, <2>3, <2>4 DEF IInv, DateInv
<1>11. ChainInv'
  <2>1. written' = ui' => \A i \in DOMAIN queue' : queue'[i].task = ui'
    <3>1. CASE written' = task
      <4> SUFFICES ASSUME task = ui, NEW i \in DOMAIN queue' PROVE queue'[i].task = ui BY <1>1, <3>1
      <4>1. i + 1 \in DOMAIN queue /\ 1 < i + 1 /\ queue'[i] = queue[i + 1] BY <1>3
      <4> QED BY <1>2, <4>1 DEF IInv, ChainInv
    <3>2. CASE written' = written BY <1>1, <1>3, <3>2 DEF IInv, ChainInv
    <3> QED BY <1>8, <3>1, <3>2
  <2>2. \A i, j \in DOMAIN queue' : i < j /\ queue'[i].task = ui' => queue'[j].task = ui'
    BY <1>1, <1>3 DEF IInv, ChainInv
  <2>3. \A i \in DOMAIN queue' : queue'[i].task.doc = ui'.doc /\ (queue'[i].held => queue'[i].task = ui')
    BY <1>1, <1>3 DEF IInv, ChainInv
  <2> QED BY <1>1, <1>8, <2>1, <2>2, <2>3 DEF ChainInv
<1>12. PendingInv'
  <2>1. pending' # None /\ (pending' = written' \/ \E i \in DOMAIN queue' : queue'[i].task = pending')
           => queue' # <<>> /\ queue'[Len(queue')].held
    <3> SUFFICES ASSUME pending' # None, pending' = written' \/ \E i \in DOMAIN queue' : queue'[i].task = pending'
                 PROVE  queue' # <<>> /\ queue'[Len(queue')].held
      OBVIOUS
    <3>1. pending' = pending BY <1>8
    <3>2. pending = written \/ \E i \in DOMAIN queue : queue[i].task = pending BY <1>2, <1>3, <1>8, <3>1
    <3>3. queue[Len(queue)].held BY <3>1, <3>2 DEF IInv, PendingInv
    <3>4. Len(queue) # 1
      <4>1. CASE ok
        <5>1. ~queue[1].held BY <3>1, <4>1 DEF Pops
        <5> QED BY <3>3, <5>1
      <4>2. CASE ~ok
        <5>1. written' = written /\ task # written BY <4>2 DEF Pops
        <5>2. ASSUME Len(queue) = 1 PROVE FALSE
          <6>1. queue[1].held BY <3>3, <5>2
          <6>2. task = ui /\ pending = ui BY <1>2, <3>1, <6>1 DEF IInv, ChainInv, PendingInv
          <6>3. DOMAIN queue' = {}
            <7>1. \A i \in DOMAIN queue' : i + 1 \in 1 .. 1 /\ i + 1 # 1 BY <1>2, <1>3, <5>2, QueueFacts
            <7> QED BY <1>3, <7>1
          <6> QED BY <3>1, <5>1, <6>2, <6>3
        <5> QED BY <5>2
      <4> QED BY <4>1, <4>2
    <3> QED BY <1>3, <3>3, <3>4
  <2>2. timer' => pending' # None /\ \A i \in DOMAIN queue' : ~queue'[i].held
    <3> SUFFICES ASSUME timer' PROVE pending' # None /\ \A i \in DOMAIN queue' : ~queue'[i].held OBVIOUS
    <3>1. pending # None /\ \A i \in DOMAIN queue : ~queue[i].held BY <1>1 DEF IInv, PendingInv
    <3>2. pending' = pending BY <1>2, <3>1 DEF Pops
    <3> QED BY <1>3, <3>1, <3>2
  <2> QED BY <1>1, <1>8, <2>1, <2>2 DEF IInv, PendingInv
<1>13. NavInv'
  <2>1. ASSUME Leaving PROVE /\ written' = ui /\ \A d \in Docs : disk'[d] = disk[d]
    <3>1. written = ui BY <2>1 DEF IInv, NavInv
    <3>2. task = ui BY <1>2, <3>1 DEF IInv, ChainInv
    <3> QED BY <1>4, <1>8, <3>1, <3>2, <1>1 DEF IInv, ChainInv
  <2>2. Leaving' => Leaving BY <1>1, <1>6 DEF Leaving
  <2>3. /\ nav'.pc = "publish" => nav' = nav /\ Leaving
        /\ published' # None => Leaving
    BY <1>1, <1>6 DEF Leaving
  <2>4. /\ nav'.pc = "publish" => nav'.task # None /\ nav'.task.rev = disk'[nav'.task.doc]
        /\ published' # None => published'.rev = disk'[published'.doc]
    BY <1>1, <2>1, <2>3 DEF IInv, NavInv, TypeInv, Contents
  <2> QED BY <1>1, <1>6, <2>1, <2>2, <2>4 DEF IInv, NavInv
<1>14. NewestInv' BY <1>1, <1>8 DEF IInv, NewestInv
<1>15. StatusInv'
  <2> SUFFICES ASSUME status' = "saved", published' = None
               PROVE  disk'[ui'.doc] = ui'.rev /\ \A i \in DOMAIN queue' : queue'[i].task = ui'
    BY DEF StatusInv
  <2>1. ok BY DEF Pops
  <2>2. task = ui BY <1>1, <1>2, <2>1 DEF Pops, IInv, ChainInv, StatusInv
  <2>3. \A i \in DOMAIN queue' : queue'[i].task = ui
    BY <1>2, <1>3, <2>2 DEF IInv, ChainInv
  <2> QED BY <1>1, <2>1, <2>2, <2>3 DEF Pops
<1> QED BY <1>5, <1>9, <1>10, <1>11, <1>12, <1>13, <1>14, <1>15 DEF IInv

LEMMA SkipInv ==
    ASSUME IInv, SkipWrite
    PROVE  IInv'
<1>1. Head(queue) = queue[1] /\ queue # <<>> BY QueueFacts DEF SkipWrite, IInv, TypeInv
<1>2. /\ queue[1].task = written /\ Settle(TRUE) /\ ReleasePending
      /\ UNCHANGED <<disk, ui, past, published, newest, loading, base, timer, written, edits>>
  BY <1>1 DEF SkipWrite, Unchanged, screen, counters
<1>3. Pops(TRUE) BY <1>1, <1>2 DEF Pops, ReleasePending, IInv, ChainInv, TypeInv
<1> QED BY <1>2, <1>3, PopsInv

LEMMA EndInv ==
    ASSUME IInv, EndWrite
    PROVE  IInv'
<1>1. Head(queue) = queue[1] /\ queue # <<>> BY QueueFacts DEF EndWrite, IInv, TypeInv, ChainInv
<1>2. /\ Settle(TRUE) /\ ReleasePending /\ written' = queue[1].task /\ save.pc # "check" /\ nav.pc # "check"
      /\ disk' = [disk EXCEPT ![queue[1].task.doc] = queue[1].task.rev]
      /\ UNCHANGED <<ui, past, published, newest, loading, base, timer, edits>>
  BY <1>1 DEF EndWrite, Stored, Awaiting, screen, counters
<1>3. queue[1].task \in Contents BY <1>1, QueueFacts DEF IInv, TypeInv, Items
<1>4. Pops(TRUE) BY <1>1, <1>2, <1>3 DEF Pops, ReleasePending, IInv, TypeInv, Contents
<1> QED BY <1>2, <1>4, PopsInv

LEMMA FailInv ==
    ASSUME IInv, Careful, FailWrite
    PROVE  IInv'
<1>1. queue # <<>> /\ queue[1].task # written BY DEF FailWrite, IInv, ChainInv
<1>2. /\ Settle(FALSE) /\ disk' = disk /\ status' = "error"
      /\ UNCHANGED <<ui, past, published, newest, loading, base, pending, timer, written, edits>>
  BY DEF FailWrite, Careful, screen, hook
<1>3. Pops(FALSE) BY <1>1, <1>2 DEF Pops, IInv, TypeInv
<1> QED BY <1>2, <1>3, PopsInv

\* What changes nothing but the status, and whether a write has been started.
LEMMA StartInv ==
    ASSUME IInv, StartWrite
    PROVE  IInv'
<1>1. /\ queue # <<>> /\ Head(queue) = queue[1] /\ queue[1].task # written /\ writing' = TRUE /\ 1 \in DOMAIN queue
      /\ UNCHANGED <<disk, ui, past, published, newest, loading, base, pending, timer, written, queue, save, nav, edits>>
  BY QueueFacts DEF StartWrite, Unchanged, IInv, TypeInv, screen, hook, counters
<1>2. status' \in {status, "saving"} BY DEF StartWrite
<1>3. loading = FALSE BY <1>1 DEF IInv, PendingInv, TypeInv
<1>4. TypeInv' BY <1>1 DEF IInv, TypeInv
<1>5. DateInv' BY <1>1 DEF IInv, DateInv, Dated
<1>6. ChainInv' BY <1>1 DEF IInv, ChainInv
<1>7. PendingInv' BY <1>1 DEF IInv, PendingInv
<1>8. Waits(save, "save")' /\ Waits(nav, "nav")' BY <1>1 DEF IInv, Waits
<1>9. NavInv' BY <1>1, <1>3 DEF IInv, NavInv, Leaving
<1>10. NewestInv' BY <1>1 DEF IInv, NewestInv
<1>11. StatusInv' BY <1>1, <1>2 DEF IInv, StatusInv
<1> QED BY <1>4, <1>5, <1>6, <1>7, <1>8, <1>9, <1>10, <1>11 DEF IInv

-----------------------------------------------------------------------------
(* What joins the chain: the timer, and a flush.                             *)
\* An entry with the content on the screen, after all others.
LEMMA AppendKeeps ==
    ASSUME IInv, NEW q, NEW by \in SUBSET Callers, queue' = Append(q, Entry(ui, TRUE, by)), q \in Seq(Items),
           DOMAIN q = DOMAIN queue, Len(q) = Len(queue),
           \A i \in DOMAIN queue : q[i].task = queue[i].task /\ q[i].by = queue[i].by /\ (q[i].held => queue[i].held),
           ui' = ui, edits' = edits, writing' = writing, pending' = ui, disk' = disk, loading = FALSE, loading' = FALSE,
           \/ written' = written
           \/ written' = ui /\ queue = <<>> /\ disk[ui.doc] = ui.rev,
           base' = None, timer' = FALSE
    PROVE  /\ queue' \in Seq(Items) /\ ChainInv' /\ PendingInv'
           /\ (\A i \in DOMAIN queue : Dated(queue[i].task))'
           /\ DOMAIN queue' = DOMAIN queue \cup {Len(queue) + 1} /\ Len(queue) + 1 \notin DOMAIN queue
           /\ queue'[Len(queue) + 1] = Entry(ui, TRUE, by)
           /\ \A i \in DOMAIN queue : queue'[i].task = queue[i].task /\ queue'[i].by = queue[i].by
<1> DEFINE e == Entry(ui, TRUE, by)
           n == Len(queue) + 1
<1>1. e \in Items /\ e.task = ui /\ e.held /\ e.by = by BY DEF Entry, Items, IInv, TypeInv
<1> HIDE DEF e
<1>2. /\ queue' \in Seq(Items) /\ queue' # <<>> /\ Len(queue') = n
      /\ DOMAIN queue' = DOMAIN queue \cup {n} /\ n \notin DOMAIN queue
      /\ queue'[n] = e
      /\ \A i \in DOMAIN queue : queue'[i] = q[i] /\ i < n
  <2>1. queue' = Append(q, e) /\ q \in Seq(Items) BY DEF e
  <2>2. /\ Append(q, e) \in Seq(Items) /\ Append(q, e) # <<>>
        /\ Len(Append(q, e)) = Len(q) + 1 /\ DOMAIN Append(q, e) = DOMAIN q \cup {Len(q) + 1}
        /\ Append(q, e)[Len(q) + 1] = e /\ Len(q) + 1 \notin DOMAIN q
        /\ \A i \in DOMAIN q : Append(q, e)[i] = q[i] /\ i < Len(q) + 1
    BY Zenon, <1>1, <2>1, AppendFacts
  <2>3. n = Len(q) + 1 OBVIOUS
  <2> HIDE DEF n
  <2> QED BY <2>1, <2>2, <2>3
<1>3. /\ \A i \in DOMAIN queue : queue'[i].task = queue[i].task /\ queue'[i].by = queue[i].by
      /\ \A i \in DOMAIN queue : queue'[i].held => queue[i].held
  BY <1>2
<1>4. queue'[n].task = ui /\ queue'[n].held BY <1>1, <1>2
<1>5. \A i \in DOMAIN queue' : i = n \/ i \in DOMAIN queue BY <1>2
<1>6. \A i \in DOMAIN queue : i < n BY <1>2
<1>7. queue # <<>> => 1 \in DOMAIN queue BY QueueFacts DEF IInv, TypeInv
<1>8. queue = <<>> => DOMAIN queue = {} BY QueueFacts DEF IInv, TypeInv
<1>9. DOMAIN queue \subseteq Nat /\ n \in Nat BY QueueFacts DEF IInv, TypeInv
<1> HIDE DEF n
<1>10. ChainInv'
  <2>1. disk'[written'.doc] = written'.rev BY DEF IInv, ChainInv
  <2>2. writing' => queue' # <<>> /\ queue'[1].task # written'
    BY <1>2, <1>3, <1>7 DEF IInv, ChainInv
  <2>3. \A i \in DOMAIN queue' : queue'[i].task.doc = ui'.doc /\ (queue'[i].held => queue'[i].task = ui')
    <3> TAKE i \in DOMAIN queue'
    <3>1. CASE i = n BY <1>4, <3>1
    <3>2. CASE i \in DOMAIN queue BY <1>3, <3>2 DEF IInv, ChainInv
    <3> QED BY <1>5, <3>1, <3>2
  <2>4. written' = ui' => \A i \in DOMAIN queue' : queue'[i].task = ui'
    BY <1>3, <1>4, <1>5, <1>8 DEF IInv, ChainInv
  <2>5. \A i, j \in DOMAIN queue' : i < j /\ queue'[i].task = ui' => queue'[j].task = ui'
    <3> SUFFICES ASSUME NEW i \in DOMAIN queue', NEW j \in DOMAIN queue', i < j, queue'[i].task = ui
                 PROVE  queue'[j].task = ui
      OBVIOUS
    <3>1. CASE j = n BY <1>4, <3>1
    <3>2. CASE j \in DOMAIN queue
      <4>1. i \in DOMAIN queue BY <1>5, <1>6, <1>9, <3>2
      <4>2. queue[i].task = ui => queue[j].task = ui BY <3>2, <4>1 DEF IInv, ChainInv
      <4> QED BY <1>3, <3>2, <4>1, <4>2
    <3> QED BY <1>5, <3>1, <3>2
  <2> QED BY <2>1, <2>2, <2>3, <2>4, <2>5 DEF ChainInv
<1>11. PendingInv' BY <1>1, <1>2 DEF PendingInv
<1>12. (\A i \in DOMAIN queue : Dated(queue[i].task))' BY <1>3, <1>4, <1>5 DEF IInv, DateInv, Dated
<1> QED BY <1>2, <1>3, <1>10, <1>11, <1>12 DEF e, n

LEMMA TimerInv ==
    ASSUME IInv, TimerFires
    PROVE  IInv'
<1>1. /\ timer /\ timer' = FALSE /\ queue' = Append(queue, Entry(pending, TRUE, {}))
      /\ UNCHANGED <<disk, ui, past, published, newest, loading, base, pending, written, writing, status, save, nav, edits>>
  BY DEF TimerFires, screen, counters
<1>2. pending = ui /\ loading = FALSE /\ base = None BY <1>1 DEF IInv, PendingInv, TypeInv
<1>3. /\ queue' \in Seq(Items) /\ ChainInv' /\ PendingInv'
      /\ (\A i \in DOMAIN queue : Dated(queue[i].task))'
      /\ DOMAIN queue' = DOMAIN queue \cup {Len(queue) + 1} /\ Len(queue) + 1 \notin DOMAIN queue
      /\ queue'[Len(queue) + 1] = Entry(ui, TRUE, {})
      /\ \A i \in DOMAIN queue : queue'[i].task = queue[i].task /\ queue'[i].by = queue[i].by
  <2>1. queue' = Append(queue, Entry(ui, TRUE, {})) /\ queue \in Seq(Items) /\ {} \in SUBSET Callers
    BY <1>1, <1>2 DEF IInv, TypeInv
  <2> QED BY <1>1, <1>2, <2>1, AppendKeeps
<1>4. queue'[Len(queue) + 1].task = ui /\ queue'[Len(queue) + 1].by = {} BY <1>3 DEF Entry
<1>5. TypeInv' BY <1>1, <1>3 DEF IInv, TypeInv
<1>6. DateInv' BY <1>1, <1>3 DEF IInv, DateInv, Dated
<1>7. Waits(save, "save")' /\ Waits(nav, "nav")' BY <1>1, <1>3, <1>4 DEF IInv, Waits
<1>8. NavInv' BY <1>1 DEF IInv, NavInv, Leaving
<1>9. NewestInv' BY <1>1 DEF IInv, NewestInv
<1>10. StatusInv' BY <1>1, <1>3, <1>4 DEF IInv, StatusInv
<1> QED BY <1>3, <1>5, <1>6, <1>7, <1>8, <1>9, <1>10 DEF IInv

\* Waits of the next state, for what the caller is then.
WaitsNext(g, caller) ==
    /\ \A i \in DOMAIN queue' : caller \in queue'[i].by => g.pc = "wait" /\ queue'[i].task = g.task
    /\ \A i, j \in DOMAIN queue' : caller \in queue'[i].by /\ caller \in queue'[j].by => i = j
    /\ g.pc \in {"wait", "check"} => g.task # None
    /\ g.pc = "check" => written' = g.task /\ base' = None /\ ~loading'

\* A round of a flush: while a document loads there is nothing to save.
LEMMA FlushRound ==
    ASSUME IInv, NEW f, NEW f1, NEW caller, Flush(f, f1, caller)
    PROVE  /\ written' = Baseline(ui, base) /\ base' = Unadopted(base) /\ timer' = FALSE /\ status' = status
           /\ \/ /\ ~loading /\ pending' = ui /\ f1 = [f EXCEPT !.pc = "wait", !.task = ui]
                 /\ queue' = Append(Released(queue), Entry(ui, TRUE, {caller}))
              \/ loading /\ UNCHANGED <<pending, queue>> /\ f1 \in {Idle, [f EXCEPT !.pc = "passed"]}
<1>1. ui # None BY NoneFact DEF IInv, TypeInv
<1>2. loading => queue = <<>> BY DEF IInv, PendingInv
<1>3. CASE loading BY <1>2, <1>3 DEF Flush, Snapshot
<1>4. CASE ~loading BY <1>1, <1>4 DEF Flush, Snapshot
<1> QED BY <1>3, <1>4

LEMMA FlushKeeps ==
    ASSUME IInv, NEW caller \in Callers, NEW f, Waits(f, caller), f.pc \in {"idle", "check"}, DOMAIN f = FlowFields,
           NEW f1, Flush(f, f1, caller),
           UNCHANGED <<disk, ui, published, loading, writing, edits>>
    PROVE  /\ queue' \in Seq(Items) /\ pending' \in {None, ui} /\ written' \in {written, ui}
           /\ base' \in {None, base} /\ timer' = FALSE
           /\ ChainInv' /\ PendingInv' /\ StatusInv' /\ (\A i \in DOMAIN queue : Dated(queue[i].task))'
           /\ written = ui => written' = ui
           /\ WaitsNext(f1, caller)
           /\ \A g, other : other # caller /\ Waits(g, other) => WaitsNext(g, other)
           /\ status' = status
           /\ \/ ~loading /\ f1 = [f EXCEPT !.pc = "wait", !.task = ui]
              \/ loading /\ f1 \in {Idle, [f EXCEPT !.pc = "passed"]}
<1>1. /\ written' = Baseline(ui, base) /\ base' = Unadopted(base) /\ timer' = FALSE /\ status' = status
      /\ \/ /\ ~loading /\ pending' = ui /\ f1 = [f EXCEPT !.pc = "wait", !.task = ui]
            /\ queue' = Append(Released(queue), Entry(ui, TRUE, {caller}))
         \/ loading /\ UNCHANGED <<pending, queue>> /\ f1 \in {Idle, [f EXCEPT !.pc = "passed"]}
  BY FlushRound
<1>2. /\ written' = written \/ (written' = ui /\ queue = <<>> /\ disk[ui.doc] = ui.rev)
      /\ base = None => written' = written
      /\ base' \in {None, base} /\ (~loading => base' = None)
  BY <1>1 DEF Baseline, Unadopted, IInv, PendingInv
<1>3. CASE loading
  <2>1. queue = <<>> /\ DOMAIN queue = {} /\ pending = None BY <1>3, QueueFacts DEF IInv, PendingInv, TypeInv
  <2>2. /\ queue' = queue /\ pending' = pending /\ written' = written /\ base' = base
        /\ f1 \in {Idle, [f EXCEPT !.pc = "passed"]}
    BY <1>1, <1>3 DEF Baseline, Unadopted
  <2>3. f1.pc \in {"idle", "passed"} BY <2>2 DEF Idle, FlowFields
  <2>4. queue' \in Seq(Items) BY <2>2 DEF IInv, TypeInv
  <2>5. ChainInv' BY <2>2 DEF IInv, ChainInv
  <2>6. PendingInv' BY <1>1, <2>2 DEF IInv, PendingInv
  <2>7. StatusInv' BY <1>1, <2>2 DEF IInv, StatusInv
  <2>8. (\A i \in DOMAIN queue : Dated(queue[i].task))' BY <2>1, <2>2
  <2>9. WaitsNext(f1, caller) BY <2>1, <2>2, <2>3 DEF WaitsNext
  <2>10. \A g, other : Waits(g, other) => WaitsNext(g, other) BY <2>1, <2>2 DEF Waits, WaitsNext
  <2> QED BY <1>1, <1>3, <2>1, <2>2, <2>4, <2>5, <2>6, <2>7, <2>8, <2>9, <2>10
<1>4. CASE ~loading
  <2>1. /\ pending' = ui /\ f1 = [f EXCEPT !.pc = "wait", !.task = ui]
        /\ queue' = Append(Released(queue), Entry(ui, TRUE, {caller}))
    BY <1>1, <1>4
  <2>2. /\ Released(queue) \in Seq(Items) /\ Len(Released(queue)) = Len(queue)
        /\ DOMAIN Released(queue) = DOMAIN queue
        /\ \A i \in DOMAIN queue : /\ Released(queue)[i].task = queue[i].task
                                   /\ Released(queue)[i].by = queue[i].by
                                   /\ (Released(queue)[i].held => queue[i].held)
    BY ReleasedFacts DEF IInv, TypeInv
  <2> DEFINE n == Len(queue) + 1
  <2>3. /\ queue' \in Seq(Items) /\ ChainInv' /\ PendingInv'
        /\ (\A i \in DOMAIN queue : Dated(queue[i].task))'
        /\ DOMAIN queue' = DOMAIN queue \cup {n} /\ n \notin DOMAIN queue
        /\ queue'[n] = Entry(ui, TRUE, {caller})
        /\ \A i \in DOMAIN queue : queue'[i].task = queue[i].task /\ queue'[i].by = queue[i].by
    <3>1. {caller} \in SUBSET Callers OBVIOUS
    <3>2. loading = FALSE BY <1>4 DEF IInv, TypeInv
    <3> QED BY <1>1, <1>2, <1>4, <2>1, <2>2, <3>1, <3>2, AppendKeeps
  <2>4. queue'[n].task = ui /\ queue'[n].by = {caller} BY <2>3 DEF Entry
  <2> HIDE DEF n
  <2>5. f1.pc = "wait" /\ f1.task = ui BY <2>1 DEF FlowFields
  <2>6. WaitsNext(f1, caller)
    <3>1. \A i \in DOMAIN queue : caller \notin queue'[i].by BY <2>3 DEF Waits
    <3>2. ui # None BY NoneFact DEF IInv, TypeInv
    <3> QED BY <2>3, <2>4, <2>5, <3>1, <3>2 DEF WaitsNext
  <2>7. ASSUME NEW g, NEW other, other # caller, Waits(g, other)
        PROVE  WaitsNext(g, other)
    <3>1. other \notin queue'[n].by BY <2>4, <2>7
    <3>2. \A i \in DOMAIN queue' : other \in queue'[i].by =>
             i \in DOMAIN queue /\ other \in queue[i].by /\ queue'[i].task = queue[i].task
      BY <2>3, <3>1
    <3> QED BY <1>2, <1>4, <2>7, <3>2 DEF Waits, WaitsNext
  <2>8. StatusInv' BY <1>1, <2>3, <2>4 DEF IInv, StatusInv
  <2>9. written' \in {written, ui} /\ (written = ui => written' = ui) BY <1>2
  <2> QED BY <1>1, <1>2, <1>4, <2>1, <2>3, <2>6, <2>7, <2>8, <2>9
<1> QED BY <1>3, <1>4

\* A step that only moves the caller of a save on.
LEMMA SaveMoves ==
    ASSUME IInv, UNCHANGED <<disk, screen, loading, hook, chain, status, nav, edits>>,
           save.pc # "wait", save' \in {Idle, [save EXCEPT !.pc = "passed"]}
    PROVE  IInv'
<1>1. UNCHANGED <<disk, ui, past, published, newest, loading, base, pending, timer, written,
                  queue, writing, status, nav, edits>>
  BY DEF screen, hook, chain
<1>2. DOMAIN save' = FlowFields /\ save'.pc \in {"idle", "passed"} /\ save'.task \in {None, save.task}
  BY DEF Idle, FlowFields, IInv, TypeInv
<1>3. TypeInv' BY <1>1, <1>2 DEF IInv, TypeInv, SavePcs
<1>4. DateInv' BY <1>1, <1>2 DEF IInv, DateInv, Dated
<1>5. ChainInv' BY <1>1 DEF IInv, ChainInv
<1>6. PendingInv' BY <1>1 DEF IInv, PendingInv
<1>7. Waits(save, "save")' /\ Waits(nav, "nav")' BY <1>1, <1>2 DEF IInv, Waits
<1>8. NavInv' BY <1>1 DEF IInv, NavInv, Leaving
<1>9. NewestInv' BY <1>1 DEF IInv, NewestInv
<1>10. StatusInv' BY <1>1 DEF IInv, StatusInv
<1> QED BY <1>3, <1>4, <1>5, <1>6, <1>7, <1>8, <1>9, <1>10 DEF IInv

\* A step that is a round of the flush of a save.
LEMMA SaveFlushes ==
    ASSUME IInv, NEW f, Waits(f, "save"), f.pc \in {"idle", "check"}, DOMAIN f = FlowFields,
           f.task \in Contents \cup {None}, Dated(f.task),
           Flush(f, save', "save"), UNCHANGED <<disk, screen, loading, writing, nav, edits>>
    PROVE  IInv'
<1>1. UNCHANGED <<disk, ui, past, published, newest, loading, writing, nav, edits>> BY DEF screen
<1>2. PICK f1 : f1 = save' OBVIOUS
<1>3. "save" \in Callers /\ "nav" # "save" BY DEF Callers
<1>4. /\ queue' \in Seq(Items) /\ pending' \in {None, ui} /\ written' \in {written, ui}
      /\ base' \in {None, base} /\ timer' = FALSE
      /\ ChainInv' /\ PendingInv' /\ StatusInv' /\ (\A i \in DOMAIN queue : Dated(queue[i].task))'
      /\ written = ui => written' = ui
      /\ WaitsNext(f1, "save") /\ WaitsNext(nav, "nav")
      /\ status' = status
      /\ \/ ~loading /\ f1 = [f EXCEPT !.pc = "wait", !.task = ui]
         \/ loading /\ f1 \in {Idle, [f EXCEPT !.pc = "passed"]}
  <2>1. Flush(f, f1, "save") BY <1>2
  <2>2. Waits(nav, "nav") BY DEF IInv
  <2> QED BY <1>1, <1>3, <2>1, <2>2, FlushKeeps
<1>5. /\ DOMAIN save' = FlowFields /\ save'.pc \in {"wait", "idle", "passed"} /\ save'.task \in {None, f.task, ui}
  <2>1. CASE f1 = [f EXCEPT !.pc = "wait", !.task = ui] BY <1>2, <2>1 DEF FlowFields
  <2>2. CASE f1 = Idle BY <1>2, <2>2 DEF Idle, FlowFields
  <2>3. CASE f1 = [f EXCEPT !.pc = "passed"] BY <1>2, <2>3 DEF FlowFields
  <2> QED BY <1>4, <2>1, <2>2, <2>3
<1>6. TypeInv'
  <2>1. /\ ui \in Contents /\ written' \in Contents /\ pending' \in Contents \cup {None}
        /\ base' \in Contents \cup {None} /\ save'.task \in Contents \cup {None}
    BY <1>4, <1>5 DEF IInv, TypeInv
  <2>2. save'.pc \in SavePcs BY <1>5 DEF SavePcs
  <2> QED BY <1>1, <1>4, <1>5, <2>1, <2>2 DEF IInv, TypeInv
<1>7. DateInv' BY <1>1, <1>4, <1>5 DEF IInv, DateInv, Dated
<1>8. Waits(save, "save")' /\ Waits(nav, "nav")' BY <1>1, <1>2, <1>4 DEF WaitsNext, Waits
<1>9. NavInv' BY <1>1, <1>4 DEF IInv, NavInv, Leaving
<1>10. NewestInv' BY <1>1 DEF IInv, NewestInv
<1> QED BY <1>4, <1>6, <1>7, <1>8, <1>9, <1>10 DEF IInv

LEMMA AskSaveInv ==
    ASSUME IInv, AskSave
    PROVE  IInv'
<1>1. /\ save.pc = "idle" /\ Flush(Idle, save', "save")
      /\ UNCHANGED <<disk, screen, loading, writing, nav, edits>>
  BY DEF AskSave
<1>2. Waits(Idle, "save") BY <1>1 DEF IInv, Waits, Idle
<1>3. Idle.pc \in {"idle", "check"} /\ DOMAIN Idle = FlowFields /\ Idle.task \in Contents \cup {None} /\ Dated(Idle.task)
  BY DEF Idle, FlowFields, Dated
<1> QED BY <1>1, <1>2, <1>3, SaveFlushes

LEMMA SaveChecksInv ==
    ASSUME IInv, SaveChecks
    PROVE  IInv'
<1>1. Check(save, save', "save") /\ nav' = nav /\ save.pc = "check" BY DEF SaveChecks, Check
<1>2. CASE save' = [save EXCEPT !.pc = "passed"] /\ UNCHANGED <<hook, queue, status>>
  <2>1. UNCHANGED <<disk, screen, loading, hook, chain, status, nav, edits>>
    BY <1>1, <1>2 DEF Check, chain, counters
  <2> QED BY <1>1, <1>2, <2>1, SaveMoves
<1>3. CASE Flush(save, save', "save")
  <2>1. UNCHANGED <<disk, screen, loading, writing, nav, edits>> BY <1>1 DEF Check, counters
  <2>2. /\ Waits(save, "save") /\ DOMAIN save = FlowFields /\ save.task \in Contents \cup {None} /\ Dated(save.task)
    BY DEF IInv, TypeInv, DateInv
  <2> QED BY <1>1, <1>3, <2>1, <2>2, SaveFlushes
<1> QED BY <1>1, <1>2, <1>3 DEF Check

LEMMA SaveDoneInv ==
    ASSUME IInv, SaveDone
    PROVE  IInv'
<1>1. UNCHANGED <<disk, screen, loading, hook, chain, status, nav, edits>> /\ save.pc = "passed" /\ save' = Idle
  BY DEF SaveDone, counters
<1> QED BY <1>1, SaveMoves

-----------------------------------------------------------------------------
(* Navigation.                                                               *)
\* A step that is a round of the flush of a navigation.
LEMMA NavFlushes ==
    ASSUME IInv, NEW f, Waits(f, "nav"), f.pc \in {"idle", "check"}, DOMAIN f = FlowFields,
           f.doc \in Docs, f.kind \in {"load", "switch"},
           ~loading, published = None,
           Flush(f, nav', "nav"), UNCHANGED <<disk, screen, loading, writing, save, edits>>
    PROVE  IInv'
<1>1. UNCHANGED <<disk, ui, past, published, newest, loading, writing, save, edits>> BY DEF screen
<1>2. PICK f1 : f1 = nav' OBVIOUS
<1>3. "nav" \in Callers /\ "nav" # "save" BY DEF Callers
<1>4. /\ queue' \in Seq(Items) /\ pending' \in {None, ui} /\ written' \in {written, ui}
      /\ base' \in {None, base} /\ timer' = FALSE
      /\ ChainInv' /\ PendingInv' /\ StatusInv' /\ (\A i \in DOMAIN queue : Dated(queue[i].task))'
      /\ WaitsNext(f1, "nav") /\ WaitsNext(save, "save")
      /\ f1 = [f EXCEPT !.pc = "wait", !.task = ui]
  <2>1. Flush(f, f1, "nav") BY <1>2
  <2>2. Waits(save, "save") BY DEF IInv
  <2> QED BY <1>1, <1>3, <2>1, <2>2, FlushKeeps
<1>5. base' = None BY FlushRound DEF Unadopted
<1>6. /\ DOMAIN nav' = FlowFields /\ nav'.pc = "wait" /\ nav'.task = ui /\ nav'.kind = f.kind /\ nav'.doc = f.doc
  BY <1>2, <1>4 DEF FlowFields
<1>7. TypeInv' BY <1>1, <1>4, <1>6 DEF IInv, TypeInv, NavPcs
<1>8. DateInv' BY <1>1, <1>4, <1>6 DEF IInv, DateInv, Dated
<1>9. Waits(save, "save")' /\ Waits(nav, "nav")' BY <1>1, <1>2, <1>4 DEF WaitsNext, Waits
<1>10. NavInv'
  <2>1. ui # None BY NoneFact DEF IInv, TypeInv
  <2> QED BY <1>1, <1>5, <1>6, <2>1 DEF IInv, NavInv, Leaving
<1>11. NewestInv' BY <1>1 DEF IInv, NewestInv
<1> QED BY <1>4, <1>7, <1>8, <1>9, <1>10, <1>11 DEF IInv

LEMMA NavigateInv ==
    ASSUME IInv, Navigate
    PROVE  IInv'
<1>1. /\ nav.pc = "idle" /\ published = None /\ loading = FALSE
      /\ UNCHANGED <<disk, screen, loading, writing, save, edits>>
  BY DEF Navigate, IInv, NavInv, TypeInv
<1>2. PICK k \in Kinds, d \in Docs : Flush([Idle EXCEPT !.kind = k, !.doc = d], nav', "nav") BY DEF Navigate
<1> DEFINE f == [Idle EXCEPT !.kind = k, !.doc = d]
<1>3. f.pc = "idle" /\ DOMAIN f = FlowFields /\ f.doc = d /\ f.kind = k /\ k \in {"load", "switch"}
  BY WindowAssumption DEF Idle, FlowFields
<1> HIDE DEF f
<1>4. Waits(f, "nav") BY <1>1, <1>3 DEF IInv, Waits
<1>5. Flush(f, nav', "nav") BY <1>2 DEF f
<1> QED BY <1>1, <1>3, <1>4, <1>5, NavFlushes

\* Where the document on the screen is about to be replaced and no promise is
\* ready, nothing is left to be written: what is on the screen is on disk.
LEMMA NothingLeft ==
    ASSUME IInv, Leaving, queue = <<>> \/ writing
    PROVE  /\ queue = <<>> /\ pending = None /\ timer = FALSE /\ writing = FALSE /\ DOMAIN queue = {}
           /\ written = ui /\ base = None /\ disk[ui.doc] = ui.rev
<1>1. written = ui /\ base = None BY DEF IInv, NavInv
<1>2. queue # <<>> => 1 \in DOMAIN queue BY QueueFacts DEF IInv, TypeInv
<1>3. \A i \in DOMAIN queue : queue[i].task = written BY <1>1 DEF IInv, ChainInv
<1>4. queue = <<>> /\ writing = FALSE BY <1>2, <1>3 DEF IInv, ChainInv, TypeInv
<1>5. pending = None BY <1>1, <1>4 DEF IInv, PendingInv
<1>6. timer = FALSE BY <1>5 DEF IInv, PendingInv, TypeInv
<1>7. disk[ui.doc] = ui.rev BY <1>1 DEF IInv, ChainInv
<1>8. DOMAIN queue = {} BY <1>4, QueueFacts DEF IInv, TypeInv
<1> QED BY <1>1, <1>4, <1>5, <1>6, <1>7, <1>8

\* A step that moves the navigation on, and the document that it publishes.
LEMMA NavMoves ==
    ASSUME IInv, UNCHANGED <<disk, ui, past, newest, hook, queue, writing, save, edits>>,
           nav.pc # "wait", DOMAIN nav' = FlowFields, nav'.pc \in NavPcs \ {"wait", "check"},
           nav'.doc \in Docs, nav'.kind \in {"load", "switch"},
           nav'.task \in Contents \cup {None}, published' \in Contents \cup {None},
           Dated(nav'.task), Dated(published'), loading' \in BOOLEAN,
           loading' => queue = <<>> /\ pending = None /\ save.pc # "check",
           NavInv', StatusInv'
    PROVE  IInv'
<1>1. UNCHANGED <<base, pending, timer, written>> BY DEF hook
<1>2. TypeInv' BY <1>1 DEF IInv, TypeInv
<1>3. DateInv' BY <1>1 DEF IInv, DateInv, Dated
<1>4. ChainInv' BY <1>1 DEF IInv, ChainInv
<1>5. PendingInv' BY <1>1 DEF IInv, PendingInv
<1>6. Waits(save, "save")' /\ Waits(nav, "nav")' BY <1>1 DEF IInv, Waits
<1>7. NewestInv' BY <1>1 DEF IInv, NewestInv
<1> QED BY <1>2, <1>3, <1>4, <1>5, <1>6, <1>7 DEF IInv

LEMMA NavChecksInv ==
    ASSUME IInv, NavChecks
    PROVE  IInv'
<1>1. /\ Check(nav, nav', "nav") /\ save' = save /\ nav.pc = "check"
      /\ UNCHANGED <<disk, screen, loading, writing, rejected, edits>>
  BY DEF NavChecks, Check, counters
<1>2. /\ written = nav.task /\ base = None /\ loading = FALSE /\ published = None
      /\ nav.task # None /\ nav.task.doc = ui.doc /\ ui # None
  BY <1>1, NoneFact DEF IInv, Waits, NavInv, TypeInv
<1>3. CASE Settled(nav.task) /\ nav' = [nav EXCEPT !.pc = "passed"] /\ UNCHANGED <<hook, queue, status>>
  <2>1. written = ui BY <1>2, <1>3 DEF Settled, SameDocument, Snapshot
  <2>2. /\ nav'.pc = "passed" /\ DOMAIN nav' = FlowFields /\ nav'.doc = nav.doc /\ nav'.kind = nav.kind
        /\ nav'.task = nav.task
    BY <1>3 DEF IInv, TypeInv, FlowFields
  <2>3. UNCHANGED <<disk, ui, past, published, newest, hook, base, written, queue, writing, save, edits, status, loading>>
    BY <1>1, <1>3 DEF screen, hook
  <2>4. NavInv' BY <1>2, <2>1, <2>2, <2>3 DEF IInv, NavInv, Leaving
  <2>5. StatusInv' BY <2>3 DEF IInv, StatusInv
  <2>6. /\ nav'.pc \in NavPcs \ {"wait", "check"} /\ nav'.doc \in Docs /\ nav'.kind \in {"load", "switch"}
        /\ nav'.task \in Contents \cup {None} /\ published' \in Contents \cup {None}
        /\ Dated(nav'.task) /\ Dated(published') /\ loading' = FALSE
    BY <1>2, <2>2, <2>3 DEF IInv, TypeInv, DateInv, NavPcs
  <2> QED BY <1>1, <2>2, <2>3, <2>4, <2>5, <2>6, NavMoves
<1>4. CASE Flush(nav, nav', "nav")
  <2>1. /\ Waits(nav, "nav") /\ DOMAIN nav = FlowFields /\ nav.doc \in Docs /\ nav.kind \in {"load", "switch"}
    BY DEF IInv, TypeInv
  <2> QED BY <1>1, <1>2, <1>4, <2>1, NavFlushes
<1> QED BY <1>1, <1>3, <1>4 DEF Check

LEMMA LeaveInv ==
    ASSUME IInv, Leave
    PROVE  IInv'
<1>1. /\ nav.pc = "passed" /\ save.pc # "check" /\ nav' = [nav EXCEPT !.pc = "read"]
      /\ loading' = (loading \/ nav.kind = "load")
      /\ status' = (IF nav.kind = "load" THEN "loading" ELSE status)
      /\ queue = <<>> \/ writing
      /\ UNCHANGED <<disk, screen, hook, queue, writing, save, edits>>
  BY DEF Leave, Awaiting, chain, counters
<1>2. UNCHANGED <<ui, past, published, newest, base, pending, timer, written>> BY <1>1 DEF screen, hook
<1>3. Leaving BY <1>1 DEF Leaving
<1>4. queue = <<>> /\ pending = None /\ written = ui /\ base = None BY <1>1, <1>3, NothingLeft
<1>5. loading = FALSE /\ published = None BY <1>1 DEF IInv, NavInv, TypeInv
<1>6. /\ DOMAIN nav' = FlowFields /\ nav'.pc = "read" /\ nav'.doc = nav.doc /\ nav'.kind = nav.kind
      /\ nav'.task = nav.task
  BY <1>1 DEF IInv, TypeInv, FlowFields
<1>7. NavInv' BY <1>1, <1>2, <1>4, <1>5, <1>6 DEF NavInv, Leaving
<1>8. StatusInv' BY <1>1, <1>2 DEF IInv, StatusInv
<1>9. /\ nav'.pc \in NavPcs \ {"wait", "check"} /\ nav'.doc \in Docs /\ nav'.kind \in {"load", "switch"}
      /\ nav'.task \in Contents \cup {None} /\ published' \in Contents \cup {None}
      /\ Dated(nav'.task) /\ Dated(published') /\ loading' \in BOOLEAN
  BY <1>1, <1>2, <1>5, <1>6 DEF IInv, TypeInv, DateInv, NavPcs
<1> QED BY <1>1, <1>2, <1>4, <1>6, <1>7, <1>8, <1>9, NavMoves

LEMMA ReadInv ==
    ASSUME IInv, Read
    PROVE  IInv'
<1> DEFINE task == [doc |-> nav.doc, rev |-> disk[nav.doc]]
<1>1. /\ nav.pc = "read" /\ save.pc # "check"
      /\ nav' = [nav EXCEPT !.pc = "publish", !.task = task]
      /\ UNCHANGED <<disk, screen, hook, queue, writing, save, edits, loading, status>>
  BY DEF Read, Awaiting, chain, counters
<1>2. UNCHANGED <<ui, past, published, newest, base, pending, timer, written>> BY <1>1 DEF screen, hook
<1>3. task \in Contents /\ task.rev = disk[task.doc] /\ Dated(task) /\ task # None
  BY NoneFact DEF IInv, TypeInv, DateInv, Dated, Contents
<1> HIDE DEF task
<1>4. /\ DOMAIN nav' = FlowFields /\ nav'.pc = "publish" /\ nav'.doc = nav.doc /\ nav'.kind = nav.kind
      /\ nav'.task = task
  BY <1>1 DEF IInv, TypeInv, FlowFields
<1>5. NavInv' BY <1>1, <1>2, <1>3, <1>4 DEF IInv, NavInv, Leaving
<1>6. StatusInv' BY <1>1, <1>2 DEF IInv, StatusInv
<1>7. /\ nav'.pc \in NavPcs \ {"wait", "check"} /\ nav'.doc \in Docs /\ nav'.kind \in {"load", "switch"}
      /\ nav'.task \in Contents \cup {None} /\ published' \in Contents \cup {None}
      /\ Dated(nav'.task) /\ Dated(published') /\ loading' \in BOOLEAN
      /\ loading' => queue = <<>> /\ pending = None
  BY <1>1, <1>2, <1>3, <1>4 DEF IInv, TypeInv, DateInv, NavPcs, PendingInv
<1> QED BY <1>1, <1>2, <1>4, <1>5, <1>6, <1>7, NavMoves

\* The end of a navigation, by failure or by its last step.
LEMMA NavEnds ==
    ASSUME IInv, UNCHANGED <<disk, screen, hook, queue, writing, save, edits>>,
           nav' = Idle, loading' = FALSE, nav.pc # "wait", status' \in {status, "error"}
    PROVE  IInv'
<1>1. UNCHANGED <<ui, past, published, newest, base, pending, timer, written>> BY DEF screen, hook
<1>2. /\ DOMAIN nav' = FlowFields /\ nav'.pc = "idle" /\ nav'.doc = ui.doc /\ nav'.kind = "load" /\ nav'.task = None
  BY DEF Idle, FlowFields
<1>3. NavInv' BY <1>1, <1>2 DEF IInv, NavInv, Leaving
<1>4. StatusInv' BY <1>1 DEF IInv, StatusInv
<1>5. /\ nav'.pc \in NavPcs \ {"wait", "check"} /\ nav'.doc \in Docs /\ nav'.kind \in {"load", "switch"}
      /\ nav'.task \in Contents \cup {None} /\ published' \in Contents \cup {None}
      /\ Dated(nav'.task) /\ Dated(published') /\ loading' \in BOOLEAN
  BY <1>1, <1>2 DEF IInv, TypeInv, DateInv, Dated, NavPcs, Contents
<1> QED BY <1>1, <1>2, <1>3, <1>4, <1>5, NavMoves

LEMMA ReadFailsInv ==
    ASSUME IInv, ReadFails
    PROVE  IInv'
<1>1. /\ nav.pc = "read" /\ nav' = Idle /\ loading' = (loading /\ nav.kind # "load") /\ status' \in {status, "error"}
      /\ UNCHANGED <<disk, screen, hook, queue, writing, save, edits>>
  BY DEF ReadFails, chain
<1>2. loading' = FALSE BY <1>1 DEF IInv, NavInv, TypeInv
<1> QED BY <1>1, <1>2, NavEnds

LEMMA LoadEndInv ==
    ASSUME IInv, LoadEnd
    PROVE  IInv'
BY NavEnds DEF LoadEnd, chain, counters

LEMMA PublishInv ==
    ASSUME IInv, PublishDoc
    PROVE  IInv'
<1>1. /\ nav.pc = "publish" /\ save.pc # "check" /\ published' = nav.task
      /\ nav' = (IF nav.kind = "load" THEN [nav EXCEPT !.pc = "refresh"] ELSE Idle)
      /\ status' = (IF nav.kind = "load" THEN "saved" ELSE status)
      /\ UNCHANGED <<disk, ui, past, newest, hook, queue, writing, save, edits, loading>>
  BY DEF PublishDoc, Awaiting, chain, counters
<1>2. UNCHANGED <<base, pending, timer, written>> BY <1>1 DEF hook
<1>3. /\ nav.task # None /\ nav.task.rev = disk[nav.task.doc] /\ written = ui /\ base = None
  BY <1>1 DEF IInv, NavInv, Leaving
<1>4. \/ /\ nav.kind = "load" /\ nav'.pc = "refresh" /\ nav'.kind = "load" /\ nav'.doc = nav.doc
         /\ nav'.task = nav.task /\ DOMAIN nav' = FlowFields
      \/ /\ nav.kind = "switch" /\ nav'.pc = "idle" /\ nav'.kind = "load" /\ nav'.doc = ui.doc
         /\ nav'.task = None /\ DOMAIN nav' = FlowFields
  BY <1>1 DEF IInv, TypeInv, FlowFields, Idle
<1>5. NavInv' BY <1>1, <1>2, <1>3, <1>4 DEF IInv, NavInv, Leaving
<1>6. StatusInv' BY <1>1, <1>3 DEF StatusInv
<1>7. /\ nav'.pc \in NavPcs \ {"wait", "check"} /\ nav'.doc \in Docs /\ nav'.kind \in {"load", "switch"}
      /\ nav'.task \in Contents \cup {None} /\ published' \in Contents \cup {None}
      /\ Dated(nav'.task) /\ Dated(published') /\ loading' \in BOOLEAN /\ DOMAIN nav' = FlowFields
      /\ loading' => queue = <<>> /\ pending = None
  BY <1>1, <1>4 DEF IInv, TypeInv, DateInv, Dated, NavPcs, PendingInv, Contents
<1> QED BY <1>1, <1>2, <1>5, <1>6, <1>7, NavMoves

\* What a navigation published is rendered: the document is replaced.
LEMMA RenderInv ==
    ASSUME IInv, Render
    PROVE  IInv'
<1>1. /\ published # None /\ ui' = published /\ published' = None /\ past' = {}
      /\ Effect(published, published) /\ (queue = <<>> \/ writing)
      /\ save.pc # "check" /\ nav.pc # "check"
      /\ UNCHANGED <<disk, newest, loading, writing, status, save, nav, edits>>
  BY DEF Render, Awaiting, counters
<1>2. Leaving BY <1>1 DEF Leaving
<1>3. /\ queue = <<>> /\ pending = None /\ writing = FALSE /\ DOMAIN queue = {}
      /\ written = ui /\ disk[ui.doc] = ui.rev
  BY <1>1, <1>2, NothingLeft
<1>4. /\ published \in Contents /\ published.doc \in Docs /\ published.rev = disk[published.doc]
      /\ nav.pc \in {"idle", "refresh"}
  BY <1>1 DEF IInv, TypeInv, NavInv, NavPcs, Contents
<1>5. /\ written' = Baseline(published, published) /\ base' = Unadopted(published)
      /\ queue' = Released(queue)
      /\ pending' = (IF loading \/ published = written' THEN None ELSE published)
      /\ timer' = (pending' # None)
  <2>1. TypeInv /\ PendingInv BY DEF IInv
  <2> QED BY <1>1, <1>3, <1>4, <2>1, EffectFacts
<1>6. queue' = <<>> /\ queue' \in Seq(Items) /\ DOMAIN queue' = {}
  <2>1. queue' \in Seq(Items) /\ queue' = <<>> BY <1>3, <1>5, ReleasedFacts DEF IInv, TypeInv
  <2> QED BY <2>1, QueueFacts
<1>7. /\ pending' = None /\ timer' = FALSE
      /\ \/ loading /\ written' = written /\ base' = published
         \/ ~loading /\ written' = published /\ base' = None
  BY <1>1, <1>5 DEF Baseline, Unadopted
<1>8. TypeInv' BY <1>1, <1>4, <1>6, <1>7 DEF IInv, TypeInv
<1>9. DateInv' BY <1>1, <1>6, <1>7 DEF IInv, DateInv, Dated
<1>10. ChainInv' BY <1>1, <1>3, <1>4, <1>6, <1>7 DEF ChainInv
<1>11. PendingInv' BY <1>1, <1>4, <1>6, <1>7 DEF PendingInv
<1>12. Waits(save, "save")' /\ Waits(nav, "nav")' BY <1>1, <1>6 DEF IInv, Waits
<1>13. NavInv' BY <1>1, <1>4 DEF IInv, NavInv, Leaving
<1>14. NewestInv' BY <1>1, <1>3, <1>4 DEF IInv, NewestInv
<1>15. StatusInv' BY <1>1, <1>4, <1>6 DEF StatusInv
<1> QED BY <1>8, <1>9, <1>10, <1>11, <1>12, <1>13, <1>14, <1>15 DEF IInv

-----------------------------------------------------------------------------
(* The theorems.                                                             *)
LEMMA InitInv == Init => IInv
<1> SUFFICES ASSUME Init PROVE IInv OBVIOUS
<1>1. PICK d \in Docs : ui = [doc |-> d, rev |-> 0] /\ written = [doc |-> d, rev |-> 0] BY DEF Init
<1>2. /\ disk = [e \in Docs |-> 0] /\ newest = disk /\ past = {} /\ published = None
      /\ loading = FALSE /\ base = None /\ pending = None /\ timer = FALSE
      /\ queue = <<>> /\ writing = FALSE /\ status = "saved" /\ save = Idle /\ nav = Idle /\ edits = 0
  BY DEF Init
<1>3. queue \in Seq(Items) /\ DOMAIN queue = {} BY <1>2, QueueFacts
<1>4. /\ Idle.pc = "idle" /\ Idle.kind = "load" /\ Idle.doc = d /\ Idle.task = None /\ DOMAIN Idle = FlowFields
  BY <1>1 DEF Idle, FlowFields
<1> HIDE DEF Idle
<1>5. TypeInv BY <1>1, <1>2, <1>3, <1>4 DEF TypeInv, Contents, NavPcs, SavePcs
<1>6. DateInv BY <1>1, <1>2, <1>3, <1>4 DEF DateInv, Dated
<1>7. ChainInv BY <1>1, <1>2, <1>3 DEF ChainInv
<1>8. PendingInv BY <1>2, <1>3 DEF PendingInv
<1>9. Waits(save, "save") /\ Waits(nav, "nav") BY <1>2, <1>3, <1>4 DEF Waits
<1>10. NavInv BY <1>2, <1>4 DEF NavInv, Leaving
<1>11. NewestInv BY <1>1, <1>2 DEF NewestInv
<1>12. StatusInv BY <1>1, <1>2, <1>3 DEF StatusInv
<1> QED BY <1>5, <1>6, <1>7, <1>8, <1>9, <1>10, <1>11, <1>12 DEF IInv

LEMMA StepInv == Careful /\ IInv /\ [Next]_vars /\ ~ slipped' => IInv'
<1> SUFFICES ASSUME Careful, IInv, [Next]_vars, ~ slipped' PROVE IInv' OBVIOUS
<1>1. CASE Edit BY <1>1, EditInv
<1>2. CASE Undo BY <1>2, UndoInv
<1>3. CASE TimerFires BY <1>3, TimerInv
<1>4. CASE Render BY <1>4, RenderInv
<1>5. CASE SkipWrite BY <1>5, SkipInv
<1>6. CASE StartWrite BY <1>6, StartInv
<1>7. CASE EndWrite BY <1>7, EndInv
<1>8. CASE FailWrite BY <1>8, FailInv
<1>9. CASE AskSave BY <1>9, AskSaveInv
<1>10. CASE SaveChecks BY <1>10, SaveChecksInv
<1>11. CASE SaveDone BY <1>11, SaveDoneInv
<1>12. CASE Navigate BY <1>12, NavigateInv
<1>13. CASE NavChecks BY <1>13, NavChecksInv
<1>14. CASE Leave BY <1>14, LeaveInv
<1>15. CASE Read BY <1>15, ReadInv
<1>16. CASE ReadFails BY <1>16, ReadFailsInv
<1>17. CASE PublishDoc BY <1>17, PublishInv
<1>18. CASE LoadEnd BY <1>18, LoadEndInv
<1>19. CASE UNCHANGED vars
  <2>1. UNCHANGED <<disk, ui, past, published, newest, loading, base, pending, timer, written,
                    queue, writing, status, save, nav, edits>>
    BY <1>19 DEF vars, screen, hook, chain, counters
  <2>2. TypeInv' /\ DateInv' BY <2>1 DEF IInv, TypeInv, DateInv, Dated
  <2>3. ChainInv' /\ PendingInv' BY <2>1 DEF IInv, ChainInv, PendingInv
  <2>4. Waits(save, "save")' /\ Waits(nav, "nav")' BY <2>1 DEF IInv, Waits
  <2>5. NavInv' /\ NewestInv' /\ StatusInv' BY <2>1 DEF IInv, NavInv, Leaving, NewestInv, StatusInv
  <2> QED BY <2>2, <2>3, <2>4, <2>5 DEF IInv
<1> QED
  BY <1>1, <1>2, <1>3, <1>4, <1>5, <1>6, <1>7, <1>8, <1>9, <1>10, <1>11, <1>12, <1>13, <1>14,
     <1>15, <1>16, <1>17, <1>18, <1>19 DEF Next

LEMMA SlippedStays ==
    ASSUME slipped, [Next]_vars PROVE slipped'
<1>1. CASE Edit \/ Undo BY <1>1 DEF Edit, Undo, Show
<1>2. CASE TimerFires \/ Render BY <1>2 DEF TimerFires, Render, screen
<1>3. CASE SkipWrite \/ StartWrite \/ EndWrite \/ FailWrite
  BY <1>3 DEF SkipWrite, StartWrite, EndWrite, FailWrite, screen
<1>4. CASE AskSave \/ SaveChecks \/ SaveDone BY <1>4 DEF AskSave, SaveChecks, SaveDone, Check, screen
<1>5. CASE Navigate \/ NavChecks \/ Leave BY <1>5 DEF Navigate, NavChecks, Check, Leave, screen
<1>6. CASE Read \/ ReadFails \/ PublishDoc \/ LoadEnd BY <1>6 DEF Read, ReadFails, PublishDoc, LoadEnd, screen
<1>7. CASE UNCHANGED vars BY <1>7 DEF vars, screen
<1> QED BY <1>1, <1>2, <1>3, <1>4, <1>5, <1>6, <1>7 DEF Next

\* The inductive invariant holds, for a careful user, until an edit slips in between
\* the flush of a load and its start.
THEOREM Invariance == ASSUME Careful PROVE Spec => [](slipped \/ IInv)
<1>1. (slipped \/ IInv) /\ [Next]_vars => (slipped \/ IInv)' BY StepInv, SlippedStays
<1> QED BY InitInv, <1>1, PTL DEF Spec

\* Whatever a careful user edits, saves and opens, the newest content of every
\* document is on the screen or on disk (usePersistence.ts, flushPendingSave), until
\* an edit falls between the flush of a load and its start, which the code may give
\* up (useFolder.ts:112).  Careful leaves out an undo during a write, and a write
\* that took effect and is reported as failed.
THEOREM NothingGivenUp == ASSUME Careful PROVE Spec => []NothingLost
<1>1. slipped \/ IInv => NothingLost
  <2> SUFFICES ASSUME IInv, NEW d \in Docs PROVE Retained(d) BY DEF NothingLost
  <2>1. CASE d = ui.doc
    <3>1. [doc |-> d, rev |-> newest[d]] = ui BY <2>1 DEF IInv, NewestInv, TypeInv, Contents
    <3> QED BY <3>1 DEF Retained
  <2>2. CASE d # ui.doc BY <2>2 DEF IInv, NewestInv, Retained
  <2> QED BY <2>1, <2>2
<1> QED BY Invariance, <1>1, PTL

\* The status "saved" does not lie about the content on the screen, until the same.
THEOREM SavedIsTrue == ASSUME Careful PROVE Spec => []SavedMeansOnDisk
<1>1. slipped \/ IInv => SavedMeansOnDisk BY DEF IInv, StatusInv, SavedMeansOnDisk
<1> QED BY Invariance, <1>1, PTL

\* A step that ends a flush is one of its checks, and it found nothing to save.
LEMMA PassesSaved ==
    ASSUME IInv, NEW f, NEW f1, NEW caller, DOMAIN f = FlowFields, Waits(f, caller),
           Check(f, f1, caller), Passes(f, f1)
    PROVE  disk[ui.doc] = ui.rev
<1>1. written = f.task /\ loading = FALSE /\ ui # None /\ f.task.doc = ui.doc
  BY NoneFact DEF IInv, Waits, Passes, TypeInv
<1>2. Settled(f.task)
  <2>1. ~Flush(f, f1, caller)
    <3> SUFFICES ASSUME Flush(f, f1, caller) PROVE FALSE OBVIOUS
    <3>1. f1 = [f EXCEPT !.pc = "wait", !.task = ui] BY <1>1 DEF Flush, Snapshot
    <3>2. f1.pc = "wait" BY <3>1 DEF FlowFields
    <3> QED BY <3>2 DEF Passes
  <2> QED BY <2>1 DEF Check
<1>3. written = ui BY <1>1, <1>2 DEF Settled, SameDocument, Snapshot
<1> QED BY <1>3 DEF IInv, ChainInv

\* A flush returns only once what is on the screen is on disk, until the same.
THEOREM FlushesSave == ASSUME Careful PROVE Spec => FlushSaves
<1> DEFINE Saves == ~ slipped /\ (Passes(save, save') \/ Passes(nav, nav')) => disk[ui.doc] = ui.rev
<1>1. (slipped \/ IInv) /\ [Next]_vars => [Saves]_vars
  <2> SUFFICES ASSUME IInv, Next, Passes(save, save') \/ Passes(nav, nav')
               PROVE  disk[ui.doc] = ui.rev
    OBVIOUS
  <2>1. ~Awaiting BY DEF Awaiting, Passes
  <2>2. SkipWrite \/ StartWrite \/ SaveChecks \/ SaveDone \/ NavChecks
    BY <2>1 DEF Next, Edit, Undo, TimerFires, Render, EndWrite, FailWrite, AskSave, Navigate, Leave, Read,
                ReadFails, PublishDoc, LoadEnd
  <2>3. CASE SkipWrite
    <3>1. save' = Resume(save, "save", TRUE) /\ nav' = Resume(nav, "nav", TRUE) BY <2>3 DEF SkipWrite, Settle
    <3> QED BY <3>1 DEF Resume, Passes, Idle
  <2>4. CASE StartWrite BY <2>4 DEF StartWrite, Passes
  <2>5. CASE SaveChecks
    <3>1. Check(save, save', "save") /\ nav' = nav BY <2>5 DEF SaveChecks
    <3>2. Passes(save, save') BY <3>1 DEF Passes
    <3> QED BY <3>1, <3>2, PassesSaved DEF IInv, TypeInv
  <2>6. CASE SaveDone BY <2>6 DEF SaveDone, Passes
  <2>7. CASE NavChecks
    <3>1. Check(nav, nav', "nav") /\ save' = save BY <2>7 DEF NavChecks
    <3>2. Passes(nav, nav') BY <3>1 DEF Passes
    <3> QED BY <3>1, <3>2, PassesSaved DEF IInv, TypeInv
  <2> QED BY <2>2, <2>3, <2>4, <2>5, <2>6, <2>7
<1> QED BY Invariance, <1>1, PTL DEF Spec, FlushSaves
=============================================================================
