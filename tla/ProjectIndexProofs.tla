------------------------ MODULE ProjectIndexProofs -------------------------
(* Machine-checked facts about ProjectIndex, for any windows, operations and *)
(* number of failures: the revision and the lock keep saves from undoing     *)
(* each other, the editor lease keeps a recording in its folder while it is  *)
(* open, and no text is lost or doubled by what is done with the materials.  *)
EXTENDS ProjectIndex, FiniteSetTheorems, WellFoundedInduction, TLAPS

-----------------------------------------------------------------------------
(* The inductive invariant.                                                  *)
Fields == {"rev", "log", "trash", "gone", "sessions"}
IsIndex(ix) == /\ DOMAIN ix = Fields /\ ix.rev \in Nat
               /\ \A s \in DOMAIN ix.sessions \cup DOMAIN ix.gone : s \in 1 .. fresh

WorkFields == {"pc", "call", "next", "base", "old", "oldMedia", "undo", "undoMedia"}
Busy(w) == work[w].pc # "idle"
Asks(w) == work[w].pc \in {"save", "publish"}
Undoes(w) == work[w].pc = "putback"

TypeInv ==
    /\ calls \in Nat /\ fresh \in Nat /\ IsIndex(index)
    /\ index.log \subseteq 1 .. calls /\ done \subseteq 1 .. calls /\ failed \subseteq 1 .. calls
    /\ DOMAIN work = Windows /\ DOMAIN snap = Windows /\ DOMAIN editor = Windows
    /\ \A w \in Windows : work[w].pc \in {"idle", "save", "publish", "putback", "clean", "undo"}
    /\ \A w \in Windows : snap[w] # None => IsIndex(snap[w])
    /\ \A w \in Windows : Busy(w) => DOMAIN work[w] = WorkFields /\ work[w].call \in 1 .. calls
    /\ \A w \in Windows : work[w].pc = "save" => snap[w] # None
    /\ \A w \in Windows : Asks(w) => IsIndex(work[w].next)
    /\ \A w \in Windows : Undoes(w) => IsIndex(work[w].base)
    /\ \A v, w \in Windows : Busy(v) /\ Busy(w) /\ work[v].call = work[w].call => v = w

\* One window writes at a time.
LockInv == \A w \in Windows : work[w].pc \in {"publish", "putback"} => lock = w

\* A snapshot is of an earlier revision, or it is the index: also of the one that
\* is put back if a write has failed.
Agrees(ix, jx) == ix.rev <= jx.rev /\ (ix.rev = jx.rev => ix = jx)
SnapInv ==
    /\ \A v \in Windows : snap[v] # None => Agrees(snap[v], index)
    /\ \A v, w \in Windows : snap[v] # None /\ Undoes(w) => Agrees(snap[v], work[w].base)

\* A save adds its own call to what the index has, or is refused.
Follows(nx, ix) == nx.rev = ix.rev /\ nx.log = ix.log
SaveInv ==
    /\ \A w \in Windows : work[w].pc = "save" => Follows(work[w].next, snap[w])
    /\ \A w \in Windows : work[w].pc = "publish" => Follows(work[w].next, index)
    /\ \A w \in Windows : Undoes(w) =>
          /\ work[w].base.log \subseteq index.log /\ work[w].call \notin work[w].base.log
          /\ index = work[w].base \/ index.rev > work[w].base.rev
          /\ done \subseteq work[w].base.log
    /\ \A w \in Windows : Asks(w) => work[w].call \notin index.log
    /\ \A w \in Windows : Asks(w) \/ Undoes(w) => work[w].call \notin failed \cup done
    /\ NoLostUpdate

\* Who has no lease changes none of the recordings there are, and adds none.
Keeps(nx, ix) ==
    /\ \A s \in DOMAIN ix.sessions : s \in DOMAIN nx.sessions /\ nx.sessions[s] = ix.sessions[s]
    /\ \A s \in DOMAIN nx.sessions : s \in DOMAIN ix.sessions \/ DOMAIN nx.sessions[s] = {}
Manages(w) == lease = w /\ editor[w] = None
LeaseInv ==
    /\ \A w \in Windows : editor[w] # None => lease = w
    /\ \A w \in Windows : Undoes(w) => Manages(w) \/ Keeps(index, work[w].base)
    /\ \A w \in Windows : work[w].pc = "save" => Manages(w) \/ Keeps(work[w].next, snap[w])
    /\ \A w \in Windows : work[w].pc = "publish" => Manages(w) \/ Keeps(work[w].next, index)

IInv == TypeInv /\ LockInv /\ SnapInv /\ SaveInv /\ LeaseInv
-----------------------------------------------------------------------------
(* What an operation asks for comes of the index it knows.                   *)
Derived(nx, ix, n) ==
    /\ DOMAIN nx = Fields /\ Follows(nx, ix)
    /\ \A s \in DOMAIN nx.sessions \cup DOMAIN nx.gone :
           s \in DOMAIN ix.sessions \cup DOMAIN ix.gone \cup {n + 1}
AskFields == {"next", "folders", "media", "makes", "drops", "old", "oldMedia", "undo"}

LEMMA DomainFacts ==
    ASSUME NEW f, NEW g, NEW a, NEW b
    PROVE  /\ DOMAIN Without(f, a) = DOMAIN f \ {a}
           /\ DOMAIN ((a :> b) @@ g) = {a} \cup DOMAIN g
           /\ \A t \in DOMAIN g : t # a => ((a :> b) @@ g)[t] = g[t]
<1>1. DOMAIN Without(f, a) = DOMAIN f \ {a} BY DEF Without, Restrict
<1>2. DOMAIN (a :> b) = {a} BY DEF :>
<1> QED BY <1>1, <1>2 DEF @@

LEMMA AskingFacts ==
    ASSUME NEW ix, NEW folds
    PROVE  /\ DOMAIN Asking(ix) = AskFields /\ Asking(ix).next = ix
           /\ DOMAIN Staging(ix, folds) = AskFields /\ Staging(ix, folds).next = ix
<1>1. DOMAIN Asking(ix) = AskFields /\ Asking(ix).next = ix BY DEF Asking, AskFields
<1> QED BY <1>1 DEF Staging, AskFields

LEMMA PutSessionFacts ==
    ASSUME NEW ix, DOMAIN ix = Fields, NEW s, NEW recs, NEW n
    PROVE  Derived(PutSession(ix, s, recs), ix, n)
BY DEF PutSession, Derived, Follows, Fields

LEMMA PutTwice ==
    ASSUME NEW ix, DOMAIN ix = Fields, NEW s, NEW recs, NEW d, NEW r, NEW rec, NEW n
    PROVE  Derived(PutRecording(PutSession(ix, s, recs), d, r, rec), ix, n)
<1> DEFINE jx == PutSession(ix, s, recs)
<1>1. DOMAIN jx = Fields /\ Derived(jx, ix, n) BY PutSessionFacts DEF Derived
<1>2. \A q : Derived(PutSession(jx, d, q), jx, n)
  <2> HIDE DEF jx
  <2> TAKE q
  <2> QED BY <1>1, PutSessionFacts
<1> HIDE DEF jx
<1>3. Derived(PutRecording(jx, d, r, rec), jx, n) BY <1>2 DEF PutRecording
<1> QED BY <1>1, <1>3 DEF Derived, Follows, jx

LEMMA DiscardedFacts ==
    ASSUME NEW ix, DOMAIN ix = Fields, NEW s, NEW recs, NEW item, NEW n
    PROVE  Derived(Discarded(ix, s, recs, item), ix, n)
<1> DEFINE jx == PutSession(ix, s, recs)
<1>1. Derived(jx, ix, n) BY PutSessionFacts
<1> HIDE DEF jx
<1>2. Derived([jx EXCEPT !.trash = @ \cup {item}], ix, n) BY <1>1 DEF Derived, Follows, Fields
<1> QED BY <1>2 DEF Discarded, jx

\* Each operation of the management of materials.
LEMMA StagedFacts ==
    ASSUME NEW ix, NEW folds, NEW a, NEW b, NEW c, NEW d
    PROVE  /\ [Asking(ix) EXCEPT !.folders = a, !.media = b, !.makes = c, !.undo = d].next = ix
           /\ [Asking(ix) EXCEPT !.drops = a, !.old = b, !.oldMedia = c].next = ix
           /\ [Staging(ix, folds) EXCEPT !.makes = c, !.undo = d].next = ix
           /\ [Staging(ix, folds) EXCEPT !.makes = c].next = ix
           /\ [Staging(ix, folds) EXCEPT !.media = b].next = ix
BY AskingFacts DEF AskFields

LEMMA ImportDerived ==
    ASSUME NEW ix, DOMAIN ix = Fields, NEW folds, NEW s, NEW r, NEW n, NEW new, NEW storage, NEW models
    PROVE  /\ Derived(ImportAudio(ix, s, n, storage, models).next, ix, n)
           /\ Derived(ImportText(ix, s, n, new).next, ix, n)
           /\ Derived(AppendText(ix, folds, s, r, n, new).next, ix, n)
           /\ Derived(ImportExisting(ix, s, r, n, new).next, ix, n)
           /\ Derived(Relink(ix, s, r).next, ix, n)
<1>1. \A id, rec : Derived(PutRecording(ix, s, id, rec), ix, n) BY PutSessionFacts DEF PutRecording
<1>3. Derived(ImportAudio(ix, s, n, storage, models).next, ix, n)
  <2> DEFINE copy == IF storage = "copy" THEN n + 1 ELSE 0
             nx == PutRecording(ix, s, n + 1, Recording(storage, n + 1, FALSE, copy))
  <2>1. Derived(nx, ix, n) BY <1>1
  <2> HIDE DEF nx
  <2>2. \A a, b, c, d : [Asking(nx) EXCEPT !.folders = a, !.media = b, !.makes = c, !.undo = d].next = nx
    BY StagedFacts
  <2>3. \E a, b, c, d : ImportAudio(ix, s, n, storage, models)
                          = [Asking(nx) EXCEPT !.folders = a, !.media = b, !.makes = c, !.undo = d]
    BY Zenon DEF ImportAudio, nx
  <2> QED BY <2>1, <2>2, <2>3
<1>4. Derived(ImportText(ix, s, n, new).next, ix, n)
  <2> DEFINE nx == PutRecording(ix, s, n + 1, Recording("none", n + 1, FALSE, 0))
  <2>1. Derived(nx, ix, n) BY <1>1
  <2> HIDE DEF nx
  <2>2. \A f, c, d : [Staging(nx, f) EXCEPT !.makes = c, !.undo = d].next = nx BY StagedFacts
  <2>3. \E f, c, d : ImportText(ix, s, n, new) = [Staging(nx, f) EXCEPT !.makes = c, !.undo = d]
    BY Zenon DEF ImportText, nx
  <2> QED BY <2>1, <2>2, <2>3
<1>5. Derived(AppendText(ix, folds, s, r, n, new).next, ix, n)
  <2> DEFINE nx == PutRecording(ix, s, r, In(ix.sessions[s][r], n + 1))
  <2>1. Derived(nx, ix, n) BY <1>1
  <2> HIDE DEF nx
  <2>2. AppendText(ix, folds, s, r, n, new).next = nx BY StagedFacts DEF AppendText, nx
  <2> QED BY <2>1, <2>2
<1>6. Derived(ImportExisting(ix, s, r, n, new).next, ix, n)
  <2> DEFINE nx == PutRecording(ix, s, r, In(ix.sessions[s][r], n + 1))
  <2>1. Derived(nx, ix, n) BY <1>1
  <2> HIDE DEF nx
  <2>2. ImportExisting(ix, s, r, n, new).next = nx BY StagedFacts DEF ImportExisting, nx
  <2> QED BY <2>1, <2>2
<1>7. Derived(Relink(ix, s, r).next, ix, n) BY <1>1, AskingFacts DEF Relink
<1> QED BY <1>3, <1>4, <1>5, <1>6, <1>7

LEMMA MoveDerived ==
    ASSUME NEW ix, DOMAIN ix = Fields, NEW folds, NEW s, NEW d, NEW r, NEW n
    PROVE  Derived(Move(ix, folds, s, d, r, n).next, ix, n)
<1>1. \A recs, rec : Derived(PutRecording(PutSession(ix, s, recs), d, r, rec), ix, n) BY PutTwice
<1>2. \A ask, b : DOMAIN ask = AskFields => [ask EXCEPT !.media = b].next = ask.next BY DEF AskFields
<1> QED BY <1>1, <1>2, AskingFacts DEF Move

LEMMA ReassignDerived ==
    ASSUME NEW ix, DOMAIN ix = Fields, NEW folds, NEW s, NEW src, NEW dst, NEW ids, NEW n
    PROVE  Derived(Reassign(ix, folds, s, src, dst, ids, n).next, ix, n)
BY PutSessionFacts, AskingFacts DEF Reassign

LEMMA TrashDerived ==
    ASSUME NEW ix, DOMAIN ix = Fields, NEW folds, NEW s, NEW r, NEW i, NEW n
    PROVE  /\ Derived(TrashAll(ix, s, r).next, ix, n)
           /\ Derived(TrashAudio(ix, folds, s, r, n).next, ix, n)
           /\ Derived(TrashModel(ix, folds, s, r, i, n).next, ix, n)
<1>1. \A recs, item : Derived(Discarded(ix, s, recs, item), ix, n) BY DiscardedFacts
<1>2. Derived(TrashAll(ix, s, r).next, ix, n) BY <1>1, AskingFacts DEF TrashAll
<1>3. Derived(TrashAudio(ix, folds, s, r, n).next, ix, n) BY <1>1, AskingFacts DEF TrashAudio
<1>4. Derived(TrashModel(ix, folds, s, r, i, n).next, ix, n) BY <1>1, AskingFacts DEF TrashModel
<1> QED BY <1>2, <1>3, <1>4

LEMMA RestoreDerived ==
    ASSUME NEW ix, DOMAIN ix = Fields, NEW folds, NEW item, NEW n
    PROVE  Derived(RestoreMaterial(ix, folds, item, n).next, ix, n)
<1> DEFINE out == [ix EXCEPT !.trash = @ \ {item}]
<1>1. DOMAIN out = Fields /\ Derived(out, ix, n) BY DEF Derived, Follows, Fields
<1> HIDE DEF out
<1>2. \A recs : Derived(PutSession(out, item.session, recs), ix, n)
  <2> TAKE recs
  <2>1. Derived(PutSession(out, item.session, recs), out, n) BY <1>1, PutSessionFacts
  <2> QED BY <1>1, <2>1 DEF Derived, Follows
<1> DEFINE to(r, rec) == PutSession(out, item.session, (r :> rec) @@
                             Restrict(ix.sessions[item.session], DOMAIN ix.sessions[item.session]
                                         \ KeptOf(ix.sessions[item.session], item)))
<1>3. \A r, rec : Derived(to(r, rec), ix, n) BY <1>2
<1> HIDE DEF to
<1>4. \E r, rec, staged :
         RestoreMaterial(ix, folds, item, n) \in {Staging(to(r, rec), staged), Asking(to(r, rec))}
  BY Zenon DEF RestoreMaterial, to, out
<1> QED BY <1>3, <1>4, AskingFacts

LEMMA SessionDerived ==
    ASSUME NEW ix, DOMAIN ix = Fields, NEW folds, NEW s, NEW n
    PROVE  /\ s \in DOMAIN ix.sessions => Derived(TrashSession(ix, s).next, ix, n)
           /\ s \in DOMAIN ix.gone => Derived(RestoreSession(ix, s).next, ix, n)
           /\ Derived(AddSession(ix, n).next, ix, n)
           /\ n + 1 \notin DOMAIN ix.sessions => Keeps(AddSession(ix, n).next, ix)
           /\ Derived(ClearTrash(ix, folds).next, ix, n)
<1>1. ASSUME s \in DOMAIN ix.sessions PROVE Derived(TrashSession(ix, s).next, ix, n)
  <2> DEFINE nx == [ix EXCEPT !.sessions = Without(@, s), !.trash = @ \ ItemsOf(ix, s),
                              !.gone = (s :> [recs |-> ix.sessions[s], trash |-> ItemsOf(ix, s)]) @@ @]
  <2>1. /\ DOMAIN nx = Fields /\ Follows(nx, ix)
        /\ nx.sessions = Without(ix.sessions, s)
        /\ nx.gone = (s :> [recs |-> ix.sessions[s], trash |-> ItemsOf(ix, s)]) @@ ix.gone
    BY DEF Follows, Fields
  <2>2. DOMAIN nx.sessions = DOMAIN ix.sessions \ {s} /\ DOMAIN nx.gone = {s} \cup DOMAIN ix.gone
  <3>1. DOMAIN ((s :> [recs |-> ix.sessions[s], trash |-> ItemsOf(ix, s)]) @@ ix.gone)
            = {s} \cup DOMAIN ix.gone
    BY Zenon, DomainFacts
  <3> HIDE DEF nx
  <3> QED BY Zenon, <2>1, <3>1, DomainFacts
  <2>3. Derived(nx, ix, n) BY <1>1, <2>1, <2>2 DEF Derived
  <2> HIDE DEF nx
  <2>4. TrashSession(ix, s) = Asking(nx) BY Zenon DEF TrashSession, nx
  <2> QED BY <2>3, <2>4, AskingFacts
<1>2. ASSUME s \in DOMAIN ix.gone PROVE Derived(RestoreSession(ix, s).next, ix, n)
  <2> DEFINE nx == [ix EXCEPT !.sessions = (s :> ix.gone[s].recs) @@ @, !.trash = @ \cup ix.gone[s].trash,
                              !.gone = Without(@, s)]
  <2>1. /\ DOMAIN nx = Fields /\ Follows(nx, ix)
        /\ nx.sessions = (s :> ix.gone[s].recs) @@ ix.sessions /\ nx.gone = Without(ix.gone, s)
    BY DEF Follows, Fields
  <2>2. DOMAIN nx.sessions = {s} \cup DOMAIN ix.sessions /\ DOMAIN nx.gone = DOMAIN ix.gone \ {s}
  <3>1. DOMAIN ((s :> ix.gone[s].recs) @@ ix.sessions) = {s} \cup DOMAIN ix.sessions
    BY Zenon, DomainFacts
  <3> HIDE DEF nx
  <3> QED BY Zenon, <2>1, <3>1, DomainFacts
  <2>3. Derived(nx, ix, n) BY <1>2, <2>1, <2>2 DEF Derived
  <2> HIDE DEF nx
  <2>4. RestoreSession(ix, s) = Asking(nx) BY Zenon DEF RestoreSession, nx
  <2> QED BY <2>3, <2>4, AskingFacts
<1>3. /\ Derived(AddSession(ix, n).next, ix, n)
      /\ n + 1 \notin DOMAIN ix.sessions => Keeps(AddSession(ix, n).next, ix)
  <2> DEFINE joined == ((n + 1) :> Empty) @@ ix.sessions
             nx == [ix EXCEPT !.sessions = joined]
  <2>0. n + 1 \notin DOMAIN ix.sessions => DOMAIN joined[n + 1] = {}
  <3> DEFINE m == n + 1
  <3> HIDE DEF m
  <3>1. m \in DOMAIN (m :> Empty) /\ (m :> Empty)[m] = Empty BY DEF :>
  <3>2. ((m :> Empty) @@ ix.sessions)[m] = Empty BY <3>1 DEF @@
  <3>3. DOMAIN Empty = {} BY DEF Empty
  <3> QED BY Zenon, <3>2, <3>3 DEF m
  <2>1. /\ DOMAIN joined = {n + 1} \cup DOMAIN ix.sessions
        /\ \A t \in DOMAIN ix.sessions : t # n + 1 => joined[t] = ix.sessions[t]
  <3> DEFINE m == n + 1
  <3> HIDE DEF m
  <3>1. DOMAIN ((m :> Empty) @@ ix.sessions) = {m} \cup DOMAIN ix.sessions BY Zenon, DomainFacts
  <3>2. \A t \in DOMAIN ix.sessions : t # m => ((m :> Empty) @@ ix.sessions)[t] = ix.sessions[t]
    BY DEF :>, @@
  <3> QED BY Zenon, <3>1, <3>2 DEF m
  <2>2. AddSession(ix, n) = Asking(nx) BY Zenon DEF AddSession
  <2> HIDE DEF joined
  <2>3. /\ DOMAIN nx = Fields /\ Follows(nx, ix) /\ nx.gone = ix.gone /\ nx.sessions = joined
    BY DEF Follows, Fields
  <2> HIDE DEF nx
  <2>4. Derived(nx, ix, n) /\ (n + 1 \notin DOMAIN ix.sessions => Keeps(nx, ix))
    BY <2>0, <2>1, <2>3 DEF Derived, Keeps
  <2> QED BY <2>2, <2>4, AskingFacts
<1>4. Derived(ClearTrash(ix, folds).next, ix, n)
  <2> DEFINE nx == [ix EXCEPT !.trash = {}, !.gone = Empty]
  <2>1. DOMAIN nx = Fields /\ Follows(nx, ix) /\ nx.gone = Empty /\ nx.sessions = ix.sessions
    BY DEF Follows, Fields
  <2>2. Derived(nx, ix, n) BY <2>1 DEF Derived, Empty
  <2> HIDE DEF nx
  <2>3. \A ask, a, b, c : DOMAIN ask = AskFields
            => [ask EXCEPT !.drops = a, !.old = b, !.oldMedia = c].next = ask.next
    BY DEF AskFields
  <2> QED BY <2>2, <2>3, AskingFacts DEF ClearTrash, nx
<1> QED BY <1>1, <1>2, <1>3, <1>4
-----------------------------------------------------------------------------
(* The three ways to start a save, and what a step of one window leaves of    *)
(* the others.                                                               *)
Only(w) == /\ DOMAIN work' = Windows /\ DOMAIN snap' = Windows /\ DOMAIN editor' = Windows
           /\ \A v \in Windows \ {w} : work'[v] = work[v] /\ snap'[v] = snap[v] /\ editor'[v] = editor[v]
Starts(w, nx, p) ==
    /\ work[w].pc = "idle" /\ snap[w] # None
    /\ Only(w) /\ snap'[w] = snap[w] /\ editor'[w] = editor[w]
    /\ work'[w].pc = p /\ DOMAIN work'[w] = WorkFields
    /\ work'[w].call = calls + 1 /\ work'[w].next = nx
    /\ calls' = calls + 1 /\ fresh' = fresh + 3 /\ UNCHANGED <<index, done, failed>>
Managing(w) == \E nx : /\ Derived(nx, snap[w], fresh) /\ Starts(w, nx, "save")
                       /\ lease = None /\ lease' = w /\ lock' = lock
Keeping(w) == \E nx : /\ Derived(nx, snap[w], fresh) /\ Keeps(nx, snap[w]) /\ Starts(w, nx, "save")
                      /\ lease' = lease /\ lock' = lock
Renaming(w) == /\ Starts(w, index, "publish") /\ lock = None /\ lock' = w /\ lease' = w
               /\ editor[w] = None => lease = None

LEMMA BegunStarts ==
    ASSUME TypeInv, NEW w \in Windows, Ready(w), NEW ask, NEW p, Begun(w, ask, p), UNCHANGED index
    PROVE  Starts(w, ask.next, p)
BY DEF TypeInv, Ready, Begun, Starts, Only, WorkFields, Call, reports

LEMMA ManageStarts ==
    ASSUME TypeInv, NEW w \in Windows, Ready(w), NEW ask, Manage(w, ask), Derived(ask.next, snap[w], fresh)
    PROVE  Managing(w)
BY BegunStarts DEF Manage, LeaseTaken, Managing

LEMMA ImportStarts ==
    ASSUME TypeInv, NEW w \in Windows, Import(w) \/ RelinkMedia(w) \/ MoveRecording(w) \/ ReassignManuscript(w)
    PROVE  Managing(w)
<1>1. DOMAIN snap[w] = Fields /\ Ready(w)
  BY DEF TypeInv, IsIndex, Import, RelinkMedia, MoveRecording, ReassignManuscript, Ready
<1>2. \A ask : Manage(w, ask) /\ Derived(ask.next, snap[w], fresh) => Managing(w) BY <1>1, ManageStarts
<1>3. CASE Import(w) BY <1>1, <1>2, <1>3, ImportDerived DEF Import
<1>4. CASE RelinkMedia(w) BY <1>1, <1>2, <1>4, ImportDerived DEF RelinkMedia
<1>5. CASE MoveRecording(w) BY <1>1, <1>2, <1>5, MoveDerived DEF MoveRecording
<1>6. CASE ReassignManuscript(w)
  BY <1>1, <1>2, <1>6, ReassignDerived DEF ReassignManuscript
<1> QED BY <1>3, <1>4, <1>5, <1>6

LEMMA TrashStarts ==
    ASSUME TypeInv, NEW w \in Windows, Trash(w) \/ TrashInterview(w) \/ Restore(w) \/ Clear(w)
    PROVE  Managing(w)
<1>1. DOMAIN snap[w] = Fields /\ Ready(w)
  BY DEF TypeInv, IsIndex, Trash, TrashInterview, Restore, Clear, Ready
<1>2. \A ask : Manage(w, ask) /\ Derived(ask.next, snap[w], fresh) => Managing(w) BY <1>1, ManageStarts
<1>3. CASE Trash(w) BY <1>1, <1>2, <1>3, TrashDerived DEF Trash
<1>4. CASE TrashInterview(w) BY <1>1, <1>2, <1>4, SessionDerived DEF TrashInterview, Sessions
<1>5. CASE Restore(w) BY <1>1, <1>2, <1>5, SessionDerived, RestoreDerived DEF Restore
<1>6. CASE Clear(w) BY <1>1, <1>2, <1>6, SessionDerived DEF Clear
<1> QED BY <1>3, <1>4, <1>5, <1>6

LEMMA MetadataStarts ==
    ASSUME TypeInv, NEW w \in Windows, Describe(w) \/ CreateSession(w)
    PROVE  Keeping(w)
<1>1. Ready(w) BY DEF Describe, CreateSession
<1>2. DOMAIN snap[w] = Fields /\ fresh + 1 \notin DOMAIN snap[w].sessions
  BY <1>1 DEF Ready, TypeInv, IsIndex
<1>3. ASSUME NEW ask, Metadata(w, ask), Derived(ask.next, snap[w], fresh), Keeps(ask.next, snap[w])
      PROVE  Keeping(w)
  BY <1>1, <1>3, BegunStarts DEF Metadata, Keeping, ends
<1>4. Derived(snap[w], snap[w], fresh) /\ Keeps(snap[w], snap[w])
  BY <1>2 DEF Derived, Follows, Keeps
<1>5. CASE Describe(w) BY <1>3, <1>4, <1>5, AskingFacts DEF Describe
<1>6. CASE CreateSession(w) BY <1>2, <1>3, <1>6, SessionDerived DEF CreateSession
<1> QED BY <1>5, <1>6

LEMMA RenameStarts ==
    ASSUME TypeInv, NEW w \in Windows, Rename(w)
    PROVE  Renaming(w)
<1>1. Starts(w, Asking(index).next, "publish") BY BegunStarts DEF Rename
<1> QED BY <1>1, AskingFacts DEF Rename, Renaming, LeaseTaken
-----------------------------------------------------------------------------
(* Starting a save preserves the invariant.                                  *)
LEMMA StartTyped ==
    ASSUME TypeInv, NEW w \in Windows, NEW nx, NEW p \in {"save", "publish"}, Starts(w, nx, p),
           NEW ix, IsIndex(ix), Derived(nx, ix, fresh)
    PROVE  TypeInv' /\ IsIndex(nx)'
<1>1. \A jx : IsIndex(jx) => IsIndex(jx)' BY DEF TypeInv, IsIndex, Starts
<1>2. IsIndex(nx)' BY DEF TypeInv, IsIndex, Starts, Derived, Follows
<1>3. /\ calls' \in Nat /\ fresh' \in Nat /\ IsIndex(index)'
      /\ index'.log \subseteq 1 .. calls' /\ done' \subseteq 1 .. calls' /\ failed' \subseteq 1 .. calls'
      /\ DOMAIN work' = Windows /\ DOMAIN snap' = Windows /\ DOMAIN editor' = Windows
  BY <1>1 DEF TypeInv, Starts, Only
<1>4. \A v \in Windows : /\ work'[v].pc \in {"idle", "save", "publish", "putback", "clean", "undo"}
                         /\ snap'[v] # None => IsIndex(snap[v])'
                         /\ Busy(v)' => DOMAIN work'[v] = WorkFields /\ work'[v].call \in 1 .. calls'
                         /\ work'[v].pc = "save" => snap'[v] # None
                         /\ Asks(v)' => IsIndex(work[v].next)'
                         /\ Undoes(v)' => IsIndex(work[v].base)'
  BY <1>1, <1>2 DEF TypeInv, Starts, Only, Busy, Asks, Undoes
<1>5. \A u, v \in Windows : Busy(u)' /\ Busy(v)' /\ work'[u].call = work'[v].call => u = v
  BY DEF TypeInv, Starts, Only, Busy
<1> QED BY <1>2, <1>3, <1>4, <1>5 DEF TypeInv

LEMMA StartSaves ==
    ASSUME IInv, NEW w \in Windows, NEW nx, NEW p \in {"save", "publish"}, Starts(w, nx, p),
           p = "save" => Follows(nx, snap[w]), p = "publish" => nx = index
    PROVE  SnapInv' /\ SaveInv'
<1>1. SnapInv' BY DEF IInv, SnapInv, Starts, Only, Undoes
<1>2. \A v \in Windows : /\ work'[v].pc = "save" => Follows(work'[v].next, snap'[v])
                         /\ work'[v].pc = "publish" => Follows(work'[v].next, index')
  BY DEF IInv, SaveInv, Starts, Only, Follows
<1>3. \A v \in Windows : Undoes(v)' => v # w /\ Undoes(v) /\ work'[v] = work[v]
  BY DEF Starts, Only, Undoes
<1>4. calls + 1 \notin index.log \cup failed \cup done BY DEF IInv, TypeInv
<1>5. \A v \in Windows : /\ Asks(v)' => work'[v].call \notin index'.log
                         /\ Asks(v)' \/ Undoes(v)' => work'[v].call \notin failed' \cup done'
  BY <1>4 DEF IInv, SaveInv, Starts, Only, Asks, Undoes
<1>6. NoLostUpdate' BY DEF IInv, SaveInv, NoLostUpdate, Starts
<1>7. \A v \in Windows : Undoes(v)' =>
         /\ work'[v].base.log \subseteq index'.log /\ work'[v].call \notin work'[v].base.log
         /\ index' = work'[v].base \/ index'.rev > work'[v].base.rev
         /\ done' \subseteq work'[v].base.log
  BY <1>3 DEF IInv, SaveInv, Starts
<1> QED BY <1>1, <1>2, <1>5, <1>6, <1>7 DEF SaveInv

LEMMA ManagingInv ==
    ASSUME IInv, NEW w \in Windows, Managing(w)
    PROVE  IInv'
<1>1. PICK nx : /\ Derived(nx, snap[w], fresh) /\ Starts(w, nx, "save")
                /\ lease = None /\ lease' = w /\ lock' = lock
  BY DEF Managing
<1>2. TypeInv' BY <1>1, StartTyped DEF IInv, TypeInv, Starts
<1>3. SnapInv' /\ SaveInv' BY <1>1, StartSaves DEF Derived
<1>4. LockInv' BY <1>1 DEF IInv, LockInv, Starts, Only
<1>5. \A v \in Windows : editor[v] = None /\ editor'[v] = None
  BY <1>1, NoneAssumption DEF IInv, LeaseInv, Starts, Only
<1>6. \A v \in Windows : Undoes(v)' => v # w /\ Undoes(v) /\ work'[v] = work[v] /\ ~ Manages(v)
  BY <1>1, NoneAssumption DEF Starts, Only, Undoes, Manages
<1>7. \A v \in Windows : Undoes(v)' => Keeps(index', work'[v].base)
  BY <1>1, <1>6 DEF IInv, LeaseInv, Starts
<1>8. LeaseInv'
  BY <1>1, <1>5, <1>7, NoneAssumption DEF IInv, LeaseInv, Manages, Starts, Only
<1> QED BY <1>2, <1>3, <1>4, <1>8 DEF IInv

LEMMA KeepingInv ==
    ASSUME IInv, NEW w \in Windows, Keeping(w)
    PROVE  IInv'
<1>1. PICK nx : /\ Derived(nx, snap[w], fresh) /\ Keeps(nx, snap[w]) /\ Starts(w, nx, "save")
                /\ lease' = lease /\ lock' = lock
  BY DEF Keeping
<1>2. TypeInv' BY <1>1, StartTyped DEF IInv, TypeInv, Starts
<1>3. SnapInv' /\ SaveInv' BY <1>1, StartSaves DEF Derived
<1>4. LockInv' BY <1>1 DEF IInv, LockInv, Starts, Only
<1>5. LeaseInv'
  BY <1>1 DEF IInv, LeaseInv, Manages, Starts, Only, Undoes
<1> QED BY <1>2, <1>3, <1>4, <1>5 DEF IInv

LEMMA RenamingInv ==
    ASSUME IInv, NEW w \in Windows, Renaming(w)
    PROVE  IInv'
<1>1. Derived(index, index, fresh) BY DEF IInv, TypeInv, IsIndex, Derived, Follows
<1>2. TypeInv' BY <1>1, StartTyped DEF IInv, TypeInv, Renaming
<1>3. SnapInv' /\ SaveInv' BY StartSaves DEF Renaming
<1>4. LockInv' BY NoneAssumption DEF IInv, LockInv, Starts, Only, Renaming
<1>5. \A v \in Windows : editor'[v] = editor[v] /\ (editor[v] # None => v = w)
  BY NoneAssumption DEF IInv, LeaseInv, Starts, Only, Renaming
<1>6. Keeps(index, index) BY DEF Keeps
<1>7. \A v \in Windows : v # w => ~ Manages(v)
  BY NoneAssumption DEF IInv, LeaseInv, Manages, Renaming
<1>8. LeaseInv'
  BY <1>5, <1>6, <1>7 DEF IInv, LeaseInv, Manages, Starts, Only, Undoes, Renaming
<1> QED BY <1>2, <1>3, <1>4, <1>8 DEF IInv
-----------------------------------------------------------------------------
(* The steps of a save.                                                      *)
Released(w) == lease' = lease \/ (lease = w /\ editor[w] = None /\ lease' = None)
Stays(w) == /\ Only(w) /\ editor'[w] = editor[w] /\ calls' = calls /\ fresh' = fresh
            /\ DOMAIN work'[w] = WorkFields /\ work'[w].call = work[w].call
Leaves(w) == /\ Only(w) /\ editor'[w] = editor[w] /\ calls' = calls /\ fresh' = fresh
             /\ work'[w].pc \in {"idle", "clean", "undo"} /\ Released(w)
             /\ Busy(w)' => DOMAIN work'[w] = WorkFields /\ work'[w].call = work[w].call

LEMMA FailsLeaves ==
    ASSUME TypeInv, NEW w \in Windows, Busy(w), Fails(w), UNCHANGED <<editor, calls, fresh>>
    PROVE  /\ Leaves(w) /\ snap' = snap /\ done' = done
           /\ failed' = failed \cup {work[w].call}
<1>1. CASE Goto(w, "undo") /\ UNCHANGED lease
  BY <1>1 DEF TypeInv, Busy, WorkFields, Fails, Goto, Leaves, Only, Released
<1>2. CASE work' = [work EXCEPT ![w] = Idle] /\ FreeLease(w)
  BY <1>2 DEF TypeInv, Busy, Fails, FreeLease, Idle, Leaves, Only, Released
<1> QED BY <1>1, <1>2 DEF Fails

\* The end of a save in which the index stays as it is.
LEMMA EndInv ==
    ASSUME IInv, NEW w \in Windows, Busy(w), Leaves(w), UNCHANGED <<index, snap, done>>,
           work[w].pc \notin {"publish", "putback"}, lock' = lock,
           failed' = failed \/ (Asks(w) /\ failed' = failed \cup {work[w].call})
    PROVE  IInv'
<1>1. TypeInv'
  <2>1. \A ix : IsIndex(ix) => IsIndex(ix)' BY DEF IsIndex, Leaves
  <2>2. failed' \subseteq 1 .. calls
    <3>1. work[w].call \in 1 .. calls /\ failed \subseteq 1 .. calls BY DEF IInv, TypeInv
    <3> QED BY <3>1
  <2>3. \A v \in Windows : v # w => work'[v] = work[v] /\ snap'[v] = snap[v] BY DEF Leaves, Only
  <2> QED BY <2>1, <2>2, <2>3 DEF IInv, TypeInv, Leaves, Only, Busy, Asks, Undoes
<1>2. LockInv' BY DEF IInv, LockInv, Leaves, Only
<1>3. SnapInv' BY DEF IInv, SnapInv, Leaves, Only, Undoes
<1>4. \A v \in Windows : work'[v].pc \in {"save", "publish", "putback"} => v # w /\ work'[v] = work[v]
  BY DEF Leaves, Only
<1>5. \A v \in Windows : v # w /\ Busy(v) => work[v].call # work[w].call BY DEF IInv, TypeInv
<1>6. \A v \in Windows : Asks(v)' \/ Undoes(v)' => work'[v].call \notin failed' \cup done'
  BY <1>4, <1>5 DEF IInv, SaveInv, Asks, Undoes, Busy
<1>7. NoLostUpdate' BY DEF IInv, SaveInv, NoLostUpdate
<1>8. SaveInv' BY <1>4, <1>6, <1>7 DEF IInv, SaveInv, Asks, Undoes
<1>9. LeaseInv'
  BY <1>4, NoneAssumption DEF IInv, LeaseInv, Leaves, Only, Released, Manages, Undoes
<1> QED BY <1>1, <1>2, <1>3, <1>8, <1>9 DEF IInv

LEMMA CheckInv ==
    ASSUME IInv, NEW w \in Windows, Check(w)
    PROVE  IInv'
<1>1. /\ work[w].pc = "save" /\ lock = None /\ Busy(w)
      /\ UNCHANGED <<index, editor, calls, fresh>>
  BY DEF Check, Busy, disk, texts
<1>2. CASE Fails(w) /\ UNCHANGED lock
  <2>1. Leaves(w) /\ snap' = snap /\ done' = done /\ failed' = failed \cup {work[w].call}
    BY <1>1, <1>2, FailsLeaves DEF IInv
  <2> QED BY <1>1, <1>2, <2>1, EndInv DEF Asks
<1>3. CASE /\ UpToDate(w) /\ lock' = w /\ Goto(w, "publish") /\ UNCHANGED <<snap, lease, reports>>
  <2>1. /\ Stays(w) /\ work'[w].pc = "publish" /\ work'[w].next = work[w].next
    BY <1>1, <1>3 DEF IInv, TypeInv, Busy, WorkFields, Goto, Stays, Only
  <2>2. UNCHANGED <<index, snap, editor, calls, fresh, lease, done, failed>> BY <1>1, <1>3 DEF reports
  <2>3. snap[w] = index
    BY <1>1, <1>3 DEF IInv, TypeInv, SnapInv, Agrees, UpToDate, Current
  <2>4. TypeInv' BY <1>1, <2>1, <2>2 DEF IInv, TypeInv, IsIndex, Stays, Only, Busy, Asks, Undoes
  <2>5. LockInv' BY <1>1, <1>3, <2>1, NoneAssumption DEF IInv, LockInv, Stays, Only
  <2>6. SnapInv' BY <2>1, <2>2 DEF IInv, SnapInv, Stays, Only, Undoes
  <2>7. SaveInv' BY <1>1, <2>1, <2>2, <2>3 DEF IInv, SaveInv, NoLostUpdate, Stays, Only, Asks, Undoes
  <2>8. LeaseInv' BY <1>1, <2>1, <2>2, <2>3 DEF IInv, LeaseInv, Manages, Stays, Only, Undoes
  <2> QED BY <2>4, <2>5, <2>6, <2>7, <2>8 DEF IInv
<1> QED BY <1>2, <1>3 DEF Check

LEMMA TidyInv ==
    ASSUME IInv, NEW w \in Windows, Tidy(w)
    PROVE  IInv'
<1>1. /\ Busy(w) /\ work[w].pc \notin {"publish", "putback"}
      /\ UNCHANGED <<index, snap, editor, calls, fresh, done, failed, lock>>
  BY DEF Tidy, Busy, texts, reports
<1>2. Leaves(w) BY <1>1 DEF IInv, TypeInv, Tidy, FreeLease, Idle, Leaves, Only, Released, Busy
<1> QED BY <1>1, <1>2, EndInv

\* What is written is the save's own index, one revision later.
LEMMA UpdatedFacts ==
    ASSUME IInv, NEW w \in Windows, work[w].pc = "publish"
    PROVE  /\ IsIndex(Updated(w)) /\ Updated(w).rev = index.rev + 1
           /\ Updated(w).log = index.log \cup {work[w].call}
           /\ Updated(w).log \subseteq 1 .. calls
           /\ Manages(w) \/ Keeps(Updated(w), index)
           /\ \A v \in Windows : v # w => work[v].pc \notin {"publish", "putback"}
<1>1. /\ DOMAIN work[w].next = Fields /\ IsIndex(work[w].next)
      /\ work[w].next.log = index.log /\ index.rev \in Nat
  BY DEF IInv, TypeInv, SaveInv, Follows, Asks, IsIndex
<1>2. /\ DOMAIN Updated(w) = Fields /\ Updated(w).rev = index.rev + 1
      /\ Updated(w).log = index.log \cup {work[w].call}
      /\ Updated(w).sessions = work[w].next.sessions /\ Updated(w).gone = work[w].next.gone
  BY <1>1 DEF Updated, Fields
<1>3. IsIndex(Updated(w)) BY <1>1, <1>2 DEF IsIndex
<1>4. Updated(w).log \subseteq 1 .. calls BY <1>2 DEF IInv, TypeInv, Busy
<1>5. Manages(w) \/ Keeps(Updated(w), index) BY <1>2 DEF IInv, LeaseInv, Keeps
<1>6. \A v \in Windows : v # w => work[v].pc \notin {"publish", "putback"} BY DEF IInv, LockInv
<1> QED BY <1>2, <1>3, <1>4, <1>5, <1>6

LEMMA PublishedInv ==
    ASSUME IInv, NEW w \in Windows, work[w].pc = "publish", Leaves(w), index' = Updated(w),
           snap' = [snap EXCEPT ![w] = Updated(w)], done' = done \cup {work[w].call},
           failed' = failed, lock' = None
    PROVE  IInv'
<1>0. Busy(w) /\ Asks(w) BY DEF Busy, Asks
<1>1. \A v \in Windows : v # w => work'[v] = work[v] /\ snap'[v] = snap[v] /\ editor'[v] = editor[v]
  BY DEF Leaves, Only
<1>2. TypeInv'
  <2>1. \A ix : IsIndex(ix) => IsIndex(ix)' BY DEF IsIndex, Leaves
  <2>2. IsIndex(index)' BY <2>1, UpdatedFacts
  <2>3. snap'[w] = index' BY DEF IInv, TypeInv
  <2>4. \A v \in Windows : snap'[v] # None => IsIndex(snap[v])'
    BY <1>1, <2>1, <2>2, <2>3 DEF IInv, TypeInv
  <2>5. done' \subseteq 1 .. calls /\ index'.log \subseteq 1 .. calls
    BY <1>0, UpdatedFacts DEF IInv, TypeInv
  <2> QED BY <1>0, <1>1, <2>1, <2>2, <2>4, <2>5 DEF IInv, TypeInv, Leaves, Only, Busy, Asks, Undoes
<1>3. \A v \in Windows : work'[v].pc \notin {"publish", "putback"} BY <1>1, UpdatedFacts DEF Leaves
<1>4. LockInv' BY <1>3 DEF LockInv
<1>5. SnapInv'
  <2>1. snap'[w] = index' BY DEF IInv, TypeInv
  <2>2. \A v \in Windows : v # w /\ snap[v] # None => Agrees(snap[v], Updated(w))
    BY UpdatedFacts DEF IInv, TypeInv, SnapInv, Agrees, IsIndex
  <2>3. Agrees(index', index') BY UpdatedFacts DEF Agrees, IInv, TypeInv, IsIndex
  <2> QED BY <1>1, <1>3, <2>1, <2>2, <2>3 DEF SnapInv, Undoes
<1>6. SaveInv'
  <2>1. \A v \in Windows : v # w /\ Asks(v) => work[v].call # work[w].call
    BY <1>0 DEF IInv, TypeInv, Busy, Asks
  <2>2. \A v \in Windows : Asks(v)' => v # w /\ Asks(v) /\ work'[v] = work[v]
    BY <1>1 DEF Asks, Leaves
  <2>3. NoLostUpdate' BY <1>0, UpdatedFacts DEF IInv, SaveInv, NoLostUpdate
  <2>4. \A v \in Windows : Asks(v)' => work'[v].call \notin index'.log \cup failed' \cup done'
    BY <2>1, <2>2, UpdatedFacts DEF IInv, SaveInv
  <2>5. \A v \in Windows : work'[v].pc = "save" => Follows(work'[v].next, snap'[v])
    BY <1>1 DEF IInv, SaveInv, Leaves
  <2> QED BY <1>3, <2>3, <2>4, <2>5 DEF SaveInv, Undoes, Asks
<1>7. LeaseInv'
  <2>1. \A v \in Windows : editor'[v] # None => lease' = v
    BY <1>1 DEF IInv, LeaseInv, Leaves, Released
  <2>2. \A v \in Windows : work'[v].pc = "save" => Manages(v)' \/ Keeps(work'[v].next, snap'[v])
    BY <1>1 DEF IInv, LeaseInv, Manages, Leaves, Released
  <2> QED BY <1>3, <2>1, <2>2 DEF LeaseInv, Undoes
<1> QED BY <1>2, <1>4, <1>5, <1>6, <1>7 DEF IInv

\* The write is reported as failed, whether it took effect or not.
LEMMA FailedWriteInv ==
    ASSUME IInv, NEW w \in Windows, work[w].pc = "publish", index' \in {index, Updated(w)},
           work' = [work EXCEPT ![w].pc = "putback", ![w].base = index],
           UNCHANGED <<snap, ends, reports, editor, calls, fresh>>
    PROVE  IInv'
<1>1. /\ Stays(w) /\ work'[w].pc = "putback" /\ work'[w].base = index
      /\ UNCHANGED <<snap, editor, calls, fresh, lease, lock, done, failed>>
  BY DEF IInv, TypeInv, Busy, WorkFields, Stays, Only, ends, reports
<1>2. \A v \in Windows : v # w => work'[v] = work[v] /\ work'[v].pc \notin {"publish", "putback"}
  BY <1>1, UpdatedFacts DEF Stays, Only
<1>3. Busy(w) /\ Asks(w) BY DEF Busy, Asks
<1>4. /\ IsIndex(index') /\ index'.log \subseteq 1 .. calls /\ index.log \subseteq index'.log
      /\ index' = index \/ index'.rev > index.rev
      /\ \A c \in index'.log : c \in index.log \/ c = work[w].call
      /\ \A v \in Windows : snap[v] # None => Agrees(snap[v], index')
      /\ Manages(w) \/ Keeps(index', index)
  <2>1. CASE index' = index BY <2>1 DEF IInv, TypeInv, SnapInv, Keeps
  <2>2. CASE index' = Updated(w)
    BY <2>2, UpdatedFacts DEF IInv, TypeInv, SnapInv, Agrees, IsIndex
  <2> QED BY <2>1, <2>2
<1>5. TypeInv'
  <2>1. \A ix : IsIndex(ix) => IsIndex(ix)' BY <1>1 DEF IsIndex
  <2>2. IsIndex(index)' BY <1>1, <1>4 DEF IsIndex
  <2> QED BY <1>1, <1>2, <1>3, <1>4, <2>1, <2>2 DEF IInv, TypeInv, Stays, Only, Busy, Asks, Undoes
<1>6. LockInv' BY <1>1, <1>2 DEF IInv, LockInv
<1>7. SnapInv' BY <1>1, <1>2, <1>4 DEF IInv, SnapInv, Undoes
<1>8. SaveInv'
  <2>1. \A v \in Windows : v # w /\ Busy(v) => work[v].call # work[w].call
    BY <1>3 DEF IInv, TypeInv
  <2>2. \A v \in Windows : Asks(v)' => v # w /\ Asks(v) /\ Busy(v) /\ work'[v] = work[v]
    BY <1>1, <1>2 DEF Asks, Busy
  <2>3. NoLostUpdate'
    BY <1>1, <1>3, <1>4 DEF IInv, SaveInv, NoLostUpdate
  <2>4. \A v \in Windows : Asks(v)' => work'[v].call \notin index'.log
    BY <1>4, <2>1, <2>2 DEF IInv, SaveInv
  <2>5. \A v \in Windows : Asks(v)' \/ Undoes(v)' => work'[v].call \notin failed' \cup done'
    BY <1>1, <1>2, <1>3, <2>2 DEF IInv, SaveInv, Stays, Undoes
  <2>6. \A v \in Windows : Undoes(v)' => v = w BY <1>2 DEF Undoes
  <2>7. work'[w].call \notin index.log /\ done' \subseteq index.log
    BY <1>1, <1>3 DEF IInv, SaveInv, NoLostUpdate, Stays
  <2>8. \A v \in Windows : work'[v].pc = "save" => Follows(work'[v].next, snap'[v])
    BY <1>1, <1>2 DEF IInv, SaveInv
  <2>9. \A v \in Windows : work'[v].pc # "publish" BY <1>1, <1>2
  <2> QED BY <1>1, <1>4, <2>3, <2>4, <2>5, <2>6, <2>7, <2>8, <2>9 DEF SaveInv
<1>9. LeaseInv'
  <2>1. /\ \A v \in Windows : editor'[v] # None => lease' = v
        /\ Manages(w)' \/ Keeps(index', work'[w].base)
    BY <1>1, <1>4 DEF IInv, LeaseInv, Manages
  <2>2. \A v \in Windows : work'[v].pc = "save" => Manages(v)' \/ Keeps(work'[v].next, snap'[v])
    BY <1>1, <1>2 DEF IInv, LeaseInv, Manages
  <2> QED BY <1>1, <1>2, <2>1, <2>2 DEF LeaseInv, Undoes
<1> QED BY <1>5, <1>6, <1>7, <1>8, <1>9 DEF IInv

LEMMA PublishInv ==
    ASSUME IInv, NEW w \in Windows, Publish(w)
    PROVE  IInv'
<1>1. work[w].pc = "publish" /\ UNCHANGED <<editor, calls, fresh>> BY DEF Publish, texts
<1>2. CASE /\ index' = Updated(w) /\ snap' = [snap EXCEPT ![w] = Updated(w)]
           /\ done' = done \cup {work[w].call} /\ lock' = None /\ UNCHANGED failed
           /\ IF work[w].old \cup work[w].oldMedia # {}
              THEN Goto(w, "clean") /\ UNCHANGED lease
              ELSE work' = [work EXCEPT ![w] = Idle] /\ FreeLease(w)
  <2>1. CASE Goto(w, "clean") /\ UNCHANGED lease
    <3>1. Leaves(w) BY <1>1, <1>2, <2>1 DEF IInv, TypeInv, Busy, WorkFields, Goto, Leaves, Only, Released
    <3> QED BY <1>1, <1>2, <3>1, PublishedInv
  <2>2. CASE work' = [work EXCEPT ![w] = Idle] /\ FreeLease(w)
    <3>1. Leaves(w) BY <1>1, <1>2, <2>2 DEF IInv, TypeInv, Busy, FreeLease, Idle, Leaves, Only, Released
    <3> QED BY <1>1, <1>2, <3>1, PublishedInv
  <2> QED BY <1>2, <2>1, <2>2
<1>3. CASE /\ index' \in {index, Updated(w)}
           /\ work' = [work EXCEPT ![w].pc = "putback", ![w].base = index]
           /\ UNCHANGED <<snap, ends, reports>>
  BY <1>1, <1>3, FailedWriteInv
<1> QED BY <1>2, <1>3 DEF Publish

LEMMA PutBackInv ==
    ASSUME IInv, StuckLate = FALSE, NEW w \in Windows, PutBack(w)
    PROVE  IInv'
<1>1. /\ Undoes(w) /\ Busy(w) /\ lock' = None /\ index' = work[w].base
      /\ UNCHANGED <<editor, calls, fresh>>
  BY DEF PutBack, Undoes, Busy, texts
<1>2. Leaves(w) /\ snap' = snap /\ done' = done /\ failed' = failed \cup {work[w].call}
  BY <1>1, FailsLeaves DEF IInv, PutBack
<1>3. \A v \in Windows : v # w => work'[v] = work[v] /\ work'[v].pc \notin {"publish", "putback"}
  BY <1>1, <1>2 DEF IInv, LockInv, Undoes, Leaves, Only
<1>4. /\ IsIndex(index') /\ index'.log \subseteq index.log /\ work[w].call \notin index'.log
      /\ done \subseteq index'.log
      /\ \A v \in Windows : snap[v] # None => Agrees(snap[v], index')
  BY <1>1 DEF IInv, TypeInv, SnapInv, SaveInv
<1>5. TypeInv'
  <2>1. \A ix : IsIndex(ix) => IsIndex(ix)' BY <1>2 DEF IsIndex, Leaves
  <2>2. IsIndex(index)' BY <1>2, <1>4 DEF IsIndex, Leaves
  <2>3. /\ work[w].call \in 1 .. calls /\ failed \subseteq 1 .. calls /\ done \subseteq 1 .. calls
        /\ index.log \subseteq 1 .. calls
    BY <1>1 DEF IInv, TypeInv
  <2>4. failed' \subseteq 1 .. calls /\ done' \subseteq 1 .. calls /\ index'.log \subseteq 1 .. calls
    BY <1>2, <1>4, <2>3
  <2> QED BY <1>1, <1>2, <1>3, <2>1, <2>2, <2>4 DEF IInv, TypeInv, Leaves, Only, Busy, Asks, Undoes
<1>6. \A v \in Windows : work'[v].pc \notin {"publish", "putback"} BY <1>2, <1>3 DEF Leaves
<1>7. LockInv' BY <1>6 DEF LockInv
<1>8. SnapInv' BY <1>2, <1>4, <1>6 DEF SnapInv, Undoes
<1>9. SaveInv'
  <2>1. \A v \in Windows : v # w /\ Busy(v) => work[v].call # work[w].call
    BY <1>1 DEF IInv, TypeInv
  <2>2. \A v \in Windows : Asks(v)' => v # w /\ Asks(v) /\ Busy(v) /\ work'[v] = work[v]
    BY <1>2, <1>3 DEF Asks, Busy, Leaves
  <2>3. NoLostUpdate' BY <1>2, <1>4 DEF IInv, SaveInv, NoLostUpdate
  <2>4. \A v \in Windows : Asks(v)' => work'[v].call \notin index'.log \cup failed' \cup done'
    BY <1>2, <1>4, <2>1, <2>2 DEF IInv, SaveInv
  <2>5. \A v \in Windows : work'[v].pc = "save" => Follows(work'[v].next, snap'[v])
    BY <1>2, <1>3 DEF IInv, SaveInv, Leaves
  <2> QED BY <1>6, <2>3, <2>4, <2>5 DEF SaveInv, Undoes, Asks
<1>10. LeaseInv'
  <2>1. \A v \in Windows : editor'[v] = editor[v] /\ (editor[v] # None => lease' = v)
    BY <1>2 DEF IInv, LeaseInv, Leaves, Only, Released
  <2>2. \A v \in Windows : work'[v].pc = "save" => Manages(v)' \/ Keeps(work'[v].next, snap'[v])
    BY <1>2, <1>3, <2>1 DEF IInv, LeaseInv, Manages, Leaves, Released
  <2> QED BY <1>4, <1>6, <2>1, <2>2 DEF LeaseInv, Undoes
<1> QED BY <1>5, <1>7, <1>8, <1>9, <1>10 DEF IInv

-----------------------------------------------------------------------------
(* Opening, entering and leaving; edits; the end of a window.                *)
LEMMA OpenInv ==
    ASSUME IInv, NEW w \in Windows, Open(w)
    PROVE  IInv'
<1>1. /\ work[w].pc = "idle" /\ lock = None /\ snap' = [snap EXCEPT ![w] = index]
      /\ UNCHANGED <<index, lease, lock, work, editor, calls, fresh, done, failed>>
  BY DEF Open, disk, ends, texts, reports
<1>2. \A v \in Windows : v # w => snap'[v] = snap[v] BY <1>1 DEF IInv, TypeInv
<1>3. snap'[w] = index BY <1>1 DEF IInv, TypeInv
<1>4. TypeInv' BY <1>1, <1>2, <1>3 DEF IInv, TypeInv, IsIndex, Busy, Asks, Undoes
<1>5. LockInv' BY <1>1 DEF IInv, LockInv
<1>6. \A v \in Windows : ~ Undoes(v) BY <1>1, NoneAssumption DEF IInv, LockInv, Undoes
<1>7. SnapInv'
  BY <1>1, <1>2, <1>3, <1>6 DEF IInv, TypeInv, IsIndex, SnapInv, Agrees, Undoes
<1>8. SaveInv' BY <1>1, <1>2 DEF IInv, SaveInv, NoLostUpdate, Asks, Undoes
<1>9. LeaseInv' BY <1>1, <1>2 DEF IInv, LeaseInv, Manages, Undoes
<1> QED BY <1>4, <1>5, <1>7, <1>8, <1>9 DEF IInv

\* Whatever changes the editors and the lease alone.
LEMMA EditorsInv ==
    ASSUME IInv, UNCHANGED <<index, lock, snap, work, calls, fresh, done, failed>>,
           DOMAIN editor' = Windows
    PROVE  TypeInv' /\ LockInv' /\ SnapInv' /\ SaveInv'
<1>1. TypeInv' BY DEF IInv, TypeInv, IsIndex, Busy, Asks, Undoes
<1>2. LockInv' BY DEF IInv, LockInv
<1>3. SnapInv' BY DEF IInv, SnapInv, Undoes
<1>4. SaveInv' BY DEF IInv, SaveInv, NoLostUpdate, Asks, Undoes
<1> QED BY <1>1, <1>2, <1>3, <1>4

LEMMA EnterInv ==
    ASSUME IInv, NEW w \in Windows, Enter(w) \/ FollowLink(w)
    PROVE  IInv'
<1>1. lease = None \/ (lease = w /\ editor[w] # None)
  BY DEF Enter, FollowLink, LeaseTaken, IInv, LeaseInv
<1>2. PICK ix : Entering(w, ix) BY DEF Enter, FollowLink
<1>3. PICK x : editor' = [editor EXCEPT ![w] = x] BY <1>2 DEF Entering
<1>4. work[w].pc = "idle" /\ lease' = w /\ UNCHANGED <<index, lock, work, calls, fresh, done, failed>>
  BY <1>2 DEF Entering, disk, texts, reports
<1>5. /\ DOMAIN snap' = Windows /\ \A v \in Windows : snap'[v] = snap[v] \/ (v = w /\ snap'[v] = index)
      /\ snap' = snap \/ lock = None
  BY DEF Enter, FollowLink, IInv, TypeInv
<1>6. TypeInv' BY <1>3, <1>4, <1>5 DEF IInv, TypeInv, IsIndex, Busy, Asks, Undoes
<1>7. LockInv' BY <1>4 DEF IInv, LockInv
<1>8. snap' = snap \/ \A v \in Windows : ~ Undoes(v)
  BY <1>4, <1>5, NoneAssumption DEF IInv, LockInv, Undoes
<1>9. SnapInv' BY <1>4, <1>5, <1>8 DEF IInv, TypeInv, IsIndex, SnapInv, Agrees, Undoes
<1>10. SaveInv' BY <1>4, <1>5 DEF IInv, SaveInv, NoLostUpdate, Asks, Undoes
<1>11. \A v \in Windows : v # w => editor'[v] = editor[v] /\ editor[v] = None /\ snap'[v] = snap[v]
  BY <1>1, <1>3, <1>5, NoneAssumption DEF IInv, TypeInv, LeaseInv
<1>12. \A v \in Windows : work[v].pc # "idle" => ~ Manages(v)
  BY <1>1, <1>4, NoneAssumption DEF Manages
<1>13. LeaseInv' BY <1>4, <1>11, <1>12 DEF IInv, LeaseInv, Undoes
<1> QED BY <1>6, <1>7, <1>9, <1>10, <1>13 DEF IInv

LEMMA LeaveInv ==
    ASSUME IInv, NEW w \in Windows, Leave(w)
    PROVE  IInv'
<1>1. /\ work[w].pc = "idle" /\ lease = w /\ lease' = None /\ editor' = [editor EXCEPT ![w] = None]
      /\ UNCHANGED <<index, lock, snap, work, calls, fresh, done, failed>>
  BY DEF Leave, disk, texts, reports, IInv, LeaseInv
<1>2. TypeInv' /\ LockInv' /\ SnapInv' /\ SaveInv' BY <1>1, EditorsInv DEF IInv, TypeInv
<1>3. \A v \in Windows : editor'[v] = None BY <1>1 DEF IInv, TypeInv, LeaseInv
<1>4. \A v \in Windows : work[v].pc # "idle" => ~ Manages(v) BY <1>1 DEF Manages
<1>5. LeaseInv' BY <1>1, <1>3, <1>4 DEF IInv, LeaseInv, Undoes
<1> QED BY <1>2, <1>5 DEF IInv

LEMMA WriteInv ==
    ASSUME IInv, NEW w \in Windows, Edit(w) \/ Write(w)
    PROVE  IInv'
<1>1. UNCHANGED <<index, lease, lock, snap, work, editor, fresh, done, failed>>
  BY DEF Edit, Write, ends, reports
<1>2. calls' \in Nat /\ calls' >= calls
  <2>1. calls' \in {calls, calls + 1} BY Zenon DEF Edit, Write, Call
  <2> QED BY <2>1 DEF IInv, TypeInv
<1>3. TypeInv'
  <2>1. \A ix : IsIndex(ix) => IsIndex(ix)' BY <1>1 DEF IsIndex
  <2>2. \A n \in 1 .. calls : n \in 1 .. calls' BY <1>2 DEF IInv, TypeInv
  <2>3. \A S : S \subseteq 1 .. calls => S \subseteq 1 .. calls' BY <2>2
  <2> QED BY <1>1, <1>2, <2>1, <2>2, <2>3 DEF IInv, TypeInv, Busy, Asks, Undoes
<1>4. LockInv' BY <1>1 DEF IInv, LockInv
<1>5. SnapInv' BY <1>1 DEF IInv, SnapInv, Undoes
<1>6. SaveInv' BY <1>1 DEF IInv, SaveInv, NoLostUpdate, Asks, Undoes
<1>7. LeaseInv' BY <1>1 DEF IInv, LeaseInv, Manages, Undoes
<1> QED BY <1>3, <1>4, <1>5, <1>6, <1>7 DEF IInv

LEMMA CloseInv ==
    ASSUME IInv, NEW w \in Windows, Close(w)
    PROVE  IInv'
<1>1. /\ snap' = [snap EXCEPT ![w] = None] /\ work' = [work EXCEPT ![w] = Idle]
      /\ editor' = [editor EXCEPT ![w] = None]
      /\ lease' = (IF lease = w THEN None ELSE lease) /\ lock' = (IF lock = w THEN None ELSE lock)
      /\ UNCHANGED <<index, calls, fresh, done, failed>>
  BY DEF Close, disk, texts, reports
<1>2. \A v \in Windows : v # w => work'[v] = work[v] /\ snap'[v] = snap[v] /\ editor'[v] = editor[v]
  BY <1>1 DEF IInv, TypeInv
<1>3. snap'[w] = None /\ editor'[w] = None /\ work'[w].pc = "idle"
  BY <1>1 DEF IInv, TypeInv, Idle
<1>4. TypeInv'
  <2>1. \A ix : IsIndex(ix) => IsIndex(ix)' BY <1>1 DEF IsIndex
  <2> QED BY <1>1, <1>2, <1>3, <2>1 DEF IInv, TypeInv, Busy, Asks, Undoes
<1>5. LockInv' BY <1>1, <1>2, <1>3 DEF IInv, LockInv
<1>6. SnapInv' BY <1>1, <1>2, <1>3 DEF IInv, SnapInv, Undoes
<1>7. SaveInv' BY <1>1, <1>2, <1>3 DEF IInv, SaveInv, NoLostUpdate, Asks, Undoes
<1>8. LeaseInv'
  BY <1>1, <1>2, <1>3, NoneAssumption DEF IInv, LeaseInv, Manages, Undoes
<1> QED BY <1>4, <1>5, <1>6, <1>7, <1>8 DEF IInv

-----------------------------------------------------------------------------
(* The theorems                                                              *)
LEMMA InitInv ==
    ASSUME Init PROVE IInv
<1>1. /\ DOMAIN First = Fields /\ First.rev = 0 /\ First.log = {} /\ First.gone = Empty
      /\ First.sessions = (1 :> ((3 :> Recording("copy", 3, FALSE, 3)) @@ (4 :> Recording("reference", 4, FALSE, 0))))
                          @@ (2 :> Empty)
  BY Zenon DEF First, Fields
<1>2. DOMAIN First.sessions \subseteq 1 .. 4 /\ DOMAIN First.gone = {}
  <2>1. DOMAIN (2 :> Empty) = {2} BY DEF :>
  <2>2. \A f : DOMAIN ((1 :> f) @@ (2 :> Empty)) = {1} \cup DOMAIN (2 :> Empty) BY Zenon, DomainFacts
  <2>3. DOMAIN First.sessions = {1} \cup {2} BY Zenon, <1>1, <2>1, <2>2
  <2>4. DOMAIN First.gone = {} BY Zenon, <1>1 DEF Empty
  <2> QED BY <2>3, <2>4
<1>3. /\ index = First /\ fresh = 4 /\ calls = 0 /\ done = {} /\ failed = {}
      /\ snap = [w \in Windows |-> First] /\ work = [w \in Windows |-> Idle]
      /\ editor = [w \in Windows |-> None]
  BY Zenon DEF Init
<1>4. IsIndex(First)
  <2>1. DOMAIN First = Fields /\ First.rev = 0 BY Zenon, <1>1
  <2> QED BY <1>2, <1>3, <2>1 DEF IsIndex
<1>5. TypeInv BY <1>1, <1>3, <1>4 DEF TypeInv, Idle, Busy, Asks, Undoes
<1>6. LockInv BY <1>3 DEF LockInv, Idle
<1>7. SnapInv BY <1>1, <1>3 DEF SnapInv, Agrees, Idle, Undoes
<1>8. SaveInv BY <1>1, <1>3 DEF SaveInv, NoLostUpdate, Idle, Asks, Undoes
<1>9. LeaseInv BY <1>3 DEF LeaseInv, Idle, Undoes
<1> QED BY <1>5, <1>6, <1>7, <1>8, <1>9 DEF IInv

LEMMA StepInv ==
    ASSUME IInv, StuckLate = FALSE, [Next]_vars PROVE IInv'
<1>1. CASE UNCHANGED vars
  BY <1>1 DEF vars, disk, ends, reports, texts, IInv, TypeInv, IsIndex, LockInv, SnapInv, SaveInv, LeaseInv,
              NoLostUpdate, Busy, Asks, Undoes, Manages
<1>2. ASSUME NEW w \in Windows,
             \/ Describe(w) \/ CreateSession(w) \/ Rename(w)
             \/ Import(w) \/ RelinkMedia(w) \/ MoveRecording(w) \/ ReassignManuscript(w)
             \/ Trash(w) \/ TrashInterview(w) \/ Restore(w) \/ Clear(w)
      PROVE  IInv'
  <2>1. TypeInv BY DEF IInv
  <2>2. CASE Describe(w) \/ CreateSession(w) BY <2>1, <2>2, MetadataStarts, KeepingInv
  <2>3. CASE Rename(w) BY <2>1, <2>3, RenameStarts, RenamingInv
  <2>4. CASE Import(w) \/ RelinkMedia(w) \/ MoveRecording(w) \/ ReassignManuscript(w)
    BY <2>1, <2>4, ImportStarts, ManagingInv
  <2>5. CASE Trash(w) \/ TrashInterview(w) \/ Restore(w) \/ Clear(w)
    BY <2>1, <2>5, TrashStarts, ManagingInv
  <2> QED BY <1>2, <2>2, <2>3, <2>4, <2>5
<1>3. ASSUME NEW w \in Windows,
             \/ Check(w) \/ Publish(w) \/ PutBack(w) \/ Tidy(w) \/ Open(w)
             \/ Enter(w) \/ FollowLink(w) \/ Leave(w) \/ Edit(w) \/ Write(w) \/ Close(w)
      PROVE  IInv'
  BY <1>3, CheckInv, PublishInv, PutBackInv, TidyInv, OpenInv, EnterInv, LeaveInv, WriteInv, CloseInv
<1> QED BY <1>1, <1>2, <1>3 DEF Next

\* The index changes by a save alone, which keeps what it lists without the lease.
LEMMA IndexStep ==
    ASSUME IInv, StuckLate = FALSE, Next, \A v \in Windows : ~ Manages(v)
    PROVE  index' = index \/ Keeps(index', index) \/ Keeps(index, index')
<1>1. ASSUME NEW w \in Windows,
             \/ Describe(w) \/ CreateSession(w) \/ Rename(w)
             \/ Import(w) \/ RelinkMedia(w) \/ MoveRecording(w) \/ ReassignManuscript(w)
             \/ Trash(w) \/ TrashInterview(w) \/ Restore(w) \/ Clear(w)
      PROVE  index' = index
  <2>1. TypeInv BY DEF IInv
  <2>2. CASE Describe(w) \/ CreateSession(w) BY <2>1, <2>2, MetadataStarts DEF Keeping, Starts
  <2>3. CASE Rename(w) BY <2>1, <2>3, RenameStarts DEF Renaming, Starts
  <2>4. CASE Import(w) \/ RelinkMedia(w) \/ MoveRecording(w) \/ ReassignManuscript(w)
    BY <2>1, <2>4, ImportStarts DEF Managing, Starts
  <2>5. CASE Trash(w) \/ TrashInterview(w) \/ Restore(w) \/ Clear(w)
    BY <2>1, <2>5, TrashStarts DEF Managing, Starts
  <2> QED BY <1>1, <2>2, <2>3, <2>4, <2>5
<1>2. ASSUME NEW w \in Windows, Publish(w) PROVE index' = index \/ Keeps(index', index)
  <2>1. work[w].pc = "publish" /\ index' \in {index, Updated(w)} BY <1>2 DEF Publish
  <2> QED BY <2>1, UpdatedFacts
<1>3. ASSUME NEW w \in Windows, PutBack(w) PROVE Keeps(index, index')
  <2>1. Undoes(w) /\ index' = work[w].base BY <1>3 DEF PutBack, Undoes
  <2> QED BY <2>1 DEF IInv, LeaseInv
<1>4. ASSUME NEW w \in Windows,
             \/ Check(w) \/ Tidy(w) \/ Open(w) \/ Enter(w) \/ FollowLink(w) \/ Leave(w)
             \/ Edit(w) \/ Write(w) \/ Close(w)
      PROVE  index' = index
  <2>1. CASE Check(w) \/ Tidy(w) \/ Open(w) \/ Leave(w) \/ Close(w)
    BY <2>1 DEF Check, Tidy, Open, Leave, Close, disk
  <2>2. CASE Edit(w) \/ Write(w) BY <2>2 DEF Edit, Write
  <2>3. CASE Enter(w) \/ FollowLink(w) BY <2>3 DEF Enter, FollowLink, Entering, disk
  <2> QED BY <1>4, <2>1, <2>2, <2>3
<1> QED BY <1>1, <1>2, <1>3, <1>4 DEF Next

\* The invariant holds of every run in which the old index can be put back.
THEOREM Invariance ==
    ASSUME StuckLate = FALSE PROVE Spec => []IInv
<1>1. Init => IInv BY InitInv
<1>2. IInv /\ [Next]_vars => IInv' BY StepInv
<1> QED BY <1>1, <1>2, PTL DEF Spec

\* No save undoes another (saveProject, projectStore.ts): what was reported as
\* done stays in the index, and what was reported as failed is not in it.
THEOREM SavesKept ==
    ASSUME StuckLate = FALSE PROVE Spec => []NoLostUpdate
<1>1. IInv => NoLostUpdate BY DEF IInv, SaveInv
<1> QED BY <1>1, Invariance, PTL

\* Who edits a recording that the project lists keeps it (acquireProjectEditor,
\* projectStore.ts): no save of another window, nor one that fails, removes it or
\* exchanges its folder while it is open, if the old index can be put back.
THEOREM EditsListed ==
    ASSUME StuckLate = FALSE PROVE Spec => OpenStaysListed
<1> DEFINE Step == \A w \in Windows : Belongs(w) /\ editor'[w] = editor[w] => Belongs(w)'
<1>1. ASSUME IInv, [Next]_vars PROVE [Step]_vars
  <2> SUFFICES ASSUME Next, NEW w \in Windows, Belongs(w), editor'[w] = editor[w] PROVE Belongs(w)'
    BY <1>1
  <2>1. \A v \in Windows : ~ Manages(v) BY <1>1 DEF IInv, LeaseInv, Belongs, Manages
  <2>2. index' = index \/ Keeps(index', index) \/ Keeps(index, index') BY <1>1, <2>1, IndexStep
  <2> QED BY <2>2 DEF Belongs, Keeps
<1>2. Spec => []IInv BY Invariance
<1> QED BY <1>1, <1>2, PTL DEF Spec, OpenStaysListed

-----------------------------------------------------------------------------
(* EveryTextOnce, in three parts: each operation on an index, its folders    *)
(* and its texts gives an index that lists the texts once; each step of a    *)
(* save carries that from what it stages to what it publishes or puts back;  *)
(* and the places of an index are those of its entries.                      *)

(* What an index lists: recordings and items of the trash, with the folder of *)
(* each.  A session takes along what it lists when it goes to the trash.      *)
Entry(s, r, rec, item) == [dir |-> s, id |-> r, rec |-> rec, item |-> item]
OfRecs(s, recs) == {Entry(s, r, recs[r], {}) : r \in DOMAIN recs}
OfItems(items) == {Entry(x.session, x.id, x.rec, {x}) : x \in items}
Entries(ix) ==
    OfItems(ix.trash) \cup (UNION {OfRecs(s, ix.sessions[s]) : s \in DOMAIN ix.sessions})
    \cup (UNION {OfRecs(s, ix.gone[s].recs) \cup OfItems(ix.gone[s].trash) : s \in DOMAIN ix.gone})
Listed(E) == {e.rec.folder : e \in E}

\* A session is in use or in the trash, a recording in one session.
Apart(ix) ==
    /\ DOMAIN ix.sessions \cap DOMAIN ix.gone = {}
    /\ \A s, t \in DOMAIN ix.sessions : s # t => DOMAIN ix.sessions[s] \cap DOMAIN ix.sessions[t] = {}

\* No two entries have a folder, which is in the directory of their session; the
\* audio of which a document was kept has no text.
RecFields == {"storage", "folder", "named", "media"}
Lot(folds, e) == Held(folds, e.rec)
Shape(E, folds, n) == \A e \in E :
    /\ DOMAIN e.rec = RecFields /\ e.id \in 1 .. n /\ e.rec.folder \in 1 .. n
    /\ e.rec.folder \in DOMAIN folds => folds[e.rec.folder].dir = e.dir
    /\ \A x \in e.item : x.kept = 0 \/ DOMAIN Lot(folds, e) = {}
    /\ \A g \in E : g.rec.folder = e.rec.folder => g = e

\* A text is in one place.
Holds(folds, e, i, t) == i \in DOMAIN Lot(folds, e) /\ Lot(folds, e)[i].text = t
OnceIn(E, folds, t, rev) ==
    \E e \in E : \E i : /\ Holds(folds, e, i, t) /\ Lot(folds, e)[i].rev = rev
                        /\ \A g \in E : \A j : Holds(folds, g, j, t) => g = e /\ j = i
NoneIn(E, folds, t) == \A e \in E : \A i : ~ Holds(folds, e, i, t)
Good(E, folds, lat, n, K) == Shape(E, folds, n) /\ \A t \in K : OnceIn(E, folds, t, lat[t])

\* The folders there are, with texts of T.
WellModels(m, T) ==
    /\ IsFiniteSet(DOMAIN m)
    /\ \A i \in DOMAIN m : DOMAIN m[i] = {"text", "rev"} /\ m[i].text \in T
WellFolders(folds, n, T) == \A f \in DOMAIN folds :
    f \in 1 .. n /\ DOMAIN folds[f] = {"dir", "models"} /\ WellModels(folds[f].models, T)

LEMMA MergeFacts ==
    ASSUME NEW f, NEW g
    PROVE  /\ DOMAIN (f @@ g) = DOMAIN f \cup DOMAIN g
           /\ \A x \in DOMAIN f : (f @@ g)[x] = f[x]
           /\ \A x \in DOMAIN g : x \notin DOMAIN f => (f @@ g)[x] = g[x]
BY DEF @@

LEMMA OneFacts ==
    ASSUME NEW x, NEW y PROVE DOMAIN (x :> y) = {x} /\ (x :> y)[x] = y
BY DEF :>

LEMMA EntryFacts ==
    ASSUME NEW s, NEW r, NEW rec, NEW item
    PROVE  /\ Entry(s, r, rec, item).dir = s /\ Entry(s, r, rec, item).id = r
           /\ Entry(s, r, rec, item).rec = rec /\ Entry(s, r, rec, item).item = item
BY DEF Entry

LEMMA EntriesFacts ==
    ASSUME NEW ix, NEW e
    PROVE  e \in Entries(ix) <=>
              \/ \E s \in DOMAIN ix.sessions : e \in OfRecs(s, ix.sessions[s])
              \/ e \in OfItems(ix.trash)
              \/ \E s \in DOMAIN ix.gone : e \in OfRecs(s, ix.gone[s].recs) \cup OfItems(ix.gone[s].trash)
<1> DEFINE A == UNION {OfRecs(s, ix.sessions[s]) : s \in DOMAIN ix.sessions}
           C(s) == OfRecs(s, ix.gone[s].recs) \cup OfItems(ix.gone[s].trash)
           B == UNION {C(s) : s \in DOMAIN ix.gone}
<1>1. e \in A <=> \E s \in DOMAIN ix.sessions : e \in OfRecs(s, ix.sessions[s]) OBVIOUS
<1>2. e \in B <=> \E s \in DOMAIN ix.gone : e \in C(s)
  <2> HIDE DEF C
  <2> QED OBVIOUS
<1>3. Entries(ix) = OfItems(ix.trash) \cup A \cup B BY Zenon DEF Entries
<1> HIDE DEF A, B
<1> QED BY <1>1, <1>2, <1>3

\* What is listed in a session is told from everything else.
LEMMA OwnEntries ==
    ASSUME NEW s, NEW recs
    PROVE  /\ \A e \in OfRecs(s, recs) : e.dir = s /\ e.item = {}
           /\ \A t, other : t # s => OfRecs(t, other) \cap OfRecs(s, recs) = {}
           /\ \A items : OfItems(items) \cap OfRecs(s, recs) = {}
<1>1. \A t, other : \A e \in OfRecs(t, other) : e.dir = t /\ e.item = {} BY EntryFacts DEF OfRecs
<1>2. \A items : \A e \in OfItems(items) : e.item # {}
  <2> TAKE items
  <2> TAKE e \in OfItems(items)
  <2>1. PICK x \in items : e = Entry(x.session, x.id, x.rec, {x}) BY DEF OfItems
  <2>2. e.item = {x} BY <2>1, EntryFacts
  <2> QED BY <2>2
<1> QED BY <1>1, <1>2

LEMMA PutEntries ==
    ASSUME NEW ix, DOMAIN ix = Fields, Apart(ix), NEW s \in DOMAIN ix.sessions, NEW recs
    PROVE  LET jx == PutSession(ix, s, recs)
           IN /\ DOMAIN jx = Fields /\ jx.trash = ix.trash /\ jx.gone = ix.gone /\ jx.log = ix.log
              /\ DOMAIN jx.sessions = DOMAIN ix.sessions /\ jx.sessions[s] = recs
              /\ \A t \in DOMAIN ix.sessions : t # s => jx.sessions[t] = ix.sessions[t]
              /\ Entries(jx) = (Entries(ix) \ OfRecs(s, ix.sessions[s])) \cup OfRecs(s, recs)
<1> DEFINE jx == PutSession(ix, s, recs)
<1>1. /\ DOMAIN jx = Fields /\ jx.trash = ix.trash /\ jx.gone = ix.gone /\ jx.log = ix.log
      /\ DOMAIN jx.sessions = DOMAIN ix.sessions /\ jx.sessions[s] = recs
      /\ \A t \in DOMAIN ix.sessions : t # s => jx.sessions[t] = ix.sessions[t]
  BY DEF PutSession, Fields
<1> HIDE DEF jx
<1>2. \A t \in DOMAIN ix.gone : t # s BY DEF Apart
<1>3. \A e : e \in Entries(jx) <=> e \in (Entries(ix) \ OfRecs(s, ix.sessions[s])) \cup OfRecs(s, recs)
  <2> TAKE e
  <2>1. ASSUME e \in Entries(jx) PROVE e \in (Entries(ix) \ OfRecs(s, ix.sessions[s])) \cup OfRecs(s, recs)
    <3>1. CASE e \in OfItems(ix.trash) BY <3>1, OwnEntries, EntriesFacts
    <3>2. ASSUME NEW t \in DOMAIN ix.gone, e \in OfRecs(t, ix.gone[t].recs) \cup OfItems(ix.gone[t].trash)
          PROVE  e \in Entries(ix) \ OfRecs(s, ix.sessions[s])
      BY <1>2, <3>2, OwnEntries, EntriesFacts
    <3>3. ASSUME NEW t \in DOMAIN ix.sessions, t # s, e \in OfRecs(t, ix.sessions[t])
          PROVE  e \in Entries(ix) \ OfRecs(s, ix.sessions[s])
      BY <3>3, OwnEntries, EntriesFacts
    <3> QED BY <1>1, <2>1, <3>1, <3>2, <3>3, EntriesFacts
  <2>2. ASSUME e \in Entries(ix), e \notin OfRecs(s, ix.sessions[s]) PROVE e \in Entries(jx)
    BY <1>1, <2>2, EntriesFacts
  <2>3. e \in OfRecs(s, recs) => e \in Entries(jx) BY <1>1, EntriesFacts
  <2> QED BY <2>1, <2>2, <2>3
<1>4. Entries(jx) = (Entries(ix) \ OfRecs(s, ix.sessions[s])) \cup OfRecs(s, recs) BY <1>3
<1> QED BY <1>1, <1>4 DEF jx

\* New folders leave what the entries hold.
LEMMA StagedLot ==
    ASSUME NEW folds, NEW F, NEW n \in Nat, DOMAIN folds \subseteq 1 .. n, DOMAIN F \cap 1 .. n = {},
           NEW e, e.rec.folder \in 1 .. n
    PROVE  /\ Lot(F @@ folds, e) = Lot(folds, e)
           /\ e.rec.folder \in DOMAIN (F @@ folds) <=> e.rec.folder \in DOMAIN folds
           /\ e.rec.folder \in DOMAIN folds => (F @@ folds)[e.rec.folder] = folds[e.rec.folder]
<1>1. /\ e.rec.folder \in DOMAIN (F @@ folds) <=> e.rec.folder \in DOMAIN folds
      /\ e.rec.folder \in DOMAIN folds => (F @@ folds)[e.rec.folder] = folds[e.rec.folder]
  BY DEF @@
<1> QED BY <1>1 DEF Lot, Held, Exists

\* An operation replaces the entries Out by To, in the folders there are or in
\* the ones it stages: what it has to see to for the index it asks for.
Free(e) == \A x \in e.item : x.kept = 0
Fits(Out, To, F, folds, n) == \A e \in To :
    /\ DOMAIN e.rec = RecFields /\ e.id \in 1 .. n + 3 /\ e.rec.folder \in 1 .. n + 3
    /\ e.rec.folder <= n => Free(e) /\ \E o \in Out : o.rec.folder = e.rec.folder /\ o.dir = e.dir
    /\ e.rec.folder \in DOMAIN F => F[e.rec.folder].dir = e.dir
    /\ \A x \in e.item : x.kept = 0 \/ DOMAIN Lot(F @@ folds, e) = {}
    /\ \A g \in To : g.rec.folder = e.rec.folder => g = e
Carries(Out, To, folds, now, t) ==
    /\ NoneIn(Out, folds, t) => NoneIn(To, now, t)
    /\ \A rev : OnceIn(Out, folds, t, rev) => OnceIn(To, now, t, rev)

LEMMA ReplacedShape ==
    ASSUME NEW E, NEW folds, NEW n \in Nat, Shape(E, folds, n), DOMAIN folds \subseteq 1 .. n,
           NEW F, DOMAIN F \subseteq (n + 1) .. (n + 3),
           NEW Out \in SUBSET E, NEW To, Fits(Out, To, F, folds, n)
    PROVE  Shape((E \ Out) \cup To, F @@ folds, n + 3)
<1> DEFINE now == F @@ folds
<1>0. DOMAIN F \cap 1 .. n = {} OBVIOUS
<1>1. \A e \in E : /\ Lot(now, e) = Lot(folds, e)
                   /\ e.rec.folder \in DOMAIN now <=> e.rec.folder \in DOMAIN folds
                   /\ e.rec.folder \in DOMAIN folds => now[e.rec.folder] = folds[e.rec.folder]
  BY <1>0, StagedLot DEF Shape
<1>2. \A f \in DOMAIN now : f \notin DOMAIN F => f \in DOMAIN folds /\ f <= n /\ now[f] = folds[f]
  BY DEF @@
<1>3. \A f \in DOMAIN F : now[f] = F[f] BY MergeFacts
<1> HIDE DEF now
<1>4. \A e \in E \ Out, g \in To : e.rec.folder # g.rec.folder
  <2> TAKE e \in E \ Out, g \in To
  <2> SUFFICES ASSUME e.rec.folder = g.rec.folder PROVE FALSE OBVIOUS
  <2>1. PICK o \in Out : o.rec.folder = g.rec.folder BY DEF Shape, Fits
  <2> QED BY <2>1 DEF Shape
<1>5. \A e \in E \ Out :
         /\ DOMAIN e.rec = RecFields /\ e.id \in 1 .. n + 3 /\ e.rec.folder \in 1 .. n + 3
         /\ e.rec.folder \in DOMAIN now => now[e.rec.folder].dir = e.dir
         /\ \A x \in e.item : x.kept = 0 \/ DOMAIN Lot(now, e) = {}
         /\ \A g \in (E \ Out) \cup To : g.rec.folder = e.rec.folder => g = e
  BY <1>1, <1>4 DEF Shape
<1>6. ASSUME NEW e \in To, e.rec.folder \in DOMAIN now PROVE now[e.rec.folder].dir = e.dir
  <2>1. CASE e.rec.folder \in DOMAIN F BY <1>3, <2>1 DEF Fits
  <2>2. CASE e.rec.folder \notin DOMAIN F
    <3>1. PICK o \in Out : o.rec.folder = e.rec.folder /\ o.dir = e.dir BY <1>2, <1>6, <2>2 DEF Fits
    <3> QED BY <1>2, <1>6, <2>2, <3>1 DEF Shape
  <2> QED BY <2>1, <2>2
<1>7. \A e \in To :
         /\ DOMAIN e.rec = RecFields /\ e.id \in 1 .. n + 3 /\ e.rec.folder \in 1 .. n + 3
         /\ \A x \in e.item : x.kept = 0 \/ DOMAIN Lot(now, e) = {}
         /\ \A g \in (E \ Out) \cup To : g.rec.folder = e.rec.folder => g = e
  BY <1>4 DEF Fits, now
<1> DEFINE R == (E \ Out) \cup To
<1>8. \A e \in R : e \in E \ Out \/ e \in To OBVIOUS
<1> HIDE DEF R
<1>9. Shape(R, now, n + 3)
  <2> SUFFICES ASSUME NEW e \in R
               PROVE  /\ DOMAIN e.rec = RecFields /\ e.id \in 1 .. n + 3 /\ e.rec.folder \in 1 .. n + 3
                      /\ e.rec.folder \in DOMAIN now => now[e.rec.folder].dir = e.dir
                      /\ \A x \in e.item : x.kept = 0 \/ DOMAIN Lot(now, e) = {}
                      /\ \A g \in R : g.rec.folder = e.rec.folder => g = e
    BY DEF Shape
  <2>1. CASE e \in E \ Out BY <1>5, <2>1 DEF R
  <2>2. CASE e \in To BY <1>6, <1>7, <2>2 DEF R
  <2> QED BY <1>8, <2>1, <2>2
<1> QED BY <1>9 DEF R, now

LEMMA ReplacedOnce ==
    ASSUME NEW E, NEW folds, NEW now, NEW Out \in SUBSET E, NEW To, NEW t, NEW rev,
           \A e \in E : Lot(now, e) = Lot(folds, e)
    PROVE  /\ OnceIn(E, folds, t, rev) /\ Carries(Out, To, folds, now, t)
                  => OnceIn((E \ Out) \cup To, now, t, rev)
           /\ NoneIn(E, folds, t) /\ OnceIn(To, now, t, rev) => OnceIn((E \ Out) \cup To, now, t, rev)
<1>1. \A e \in E : \A i : Holds(now, e, i, t) <=> Holds(folds, e, i, t) BY DEF Holds
<1>2. ASSUME OnceIn(E, folds, t, rev), Carries(Out, To, folds, now, t)
      PROVE  OnceIn((E \ Out) \cup To, now, t, rev)
  <2>1. PICK e \in E : \E i : /\ Holds(folds, e, i, t) /\ Lot(folds, e)[i].rev = rev
                              /\ \A g \in E : \A j : Holds(folds, g, j, t) => g = e /\ j = i
    BY <1>2 DEF OnceIn
  <2>2. PICK i : /\ Holds(folds, e, i, t) /\ Lot(folds, e)[i].rev = rev
                 /\ \A g \in E : \A j : Holds(folds, g, j, t) => g = e /\ j = i
    BY <2>1
  <2>3. CASE e \in Out
    <3>1. OnceIn(Out, folds, t, rev) BY <2>2, <2>3 DEF OnceIn
    <3>0. OnceIn(To, now, t, rev) BY <1>2, <3>1 DEF Carries
    <3>2. PICK g \in To : \E j : /\ Holds(now, g, j, t) /\ Lot(now, g)[j].rev = rev
                                 /\ \A h \in To : \A k : Holds(now, h, k, t) => h = g /\ k = j
      BY <3>0 DEF OnceIn
    <3>3. \A h \in E \ Out : \A k : ~ Holds(now, h, k, t) BY <1>1, <2>2, <2>3
    <3> QED BY <3>2, <3>3 DEF OnceIn
  <2>4. CASE e \notin Out
    <3>1. NoneIn(To, now, t) BY <1>2, <2>2, <2>4 DEF Carries, NoneIn
    <3> QED BY <1>1, <2>2, <2>4, <3>1 DEF OnceIn, NoneIn
  <2> QED BY <2>3, <2>4
<1>3. ASSUME NoneIn(E, folds, t), OnceIn(To, now, t, rev)
      PROVE  OnceIn((E \ Out) \cup To, now, t, rev)
  <2>1. PICK g \in To : \E j : /\ Holds(now, g, j, t) /\ Lot(now, g)[j].rev = rev
                               /\ \A h \in To : \A k : Holds(now, h, k, t) => h = g /\ k = j
    BY <1>3 DEF OnceIn
  <2>2. \A h \in E \ Out : \A k : ~ Holds(now, h, k, t) BY <1>1, <1>3 DEF NoneIn
  <2> QED BY <2>1, <2>2 DEF OnceIn
<1> QED BY <1>2, <1>3

\* The entries that stay hold nothing new.
LEMMA NewText ==
    ASSUME NEW E, NEW folds, NEW n, NEW T, WellFolders(folds, n, T), NEW t, t \notin T
    PROVE  NoneIn(E, folds, t)
<1>1. \A e : \A i \in DOMAIN Lot(folds, e) : Lot(folds, e)[i].text \in T
  <2> TAKE e
  <2>1. CASE e.rec.folder \in DOMAIN folds BY <2>1 DEF Lot, Held, Exists, WellFolders, WellModels
  <2>2. CASE e.rec.folder \notin DOMAIN folds BY <2>2 DEF Lot, Held, Exists, Empty
  <2> QED BY <2>1, <2>2
<1> QED BY <1>1 DEF NoneIn, Holds

\* What an operation asks for is good, and what was stays good until its save.
Brings(Out, To, F, folds, makes, drops, K) ==
    /\ \A t \in K \ drops : Carries(Out, To, folds, F @@ folds, t)
    /\ \A t \in makes : OnceIn(To, F @@ folds, t, 0)

LEMMA Replaced ==
    ASSUME NEW E, NEW folds, NEW lat, NEW n \in Nat, NEW K \in SUBSET DOMAIN lat,
           Good(E, folds, lat, n, K), WellFolders(folds, n, DOMAIN lat),
           NEW F, DOMAIN F \subseteq (n + 1) .. (n + 3),
           NEW Out \in SUBSET E, NEW To, Fits(Out, To, F, folds, n),
           NEW makes, makes \cap DOMAIN lat = {}, NEW drops, Brings(Out, To, F, folds, makes, drops, K)
    PROVE  /\ Good((E \ Out) \cup To, F @@ folds, [t \in makes |-> 0] @@ lat, n + 3, (K \ drops) \cup makes)
           /\ Good(E, F @@ folds, [t \in makes |-> 0] @@ lat, n + 3, K)
<1> DEFINE now == F @@ folds
           late == [t \in makes |-> 0] @@ lat
<1>1. DOMAIN folds \subseteq 1 .. n /\ DOMAIN F \cap 1 .. n = {} BY DEF WellFolders
<1>2. \A e \in E : Lot(now, e) = Lot(folds, e) BY <1>1, StagedLot DEF Good, Shape
<1>3. (\A t \in K : late[t] = lat[t]) /\ (\A t \in makes : late[t] = 0) BY DEF @@
<1>4. Shape((E \ Out) \cup To, now, n + 3) BY <1>1, ReplacedShape DEF Good
<1>5. Shape(E, now, n + 3)
  <2>1. Fits({}, {}, F, folds, n) BY DEF Fits
  <2>2. Shape((E \ {}) \cup {}, now, n + 3)
    <3>1. {} \in SUBSET E OBVIOUS
    <3> HIDE DEF now
    <3> QED BY <1>1, <2>1, <3>1, ReplacedShape DEF Good, now
  <2>3. (E \ {}) \cup {} = E OBVIOUS
  <2> QED BY <2>2, <2>3
<1> HIDE DEF now, late
<1>6. \A t \in K \ drops : OnceIn((E \ Out) \cup To, now, t, lat[t])
  <2> TAKE t \in K \ drops
  <2>1. OnceIn(E, folds, t, lat[t]) /\ Carries(Out, To, folds, now, t) BY DEF Good, Brings, now
  <2> QED BY <1>2, <2>1, ReplacedOnce
<1>7. \A t \in makes : OnceIn((E \ Out) \cup To, now, t, 0)
  <2> TAKE t \in makes
  <2>1. NoneIn(E, folds, t) BY NewText
  <2>2. OnceIn(To, now, t, 0) BY DEF Brings, now
  <2> QED BY <1>2, <2>1, <2>2, ReplacedOnce
<1>8. \A t \in K : OnceIn(E, now, t, lat[t])
  BY <1>2 DEF Good, OnceIn, Holds
<1>9. Good((E \ Out) \cup To, now, late, n + 3, (K \ drops) \cup makes) BY <1>3, <1>4, <1>6, <1>7 DEF Good
<1>10. Good(E, now, late, n + 3, K) BY <1>3, <1>5, <1>8 DEF Good
<1> QED BY <1>9, <1>10 DEF now, late

\* An id that is free.
LEMMA FreeIdFacts ==
    ASSUME NEW m, IsFiniteSet(DOMAIN m)
    PROVE  FreeId(m) \notin DOMAIN m
<1> DEFINE n == Cardinality(DOMAIN m)
           S == {i \in Nat : i \in 1 .. (n + 1) /\ i \notin DOMAIN m}
           R == OpToRel(<, Nat)
<1>1. n \in Nat BY FS_CardinalityType
<1>2. S # {}
  <2> SUFFICES ASSUME 1 .. (n + 1) \subseteq DOMAIN m PROVE FALSE OBVIOUS
  <2>1. Cardinality(1 .. (n + 1)) <= n BY FS_Subset
  <2>2. Cardinality(1 .. (n + 1)) = n + 1 BY <1>1, FS_Interval
  <2> QED BY <1>1, <2>1, <2>2
<1>3. \E i \in S : \A j \in S : ~ (j < i)
  <2> DEFINE P == {p \in Nat \X Nat : p[1] < p[2]}
  <2>1. IsWellFoundedOn(P, Nat) BY NatLessThanWellFounded DEF OpToRel
  <2>2. \A x, y \in Nat : <<y, x>> \in P <=> y < x OBVIOUS
  <2>3. S \subseteq Nat OBVIOUS
  <2> HIDE DEF P, S
  <2>4. \E x \in S : \A y \in S : ~ (<<y, x>> \in P) BY <1>2, <2>1, <2>3, WFMin
  <2> QED BY <2>2, <2>3, <2>4
<1>4. \E i \in 1 .. (n + 1) : i \notin DOMAIN m /\ \A j \in 1 .. (i - 1) : j \in DOMAIN m
  <2>1. PICK i \in S : \A j \in S : ~ (j < i) BY <1>3
  <2>2. \A j \in 1 .. (i - 1) : j \in Nat /\ j \in 1 .. (n + 1) /\ j < i BY <1>1, <2>1
  <2> QED BY <2>1, <2>2
<1> QED BY <1>4 DEF FreeId

-----------------------------------------------------------------------------
(* What carries the texts over.                                              *)
LEMMA CarriesBy ==
    ASSUME NEW Out, NEW To, NEW folds, NEW now, NEW t,
           \A e \in To : \A j : Holds(now, e, j, t) => \E o \in Out : \E i : Holds(folds, o, i, t),
           \A o \in Out : \A i : Holds(folds, o, i, t) =>
              \E e \in To : \E j : Holds(now, e, j, t) /\ Lot(now, e)[j].rev = Lot(folds, o)[i].rev,
           \A o \in Out : \A i : (\A p \in Out : \A l : Holds(folds, p, l, t) => p = o /\ l = i) =>
              \A e, g \in To : \A j, k : Holds(now, e, j, t) /\ Holds(now, g, k, t) => e = g /\ j = k
    PROVE  Carries(Out, To, folds, now, t)
<1>1. NoneIn(Out, folds, t) => NoneIn(To, now, t) BY DEF NoneIn
<1>2. ASSUME NEW rev, OnceIn(Out, folds, t, rev) PROVE OnceIn(To, now, t, rev)
  <2>1. PICK o \in Out : \E i : /\ Holds(folds, o, i, t) /\ Lot(folds, o)[i].rev = rev
                                /\ \A p \in Out : \A l : Holds(folds, p, l, t) => p = o /\ l = i
    BY <1>2 DEF OnceIn
  <2>2. PICK i : /\ Holds(folds, o, i, t) /\ Lot(folds, o)[i].rev = rev
                 /\ \A p \in Out : \A l : Holds(folds, p, l, t) => p = o /\ l = i
    BY <2>1
  <2>3. PICK e \in To : \E j : Holds(now, e, j, t) /\ Lot(now, e)[j].rev = rev BY <2>2
  <2>4. PICK j : Holds(now, e, j, t) /\ Lot(now, e)[j].rev = rev BY <2>3
  <2>5. \A g \in To : \A k : Holds(now, g, k, t) => g = e /\ k = j BY <2>2, <2>4
  <2> QED BY <2>4, <2>5 DEF OnceIn
<1> QED BY <1>1, <1>2 DEF Carries

\* One entry takes the texts of another.
LEMMA CarryOne ==
    ASSUME NEW o, NEW e, NEW folds, NEW now, NEW t,
           \A i : Holds(now, e, i, t) <=> Holds(folds, o, i, t),
           \A i : Holds(folds, o, i, t) => Lot(now, e)[i].rev = Lot(folds, o)[i].rev
    PROVE  Carries({o}, {e}, folds, now, t)
BY CarriesBy

\* Two entries share the texts of one between them.
LEMMA CarrySplit ==
    ASSUME NEW o, NEW e, NEW g, NEW folds, NEW now, NEW t, e # g, NEW ids,
           \A i : Holds(now, e, i, t) <=> Holds(folds, o, i, t) /\ i \in ids,
           \A i : Holds(now, g, i, t) <=> Holds(folds, o, i, t) /\ i \notin ids,
           \A i : Holds(now, e, i, t) => Lot(now, e)[i].rev = Lot(folds, o)[i].rev,
           \A i : Holds(now, g, i, t) => Lot(now, g)[i].rev = Lot(folds, o)[i].rev
    PROVE  Carries({o}, {e, g}, folds, now, t)
<1>1. \A x \in {e, g} : \A j : Holds(now, x, j, t) => \E p \in {o} : \E i : Holds(folds, p, i, t) OBVIOUS
<1>2. \A p \in {o} : \A i : Holds(folds, p, i, t) =>
         \E x \in {e, g} : \E j : Holds(now, x, j, t) /\ Lot(now, x)[j].rev = Lot(folds, p)[i].rev
  OBVIOUS
<1>3. \A p \in {o} : \A i : (\A q \in {o} : \A l : Holds(folds, q, l, t) => q = p /\ l = i) =>
         \A x, y \in {e, g} : \A j, k : Holds(now, x, j, t) /\ Holds(now, y, k, t) => x = y /\ j = k
  OBVIOUS
<1> QED BY <1>1, <1>2, <1>3, CarriesBy

\* One entry joins the texts of two: those of o are where they were, those of p
\* are each at another id.
LEMMA CarryJoin ==
    ASSUME NEW o, NEW p, o # p, NEW e, NEW folds, NEW now, NEW t,
           \A i : Holds(folds, o, i, t) => Holds(now, e, i, t) /\ Lot(now, e)[i].rev = Lot(folds, o)[i].rev,
           \A i : Holds(folds, p, i, t) => Holds(now, e, i, t) /\ Lot(now, e)[i].rev = Lot(folds, p)[i].rev,
           \A i : Holds(now, e, i, t) => Holds(folds, o, i, t) \/ Holds(folds, p, i, t)
    PROVE  Carries({o, p}, {e}, folds, now, t)
<1>1. \A x \in {e} : \A j : Holds(now, x, j, t) => \E q \in {o, p} : \E i : Holds(folds, q, i, t) OBVIOUS
<1>2. \A q \in {o, p} : \A i : Holds(folds, q, i, t) =>
         \E x \in {e} : \E j : Holds(now, x, j, t) /\ Lot(now, x)[j].rev = Lot(folds, q)[i].rev
  OBVIOUS
<1>3. \A q \in {o, p} : \A i : (\A z \in {o, p} : \A l : Holds(folds, z, l, t) => z = q /\ l = i) =>
         \A x, y \in {e} : \A j, k : Holds(now, x, j, t) /\ Holds(now, y, k, t) => x = y /\ j = k
  OBVIOUS
<1> QED BY <1>1, <1>2, <1>3, CarriesBy

\* Entries without the text do not matter.
LEMMA CarryMore ==
    ASSUME NEW Out, NEW To, NEW A, NEW B, NEW folds, NEW now, NEW t,
           Carries(Out, To, folds, now, t), NoneIn(A, folds, t), NoneIn(B, now, t),
           NEW Out2, Out2 = Out \cup A, NEW To2, To2 = To \cup B
    PROVE  Carries(Out2, To2, folds, now, t)
<1>1. NoneIn(Out2, folds, t) => NoneIn(To2, now, t) BY DEF NoneIn, Carries
<1>2. ASSUME NEW rev, OnceIn(Out2, folds, t, rev) PROVE OnceIn(To2, now, t, rev)
  <2>1. OnceIn(Out, folds, t, rev) BY <1>2 DEF OnceIn, NoneIn
  <2>2. OnceIn(To, now, t, rev) BY <2>1 DEF Carries
  <2> QED BY <2>2 DEF OnceIn, NoneIn
<1> QED BY <1>1, <1>2 DEF Carries

-----------------------------------------------------------------------------
(* What an operation is given, and what it has to serve.                     *)
AtHome(ix) == \A s \in DOMAIN ix.gone : \A x \in ix.gone[s].trash : x.session = s
Sits(ix, folds, lat, n, K) ==
    /\ n \in Nat /\ DOMAIN ix = Fields /\ Apart(ix) /\ AtHome(ix)
    /\ DOMAIN ix.sessions \cup DOMAIN ix.gone \subseteq 1 .. n
    /\ Good(Entries(ix), folds, lat, n, K) /\ WellFolders(folds, n, DOMAIN lat) /\ K \subseteq DOMAIN lat
\* Where a folder is listed it stays in its session, and what is kept of a
\* recording gets a new one.
Stems(E, now, n) == \A e \in now : e.rec.folder <= n =>
    \E o \in E : o.rec.folder = e.rec.folder /\ o.dir = e.dir /\ (Free(o) => Free(e))
Serves(ask, ix, folds, lat, n, K, c) ==
    /\ Good(Entries(ask.next), ask.folders @@ folds, [t \in ask.makes |-> 0] @@ lat, n + 3,
            (K \ ask.drops) \cup ask.makes)
    /\ Good(Entries(ix), ask.folders @@ folds, [t \in ask.makes |-> 0] @@ lat, n + 3, K)
    /\ WellFolders(ask.folders @@ folds, n + 3, DOMAIN lat \cup ask.makes)
    /\ DOMAIN ask.folders \subseteq (n + 1) .. (n + 3) /\ ask.makes \subseteq {c}
    /\ ask.old \cap Listed(Entries(ask.next)) = {} /\ AtHome(ask.next)
    /\ Stems(Entries(ix), Entries(ask.next), n)

LEMMA MergedFolders ==
    ASSUME NEW n \in Nat, NEW folds, NEW T, WellFolders(folds, n, T), NEW U, T \subseteq U,
           NEW F, WellFolders(F, n + 3, U)
    PROVE  WellFolders(F @@ folds, n + 3, U)
<1>1. \A f \in DOMAIN (F @@ folds) :
         \/ f \in DOMAIN F /\ (F @@ folds)[f] = F[f]
         \/ f \in DOMAIN folds /\ (F @@ folds)[f] = folds[f]
  BY DEF @@
<1>2. \A f \in DOMAIN folds : /\ f \in 1 .. n + 3 /\ DOMAIN folds[f] = {"dir", "models"}
                              /\ WellModels(folds[f].models, U)
  BY DEF WellFolders, WellModels
<1> QED BY <1>1, <1>2 DEF WellFolders

LEMMA ServesBy ==
    ASSUME NEW ix, NEW folds, NEW lat, NEW n, NEW K, Sits(ix, folds, lat, n, K), NEW c, c \notin DOMAIN lat,
           NEW ask, NEW Out, Out \subseteq Entries(ix), NEW To,
           Entries(ask.next) = (Entries(ix) \ Out) \cup To, ask.next.gone = ix.gone,
           Fits(Out, To, ask.folders, folds, n), ask.makes \subseteq {c}, ask.drops = {}, ask.old = {},
           DOMAIN ask.folders \subseteq (n + 1) .. (n + 3),
           WellFolders(ask.folders, n + 3, DOMAIN lat \cup ask.makes),
           \A t \in K : Carries(Out, To, folds, ask.folders @@ folds, t),
           \A t \in ask.makes : OnceIn(To, ask.folders @@ folds, t, 0)
    PROVE  Serves(ask, ix, folds, lat, n, K, c)
<1> DEFINE F == ask.folders
           makes == ask.makes
           drops == ask.drops
<1>1. Brings(Out, To, F, folds, makes, drops, K) BY DEF Brings
<1>2. makes \cap DOMAIN lat = {} OBVIOUS
<1>3. /\ Good((Entries(ix) \ Out) \cup To, F @@ folds, [t \in makes |-> 0] @@ lat, n + 3, (K \ drops) \cup makes)
      /\ Good(Entries(ix), F @@ folds, [t \in makes |-> 0] @@ lat, n + 3, K)
  <2>1. DOMAIN F \subseteq (n + 1) .. (n + 3) /\ Fits(Out, To, F, folds, n) OBVIOUS
  <2> HIDE DEF F, makes, drops
  <2> QED BY <1>1, <1>2, <2>1, Replaced DEF Sits
<1>4. WellFolders(F @@ folds, n + 3, DOMAIN lat \cup makes)
  <2>1. WellFolders(F, n + 3, DOMAIN lat \cup makes) OBVIOUS
  <2> HIDE DEF F, makes
  <2> QED BY <2>1, MergedFolders DEF Sits
<1>5. AtHome(ask.next) BY DEF Sits, AtHome
<1>6. Stems(Entries(ix), Entries(ask.next), n)
  <2>1. \A e \in Entries(ask.next) : e \in Entries(ix) \/ e \in To OBVIOUS
  <2>2. \A e \in To : e.rec.folder <= n =>
           Free(e) /\ \E o \in Entries(ix) : o.rec.folder = e.rec.folder /\ o.dir = e.dir
    BY DEF Fits
  <2> QED BY <2>1, <2>2 DEF Stems
<1> QED BY <1>3, <1>4, <1>5, <1>6 DEF Serves

\* The recordings of a session, with one more or another in its place.
LEMMA PutEntry ==
    ASSUME NEW ix, DOMAIN ix = Fields, Apart(ix), NEW s \in DOMAIN ix.sessions, NEW r, NEW rec
    PROVE  LET Out == {e \in OfRecs(s, ix.sessions[s]) : e.id = r}
           IN Entries(PutRecording(ix, s, r, rec)) = (Entries(ix) \ Out) \cup {Entry(s, r, rec, {})}
<1> DEFINE recs == ix.sessions[s]
           now == (r :> rec) @@ recs
           Out == {e \in OfRecs(s, recs) : e.id = r}
<1>1. Entries(PutSession(ix, s, now)) = (Entries(ix) \ OfRecs(s, recs)) \cup OfRecs(s, now)
  <2> HIDE DEF now
  <2> QED BY PutEntries
<1>2. /\ DOMAIN now = {r} \cup DOMAIN recs /\ now[r] = rec
      /\ \A x \in DOMAIN recs : x # r => now[x] = recs[x]
  BY DEF :>, @@
<1>3. OfRecs(s, now) = (OfRecs(s, recs) \ Out) \cup {Entry(s, r, rec, {})}
  <2> HIDE DEF now
  <2>1. \A e : e \in OfRecs(s, now) => e \in (OfRecs(s, recs) \ Out) \cup {Entry(s, r, rec, {})}
    BY <1>2, EntryFacts DEF OfRecs
  <2>2. \A e : e \in (OfRecs(s, recs) \ Out) \cup {Entry(s, r, rec, {})} => e \in OfRecs(s, now)
    BY <1>2, EntryFacts DEF OfRecs
  <2> QED BY <2>1, <2>2
<1>4. OfRecs(s, recs) \subseteq Entries(ix) BY EntriesFacts
<1>5. Entries(PutRecording(ix, s, r, rec)) = Entries(PutSession(ix, s, now)) BY Zenon DEF PutRecording
<1>6. Entry(s, r, rec, {}) = Entry(s, r, rec, {}) /\ Out \subseteq OfRecs(s, recs) OBVIOUS
<1> HIDE DEF now, recs, Out
<1>7. Entries(PutSession(ix, s, now)) = (Entries(ix) \ Out) \cup {Entry(s, r, rec, {})}
  BY <1>1, <1>3, <1>4, <1>6
<1> QED BY <1>5, <1>7 DEF Out, recs

\* A recording that is there, and one that is new.
LEMMA OwnEntry ==
    ASSUME NEW ix, NEW s \in DOMAIN ix.sessions, NEW r
    PROVE  LET Out == {e \in OfRecs(s, ix.sessions[s]) : e.id = r}
               o == Entry(s, r, ix.sessions[s][r], {})
           IN /\ Out \subseteq Entries(ix)
              /\ r \in DOMAIN ix.sessions[s] => Out = {o} /\ o \in Entries(ix)
              /\ r \notin DOMAIN ix.sessions[s] => Out = {}
<1> DEFINE recs == ix.sessions[s]
           Out == {e \in OfRecs(s, recs) : e.id = r}
<1>1. OfRecs(s, recs) \subseteq Entries(ix) BY EntriesFacts
<1>2. r \in DOMAIN recs => Entry(s, r, recs[r], {}) \in OfRecs(s, recs) BY DEF OfRecs
<1>3. \A e \in Out : r \in DOMAIN recs /\ e = Entry(s, r, recs[r], {}) BY EntryFacts DEF OfRecs
<1>4. Entry(s, r, recs[r], {}).id = r BY EntryFacts
<1> QED BY <1>1, <1>2, <1>3, <1>4

LEMMA Used ==
    ASSUME NEW ix, NEW folds, NEW lat, NEW n, NEW K, Sits(ix, folds, lat, n, K), NEW s \in DOMAIN ix.sessions
    PROVE  n \in Nat /\ \A r \in DOMAIN ix.sessions[s] : r \in 1 .. n
<1>1. \A r \in DOMAIN ix.sessions[s] : r \in 1 .. n
  <2> TAKE r \in DOMAIN ix.sessions[s]
  <2>1. Entry(s, r, ix.sessions[s][r], {}) \in Entries(ix) BY OwnEntry
  <2>2. Entry(s, r, ix.sessions[s][r], {}).id = r BY EntryFacts
  <2> QED BY <2>1, <2>2 DEF Sits, Good, Shape
<1> QED BY <1>1 DEF Sits

Has(m, i, t) == i \in DOMAIN m /\ m[i].text = t

\* The models of an entry are those of its folder.
LEMMA LotFacts ==
    ASSUME NEW folds, NEW s, NEW r, NEW rec, NEW item, NEW i, NEW t
    PROVE  LET e == Entry(s, r, rec, item)
           IN /\ Lot(folds, e) = Held(folds, rec)
              /\ Holds(folds, e, i, t) <=> Has(Held(folds, rec), i, t)
BY EntryFacts DEF Lot, Holds, Has

LEMMA RecordingFacts ==
    ASSUME NEW storage, NEW folder, NEW named, NEW copy
    PROVE  /\ DOMAIN Recording(storage, folder, named, copy) = RecFields
           /\ Recording(storage, folder, named, copy).folder = folder
           /\ DOMAIN Document(folder) = RecFields /\ Document(folder).folder = folder
           /\ \A rec : DOMAIN rec = RecFields =>
                 DOMAIN In(rec, folder) = RecFields /\ In(rec, folder).folder = folder
BY DEF Recording, Document, In, RecFields

\* A folder that is staged.
LEMMA OneFolder ==
    ASSUME NEW f, NEW s, NEW m, NEW F, F = f :> Folder(s, m)
    PROVE  /\ F[f].dir = s /\ F[f].models = m
           /\ \A x : x \in DOMAIN F <=> x = f
           /\ \A folds, rec : rec.folder = f => Held(F @@ folds, rec) = m
           /\ \A T, l : WellModels(m, T) /\ f \in 1 .. l => WellFolders(F, l, T)
<1>1. DOMAIN F = {f} /\ F[f] = Folder(s, m) BY DEF :>
<1>2. Folder(s, m).dir = s /\ Folder(s, m).models = m /\ DOMAIN Folder(s, m) = {"dir", "models"} BY DEF Folder
<1>3. \A folds : f \in DOMAIN (F @@ folds) /\ (F @@ folds)[f] = Folder(s, m) BY <1>1 DEF @@
<1>4. \A folds, rec : rec.folder = f => Held(F @@ folds, rec) = m BY <1>2, <1>3 DEF Held, Exists
<1>5. \A T, l : WellModels(m, T) /\ f \in 1 .. l => WellFolders(F, l, T) BY <1>1, <1>2 DEF WellFolders
<1> QED BY <1>1, <1>2, <1>4, <1>5

LEMMA NoFolder ==
    ASSUME NEW n, NEW T, NEW folds
    PROVE  /\ DOMAIN Empty = {} /\ WellFolders(Empty, n, T) /\ WellModels(Empty, T)
           /\ \A rec : Held(Empty @@ folds, rec) = Held(folds, rec)
<1>1. DOMAIN Empty = {} BY DEF Empty
<1>2. DOMAIN (Empty @@ folds) = DOMAIN folds /\ \A f \in DOMAIN folds : (Empty @@ folds)[f] = folds[f]
  BY <1>1 DEF @@
<1>3. \A rec : Held(Empty @@ folds, rec) = Held(folds, rec) BY <1>2 DEF Held, Exists
<1>4. IsFiniteSet({}) BY FS_EmptySet
<1> QED BY <1>1, <1>3, <1>4 DEF WellFolders, WellModels

LEMMA OneModel ==
    ASSUME NEW c, NEW T, c \in T
    PROVE  LET m == 1 :> [text |-> c, rev |-> 0]
           IN /\ WellModels(m, T) /\ DOMAIN m = {1} /\ m[1].text = c /\ m[1].rev = 0
              /\ \A i, t : Has(m, i, t) <=> i = 1 /\ t = c
              /\ m # Empty /\ Texts(m) = {c}
<1> DEFINE m == 1 :> [text |-> c, rev |-> 0]
<1>1. DOMAIN m = {1} /\ m[1] = [text |-> c, rev |-> 0] BY DEF :>
<1> HIDE DEF m
<1>2. IsFiniteSet({1}) BY FS_Singleton
<1>3. Texts(m) = {c} BY <1>1 DEF Texts
<1>4. m # Empty
  <2>1. DOMAIN Empty = {} BY DEF Empty
  <2> QED BY <1>1, <2>1
<1> QED BY <1>1, <1>2, <1>3, <1>4 DEF Has, WellModels, m

\* An operation that puts one recording, with the models m.
Puts(ask, ix, folds, lat, n, K, c, s, r, rec, m) ==
    /\ s \in DOMAIN ix.sessions /\ r \in 1 .. n + 3 /\ ask.next = PutRecording(ix, s, r, rec)
    /\ DOMAIN rec = RecFields /\ rec.folder \in 1 .. n + 3
    /\ (\A t \in ask.makes : t = c) /\ ask.drops = {} /\ ask.old = {}
    /\ DOMAIN ask.folders \subseteq (n + 1) .. (n + 3) /\ WellFolders(ask.folders, n + 3, DOMAIN lat \cup ask.makes)
    /\ rec.folder <= n => r \in DOMAIN ix.sessions[s] /\ ix.sessions[s][r].folder = rec.folder
    /\ rec.folder \in DOMAIN ask.folders => ask.folders[rec.folder].dir = s
    /\ m = Held(ask.folders @@ folds, rec)
    /\ r \notin DOMAIN ix.sessions[s] => \A t \in K : \A i : ~ Has(m, i, t)
    /\ r \in DOMAIN ix.sessions[s] => \A t \in K : \A i :
          /\ Has(m, i, t) <=> Has(Held(folds, ix.sessions[s][r]), i, t)
          /\ Has(m, i, t) => m[i].rev = Held(folds, ix.sessions[s][r])[i].rev
    /\ \A t \in ask.makes : \E i : Has(m, i, t) /\ m[i].rev = 0 /\ \A j : Has(m, j, t) => j = i

LEMMA PutServes ==
    ASSUME NEW ix, NEW folds, NEW lat, NEW n, NEW K, Sits(ix, folds, lat, n, K), NEW c, c \notin DOMAIN lat,
           NEW ask, NEW s, NEW r, NEW rec, NEW m, Puts(ask, ix, folds, lat, n, K, c, s, r, rec, m)
    PROVE  Serves(ask, ix, folds, lat, n, K, c)
<1> USE DEF Puts
<1> DEFINE F == ask.folders
           recs == ix.sessions[s]
           Out == {e \in OfRecs(s, recs) : e.id = r}
           o == Entry(s, r, recs[r], {})
           e1 == Entry(s, r, rec, {})
<1>1. Out \subseteq Entries(ix) /\ (r \in DOMAIN recs => Out = {o}) /\ (r \notin DOMAIN recs => Out = {})
  BY OwnEntry
<1>2. Entries(ask.next) = (Entries(ix) \ Out) \cup {e1} BY PutEntry DEF Sits
<1>3. /\ e1.dir = s /\ e1.id = r /\ e1.rec = rec /\ e1.item = {}
      /\ o.dir = s /\ o.rec = recs[r]
  BY EntryFacts
<1>4. \A i, t : /\ Lot(F @@ folds, e1) = m /\ (Holds(F @@ folds, e1, i, t) <=> Has(m, i, t))
                /\ Lot(folds, o) = Held(folds, recs[r])
                /\ Holds(folds, o, i, t) <=> Has(Held(folds, recs[r]), i, t)
  BY LotFacts
<1> HIDE DEF Out, o, e1
<1>5. Fits(Out, {e1}, F, folds, n) BY <1>1, <1>3 DEF Fits, Free
<1>6. ASSUME NEW t \in K PROVE Carries(Out, {e1}, folds, F @@ folds, t)
  <2>1. CASE r \in DOMAIN recs
    <3>1. \A i : /\ Holds(F @@ folds, e1, i, t) <=> Holds(folds, o, i, t)
                 /\ Holds(folds, o, i, t) => Lot(F @@ folds, e1)[i].rev = Lot(folds, o)[i].rev
      BY <1>4, <2>1
    <3>2. Carries({o}, {e1}, folds, F @@ folds, t)
      <4> DEFINE now == F @@ folds
      <4>1. \A i : /\ Holds(now, e1, i, t) <=> Holds(folds, o, i, t)
                   /\ Holds(folds, o, i, t) => Lot(now, e1)[i].rev = Lot(folds, o)[i].rev
        BY <3>1
      <4> HIDE DEF now
      <4>2. Carries({o}, {e1}, folds, now, t) BY <4>1, CarryOne
      <4> QED BY <4>2 DEF now
    <3> QED BY <1>1, <2>1, <3>2
  <2>2. CASE r \notin DOMAIN recs
    <3>1. NoneIn({e1}, F @@ folds, t) BY <1>4, <2>2 DEF NoneIn
    <3>2. \A rev : ~ OnceIn(Out, folds, t, rev) BY <1>1, <2>2 DEF OnceIn
    <3> QED BY <3>1, <3>2 DEF Carries
  <2> QED BY <2>1, <2>2
<1>7. \A t \in ask.makes : OnceIn({e1}, F @@ folds, t, 0)
  BY <1>4 DEF OnceIn
<1>8. ask.makes \subseteq {c} OBVIOUS
<1>9. ask.next.gone = ix.gone BY PutEntries DEF PutRecording, Sits
<1> QED BY <1>1, <1>2, <1>5, <1>6, <1>7, <1>8, <1>9, ServesBy

\* With the text of a call in a folder of its own.
Fresh(c) == [text |-> c, rev |-> 0]

\* What is staged for it.
LEMMA StagedText ==
    ASSUME NEW f, NEW s, NEW c, NEW m, m = 1 :> Fresh(c), NEW F, F = f :> Folder(s, m)
    PROVE  /\ F[f].dir = s
           /\ \A x : x \in DOMAIN F <=> x = f
           /\ \A folds, rec : rec.folder = f => Held(F @@ folds, rec) = m
           /\ \A T, l : c \in T /\ f \in 1 .. l => WellFolders(F, l, T)
           /\ m[1].rev = 0 /\ \A i, t : Has(m, i, t) <=> i = 1 /\ t = c
<1>1. (\A T : c \in T => WellModels(m, T)) /\ m[1].rev = 0 /\ \A i, t : Has(m, i, t) <=> i = 1 /\ t = c
  BY OneModel DEF Fresh
<1> QED BY <1>1, OneFolder

LEMMA RelinkServes ==
    ASSUME NEW ix, NEW folds, NEW lat, NEW n, NEW K, Sits(ix, folds, lat, n, K), NEW c, c \notin DOMAIN lat,
           NEW s \in DOMAIN ix.sessions, NEW r \in DOMAIN ix.sessions[s]
    PROVE  Serves(Relink(ix, s, r), ix, folds, lat, n, K, c)
<1> DEFINE old == ix.sessions[s][r]
           rec == [old EXCEPT !.storage = "reference", !.media = 0]
           ask == Asking(PutRecording(ix, s, r, rec))
<1>1. r \in 1 .. n /\ DOMAIN old = RecFields /\ old.folder \in 1 .. n
  <2>1. Entry(s, r, old, {}) \in Entries(ix) BY OwnEntry
  <2> QED BY <2>1, EntryFacts DEF Sits, Good, Shape
<1>2. DOMAIN rec = RecFields /\ rec.folder = old.folder BY <1>1 DEF RecFields
<1>3. /\ ask.next = PutRecording(ix, s, r, rec) /\ ask.folders = Empty /\ ask.makes = {}
      /\ ask.drops = {} /\ ask.old = {}
  BY DEF Asking
<1>4. Relink(ix, s, r) = ask BY Zenon DEF Relink
<1>5. Held(ask.folders @@ folds, rec) = Held(folds, old) BY <1>2, <1>3, NoFolder DEF Held, Exists
<1>6. DOMAIN ask.folders = {} /\ WellFolders(ask.folders, n + 3, DOMAIN lat \cup ask.makes)
  BY <1>3, NoFolder
<1>7. r \in 1 .. n + 3 /\ rec.folder \in 1 .. n + 3 BY <1>1, <1>2 DEF Sits
<1> HIDE DEF rec, ask
<1>8. Puts(ask, ix, folds, lat, n, K, c, s, r, rec, Held(folds, old))
  BY <1>1, <1>2, <1>3, <1>5, <1>6, <1>7 DEF Puts
<1>9. Serves(ask, ix, folds, lat, n, K, c) BY <1>8, PutServes
<1> QED BY <1>4, <1>9

LEMMA ImportTextServes ==
    ASSUME NEW ix, NEW folds, NEW lat, NEW n, NEW K, Sits(ix, folds, lat, n, K), NEW c, c \notin DOMAIN lat,
           NEW s \in DOMAIN ix.sessions
    PROVE  Serves(ImportText(ix, s, n, Fresh(c)), ix, folds, lat, n, K, c)
<1> DEFINE f == n + 1
           rec == Recording("none", f, FALSE, 0)
           m == 1 :> Fresh(c)
           F == f :> Folder(s, m)
           nx == PutRecording(ix, s, f, rec)
           T == DOMAIN lat \cup {c}
           ask == ImportText(ix, s, n, Fresh(c))
<1>0. n \in Nat /\ f = n + 1 /\ f \in 1 .. n + 3 BY DEF Sits
<1>1. ask = [Staging(nx, F) EXCEPT !.makes = {Fresh(c).text}, !.undo = TRUE] BY Zenon DEF ImportText
<1>2. /\ nx = PutRecording(ix, s, f, rec) /\ m = 1 :> Fresh(c) /\ F = f :> Folder(s, m)
      /\ DOMAIN rec = RecFields /\ rec.folder = f
  BY DEF Recording, RecFields
<1>3. f \notin DOMAIN ix.sessions[s] BY <1>0, Used
<1>5. c \in T /\ T = DOMAIN lat \cup {c} OBVIOUS
<1> HIDE DEF ask, F, nx, m, rec, f, T
<1>4. ask.next = nx /\ ask.folders = F /\ ask.makes = {c} /\ ask.drops = {} /\ ask.old = {}
  BY <1>1 DEF Staging, Asking, Fresh
<1>6. /\ \A x : x \in DOMAIN F <=> x = f
      /\ F[f].dir = s /\ WellFolders(F, n + 3, T)
      /\ Held(F @@ folds, rec) = m
      /\ m[1].rev = 0 /\ \A i, t : Has(m, i, t) <=> i = 1 /\ t = c
  BY <1>0, <1>2, <1>5, StagedText
<1>7. \A t \in K : t # c BY DEF Sits
<1>8. rec.folder \in 1 .. n + 3 /\ ~ (rec.folder <= n) /\ DOMAIN ask.folders \subseteq (n + 1) .. (n + 3)
  BY <1>0, <1>2, <1>4, <1>6
<1>9. Puts(ask, ix, folds, lat, n, K, c, s, f, rec, m)
  BY <1>0, <1>2, <1>3, <1>4, <1>5, <1>6, <1>7, <1>8 DEF Puts
<1>10. Serves(ask, ix, folds, lat, n, K, c) BY <1>9, PutServes
<1> QED BY <1>10 DEF ask

\* Models with a text more.
LEMMA HeldWell ==
    ASSUME NEW ix, NEW folds, NEW lat, NEW n, NEW K, Sits(ix, folds, lat, n, K), NEW rec
    PROVE  WellModels(Held(folds, rec), DOMAIN lat)
<1>1. CASE Exists(folds, rec) BY <1>1 DEF Sits, WellFolders, Held, Exists
<1>2. CASE ~ Exists(folds, rec) BY <1>2, NoFolder DEF Held
<1> QED BY <1>1, <1>2

LEMMA AddedText ==
    ASSUME NEW held, NEW T, WellModels(held, T), NEW c, c \notin T, NEW m, m = (FreeId(held) :> Fresh(c)) @@ held
    PROVE  /\ \A U : (\A t \in T : t \in U) /\ c \in U => WellModels(m, U)
           /\ \A i, t : t # c => /\ Has(m, i, t) <=> Has(held, i, t)
                                 /\ Has(m, i, t) => m[i].rev = held[i].rev
           /\ \E i : Has(m, i, c) /\ m[i].rev = 0 /\ \A j : Has(m, j, c) => j = i
<1> DEFINE k == FreeId(held)
           x == Fresh(c)
<1>1. k \notin DOMAIN held BY FreeIdFacts DEF WellModels
<1>2. DOMAIN x = {"text", "rev"} /\ x.text = c /\ x.rev = 0 BY DEF Fresh
<1> HIDE DEF k, x
<1>3. /\ DOMAIN m = {k} \cup DOMAIN held /\ m[k] = x
      /\ \A i \in DOMAIN held : m[i] = held[i]
  BY <1>1 DEF :>, @@, k, x
<1>4. IsFiniteSet(DOMAIN m)
  <2>1. IsFiniteSet({k}) /\ IsFiniteSet(DOMAIN held) BY FS_Singleton DEF WellModels
  <2> QED BY <1>3, <2>1, FS_Union
<1>5. \A U : (\A t \in T : t \in U) /\ c \in U => WellModels(m, U) BY <1>2, <1>3, <1>4 DEF WellModels
<1>6. \A i \in DOMAIN held : held[i].text # c BY DEF WellModels
<1> QED BY <1>1, <1>2, <1>3, <1>5, <1>6 DEF Has

LEMMA AppendTextServes ==
    ASSUME NEW ix, NEW folds, NEW lat, NEW n, NEW K, Sits(ix, folds, lat, n, K), NEW c, c \notin DOMAIN lat,
           NEW s \in DOMAIN ix.sessions, NEW r \in DOMAIN ix.sessions[s]
    PROVE  Serves(AppendText(ix, folds, s, r, n, Fresh(c)), ix, folds, lat, n, K, c)
<1> DEFINE f == n + 1
           old == ix.sessions[s][r]
           held == Held(folds, old)
           rec == In(old, f)
           m == (FreeId(held) :> Fresh(c)) @@ held
           F == f :> Folder(s, m)
           nx == PutRecording(ix, s, r, rec)
           T == DOMAIN lat \cup {c}
           ask == AppendText(ix, folds, s, r, n, Fresh(c))
<1>0. n \in Nat /\ f = n + 1 /\ f \in 1 .. n + 3 BY DEF Sits
<1>1. ask = [Staging(nx, F) EXCEPT !.makes = {Fresh(c).text}, !.undo = TRUE] BY Zenon DEF AppendText
<1>2. r \in 1 .. n /\ DOMAIN old = RecFields
  <2>1. Entry(s, r, old, {}) \in Entries(ix) BY OwnEntry
  <2> QED BY <2>1, EntryFacts DEF Sits, Good, Shape
<1>3. /\ nx = PutRecording(ix, s, r, rec) /\ m = (FreeId(held) :> Fresh(c)) @@ held /\ F = f :> Folder(s, m)
      /\ DOMAIN rec = RecFields /\ rec.folder = f /\ held = Held(folds, old)
  BY <1>2 DEF In, RecFields
<1>4. c \in T /\ T = DOMAIN lat \cup {c} OBVIOUS
<1>5. WellModels(held, DOMAIN lat) BY HeldWell
<1> HIDE DEF ask, F, nx, m, rec, f, T, held
<1>6. ask.next = nx /\ ask.folders = F /\ ask.makes = {c} /\ ask.drops = {} /\ ask.old = {}
  BY <1>1 DEF Staging, Asking, Fresh
<1>7. /\ WellModels(m, T)
      /\ \A i, t : t # c => (Has(m, i, t) <=> Has(held, i, t)) /\ (Has(m, i, t) => m[i].rev = held[i].rev)
      /\ \E i : Has(m, i, c) /\ m[i].rev = 0 /\ \A j : Has(m, j, c) => j = i
  BY <1>3, <1>4, <1>5, AddedText
<1>8. /\ \A x : x \in DOMAIN F <=> x = f
      /\ F[f].dir = s /\ WellFolders(F, n + 3, T) /\ Held(F @@ folds, rec) = m
  BY <1>0, <1>3, <1>7, OneFolder
<1>9. \A t \in K : t # c BY DEF Sits
<1>10. /\ rec.folder \in 1 .. n + 3 /\ ~ (rec.folder <= n) /\ r \in 1 .. n + 3
       /\ DOMAIN ask.folders \subseteq (n + 1) .. (n + 3)
  BY <1>0, <1>2, <1>3, <1>6, <1>8
<1>11. Puts(ask, ix, folds, lat, n, K, c, s, r, rec, m)
  <2>1. ask.next = PutRecording(ix, s, r, rec) /\ (\A t \in ask.makes : t = c) BY <1>3, <1>6
  <2>2. WellFolders(ask.folders, n + 3, DOMAIN lat \cup ask.makes) BY <1>4, <1>6, <1>8
  <2>3. rec.folder \in DOMAIN ask.folders => ask.folders[rec.folder].dir = s BY <1>3, <1>6, <1>8
  <2>4. m = Held(ask.folders @@ folds, rec) BY <1>6, <1>8
  <2>5. held = Held(folds, ix.sessions[s][r]) BY <1>3
  <2>6. \A t \in K : \A i : /\ Has(m, i, t) <=> Has(Held(folds, ix.sessions[s][r]), i, t)
                            /\ Has(m, i, t) => m[i].rev = Held(folds, ix.sessions[s][r])[i].rev
    BY <1>7, <1>9, <2>5
  <2>7. \A t \in ask.makes : \E i : Has(m, i, t) /\ m[i].rev = 0 /\ \A j : Has(m, j, t) => j = i
    BY <1>7, <2>1
  <2> QED BY <1>3, <1>6, <1>10, <2>1, <2>2, <2>3, <2>4, <2>6, <2>7 DEF Puts
<1>12. Serves(ask, ix, folds, lat, n, K, c) BY <1>11, PutServes
<1> QED BY <1>12 DEF ask

LEMMA ImportExistingServes ==
    ASSUME NEW ix, NEW folds, NEW lat, NEW n, NEW K, Sits(ix, folds, lat, n, K), NEW c, c \notin DOMAIN lat,
           NEW s \in DOMAIN ix.sessions, NEW r \in DOMAIN ix.sessions[s],
           ~ Exists(folds, ix.sessions[s][r])
    PROVE  Serves(ImportExisting(ix, s, r, n, Fresh(c)), ix, folds, lat, n, K, c)
<1> DEFINE f == n + 1
           old == ix.sessions[s][r]
           rec == In(old, f)
           m == 1 :> Fresh(c)
           F == f :> Folder(s, m)
           nx == PutRecording(ix, s, r, rec)
           T == DOMAIN lat \cup {c}
           ask == ImportExisting(ix, s, r, n, Fresh(c))
<1>0. n \in Nat /\ f = n + 1 /\ f \in 1 .. n + 3 BY DEF Sits
<1>1. ask = [Staging(nx, F) EXCEPT !.makes = {Fresh(c).text}] BY Zenon DEF ImportExisting
<1>2. r \in 1 .. n /\ DOMAIN old = RecFields
  <2>1. Entry(s, r, old, {}) \in Entries(ix) BY OwnEntry
  <2> QED BY <2>1, EntryFacts DEF Sits, Good, Shape
<1>3. /\ nx = PutRecording(ix, s, r, rec) /\ m = 1 :> Fresh(c) /\ F = f :> Folder(s, m)
      /\ DOMAIN rec = RecFields /\ rec.folder = f
  BY <1>2 DEF In, RecFields
<1>4. c \in T /\ T = DOMAIN lat \cup {c} OBVIOUS
<1>5. \A i, t : ~ Has(Held(folds, old), i, t) BY DEF Held, Has, Empty
<1> HIDE DEF ask, F, nx, m, rec, f, T
<1>6. ask.next = nx /\ ask.folders = F /\ ask.makes = {c} /\ ask.drops = {} /\ ask.old = {}
  BY <1>1 DEF Staging, Asking, Fresh
<1>7. /\ \A x : x \in DOMAIN F <=> x = f
      /\ F[f].dir = s /\ WellFolders(F, n + 3, T) /\ Held(F @@ folds, rec) = m
      /\ m[1].rev = 0 /\ \A i, t : Has(m, i, t) <=> i = 1 /\ t = c
  BY <1>0, <1>3, <1>4, StagedText
<1>8. \A t \in K : t # c BY DEF Sits
<1>9. /\ rec.folder \in 1 .. n + 3 /\ ~ (rec.folder <= n) /\ r \in 1 .. n + 3
      /\ DOMAIN ask.folders \subseteq (n + 1) .. (n + 3)
  BY <1>0, <1>2, <1>3, <1>6, <1>7
<1>10. Puts(ask, ix, folds, lat, n, K, c, s, r, rec, m)
  BY <1>3, <1>4, <1>5, <1>6, <1>7, <1>8, <1>9 DEF Puts
<1>11. Serves(ask, ix, folds, lat, n, K, c) BY <1>10, PutServes
<1> QED BY <1>11 DEF ask

LEMMA ImportAudioServes ==
    ASSUME NEW ix, NEW folds, NEW lat, NEW n, NEW K, Sits(ix, folds, lat, n, K), NEW c, c \notin DOMAIN lat,
           NEW s \in DOMAIN ix.sessions, NEW storage, NEW models \in {Empty, 1 :> Fresh(c)}
    PROVE  Serves(ImportAudio(ix, s, n, storage, models), ix, folds, lat, n, K, c)
<1> DEFINE f == n + 1
           copy == IF storage = "copy" THEN f ELSE 0
           rec == Recording(storage, f, FALSE, copy)
           m == 1 :> Fresh(c)
           F == f :> Folder(s, m)
           nx == PutRecording(ix, s, f, rec)
           T == DOMAIN lat \cup {c}
           ask == ImportAudio(ix, s, n, storage, models)
           G == IF models = Empty THEN Empty ELSE f :> Folder(s, models)
           M == IF storage = "copy" THEN copy :> s ELSE Empty
<1>0. n \in Nat /\ f = n + 1 /\ f \in 1 .. n + 3 BY DEF Sits
<1>1. ask = [Asking(nx) EXCEPT !.folders = G, !.media = M, !.makes = Texts(models), !.undo = TRUE]
  BY Zenon DEF ImportAudio
<1>2. /\ nx = PutRecording(ix, s, f, rec) /\ m = 1 :> Fresh(c) /\ F = f :> Folder(s, m)
      /\ DOMAIN rec = RecFields /\ rec.folder = f
  BY DEF Recording, RecFields
<1>3. f \notin DOMAIN ix.sessions[s] BY <1>0, Used
<1>4. c \in T /\ T = DOMAIN lat \cup {c} OBVIOUS
<1>5. /\ models = Empty => G = Empty /\ Texts(models) = {}
      /\ models # Empty => G = F /\ Texts(models) = {c}
  <2>1. Texts(Empty) = {} BY DEF Texts, Empty
  <2>2. Texts(m) = {c}
    <3>1. DOMAIN m = {1} /\ m[1] = Fresh(c) BY DEF :>
    <3>2. Fresh(c).text = c BY DEF Fresh
    <3> HIDE DEF m
    <3> QED BY <3>1, <3>2 DEF Texts
  <2>3. (models = m \/ models = Empty) /\ m # Empty
    <3>1. DOMAIN m = {1} /\ DOMAIN Empty = {} BY DEF :>, Empty
    <3> QED BY <3>1
  <2>4. (models = Empty => G = Empty) /\ (models # Empty => G = f :> Folder(s, models)) OBVIOUS
  <2> HIDE DEF m, G
  <2> QED BY <2>1, <2>2, <2>3, <2>4
<1> HIDE DEF ask, F, nx, m, rec, f, T, G, M
<1>6. ask.next = nx /\ ask.folders = G /\ ask.makes = Texts(models) /\ ask.drops = {} /\ ask.old = {}
  BY <1>1 DEF Asking
<1>7. /\ \A x : x \in DOMAIN F <=> x = f
      /\ F[f].dir = s /\ WellFolders(F, n + 3, T) /\ Held(F @@ folds, rec) = m
      /\ m[1].rev = 0 /\ \A i, t : Has(m, i, t) <=> i = 1 /\ t = c
  BY <1>0, <1>2, <1>4, StagedText
<1>8. \A t \in K : t # c BY DEF Sits
<1>9. rec.folder \in 1 .. n + 3 /\ ~ (rec.folder <= n) BY <1>0, <1>2
<1>10. ASSUME models = Empty PROVE Serves(ask, ix, folds, lat, n, K, c)
  <2>1. DOMAIN Empty = {} /\ Held(Empty @@ folds, rec) = Held(folds, rec) BY NoFolder
  <2>2. Held(folds, rec) = Empty
    <3>1. rec.folder \notin DOMAIN folds BY <1>9 DEF Sits, WellFolders
    <3> QED BY <3>1 DEF Held, Exists
  <2>3. \A i, t : ~ Has(Empty, i, t) BY <2>1 DEF Has
  <2>4. ask.folders = Empty /\ ask.makes = {} BY <1>5, <1>6, <1>10
  <2>5. \A U : WellFolders(ask.folders, n + 3, U) BY <2>4, NoFolder
  <2>6. DOMAIN ask.folders = {} BY <2>1, <2>4
  <2>7. Puts(ask, ix, folds, lat, n, K, c, s, f, rec, Empty)
    BY <1>0, <1>2, <1>3, <1>6, <1>9, <2>1, <2>2, <2>3, <2>4, <2>5, <2>6 DEF Puts
  <2> QED BY <2>7, PutServes
<1>11. ASSUME models # Empty PROVE Serves(ask, ix, folds, lat, n, K, c)
  <2>1. ask.folders = F /\ ask.makes = {c} BY <1>5, <1>6, <1>11
  <2>2. DOMAIN ask.folders \subseteq (n + 1) .. (n + 3) BY <1>0, <1>7, <2>1
  <2>3. Puts(ask, ix, folds, lat, n, K, c, s, f, rec, m)
    BY <1>0, <1>2, <1>3, <1>4, <1>6, <1>7, <1>8, <1>9, <2>1, <2>2 DEF Puts
  <2> QED BY <2>3, PutServes
<1>12. Serves(ask, ix, folds, lat, n, K, c) BY <1>10, <1>11
<1> QED BY <1>12 DEF ask

-----------------------------------------------------------------------------
(* Operations that bring nothing: they replace the entries Out by To.        *)
Swaps(ask, ix, folds, lat, n, K, Out, To) ==
    /\ Out \subseteq Entries(ix) /\ Entries(ask.next) = (Entries(ix) \ Out) \cup To
    /\ ask.next.gone = ix.gone /\ Fits(Out, To, ask.folders, folds, n) /\ ask.makes = {} /\ ask.drops = {} /\ ask.old = {}
    /\ DOMAIN ask.folders \subseteq (n + 1) .. (n + 3) /\ WellFolders(ask.folders, n + 3, DOMAIN lat)
    /\ \A t \in K : Carries(Out, To, folds, ask.folders @@ folds, t)

LEMMA SwapServes ==
    ASSUME NEW ix, NEW folds, NEW lat, NEW n, NEW K, Sits(ix, folds, lat, n, K), NEW c, c \notin DOMAIN lat,
           NEW ask, NEW Out, NEW To, Swaps(ask, ix, folds, lat, n, K, Out, To)
    PROVE  Serves(ask, ix, folds, lat, n, K, c)
<1>1. /\ Out \subseteq Entries(ix) /\ Entries(ask.next) = (Entries(ix) \ Out) \cup To
      /\ ask.next.gone = ix.gone /\ Fits(Out, To, ask.folders, folds, n) /\ ask.drops = {} /\ ask.old = {}
      /\ DOMAIN ask.folders \subseteq (n + 1) .. (n + 3)
      /\ \A t \in K : Carries(Out, To, folds, ask.folders @@ folds, t)
  BY DEF Swaps
<1>2. ask.makes \subseteq {c} /\ \A t \in ask.makes : OnceIn(To, ask.folders @@ folds, t, 0) BY DEF Swaps
<1>3. WellFolders(ask.folders, n + 3, DOMAIN lat \cup ask.makes)
  <2>1. DOMAIN lat \cup ask.makes = DOMAIN lat BY DEF Swaps
  <2> QED BY <2>1 DEF Swaps
<1> QED BY <1>1, <1>2, <1>3, ServesBy

\* The recordings of a session with those of R changed.
SameBut(recs, old, R) ==
    \A x : x \notin R => (x \in DOMAIN recs <=> x \in DOMAIN old) /\ (x \in DOMAIN recs => recs[x] = old[x])
Part(s, recs, R) == {Entry(s, x, recs[x], {}) : x \in R \cap DOMAIN recs}

LEMMA PartFacts ==
    ASSUME NEW s, NEW recs, NEW R
    PROVE  /\ Part(s, recs, R) = {e \in OfRecs(s, recs) : e.id \in R}
           /\ \A e : e \in Part(s, recs, R) <=> \E x : x \in R /\ x \in DOMAIN recs /\ e = Entry(s, x, recs[x], {})
<1>1. \A x : Entry(s, x, recs[x], {}).id = x BY EntryFacts
<1> QED BY <1>1 DEF Part, OfRecs

\* The index with the recordings recs of a session, for the old ones.
Edits(ix, s, old, recs, R) ==
    /\ DOMAIN ix = Fields /\ Apart(ix) /\ s \in DOMAIN ix.sessions /\ old = ix.sessions[s]
    /\ SameBut(recs, old, R)

LEMMA EditEntries ==
    ASSUME NEW ix, NEW s, NEW old, NEW recs, NEW R, Edits(ix, s, old, recs, R), NEW jx, jx = PutSession(ix, s, recs)
    PROVE  /\ Part(s, old, R) \subseteq Entries(ix) /\ jx.gone = ix.gone
           /\ Entries(jx) = (Entries(ix) \ Part(s, old, R)) \cup Part(s, recs, R)
<1>0. DOMAIN ix = Fields /\ Apart(ix) /\ s \in DOMAIN ix.sessions /\ old = ix.sessions[s] BY DEF Edits
<1>1. Entries(jx) = (Entries(ix) \ OfRecs(s, old)) \cup OfRecs(s, recs) BY <1>0, PutEntries
<1>2. OfRecs(s, old) \subseteq Entries(ix) /\ jx.gone = ix.gone BY <1>0, EntriesFacts, PutEntries
<1>3. \A e : /\ e \in OfRecs(s, old) <=> \E x : x \in DOMAIN old /\ e = Entry(s, x, old[x], {})
             /\ e \in OfRecs(s, recs) <=> \E x : x \in DOMAIN recs /\ e = Entry(s, x, recs[x], {})
  BY DEF OfRecs
<1>4. \A e, x, rec : e = Entry(s, x, rec, {}) => e.id = x BY EntryFacts
<1>5. \A e : e \in OfRecs(s, recs) /\ e \notin Part(s, recs, R) <=> e \in OfRecs(s, old) /\ e \notin Part(s, old, R)
  <2>1. \A e : e \in OfRecs(s, recs) /\ e \notin Part(s, recs, R)
           <=> \E x : x \in DOMAIN recs /\ x \notin R /\ e = Entry(s, x, recs[x], {})
    BY <1>3, <1>4, PartFacts
  <2>2. \A e : e \in OfRecs(s, old) /\ e \notin Part(s, old, R)
           <=> \E x : x \in DOMAIN old /\ x \notin R /\ e = Entry(s, x, old[x], {})
    BY <1>3, <1>4, PartFacts
  <2>3. \A x : x \notin R => /\ x \in DOMAIN recs <=> x \in DOMAIN old
                             /\ x \in DOMAIN recs => recs[x] = old[x]
    BY DEF Edits, SameBut
  <2> QED BY <2>1, <2>2, <2>3
<1>6. Part(s, old, R) \subseteq OfRecs(s, old) /\ Part(s, recs, R) \subseteq OfRecs(s, recs) BY PartFacts
<1>7. Entries(jx) = (Entries(ix) \ Part(s, old, R)) \cup Part(s, recs, R)
  BY <1>1, <1>2, <1>5, <1>6
<1> QED BY <1>2, <1>6, <1>7

\* What goes to the trash, and what comes out of it.
ItemEntry(x) == Entry(x.session, x.id, x.rec, {x})

LEMMA ItemFacts ==
    ASSUME NEW ix, NEW items
    PROVE  /\ \A e : e \in OfItems(items) <=> \E x \in items : e = ItemEntry(x)
           /\ \A x : /\ ItemEntry(x).dir = x.session /\ ItemEntry(x).id = x.id /\ ItemEntry(x).rec = x.rec
                     /\ \A y : y \in ItemEntry(x).item <=> y = x
           /\ \A x, y : ItemEntry(x) = ItemEntry(y) => x = y
<1>1. \A x : /\ ItemEntry(x).dir = x.session /\ ItemEntry(x).id = x.id /\ ItemEntry(x).rec = x.rec
             /\ ItemEntry(x).item = {x}
  BY EntryFacts DEF ItemEntry
<1>2. \A x, y : ItemEntry(x) = ItemEntry(y) => x = y
  <2> TAKE x, y
  <2> HAVE ItemEntry(x) = ItemEntry(y)
  <2>1. {x} = {y} BY <1>1
  <2> QED BY <2>1
<1>3. \A e : e \in OfItems(items) <=> \E x \in items : e = ItemEntry(x) BY DEF OfItems, ItemEntry
<1> QED BY <1>1, <1>2, <1>3

LEMMA TrashEntries ==
    ASSUME NEW ix, DOMAIN ix = Fields, NEW items
    PROVE  LET jx == [ix EXCEPT !.trash = items]
           IN /\ DOMAIN jx = Fields /\ jx.sessions = ix.sessions /\ jx.gone = ix.gone /\ jx.trash = items
              /\ \A e : e \in Entries(jx) <=> e \in OfItems(items) \/
                    \/ \E s \in DOMAIN ix.sessions : e \in OfRecs(s, ix.sessions[s])
                    \/ \E s \in DOMAIN ix.gone : e \in OfRecs(s, ix.gone[s].recs) \cup OfItems(ix.gone[s].trash)
<1> DEFINE jx == [ix EXCEPT !.trash = items]
<1>1. DOMAIN jx = Fields /\ jx.sessions = ix.sessions /\ jx.gone = ix.gone /\ jx.trash = items BY DEF Fields
<1> HIDE DEF jx
<1>2. \A e : e \in Entries(jx) <=> e \in OfItems(items) \/
         \/ \E s \in DOMAIN ix.sessions : e \in OfRecs(s, ix.sessions[s])
         \/ \E s \in DOMAIN ix.gone : e \in OfRecs(s, ix.gone[s].recs) \cup OfItems(ix.gone[s].trash)
  BY <1>1, EntriesFacts
<1> QED BY <1>1, <1>2 DEF jx

LEMMA DiscardEntries ==
    ASSUME NEW ix, NEW s, NEW old, NEW recs, NEW R, Edits(ix, s, old, recs, R), NEW item,
           NEW kx, kx = Discarded(ix, s, recs, item)
    PROVE  /\ Part(s, old, R) \subseteq Entries(ix) /\ kx.gone = ix.gone
           /\ Entries(kx) = (Entries(ix) \ Part(s, old, R)) \cup (Part(s, recs, R) \cup {ItemEntry(item)})
<1> DEFINE jx == PutSession(ix, s, recs)
           items == jx.trash \cup {item}
<1>0. jx = PutSession(ix, s, recs) /\ DOMAIN jx = Fields BY PutEntries DEF Edits
<1>1. kx = [jx EXCEPT !.trash = items] BY DEF Discarded
<1> HIDE DEF jx
<1>2. /\ Part(s, old, R) \subseteq Entries(ix) /\ jx.gone = ix.gone
      /\ Entries(jx) = (Entries(ix) \ Part(s, old, R)) \cup Part(s, recs, R)
  BY <1>0, EditEntries
<1>3. \A e : e \in OfItems(items) <=> e \in OfItems(jx.trash) \/ e = ItemEntry(item)
  <2>1. \A x : x \in items <=> x \in jx.trash \/ x = item OBVIOUS
  <2> HIDE DEF items
  <2> QED BY <2>1, ItemFacts
<1> HIDE DEF items
<1>4. /\ kx.gone = jx.gone
      /\ \A e : e \in Entries(kx) <=> e \in OfItems(items) \/
           \/ \E q \in DOMAIN jx.sessions : e \in OfRecs(q, jx.sessions[q])
           \/ \E q \in DOMAIN jx.gone : e \in OfRecs(q, jx.gone[q].recs) \cup OfItems(jx.gone[q].trash)
  BY <1>0, <1>1, TrashEntries
<1>5. \A e : e \in Entries(jx) <=> e \in OfItems(jx.trash) \/
           \/ \E q \in DOMAIN jx.sessions : e \in OfRecs(q, jx.sessions[q])
           \/ \E q \in DOMAIN jx.gone : e \in OfRecs(q, jx.gone[q].recs) \cup OfItems(jx.gone[q].trash)
  BY EntriesFacts
<1>6. Entries(kx) = Entries(jx) \cup {ItemEntry(item)} BY <1>3, <1>4, <1>5
<1> QED BY <1>2, <1>4, <1>6

LEMMA TakenEntries ==
    ASSUME NEW ix, DOMAIN ix = Fields, Apart(ix), AtHome(ix), NEW item \in ix.trash,
           item.session \in DOMAIN ix.sessions
    PROVE  LET jx == [ix EXCEPT !.trash = ix.trash \ {item}]
           IN /\ DOMAIN jx = Fields /\ jx.sessions = ix.sessions /\ jx.gone = ix.gone /\ Apart(jx)
              /\ ItemEntry(item) \in Entries(ix) /\ Entries(jx) = Entries(ix) \ {ItemEntry(item)}
<1> DEFINE items == ix.trash \ {item}
           jx == [ix EXCEPT !.trash = items]
<1>1. /\ DOMAIN jx = Fields /\ jx.sessions = ix.sessions /\ jx.gone = ix.gone
      /\ \A e : e \in Entries(jx) <=> e \in OfItems(items) \/
            \/ \E s \in DOMAIN ix.sessions : e \in OfRecs(s, ix.sessions[s])
            \/ \E s \in DOMAIN ix.gone : e \in OfRecs(s, ix.gone[s].recs) \cup OfItems(ix.gone[s].trash)
  <2> HIDE DEF items
  <2> QED BY TrashEntries
<1>2. \A x : x \in items <=> x \in ix.trash /\ x # item OBVIOUS
<1> HIDE DEF items, jx
<1>3. \A e : e \in OfItems(items) <=> e \in OfItems(ix.trash) /\ e # ItemEntry(item) BY <1>2, ItemFacts
<1>4. ItemEntry(item) \in OfItems(ix.trash) BY ItemFacts
<1>5. \A s, recs : ItemEntry(item) \notin OfRecs(s, recs) BY <1>4, OwnEntries
<1>6. \A s \in DOMAIN ix.gone : ItemEntry(item) \notin OfItems(ix.gone[s].trash)
  BY ItemFacts DEF Apart, AtHome
<1>7. \A e : e \in Entries(jx) <=> e \in Entries(ix) /\ e # ItemEntry(item)
  BY <1>1, <1>3, <1>5, <1>6, EntriesFacts
<1>8. Entries(jx) = Entries(ix) \ {ItemEntry(item)} BY <1>7
<1>9. ItemEntry(item) \in Entries(ix) BY <1>4, EntriesFacts
<1>10. Apart(jx) BY <1>1 DEF Apart
<1> QED BY <1>1, <1>8, <1>9, <1>10 DEF jx, items

\* What is known of an entry, and of a recording that is there.
LEMMA EntryOld ==
    ASSUME NEW ix, NEW folds, NEW lat, NEW n, NEW K, Sits(ix, folds, lat, n, K), NEW e \in Entries(ix)
    PROVE  /\ n \in Nat /\ e.id \in 1 .. n /\ DOMAIN e.rec = RecFields /\ e.rec.folder \in 1 .. n
           /\ e.rec.folder \in DOMAIN folds => folds[e.rec.folder].dir = e.dir
           /\ \A x \in e.item : x.kept = 0 \/ DOMAIN Lot(folds, e) = {}
           /\ \A f \in DOMAIN folds : f \in 1 .. n
BY DEF Sits, Good, Shape, WellFolders

LEMMA RecordingOld ==
    ASSUME NEW ix, NEW folds, NEW lat, NEW n, NEW K, Sits(ix, folds, lat, n, K), NEW s \in DOMAIN ix.sessions,
           NEW r \in DOMAIN ix.sessions[s]
    PROVE  /\ n \in Nat /\ r \in 1 .. n /\ DOMAIN ix.sessions[s][r] = RecFields /\ ix.sessions[s][r].folder \in 1 .. n
           /\ Entry(s, r, ix.sessions[s][r], {}) \in Entries(ix)
<1> DEFINE o == Entry(s, r, ix.sessions[s][r], {})
<1>1. o \in Entries(ix) BY OwnEntry
<1>2. o.id = r /\ o.rec = ix.sessions[s][r] BY EntryFacts
<1> HIDE DEF o
<1> QED BY <1>1, <1>2, EntryOld DEF o

\* The whole recording goes to the trash as it is.
LEMMA ItemOf ==
    ASSUME NEW s, NEW id, NEW rec, NEW orig, NEW kept
    PROVE  LET e == ItemEntry(Item(s, id, rec, orig, kept))
           IN /\ e.dir = s /\ e.id = id /\ e.rec = rec
              /\ \A x \in e.item : x.kept = kept
              /\ e.item # {}
              /\ \A folds : Lot(folds, e) = Held(folds, rec)
              /\ \A folds, i, t : Holds(folds, e, i, t) <=> Has(Held(folds, rec), i, t)
<1> DEFINE x == Item(s, id, rec, orig, kept)
           e == ItemEntry(x)
<1>1. x.session = s /\ x.id = id /\ x.rec = rec /\ x.kept = kept BY DEF Item
<1> HIDE DEF x
<1>2. e.dir = s /\ e.id = id /\ e.rec = rec /\ \A y : y \in e.item <=> y = x BY <1>1, ItemFacts
<1>3. (\A y \in e.item : y.kept = kept) /\ e.item # {}
  <2>1. x \in e.item BY <1>2
  <2> QED BY <1>1, <1>2, <2>1
<1> HIDE DEF e
<1>4. \A folds : Lot(folds, e) = Held(folds, rec) BY <1>2 DEF Lot
<1>5. \A folds, i, t : Holds(folds, e, i, t) <=> Has(Held(folds, rec), i, t) BY <1>4 DEF Holds, Has
<1> QED BY <1>2, <1>3, <1>4, <1>5 DEF e, x

LEMMA TrashAllServes ==
    ASSUME NEW ix, NEW folds, NEW lat, NEW n, NEW K, Sits(ix, folds, lat, n, K), NEW c, c \notin DOMAIN lat,
           NEW s \in DOMAIN ix.sessions, NEW r \in DOMAIN ix.sessions[s]
    PROVE  Serves(TrashAll(ix, s, r), ix, folds, lat, n, K, c)
<1> DEFINE old == ix.sessions[s]
           rec == old[r]
           recs == Without(old, r)
           item == Item(s, r, rec, 0, 0)
           nx == Discarded(ix, s, recs, item)
           ask == TrashAll(ix, s, r)
           o == Entry(s, r, rec, {})
           e1 == ItemEntry(item)
           Out == Part(s, old, {r})
           now == ask.folders @@ folds
<1>0. n \in Nat /\ DOMAIN ix = Fields /\ Apart(ix) BY DEF Sits
<1>1. ask.next = nx /\ ask.folders = Empty /\ ask.makes = {} /\ ask.drops = {} /\ ask.old = {}
  <2>1. ask = Asking(nx) BY Zenon DEF TrashAll
  <2> HIDE DEF nx, ask
  <2> QED BY <2>1 DEF Asking
<1>2. /\ o.dir = s /\ o.rec = rec
      /\ \A fs, i, t : Lot(fs, o) = Held(fs, rec) /\ (Holds(fs, o, i, t) <=> Has(Held(fs, rec), i, t))
  BY EntryFacts, LotFacts
<1>3. /\ e1.dir = s /\ e1.id = r /\ e1.rec = rec /\ \A x \in e1.item : x.kept = 0
      /\ \A fs, i, t : Lot(fs, e1) = Held(fs, rec) /\ (Holds(fs, e1, i, t) <=> Has(Held(fs, rec), i, t))
  BY ItemOf
<1>4. r \in 1 .. n /\ DOMAIN rec = RecFields /\ rec.folder \in 1 .. n BY RecordingOld
<1>5. \A x : /\ x \in DOMAIN recs <=> x \in DOMAIN old /\ x # r
             /\ x \in DOMAIN recs => recs[x] = old[x]
  BY DEF Without, Restrict
<1>6. Out = {o} /\ Part(s, recs, {r}) = {}
  <2>1. \A e : e \in Out <=> e = o BY PartFacts
  <2> HIDE DEF recs, Out, o
  <2>2. \A e : e \notin Part(s, recs, {r}) BY <1>5, PartFacts
  <2> QED BY <2>1, <2>2
<1>7. Out \subseteq Entries(ix) /\ nx.gone = ix.gone /\ Entries(nx) = (Entries(ix) \ Out) \cup (Part(s, recs, {r}) \cup {e1})
  <2> DEFINE R == {r}
  <2>1. Edits(ix, s, old, recs, R) /\ nx = Discarded(ix, s, recs, item) BY <1>0, <1>5 DEF SameBut, Edits
  <2> HIDE DEF R, recs, item, old, nx
  <2>2. /\ Part(s, old, R) \subseteq Entries(ix) /\ nx.gone = ix.gone
        /\ Entries(nx) = (Entries(ix) \ Part(s, old, R)) \cup (Part(s, recs, R) \cup {ItemEntry(item)})
    BY <2>1, DiscardEntries
  <2> QED BY <2>2 DEF R
<1>8. \A i : Held(now, rec) = Held(folds, rec) BY <1>1, NoFolder
<1> HIDE DEF ask, nx, o, e1, Out, recs, item, rec, now
<1>9. Entries(nx) = (Entries(ix) \ Out) \cup {e1} BY <1>6, <1>7
<1>10. /\ DOMAIN ask.folders = {} /\ WellFolders(ask.folders, n + 3, DOMAIN lat) BY <1>1, NoFolder
<1>11. Fits(Out, {e1}, ask.folders, folds, n) BY <1>0, <1>2, <1>3, <1>4, <1>6, <1>10 DEF Fits, Free
<1>12. \A t \in K : Carries(Out, {e1}, folds, now, t)
  <2> TAKE t \in K
  <2>1. \A i : /\ Holds(now, e1, i, t) <=> Holds(folds, o, i, t)
               /\ Holds(folds, o, i, t) => Lot(now, e1)[i].rev = Lot(folds, o)[i].rev
    BY <1>2, <1>3, <1>8
  <2> QED BY <1>6, <2>1, CarryOne
<1>13. Swaps(ask, ix, folds, lat, n, K, Out, {e1})
  BY <1>1, <1>7, <1>9, <1>10, <1>11, <1>12 DEF Swaps, now
<1>14. Serves(ask, ix, folds, lat, n, K, c) BY <1>13, SwapServes
<1> QED BY <1>14 DEF ask

\* Two folders that are staged, and models of one of them.
LEMMA TwoFolders ==
    ASSUME NEW f, NEW g, NEW s, NEW m, NEW k, NEW F, f # g, F = (f :> Folder(s, m)) @@ (g :> Folder(s, k))
    PROVE  /\ F[f].dir = s /\ F[g].dir = s
           /\ \A x : x \in DOMAIN F <=> x = f \/ x = g
           /\ \A folds, rec : /\ rec.folder = f => Held(F @@ folds, rec) = m
                              /\ rec.folder = g => Held(F @@ folds, rec) = k
           /\ \A T, l : WellModels(m, T) /\ WellModels(k, T) /\ f \in 1 .. l /\ g \in 1 .. l => WellFolders(F, l, T)
<1>1. DOMAIN F = {f, g} /\ F[f] = Folder(s, m) /\ F[g] = Folder(s, k)
  <2> DEFINE P == f :> Folder(s, m)
             Q == g :> Folder(s, k)
  <2>1. DOMAIN P = {f} /\ P[f] = Folder(s, m) /\ DOMAIN Q = {g} /\ Q[g] = Folder(s, k) BY OneFacts
  <2>2. F = P @@ Q OBVIOUS
  <2> HIDE DEF P, Q
  <2> QED BY <2>1, <2>2 DEF @@
<1>2. \A x : Folder(s, x).dir = s /\ Folder(s, x).models = x /\ DOMAIN Folder(s, x) = {"dir", "models"} BY DEF Folder
<1>3. \A folds : /\ f \in DOMAIN (F @@ folds) /\ (F @@ folds)[f] = Folder(s, m)
                 /\ g \in DOMAIN (F @@ folds) /\ (F @@ folds)[g] = Folder(s, k)
  BY <1>1 DEF @@
<1>4. \A folds, rec : rec.folder = f => Held(F @@ folds, rec) = m BY <1>2, <1>3 DEF Held, Exists
<1>5. \A folds, rec : rec.folder = g => Held(F @@ folds, rec) = k BY <1>2, <1>3 DEF Held, Exists
<1>6. \A T, l : WellModels(m, T) /\ WellModels(k, T) /\ f \in 1 .. l /\ g \in 1 .. l => WellFolders(F, l, T)
  BY <1>1, <1>2 DEF WellFolders
<1> QED BY <1>1, <1>2, <1>4, <1>5, <1>6

LEMMA PartModels ==
    ASSUME NEW held, NEW T, NEW S, NEW m, WellModels(held, T), m = Restrict(held, S),
           \A i : i \in S => i \in DOMAIN held
    PROVE  /\ WellModels(m, T) /\ DOMAIN m = S
           /\ \A i, t : /\ Has(m, i, t) <=> Has(held, i, t) /\ i \in S
                        /\ Has(m, i, t) => m[i].rev = held[i].rev
<1>1. DOMAIN m = S /\ \A i \in S : m[i] = held[i] BY DEF Restrict
<1>2. IsFiniteSet(S)
  <2>1. S \subseteq DOMAIN held OBVIOUS
  <2> QED BY <2>1, FS_Subset DEF WellModels
<1> QED BY <1>1, <1>2 DEF WellModels, Has

LEMMA NoModels ==
    ASSUME NEW T PROVE WellModels(Empty, T) /\ DOMAIN Empty = {} /\ \A i, t : ~ Has(Empty, i, t)
<1>1. DOMAIN Empty = {} /\ WellModels(Empty, T) BY NoFolder
<1> QED BY <1>1 DEF Has

\* What stays of a recording without audio and texts.
LEMMA WithoutFacts ==
    ASSUME NEW old, NEW r
    PROVE  \A x : /\ x \in DOMAIN Without(old, r) <=> x \in DOMAIN old /\ x # r
                  /\ x \in DOMAIN old /\ x # r => Without(old, r)[x] = old[x]
BY DEF Without, Restrict

LEMMA AddedOne ==
    ASSUME NEW x, NEW y, NEW rest, NEW f, f = (x :> y) @@ rest
    PROVE  /\ \A z : z \in DOMAIN f <=> z = x \/ z \in DOMAIN rest
           /\ f[x] = y /\ \A z : z \in DOMAIN rest /\ z # x => f[z] = rest[z]
<1> DEFINE P == x :> y
<1>1. DOMAIN P = {x} /\ P[x] = y BY OneFacts
<1>2. f = P @@ rest OBVIOUS
<1> HIDE DEF P
<1> QED BY <1>1, <1>2 DEF @@

LEMMA TrashAudioServes ==
    ASSUME NEW ix, NEW folds, NEW lat, NEW n, NEW K, Sits(ix, folds, lat, n, K), NEW c, c \notin DOMAIN lat,
           NEW s \in DOMAIN ix.sessions, NEW r \in DOMAIN ix.sessions[s]
    PROVE  Serves(TrashAudio(ix, folds, s, r, n), ix, folds, lat, n, K, c)
<1> DEFINE f == n + 1
           g == n + 2
           old == ix.sessions[s]
           rec == old[r]
           held == Held(folds, rec)
           doc == Document(g)
           au == In(rec, f)
           rest == Without(old, r)
           recs == (g :> doc) @@ rest
           item == Item(s, r, au, 0, g)
           nx == Discarded(ix, s, recs, item)
           F == (f :> Folder(s, Empty)) @@ (g :> Folder(s, held))
           ask == TrashAudio(ix, folds, s, r, n)
           o == Entry(s, r, rec, {})
           d == Entry(s, g, doc, {})
           e1 == ItemEntry(item)
           R == {r, g}
           now == F @@ folds
<1>0. /\ n \in Nat /\ f = n + 1 /\ g = n + 2 /\ f # g /\ f \in 1 .. n + 3 /\ g \in 1 .. n + 3
      /\ ~ (f <= n) /\ ~ (g <= n) /\ DOMAIN ix = Fields /\ Apart(ix)
  BY DEF Sits
<1>1. ask.next = nx /\ ask.folders = F /\ ask.makes = {} /\ ask.drops = {} /\ ask.old = {}
  <2>1. ask = Staging(nx, F) BY Zenon DEF TrashAudio
  <2> HIDE DEF nx, F, ask
  <2> QED BY <2>1 DEF Asking, Staging
<1>2. /\ o.dir = s /\ o.rec = rec
      /\ \A fs, i, t : Lot(fs, o) = Held(fs, rec) /\ (Holds(fs, o, i, t) <=> Has(Held(fs, rec), i, t))
  BY EntryFacts, LotFacts
<1>3. /\ d.dir = s /\ d.rec = doc /\ d.id = g /\ \A x : x \notin d.item
      /\ \A fs, i, t : Lot(fs, d) = Held(fs, doc) /\ (Holds(fs, d, i, t) <=> Has(Held(fs, doc), i, t))
  BY EntryFacts, LotFacts
<1>4. /\ e1.dir = s /\ e1.id = r /\ e1.rec = au
      /\ \A fs, i, t : Lot(fs, e1) = Held(fs, au) /\ (Holds(fs, e1, i, t) <=> Has(Held(fs, au), i, t))
  BY ItemOf
<1>5. r \in 1 .. n /\ DOMAIN rec = RecFields /\ rec.folder \in 1 .. n BY RecordingOld
<1>6. g \notin DOMAIN old BY <1>0, Used
<1>7. DOMAIN doc = RecFields /\ doc.folder = g /\ DOMAIN au = RecFields /\ au.folder = f
  BY <1>5, RecordingFacts
<1>8. WellModels(held, DOMAIN lat) /\ held = Held(folds, rec) BY HeldWell
<1>9. \A x : /\ x \in DOMAIN rest <=> x \in DOMAIN old /\ x # r
             /\ x \in DOMAIN old /\ x # r => rest[x] = old[x]
  BY WithoutFacts
<1>10. /\ F = (f :> Folder(s, Empty)) @@ (g :> Folder(s, held))
       /\ nx = Discarded(ix, s, recs, item) /\ o = Entry(s, r, old[r], {}) /\ d = Entry(s, g, doc, {})
  OBVIOUS
<1>11. /\ \A x : x \in DOMAIN recs <=> x = g \/ x \in DOMAIN rest
       /\ recs[g] = doc /\ \A x : x \in DOMAIN rest /\ x # g => recs[x] = rest[x]
  <2>1. recs = (g :> doc) @@ rest OBVIOUS
  <2> HIDE DEF recs, g, doc, rest
  <2> QED BY <2>1, AddedOne
<1>12. ix.sessions[s] = old /\ r \in DOMAIN old /\ e1 = ItemEntry(item) /\ \A x : x \in R <=> x = r \/ x = g OBVIOUS
<1> HIDE DEF ask, nx, o, d, e1, recs, rest, item, rec, now, f, g, F, doc, au, held, old, R
<1>13. Edits(ix, s, old, recs, R) BY <1>0, <1>9, <1>11, <1>12 DEF SameBut, Edits
<1>14. Part(s, old, R) = {o} /\ Part(s, recs, R) = {d}
  <2>1. \A e : e \in Part(s, old, R) <=> e = o BY <1>6, <1>10, <1>12, PartFacts
  <2>2. \A e : e \in Part(s, recs, R) <=> e = d BY <1>6, <1>9, <1>10, <1>11, <1>12, PartFacts
  <2> QED BY <2>1, <2>2
<1>15. {o} \subseteq Entries(ix) /\ nx.gone = ix.gone /\ Entries(nx) = (Entries(ix) \ {o}) \cup {d, e1}
  <2>1. /\ Part(s, old, R) \subseteq Entries(ix) /\ nx.gone = ix.gone
        /\ Entries(nx) = (Entries(ix) \ Part(s, old, R)) \cup (Part(s, recs, R) \cup {ItemEntry(item)})
    BY <1>10, <1>13, DiscardEntries
  <2> QED BY <1>12, <1>14, <2>1
<1>16. /\ F[f].dir = s /\ F[g].dir = s /\ \A x : x \in DOMAIN F <=> x = f \/ x = g
       /\ Held(now, au) = Empty /\ Held(now, doc) = held
       /\ WellFolders(F, n + 3, DOMAIN lat)
  <2> DEFINE m == Empty
             l == n + 3
             T == DOMAIN lat
  <2>0. f # g BY <1>0
  <2>1. WellModels(m, T) /\ WellModels(held, T) /\ f \in 1 .. l /\ g \in 1 .. l BY <1>0, <1>8, NoModels
  <2>2. F = (f :> Folder(s, m)) @@ (g :> Folder(s, held)) /\ m = Empty BY <1>10
  <2> HIDE DEF m, l, T
  <2>3. /\ F[f].dir = s /\ F[g].dir = s /\ \A x : x \in DOMAIN F <=> x = f \/ x = g
        /\ \A fs, x : /\ x.folder = f => Held(F @@ fs, x) = m
                      /\ x.folder = g => Held(F @@ fs, x) = held
        /\ \A U, k : WellModels(m, U) /\ WellModels(held, U) /\ f \in 1 .. k /\ g \in 1 .. k => WellFolders(F, k, U)
    BY <2>0, <2>2, TwoFolders
  <2> QED BY <1>7, <2>1, <2>2, <2>3 DEF now, l, T
<1>17. DOMAIN Empty = {} /\ \A i, t : ~ Has(Empty, i, t) BY NoModels
<1>18. Fits({o}, {d, e1}, F, folds, n)
  <2>1. DOMAIN Lot(now, e1) = {} BY <1>4, <1>16, <1>17
  <2> QED BY <1>0, <1>3, <1>4, <1>5, <1>7, <1>16, <2>1 DEF Fits, now, Free
<1>19. \A t \in K : Carries({o}, {d, e1}, folds, now, t)
  <2> TAKE t \in K
  <2>1. \A i : /\ Holds(now, d, i, t) <=> Holds(folds, o, i, t)
               /\ Holds(folds, o, i, t) => Lot(now, d)[i].rev = Lot(folds, o)[i].rev
    BY <1>2, <1>3, <1>8, <1>16
  <2>2. Carries({o}, {d}, folds, now, t) BY <2>1, CarryOne
  <2>3. NoneIn({}, folds, t) /\ NoneIn({e1}, now, t) BY <1>4, <1>16, <1>17 DEF NoneIn
  <2>4. {o} = {o} \cup {} /\ {d, e1} = {d} \cup {e1} OBVIOUS
  <2> QED BY <2>2, <2>3, <2>4, CarryMore
<1>20. DOMAIN F \subseteq (n + 1) .. (n + 3) BY <1>0, <1>16
<1>21. Swaps(ask, ix, folds, lat, n, K, {o}, {d, e1})
  BY <1>1, <1>15, <1>16, <1>18, <1>19, <1>20 DEF Swaps, now
<1>22. Serves(ask, ix, folds, lat, n, K, c) BY <1>21, SwapServes
<1> QED BY <1>22 DEF ask

\* What remains of a recording some of whose models were taken.
LEMMA LeftFacts ==
    ASSUME NEW from, NEW rec, NEW rest, NEW g, NEW r,
           from = [x \in {y \in {r} : Remains(rec, rest, g) # {}} |-> In(rec, g)]
    PROVE  /\ \A x : x \in DOMAIN from => x = r
           /\ r \in DOMAIN from => from[r] = In(rec, g)
           /\ r \notin DOMAIN from => rest = Empty
<1>1. DOMAIN from = {y \in {r} : Remains(rec, rest, g) # {}} /\ \A x \in DOMAIN from : from[x] = In(rec, g)
  OBVIOUS
<1>2. ASSUME r \notin DOMAIN from PROVE rest = Empty
  <2>1. Remains(rec, rest, g) = {} BY <1>1, <1>2
  <2>2. In(rec, g) \in {In(rec, g)} OBVIOUS
  <2> QED BY <2>1, <2>2 DEF Remains
<1> QED BY <1>1, <1>2

LEMMA MergedTwo ==
    ASSUME NEW from, NEW rest, NEW f, f = from @@ rest
    PROVE  \A z : /\ z \in DOMAIN f <=> z \in DOMAIN from \/ z \in DOMAIN rest
                  /\ z \in DOMAIN from => f[z] = from[z]
                  /\ z \notin DOMAIN from /\ z \in DOMAIN rest => f[z] = rest[z]
BY DEF @@

\* The models ids of an entry are taken from it, and the entry may go then.
Splits(o, e, g, folds, now, t, ids, To) ==
    /\ e # g /\ \A i : /\ Holds(now, e, i, t) <=> Holds(folds, o, i, t) /\ i \in ids
                       /\ Holds(now, g, i, t) <=> Holds(folds, o, i, t) /\ i \notin ids
                       /\ Holds(now, e, i, t) => Lot(now, e)[i].rev = Lot(folds, o)[i].rev
                       /\ Holds(now, g, i, t) => Lot(now, g)[i].rev = Lot(folds, o)[i].rev
    /\ To = {e, g} \/ (To = {e} /\ \A i : ~ Holds(now, g, i, t))

LEMMA SplitCarries ==
    ASSUME NEW o, NEW e, NEW g, NEW folds, NEW now, NEW t, NEW ids, NEW To,
           Splits(o, e, g, folds, now, t, ids, To)
    PROVE  Carries({o}, To, folds, now, t)
<1>1. CASE To = {e, g}
  <2>1. Carries({o}, {e, g}, folds, now, t) BY CarrySplit DEF Splits
  <2> QED BY <1>1, <2>1
<1>2. CASE To = {e} /\ \A i : ~ Holds(now, g, i, t)
  <2>1. \A i : /\ Holds(now, e, i, t) <=> Holds(folds, o, i, t)
               /\ Holds(folds, o, i, t) => Lot(now, e)[i].rev = Lot(folds, o)[i].rev
    BY <1>2 DEF Splits
  <2>2. Carries({o}, {e}, folds, now, t) BY <2>1, CarryOne
  <2> QED BY <1>2, <2>2
<1> QED BY <1>1, <1>2 DEF Splits

LEMMA TrashModelServes ==
    ASSUME NEW ix, NEW folds, NEW lat, NEW n, NEW K, Sits(ix, folds, lat, n, K), NEW c, c \notin DOMAIN lat,
           NEW s \in DOMAIN ix.sessions, NEW r \in DOMAIN ix.sessions[s],
           NEW i \in DOMAIN Held(folds, ix.sessions[s][r])
    PROVE  Serves(TrashModel(ix, folds, s, r, i, n), ix, folds, lat, n, K, c)
<1> DEFINE f == n + 1
           g == n + 2
           h == n + 3
           old == ix.sessions[s]
           rec == old[r]
           held == Held(folds, rec)
           doc == Document(f)
           left == In(rec, g)
           one == Restrict(held, {i})
           rest == Without(held, i)
           from == [x \in {y \in {r} : Remains(rec, rest, g) # {}} |-> left]
           others == Without(old, r)
           recs == from @@ others
           orig == IF IsAudio(rec) THEN r ELSE 0
           item == Item(s, h, doc, orig, 0)
           nx == Discarded(ix, s, recs, item)
           F == (f :> Folder(s, one)) @@ (g :> Folder(s, rest))
           ask == TrashModel(ix, folds, s, r, i, n)
           o == Entry(s, r, rec, {})
           d == Entry(s, r, left, {})
           e1 == ItemEntry(item)
           R == {r}
           Left == Part(s, recs, R)
           To == Left \cup {e1}
           now == F @@ folds
<1>0. /\ n \in Nat /\ f = n + 1 /\ g = n + 2 /\ f \in 1 .. n + 3 /\ g \in 1 .. n + 3 /\ h \in 1 .. n + 3
      /\ ~ (f <= n) /\ ~ (g <= n) /\ ~ (h <= n)
  BY DEF Sits
<1>00. f # g /\ DOMAIN ix = Fields /\ Apart(ix) BY DEF Sits
<1>1. ask.next = nx /\ ask.folders = F /\ ask.makes = {} /\ ask.drops = {} /\ ask.old = {}
  <2>1. ask = Staging(nx, F) BY Zenon DEF TrashModel
  <2> HIDE DEF nx, F, ask
  <2> QED BY <2>1 DEF Asking, Staging
<1>2. /\ o.dir = s /\ o.rec = rec
      /\ \A fs, j, t : Lot(fs, o) = Held(fs, rec) /\ (Holds(fs, o, j, t) <=> Has(Held(fs, rec), j, t))
  BY EntryFacts, LotFacts
<1>3. /\ d.dir = s /\ d.rec = left /\ d.id = r /\ \A x : x \notin d.item
      /\ \A fs, j, t : Lot(fs, d) = Held(fs, left) /\ (Holds(fs, d, j, t) <=> Has(Held(fs, left), j, t))
  BY EntryFacts, LotFacts
<1>4. /\ e1.dir = s /\ e1.id = h /\ e1.rec = doc /\ \A x \in e1.item : x.kept = 0
      /\ \A fs, j, t : Lot(fs, e1) = Held(fs, doc) /\ (Holds(fs, e1, j, t) <=> Has(Held(fs, doc), j, t))
  BY ItemOf
<1>5. r \in 1 .. n /\ DOMAIN rec = RecFields /\ rec.folder \in 1 .. n BY RecordingOld
<1>6. DOMAIN doc = RecFields /\ doc.folder = f /\ DOMAIN left = RecFields /\ left.folder = g
  BY <1>5, RecordingFacts
<1>7. WellModels(held, DOMAIN lat) /\ held = Held(folds, rec) BY HeldWell
<1>8. /\ WellModels(one, DOMAIN lat)
      /\ \A j, t : /\ Has(one, j, t) <=> Has(held, j, t) /\ j \in {i}
                   /\ Has(one, j, t) => one[j].rev = held[j].rev
  <2> DEFINE S == {i}
  <2>1. (\A j : j \in S => j \in DOMAIN held) /\ one = Restrict(held, S) OBVIOUS
  <2> HIDE DEF S, one, held
  <2> QED BY <1>7, <2>1, PartModels DEF S
<1>9. /\ WellModels(rest, DOMAIN lat)
      /\ \A j, t : /\ Has(rest, j, t) <=> Has(held, j, t) /\ j \notin {i}
                   /\ Has(rest, j, t) => rest[j].rev = held[j].rev
  <2> DEFINE S == DOMAIN held \ {i}
  <2>1. (\A j : j \in S => j \in DOMAIN held) /\ rest = Restrict(held, S) BY DEF Without
  <2>2. \A j, t : Has(held, j, t) => (j \in S <=> j \notin {i}) BY DEF Has
  <2> HIDE DEF S, rest, held
  <2>3. /\ WellModels(rest, DOMAIN lat)
        /\ \A j, t : /\ Has(rest, j, t) <=> Has(held, j, t) /\ j \in S
                     /\ Has(rest, j, t) => rest[j].rev = held[j].rev
    BY <1>7, <2>1, PartModels
  <2> QED BY <2>2, <2>3
<1>10. \A x : /\ x \in DOMAIN others <=> x \in DOMAIN old /\ x # r
              /\ x \in DOMAIN old /\ x # r => others[x] = old[x]
  BY WithoutFacts
<1>11. /\ \A x : x \in DOMAIN from => x = r
       /\ r \in DOMAIN from => from[r] = left
       /\ r \notin DOMAIN from => rest = Empty
  BY LeftFacts
<1>12. \A z : /\ z \in DOMAIN recs <=> z \in DOMAIN from \/ z \in DOMAIN others
              /\ z \in DOMAIN from => recs[z] = from[z]
              /\ z \notin DOMAIN from /\ z \in DOMAIN others => recs[z] = others[z]
  <2>1. recs = from @@ others OBVIOUS
  <2> HIDE DEF recs, from, others
  <2> QED BY <2>1, MergedTwo
<1>13. /\ F = (f :> Folder(s, one)) @@ (g :> Folder(s, rest))
       /\ nx = Discarded(ix, s, recs, item) /\ o = Entry(s, r, old[r], {}) /\ d = Entry(s, r, left, {})
       /\ ix.sessions[s] = old /\ r \in DOMAIN old /\ e1 = ItemEntry(item) /\ \A x : x \in R <=> x = r
  OBVIOUS
<1>14. Left = Part(s, recs, R) /\ To = Left \cup {e1} OBVIOUS
<1> HIDE DEF ask, nx, o, d, e1, recs, rest, item, rec, now, f, g, h, F, doc, left, held, old, R, one, from, others, Left, To
<1>15. Edits(ix, s, old, recs, R) BY <1>00, <1>10, <1>11, <1>12, <1>13 DEF SameBut, Edits
<1>16. Part(s, old, R) = {o}
  <2>1. \A e : e \in Part(s, old, R) <=> e = o BY <1>13, PartFacts
  <2> QED BY <2>1
<1>17. Left = {d} \/ (Left = {} /\ rest = Empty)
  <2>1. CASE r \in DOMAIN from
    <3>1. \A e : e \in Left <=> e = d BY <1>11, <1>12, <1>13, <1>14, <2>1, PartFacts
    <3> QED BY <3>1
  <2>2. CASE r \notin DOMAIN from
    <3>1. \A e : e \notin Left BY <1>10, <1>11, <1>12, <1>13, <1>14, <2>2, PartFacts
    <3> QED BY <1>11, <2>2, <3>1
  <2> QED BY <2>1, <2>2
<1>18. {o} \subseteq Entries(ix) /\ nx.gone = ix.gone /\ Entries(nx) = (Entries(ix) \ {o}) \cup To
  <2>1. /\ Part(s, old, R) \subseteq Entries(ix) /\ nx.gone = ix.gone
        /\ Entries(nx) = (Entries(ix) \ Part(s, old, R)) \cup (Part(s, recs, R) \cup {ItemEntry(item)})
    BY <1>13, <1>15, DiscardEntries
  <2> QED BY <1>13, <1>14, <1>16, <2>1
<1>19. /\ F[f].dir = s /\ F[g].dir = s /\ \A x : x \in DOMAIN F <=> x = f \/ x = g
       /\ Held(now, doc) = one /\ Held(now, left) = rest
       /\ WellFolders(F, n + 3, DOMAIN lat)
  <2> DEFINE l == n + 3
             T == DOMAIN lat
  <2>1. WellModels(one, T) /\ WellModels(rest, T) /\ f \in 1 .. l /\ g \in 1 .. l BY <1>0, <1>8, <1>9
  <2>2. F = (f :> Folder(s, one)) @@ (g :> Folder(s, rest)) /\ f # g BY <1>00, <1>13
  <2> HIDE DEF l, T
  <2>3. /\ F[f].dir = s /\ F[g].dir = s /\ \A x : x \in DOMAIN F <=> x = f \/ x = g
        /\ \A fs, x : /\ x.folder = f => Held(F @@ fs, x) = one
                      /\ x.folder = g => Held(F @@ fs, x) = rest
        /\ \A U, k : WellModels(one, U) /\ WellModels(rest, U) /\ f \in 1 .. k /\ g \in 1 .. k => WellFolders(F, k, U)
    BY <2>2, TwoFolders
  <2> QED BY <1>6, <2>1, <2>3 DEF now, l, T
<1>20. \A e \in To : e = d \/ e = e1 BY <1>14, <1>17
<1>21. Fits({o}, To, F, folds, n)
  BY <1>0, <1>00, <1>3, <1>4, <1>5, <1>6, <1>19, <1>20 DEF Fits, Free
<1>22. d # e1 BY <1>00, <1>3, <1>4, <1>6
<1>23. \A t \in K : Carries({o}, To, folds, now, t)
  <2> TAKE t \in K
  <2>1. \A j : /\ Holds(now, e1, j, t) <=> Holds(folds, o, j, t) /\ j \in {i}
               /\ Holds(now, e1, j, t) => Lot(now, e1)[j].rev = Lot(folds, o)[j].rev
    BY <1>2, <1>4, <1>7, <1>8, <1>19
  <2>2. \A j : /\ Holds(now, d, j, t) <=> Holds(folds, o, j, t) /\ j \notin {i}
               /\ Holds(now, d, j, t) => Lot(now, d)[j].rev = Lot(folds, o)[j].rev
    BY <1>2, <1>3, <1>7, <1>9, <1>19
  <2>3. rest = Empty => \A j : ~ Holds(now, d, j, t) BY <1>3, <1>19, NoModels
  <2>4. To = {e1, d} \/ (To = {e1} /\ \A j : ~ Holds(now, d, j, t)) BY <1>14, <1>17, <2>3
  <2>5. Splits(o, e1, d, folds, now, t, {i}, To) BY <1>22, <2>1, <2>2, <2>4 DEF Splits
  <2> QED BY <2>5, SplitCarries
<1>24. DOMAIN F \subseteq (n + 1) .. (n + 3) BY <1>0, <1>19
<1>25. Swaps(ask, ix, folds, lat, n, K, {o}, To)
  BY <1>1, <1>18, <1>19, <1>21, <1>23, <1>24 DEF Swaps, now
<1>26. Serves(ask, ix, folds, lat, n, K, c) BY <1>25, SwapServes
<1> QED BY <1>26 DEF ask

\* The model i of an entry goes, as k, to the models of another; the first may go.
Joins(o, p, e, g, folds, now, t, i, k, To) ==
    /\ e # g /\ o # p /\ ~ Holds(folds, p, k, t)
    /\ \A j : /\ Holds(now, e, j, t) <=> Holds(folds, p, j, t) \/ (j = k /\ Holds(folds, o, i, t))
              /\ Holds(folds, p, j, t) => Lot(now, e)[j].rev = Lot(folds, p)[j].rev
              /\ Holds(now, g, j, t) <=> Holds(folds, o, j, t) /\ j # i
              /\ Holds(now, g, j, t) => Lot(now, g)[j].rev = Lot(folds, o)[j].rev
    /\ Holds(folds, o, i, t) => Lot(now, e)[k].rev = Lot(folds, o)[i].rev
    /\ To = {e, g} \/ (To = {e} /\ \A j : ~ Holds(now, g, j, t))

LEMMA JoinCarries ==
    ASSUME NEW o, NEW p, NEW e, NEW g, NEW folds, NEW now, NEW t, NEW i, NEW k, NEW To,
           Joins(o, p, e, g, folds, now, t, i, k, To)
    PROVE  Carries({o, p}, To, folds, now, t)
<1> USE DEF Joins
<1>1. \A x \in To : \A j : Holds(now, x, j, t) => \E q \in {o, p} : \E l : Holds(folds, q, l, t) OBVIOUS
<1>2. \A q \in {o, p} : \A l : Holds(folds, q, l, t) =>
         \E x \in To : \E j : Holds(now, x, j, t) /\ Lot(now, x)[j].rev = Lot(folds, q)[l].rev
  <2>1. e \in To OBVIOUS
  <2>2. \A l : Holds(folds, o, l, t) /\ l # i => g \in To OBVIOUS
  <2>3. \A l : Holds(folds, p, l, t) => Holds(now, e, l, t) /\ Lot(now, e)[l].rev = Lot(folds, p)[l].rev OBVIOUS
  <2>4. \A l : Holds(folds, o, l, t) /\ l # i => Holds(now, g, l, t) /\ Lot(now, g)[l].rev = Lot(folds, o)[l].rev
    OBVIOUS
  <2>5. Holds(folds, o, i, t) => Holds(now, e, k, t) /\ Lot(now, e)[k].rev = Lot(folds, o)[i].rev OBVIOUS
  <2> QED BY <2>1, <2>2, <2>3, <2>4, <2>5
<1>3. \A q \in {o, p} : \A l : (\A z \in {o, p} : \A m : Holds(folds, z, m, t) => z = q /\ m = l) =>
         \A x, y \in To : \A j, m : Holds(now, x, j, t) /\ Holds(now, y, m, t) => x = y /\ j = m
  <2> TAKE q \in {o, p}
  <2> TAKE l
  <2> HAVE \A z \in {o, p} : \A m : Holds(folds, z, m, t) => z = q /\ m = l
  <2>1. CASE q = p
    <3>1. \A m : ~ Holds(folds, o, m, t) BY <2>1
    <3>2. \A j : ~ Holds(now, g, j, t) /\ (Holds(now, e, j, t) => j = l) BY <3>1
    <3> QED BY <3>2
  <2>2. CASE q = o
    <3>1. \A m : ~ Holds(folds, p, m, t) /\ (Holds(folds, o, m, t) => m = l) BY <2>2
    <3>2. \A j : /\ Holds(now, e, j, t) => j = k /\ l = i
                 /\ Holds(now, g, j, t) => j = l /\ l # i
      BY <3>1
    <3> QED BY <3>2
  <2> QED BY <2>1, <2>2
<1> QED BY <1>1, <1>2, <1>3, CarriesBy

ModelIn(x, T) == DOMAIN x = {"text", "rev"} /\ x.text \in T

\* The models of one put among those of another.
LEMMA JoinedFacts ==
    ASSUME NEW there, NEW T, NEW i, NEW model, NEW m, WellModels(there, T), m = Joined(there, i, model),
           ModelIn(model, T)
    PROVE  /\ WellModels(m, T)
           /\ \E k : /\ \A t : ~ Has(there, k, t)
                     /\ \A j, t : /\ Has(m, j, t) <=> Has(there, j, t) \/ (j = k /\ model.text = t)
                                  /\ Has(there, j, t) => m[j].rev = there[j].rev
                     /\ m[k].rev = model.rev
<1> DEFINE k == IF i \in DOMAIN there THEN FreeId(there) ELSE i
           P == k :> model
<1>1. k \notin DOMAIN there
  <2>1. FreeId(there) \notin DOMAIN there BY FreeIdFacts DEF WellModels
  <2> QED BY <2>1
<1>2. m = P @@ there BY DEF Joined
<1>3. DOMAIN P = {k} /\ P[k] = model BY OneFacts
<1> HIDE DEF k, P
<1>4. DOMAIN m = {k} \cup DOMAIN there /\ m[k] = model /\ \A j \in DOMAIN there : m[j] = there[j]
  BY <1>1, <1>2, <1>3 DEF @@
<1>5. IsFiniteSet(DOMAIN m)
  <2>1. IsFiniteSet({k}) /\ IsFiniteSet(DOMAIN there) BY FS_Singleton DEF WellModels
  <2>2. DOMAIN m = {k} \cup DOMAIN there BY <1>4
  <2>3. IsFiniteSet({k} \cup DOMAIN there) BY Zenon, <2>1, FS_Union
  <2> QED BY Zenon, <2>2, <2>3
<1>6. WellModels(m, T) BY <1>4, <1>5 DEF WellModels, ModelIn
<1>7. /\ \A t : ~ Has(there, k, t)
      /\ \A j, t : /\ Has(m, j, t) <=> Has(there, j, t) \/ (j = k /\ model.text = t)
                   /\ Has(there, j, t) => m[j].rev = there[j].rev
      /\ m[k].rev = model.rev
  BY <1>1, <1>4 DEF Has
<1> QED BY <1>6, <1>7

LEMMA ReassignServes ==
    ASSUME NEW ix, NEW folds, NEW lat, NEW n, NEW K, Sits(ix, folds, lat, n, K), NEW c, c \notin DOMAIN lat,
           NEW s \in DOMAIN ix.sessions, NEW src \in DOMAIN ix.sessions[s],
           NEW dst \in DOMAIN ix.sessions[s] \cup {0}, dst # src,
           NEW ids, ids \subseteq DOMAIN Held(folds, ix.sessions[s][src]),
           \/ dst = 0 \/ Held(folds, ix.sessions[s][dst]) = Empty
           \/ \E i \in DOMAIN Held(folds, ix.sessions[s][src]) : ids = {i}
    PROVE  Serves(Reassign(ix, folds, s, src, dst, ids, n), ix, folds, lat, n, K, c)
<1> DEFINE f == n + 1
           g == n + 2
           h == n + 3
           T == DOMAIN lat
           old == ix.sessions[s]
           rec == old[src]
           held == Held(folds, rec)
           rest == Restrict(held, DOMAIN held \ ids)
           there == IF dst = 0 THEN Empty ELSE Held(folds, old[dst])
           part == Restrict(held, ids)
           x0 == CHOOSE i \in ids : TRUE
           joined == Joined(there, x0, held[x0])
           staged == IF there = Empty THEN part ELSE LET i == CHOOSE i \in ids : TRUE IN Joined(there, i, held[i])
           q == IF dst = 0 THEN h ELSE dst
           torec == IF dst = 0 THEN Document(f) ELSE In(old[dst], f)
           to == IF dst = 0 THEN h :> Document(f) ELSE dst :> In(old[dst], f)
           left == In(rec, g)
           from == [r \in {x \in {src} : Remains(rec, rest, g) # {}} |-> left]
           others == Restrict(old, DOMAIN old \ {src})
           mid == to @@ from
           recs == mid @@ others
           nx == PutSession(ix, s, recs)
           F == (f :> Folder(s, staged)) @@ (g :> Folder(s, rest))
           ask == Reassign(ix, folds, s, src, dst, ids, n)
           o == Entry(s, src, rec, {})
           p == Entry(s, dst, old[dst], {})
           d == Entry(s, src, left, {})
           e1 == Entry(s, q, torec, {})
           R == {src, q}
           Out == Part(s, old, R)
           To == Part(s, recs, R)
           now == F @@ folds
<1>0. /\ n \in Nat /\ f = n + 1 /\ g = n + 2 /\ h = n + 3 /\ f \in 1 .. n + 3 /\ g \in 1 .. n + 3 /\ h \in 1 .. n + 3
      /\ ~ (f <= n) /\ ~ (g <= n) /\ ~ (h <= n)
  BY DEF Sits
<1>00. f # g /\ DOMAIN ix = Fields /\ Apart(ix) BY DEF Sits
<1>1. ask.next = nx /\ ask.folders = F /\ ask.makes = {} /\ ask.drops = {} /\ ask.old = {}
  <2>1. ask = Staging(nx, F) BY Zenon DEF Reassign
  <2> HIDE DEF nx, F, ask
  <2> QED BY <2>1 DEF Asking, Staging
<1>2. /\ o.dir = s /\ o.rec = rec
      /\ \A fs, j, t : Lot(fs, o) = Held(fs, rec) /\ (Holds(fs, o, j, t) <=> Has(Held(fs, rec), j, t))
  BY EntryFacts, LotFacts
<1>3. /\ d.dir = s /\ d.rec = left /\ d.id = src /\ \A x : x \notin d.item
      /\ \A fs, j, t : Lot(fs, d) = Held(fs, left) /\ (Holds(fs, d, j, t) <=> Has(Held(fs, left), j, t))
  BY EntryFacts, LotFacts
<1>4. /\ e1.dir = s /\ e1.rec = torec /\ e1.id = q /\ \A x : x \notin e1.item
      /\ \A fs, j, t : Lot(fs, e1) = Held(fs, torec) /\ (Holds(fs, e1, j, t) <=> Has(Held(fs, torec), j, t))
  BY EntryFacts, LotFacts
<1>5. /\ p.dir = s /\ p.id = dst /\ o.id = src
      /\ \A fs, j, t : Lot(fs, p) = Held(fs, old[dst]) /\ (Holds(fs, p, j, t) <=> Has(Held(fs, old[dst]), j, t))
  BY EntryFacts, LotFacts
<1>6. src \in 1 .. n /\ DOMAIN rec = RecFields /\ rec.folder \in 1 .. n BY RecordingOld
<1>7. /\ dst # 0 => dst \in 1 .. n /\ dst \in DOMAIN old /\ DOMAIN old[dst] = RecFields
      /\ dst = 0 => h \notin DOMAIN old
      /\ src # q
  <2>1. dst # 0 => dst \in 1 .. n /\ dst \in DOMAIN old /\ DOMAIN old[dst] = RecFields BY RecordingOld
  <2>2. h \notin DOMAIN old BY <1>0, Used
  <2>3. src # q BY <1>0, <1>6
  <2> HIDE DEF h, q, old
  <2> QED BY <2>1, <2>2, <2>3
<1>8. DOMAIN torec = RecFields /\ torec.folder = f /\ DOMAIN left = RecFields /\ left.folder = g
  <2> HIDE DEF f, g, old
  <2> QED BY <1>6, <1>7, RecordingFacts
<1>9. WellModels(held, T) /\ WellModels(there, T) /\ held = Held(folds, rec)
  <2>1. WellModels(Held(folds, rec), T) /\ WellModels(Held(folds, old[dst]), T) /\ WellModels(Empty, T)
    BY HeldWell, NoModels
  <2> HIDE DEF T, old
  <2> QED BY <2>1
<1>10. /\ WellModels(part, T)
       /\ \A j, t : /\ Has(part, j, t) <=> Has(held, j, t) /\ j \in ids
                    /\ Has(part, j, t) => part[j].rev = held[j].rev
  <2>1. (\A j : j \in ids => j \in DOMAIN held) /\ part = Restrict(held, ids) OBVIOUS
  <2> HIDE DEF held, part, T
  <2> QED BY <1>9, <2>1, PartModels
<1>11. /\ WellModels(rest, T)
       /\ \A j, t : /\ Has(rest, j, t) <=> Has(held, j, t) /\ j \notin ids
                    /\ Has(rest, j, t) => rest[j].rev = held[j].rev
  <2> DEFINE S == DOMAIN held \ ids
  <2>1. (\A j : j \in S => j \in DOMAIN held) /\ rest = Restrict(held, S) OBVIOUS
  <2>2. \A j, t : Has(held, j, t) => (j \in S <=> j \notin ids) BY DEF Has
  <2> HIDE DEF S, rest, held, T
  <2>3. /\ WellModels(rest, T)
        /\ \A j, t : /\ Has(rest, j, t) <=> Has(held, j, t) /\ j \in S
                     /\ Has(rest, j, t) => rest[j].rev = held[j].rev
    BY <1>9, <2>1, PartModels
  <2> QED BY <2>2, <2>3
<1>12. /\ \A x : x \in DOMAIN from => x = src
       /\ src \in DOMAIN from => from[src] = left
       /\ src \notin DOMAIN from => rest = Empty
  BY LeftFacts
<1>13. \A x : /\ x \in DOMAIN others <=> x \in DOMAIN old /\ x # src
              /\ x \in DOMAIN old /\ x # src => others[x] = old[x]
  BY DEF Restrict
<1>14. \A x : /\ x \in DOMAIN to <=> x = q
              /\ to[q] = torec
  <2>1. to = q :> torec OBVIOUS
  <2> HIDE DEF to, q, torec
  <2>2. DOMAIN to = {q} /\ to[q] = torec BY <2>1, OneFacts
  <2> QED BY <2>2
<1>15. \A z : /\ z \in DOMAIN recs <=> z \in DOMAIN to \/ z \in DOMAIN from \/ z \in DOMAIN others
              /\ z \in DOMAIN to => recs[z] = to[z]
              /\ z \notin DOMAIN to /\ z \in DOMAIN from => recs[z] = from[z]
              /\ z \notin DOMAIN to /\ z \notin DOMAIN from /\ z \in DOMAIN others => recs[z] = others[z]
  <2>1. recs = mid @@ others /\ mid = to @@ from OBVIOUS
  <2> HIDE DEF recs, mid, to, from, others
  <2>2. \A z : /\ z \in DOMAIN recs <=> z \in DOMAIN mid \/ z \in DOMAIN others
               /\ z \in DOMAIN mid => recs[z] = mid[z]
               /\ z \notin DOMAIN mid /\ z \in DOMAIN others => recs[z] = others[z]
    BY <2>1, MergedTwo
  <2>3. \A z : /\ z \in DOMAIN mid <=> z \in DOMAIN to \/ z \in DOMAIN from
               /\ z \in DOMAIN to => mid[z] = to[z]
               /\ z \notin DOMAIN to /\ z \in DOMAIN from => mid[z] = from[z]
    BY <2>1, MergedTwo
  <2> QED BY <2>2, <2>3
<1>16. /\ F = (f :> Folder(s, staged)) @@ (g :> Folder(s, rest)) /\ nx = PutSession(ix, s, recs)
       /\ o = Entry(s, src, old[src], {}) /\ p = Entry(s, dst, old[dst], {})
       /\ d = Entry(s, src, left, {}) /\ e1 = Entry(s, q, torec, {})
       /\ ix.sessions[s] = old /\ src \in DOMAIN old /\ \A x : x \in R <=> x = src \/ x = q
  OBVIOUS
<1>17. Out = Part(s, old, R) /\ To = Part(s, recs, R) OBVIOUS
<1>18. /\ dst = 0 => q = h /\ there = Empty
       /\ dst # 0 => q = dst /\ there = Held(folds, old[dst])
       /\ there = Empty => staged = part
       /\ there # Empty => staged = Joined(there, x0, held[x0])
  OBVIOUS
<1>19. \/ there = Empty \/ (dst # 0 /\ \E i \in DOMAIN held : ids = {i} /\ x0 = i)
  <2>1. \A i : ids = {i} => x0 = i OBVIOUS
  <2> HIDE DEF x0
  <2> QED BY <2>1
<1> HIDE DEF f, g, h, T, old, rec, held, rest, there, part, x0, joined, staged, q, torec, to, left, from, others, mid,
             recs, nx, F, ask, o, p, d, e1, R, Out, To, now
<1>20. Edits(ix, s, old, recs, R) BY <1>00, <1>12, <1>13, <1>14, <1>15, <1>16 DEF SameBut, Edits
<1>21. /\ dst = 0 => Out = {o}
       /\ dst # 0 => Out = {o, p}
  <2>1. dst = 0 => \A e : e \in Out <=> e = o BY <1>7, <1>16, <1>17, <1>18, PartFacts
  <2>2. dst # 0 => \A e : e \in Out <=> e = o \/ e = p BY <1>7, <1>16, <1>17, <1>18, PartFacts
  <2> QED BY <2>1, <2>2
<1>22. To = {e1, d} \/ (To = {e1} /\ rest = Empty)
  <2>1. ASSUME src \in DOMAIN from PROVE \A e : e \in To <=> e = e1 \/ e = d
    BY <1>7, <1>12, <1>13, <1>14, <1>15, <1>16, <1>17, <2>1, PartFacts
  <2>2. ASSUME src \notin DOMAIN from PROVE \A e : e \in To <=> e = e1
    BY <1>7, <1>12, <1>13, <1>14, <1>15, <1>16, <1>17, <2>2, PartFacts
  <2> QED BY <1>12, <2>1, <2>2
<1>23. Out \subseteq Entries(ix) /\ nx.gone = ix.gone /\ Entries(nx) = (Entries(ix) \ Out) \cup To
  BY <1>16, <1>17, <1>20, EditEntries
<1>24. /\ WellModels(staged, T)
       /\ there = Empty => \A j, t : /\ Has(staged, j, t) <=> Has(held, j, t) /\ j \in ids
                                     /\ Has(staged, j, t) => staged[j].rev = held[j].rev
       /\ there # Empty => \E k : /\ \A t : ~ Has(there, k, t)
                                  /\ \A j, t : /\ Has(staged, j, t) <=> Has(there, j, t) \/ (j = k /\ Has(held, x0, t))
                                               /\ Has(there, j, t) => staged[j].rev = there[j].rev
                                  /\ staged[k].rev = held[x0].rev
  <2>1. CASE there = Empty BY <1>10, <1>18, <2>1
  <2>2. CASE there # Empty
    <3> DEFINE model == held[x0]
    <3>1. x0 \in DOMAIN held BY <1>19, <2>2
    <3>2. ModelIn(model, T) BY <1>9, <3>1 DEF WellModels, ModelIn
    <3>3. staged = Joined(there, x0, model) BY <1>18, <2>2
    <3>4. \A t : Has(held, x0, t) <=> model.text = t BY <3>1 DEF Has
    <3>5. model = held[x0] OBVIOUS
    <3> HIDE DEF model
    <3>6. /\ WellModels(staged, T)
          /\ \E k : /\ \A t : ~ Has(there, k, t)
                    /\ \A j, t : /\ Has(staged, j, t) <=> Has(there, j, t) \/ (j = k /\ model.text = t)
                                 /\ Has(there, j, t) => staged[j].rev = there[j].rev
                    /\ staged[k].rev = model.rev
      BY <1>9, <3>2, <3>3, JoinedFacts
    <3> QED BY <2>2, <3>4, <3>5, <3>6
  <2> QED BY <2>1, <2>2
<1>25. /\ F[f].dir = s /\ F[g].dir = s /\ \A x : x \in DOMAIN F <=> x = f \/ x = g
       /\ Held(now, torec) = staged /\ Held(now, left) = rest
       /\ WellFolders(F, n + 3, T)
  <2> DEFINE l == n + 3
  <2>1. WellModels(staged, T) /\ WellModels(rest, T) /\ f \in 1 .. l /\ g \in 1 .. l BY <1>0, <1>11, <1>24
  <2>2. F = (f :> Folder(s, staged)) @@ (g :> Folder(s, rest)) /\ f # g BY <1>00, <1>16
  <2> HIDE DEF l
  <2>3. /\ F[f].dir = s /\ F[g].dir = s /\ \A x : x \in DOMAIN F <=> x = f \/ x = g
        /\ \A fs, x : /\ x.folder = f => Held(F @@ fs, x) = staged
                      /\ x.folder = g => Held(F @@ fs, x) = rest
        /\ \A U, k : WellModels(staged, U) /\ WellModels(rest, U) /\ f \in 1 .. k /\ g \in 1 .. k => WellFolders(F, k, U)
    BY <2>2, TwoFolders
  <2> QED BY <1>8, <2>1, <2>3 DEF now, l
<1>26. \A e \in To : e = d \/ e = e1 BY <1>22
<1>27. q \in 1 .. n + 3 /\ src \in 1 .. n + 3 BY <1>0, <1>6, <1>7, <1>18
<1>28. Fits(Out, To, F, folds, n)
  BY <1>0, <1>00, <1>3, <1>4, <1>8, <1>25, <1>26, <1>27 DEF Fits, Free
<1>29. e1 # d BY <1>3, <1>4, <1>7
<1>30. \A t : rest = Empty => \A j : ~ Holds(now, d, j, t) BY <1>3, <1>25, NoModels
<1>31. \A t \in K : Carries(Out, To, folds, now, t)
  <2> TAKE t \in K
  <2>1. \A j : /\ Holds(now, d, j, t) <=> Holds(folds, o, j, t) /\ j \notin ids
               /\ Holds(now, d, j, t) => Lot(now, d)[j].rev = Lot(folds, o)[j].rev
    BY <1>2, <1>3, <1>9, <1>11, <1>25
  <2>2. To = {e1, d} \/ (To = {e1} /\ \A j : ~ Holds(now, d, j, t)) BY <1>22, <1>30
  <2>3. CASE there = Empty
    <3>1. \A j : /\ Holds(now, e1, j, t) <=> Holds(folds, o, j, t) /\ j \in ids
                 /\ Holds(now, e1, j, t) => Lot(now, e1)[j].rev = Lot(folds, o)[j].rev
      BY <1>2, <1>4, <1>9, <1>24, <1>25, <2>3
    <3>2. Splits(o, e1, d, folds, now, t, ids, To) BY <1>29, <2>1, <2>2, <3>1 DEF Splits
    <3>3. Carries({o}, To, folds, now, t) BY <3>2, SplitCarries
    <3>4. CASE dst = 0 BY <1>21, <3>3, <3>4
    <3>5. CASE dst # 0
      <4>1. \A j : ~ Holds(folds, p, j, t) BY <1>5, <1>18, <2>3, <3>5, NoModels
      <4>2. NoneIn({p}, folds, t) /\ NoneIn({}, now, t) BY <4>1 DEF NoneIn
      <4>3. Out = {o} \cup {p} /\ To = To \cup {} BY <1>21, <3>5
      <4> DEFINE A == {p}
                 B == {}
                 P == {o}
      <4>4. NoneIn(A, folds, t) /\ NoneIn(B, now, t) /\ Out = P \cup A /\ To = To \cup B BY <4>2, <4>3
      <4>5. Carries(P, To, folds, now, t) BY <3>3
      <4> HIDE DEF A, B, P
      <4> QED BY <4>4, <4>5, CarryMore
    <3> QED BY <3>4, <3>5
  <2>4. CASE there # Empty
    <3>1. dst # 0 /\ (\A j : j \notin ids <=> j # x0) BY <1>19, <2>4
    <3>2. Out = {o, p} /\ o # p BY <1>5, <1>21, <3>1
    <3>3. PICK k : /\ \A u : ~ Has(there, k, u)
                   /\ \A j, u : /\ Has(staged, j, u) <=> Has(there, j, u) \/ (j = k /\ Has(held, x0, u))
                                /\ Has(there, j, u) => staged[j].rev = there[j].rev
                   /\ staged[k].rev = held[x0].rev
      BY <1>24, <2>4
    <3>4. \A j : /\ Lot(folds, p) = there /\ (Holds(folds, p, j, t) <=> Has(there, j, t))
                 /\ Lot(now, e1) = staged /\ (Holds(now, e1, j, t) <=> Has(staged, j, t))
                 /\ Lot(folds, o) = held /\ (Holds(folds, o, j, t) <=> Has(held, j, t))
      BY <1>2, <1>4, <1>5, <1>9, <1>18, <1>25, <3>1
    <3>5. Joins(o, p, e1, d, folds, now, t, x0, k, To)
      BY <1>29, <2>1, <2>2, <3>1, <3>2, <3>3, <3>4 DEF Joins
    <3> QED BY <3>2, <3>5, JoinCarries
  <2> QED BY <2>3, <2>4
<1>32. DOMAIN F \subseteq (n + 1) .. (n + 3) BY <1>0, <1>25
<1>33. Swaps(ask, ix, folds, lat, n, K, Out, To)
  BY <1>1, <1>23, <1>25, <1>28, <1>31, <1>32 DEF Swaps, now, T
<1>34. Serves(ask, ix, folds, lat, n, K, c) BY <1>33, SwapServes
<1> QED BY <1>34 DEF ask

LEMMA MoveServes ==
    ASSUME NEW ix, NEW folds, NEW lat, NEW n, NEW K, Sits(ix, folds, lat, n, K), NEW c, c \notin DOMAIN lat,
           NEW s \in DOMAIN ix.sessions, NEW d \in DOMAIN ix.sessions, s # d, NEW r \in DOMAIN ix.sessions[s]
    PROVE  Serves(Move(ix, folds, s, d, r, n), ix, folds, lat, n, K, c)
<1> DEFINE f == n + 1
           T == DOMAIN lat
           old == ix.sessions[s]
           rec == old[r]
           held == Held(folds, rec)
           to == [Moved(rec, n) EXCEPT !.named = Exists(folds, rec)]
           rest == Without(old, r)
           jx == PutSession(ix, s, rest)
           there == jx.sessions[d]
           recs == (r :> to) @@ there
           nx == PutRecording(jx, d, r, to)
           F == IF Exists(folds, rec) THEN f :> Folder(d, held) ELSE Empty
           M == IF rec.storage = "copy" THEN f :> d ELSE Empty
           ask == Move(ix, folds, s, d, r, n)
           o == Entry(s, r, rec, {})
           e1 == Entry(d, r, to, {})
           R == {r}
           now == F @@ folds
<1>0. n \in Nat /\ f = n + 1 /\ f \in 1 .. n + 3 /\ ~ (f <= n) BY DEF Sits
<1>00. DOMAIN ix = Fields /\ Apart(ix) BY DEF Sits
<1>1. ask.next = nx /\ ask.folders = F /\ ask.makes = {} /\ ask.drops = {} /\ ask.old = {}
  <2>1. ask = [Staging(nx, F) EXCEPT !.media = M] BY Zenon DEF Move
  <2> HIDE DEF nx, F, ask, M
  <2> QED BY <2>1 DEF Asking, Staging
<1>2. /\ o.dir = s /\ o.rec = rec
      /\ \A fs, j, t : Lot(fs, o) = Held(fs, rec) /\ (Holds(fs, o, j, t) <=> Has(Held(fs, rec), j, t))
  BY EntryFacts, LotFacts
<1>3. /\ e1.dir = d /\ e1.rec = to /\ e1.id = r /\ \A x : x \notin e1.item
      /\ \A fs, j, t : Lot(fs, e1) = Held(fs, to) /\ (Holds(fs, e1, j, t) <=> Has(Held(fs, to), j, t))
  BY EntryFacts, LotFacts
<1>4. r \in 1 .. n /\ DOMAIN rec = RecFields /\ rec.folder \in 1 .. n BY RecordingOld
<1>5. DOMAIN to = RecFields /\ to.folder = f
  <2> HIDE DEF rec
  <2> QED BY <1>4 DEF Moved, RecFields
<1>6. WellModels(held, T) /\ held = Held(folds, rec) BY HeldWell
<1>7. \A x : /\ x \in DOMAIN rest <=> x \in DOMAIN old /\ x # r
             /\ x \in DOMAIN old /\ x # r => rest[x] = old[x]
  BY WithoutFacts
<1>8. /\ DOMAIN jx = Fields /\ jx.gone = ix.gone /\ DOMAIN jx.sessions = DOMAIN ix.sessions /\ jx.sessions[s] = rest
      /\ \A t \in DOMAIN ix.sessions : t # s => jx.sessions[t] = ix.sessions[t]
  <2> HIDE DEF rest
  <2> QED BY <1>00, PutEntries
<1>9. nx = PutSession(jx, d, recs) BY Zenon DEF PutRecording
<1>10. /\ \A x : x \in DOMAIN recs <=> x = r \/ x \in DOMAIN there
       /\ recs[r] = to /\ \A x : x \in DOMAIN there /\ x # r => recs[x] = there[x]
  <2>1. recs = (r :> to) @@ there OBVIOUS
  <2> HIDE DEF recs, to, there
  <2> QED BY <2>1, AddedOne
<1>11. /\ jx = PutSession(ix, s, rest) /\ there = jx.sessions[d] /\ ix.sessions[s] = old /\ r \in DOMAIN old
       /\ o = Entry(s, r, old[r], {}) /\ e1 = Entry(d, r, to, {}) /\ \A x : x \in R <=> x = r
  OBVIOUS
<1>12. r \notin DOMAIN there
  <2>1. DOMAIN ix.sessions[s] \cap DOMAIN ix.sessions[d] = {} BY <1>00 DEF Apart
  <2>2. jx.sessions[d] = ix.sessions[d] BY <1>8
  <2> HIDE DEF jx
  <2> QED BY <2>1, <2>2
<1>13. /\ Exists(folds, rec) => F = f :> Folder(d, held)
       /\ ~ Exists(folds, rec) => F = Empty /\ held = Empty
  BY DEF Held
<1> HIDE DEF f, T, old, rec, held, to, rest, jx, there, recs, nx, F, M, ask, o, e1, R, now
<1>14. Apart(jx) BY <1>00, <1>7, <1>8, <1>11 DEF Apart
<1>15. /\ {o} \subseteq Entries(ix) /\ Entries(jx) = Entries(ix) \ {o}
  <2>1. Edits(ix, s, old, rest, R) BY <1>00, <1>7, <1>11 DEF Edits, SameBut
  <2>2. /\ Part(s, old, R) \subseteq Entries(ix)
        /\ Entries(jx) = (Entries(ix) \ Part(s, old, R)) \cup Part(s, rest, R)
    BY <1>11, <2>1, EditEntries
  <2>3. \A e : e \in Part(s, old, R) <=> e = o BY <1>11, PartFacts
  <2>4. \A e : e \notin Part(s, rest, R) BY <1>7, <1>11, PartFacts
  <2> QED BY <2>2, <2>3, <2>4
<1>16. nx.gone = jx.gone /\ Entries(nx) = Entries(jx) \cup {e1}
  <2>1. Edits(jx, d, there, recs, R) BY <1>8, <1>10, <1>11, <1>14 DEF Edits, SameBut
  <2>2. /\ nx.gone = jx.gone
        /\ Entries(nx) = (Entries(jx) \ Part(d, there, R)) \cup Part(d, recs, R)
    BY <1>9, <2>1, EditEntries
  <2>3. \A e : e \in Part(d, recs, R) <=> e = e1 BY <1>10, <1>11, PartFacts
  <2>4. \A e : e \notin Part(d, there, R) BY <1>11, <1>12, PartFacts
  <2> QED BY <2>2, <2>3, <2>4
<1>17. Entries(nx) = (Entries(ix) \ {o}) \cup {e1} /\ nx.gone = ix.gone BY <1>8, <1>15, <1>16
<1>18. /\ \A x : x \in DOMAIN F => x = f /\ F[x].dir = d
       /\ Held(now, to) = held /\ WellFolders(F, n + 3, T)
  <2>1. CASE Exists(folds, rec)
    <3>1. F = f :> Folder(d, held) BY <1>13, <2>1
    <3>2. /\ F[f].dir = d /\ \A x : x \in DOMAIN F <=> x = f
          /\ \A fs, x : x.folder = f => Held(F @@ fs, x) = held
          /\ \A U, k : WellModels(held, U) /\ f \in 1 .. k => WellFolders(F, k, U)
      BY <3>1, OneFolder
    <3> QED BY <1>0, <1>5, <1>6, <3>2 DEF now
  <2>2. CASE ~ Exists(folds, rec)
    <3>1. F = Empty /\ held = Empty BY <1>13, <2>2
    <3>2. DOMAIN Empty = {} /\ Held(Empty @@ folds, to) = Held(folds, to) /\ WellFolders(Empty, n + 3, T) BY NoFolder
    <3>3. f \notin DOMAIN folds BY <1>0 DEF Sits, WellFolders
    <3>4. Held(folds, to) = Empty BY <1>5, <3>3 DEF Held, Exists
    <3> QED BY <3>1, <3>2, <3>4 DEF now
  <2> QED BY <2>1, <2>2
<1>19. r \in 1 .. n + 3 BY <1>0, <1>4
<1>20. Fits({o}, {e1}, F, folds, n) BY <1>0, <1>3, <1>5, <1>18, <1>19 DEF Fits, Free
<1>21. \A t \in K : Carries({o}, {e1}, folds, now, t)
  <2> TAKE t \in K
  <2>1. \A i : /\ Holds(now, e1, i, t) <=> Holds(folds, o, i, t)
               /\ Holds(folds, o, i, t) => Lot(now, e1)[i].rev = Lot(folds, o)[i].rev
    BY <1>2, <1>3, <1>6, <1>18
  <2> QED BY <2>1, CarryOne
<1>22. DOMAIN F \subseteq (n + 1) .. (n + 3) BY <1>0, <1>18
<1>23. Swaps(ask, ix, folds, lat, n, K, {o}, {e1})
  BY <1>1, <1>15, <1>17, <1>18, <1>20, <1>21, <1>22 DEF Swaps, now, T
<1>24. Serves(ask, ix, folds, lat, n, K, c) BY <1>23, SwapServes
<1> QED BY <1>24 DEF ask

\* An entry that is there already, or without the text, does not matter.
LEMMA CarryAlso ==
    ASSUME NEW Out, NEW To, NEW y, NEW folds, NEW now, NEW t, NEW Out2,
           Carries(Out, To, folds, now, t), y \in Out \/ \A i : ~ Holds(folds, y, i, t),
           \A e : e \in Out2 <=> e \in Out \/ e = y
    PROVE  Carries(Out2, To, folds, now, t)
<1>1. CASE y \in Out
  <2>1. Out2 = Out BY <1>1
  <2> QED BY <2>1
<1>2. CASE \A i : ~ Holds(folds, y, i, t)
  <2> DEFINE A == {y}
             B == {}
  <2>1. NoneIn(A, folds, t) /\ NoneIn(B, now, t) BY <1>2 DEF NoneIn
  <2>2. Out2 = Out \cup A /\ To = To \cup B OBVIOUS
  <2> HIDE DEF A, B
  <2> QED BY <2>1, <2>2, CarryMore
<1> QED BY <1>1, <1>2

Takes(ix, folds, n, s, old, kept, y, z, rec) ==
    /\ y \in Entries(ix) /\ z \in Entries(ix) /\ z.dir = s /\ y.dir = s
    /\ y.id \in 1 .. n
    /\ DOMAIN rec = RecFields /\ rec.folder \in 1 .. n
    /\ z.rec.folder = rec.folder /\ Lot(folds, z) = Held(folds, rec)
    /\ z = y \/ \A i, t : ~ Holds(folds, y, i, t)
    /\ \A e : e = z /\ e # y <=> \E x : x \in kept /\ x \in DOMAIN old /\ e = Entry(s, x, old[x], {})
    /\ \A x \in DOMAIN old : z # Entry(s, x, old[x], {}) \/ x \in kept

\* The document that was kept of an audio, if it is there still: what a restored
\* item takes the texts of.
LEMMA KeptFacts ==
    ASSUME NEW ix, NEW folds, NEW lat, NEW n, NEW K, Sits(ix, folds, lat, n, K), NEW item \in ix.trash,
           NEW s, NEW old, NEW kept, s = item.session, s \in DOMAIN ix.sessions, old = ix.sessions[s],
           kept = KeptOf(old, item)
    PROVE  \E z : Takes(ix, folds, n, s, old, kept, ItemEntry(item), z,
                      IF kept = {} THEN item.rec
                      ELSE [item.rec EXCEPT !.folder = old[item.kept].folder, !.named = old[item.kept].named])
<1> DEFINE y == ItemEntry(item)
           k == item.kept
           rec == IF kept = {} THEN item.rec
                  ELSE [item.rec EXCEPT !.folder = old[k].folder, !.named = old[k].named]
           zk == Entry(s, k, old[k], {})
           z == IF kept = {} THEN y ELSE zk
<1>0. DOMAIN ix = Fields /\ Apart(ix) /\ AtHome(ix) /\ n \in Nat BY DEF Sits
<1>1. y \in Entries(ix) BY <1>0, TakenEntries
<1>2. y.dir = s /\ y.id = item.id /\ y.rec = item.rec /\ \A x : x \in y.item <=> x = item BY ItemFacts
<1>3. /\ y.id \in 1 .. n /\ DOMAIN y.rec = RecFields /\ y.rec.folder \in 1 .. n
      /\ item.kept = 0 \/ DOMAIN Lot(folds, y) = {}
  <2> HIDE DEF y
  <2> QED BY <1>1, <1>2, EntryOld
<1>4. /\ Lot(folds, y) = Held(folds, item.rec)
  <2> HIDE DEF y
  <2> QED BY <1>2 DEF Lot
<1>5. kept = {} \/ (kept = {k} /\ k \in DOMAIN old) BY DEF KeptOf
<1>6. ASSUME k \in DOMAIN old
      PROVE  /\ k \in 1 .. n /\ DOMAIN old[k] = RecFields /\ old[k].folder \in 1 .. n /\ zk \in Entries(ix)
             /\ zk.dir = s /\ zk.id = k /\ zk.rec = old[k] /\ zk.item = {} /\ Lot(folds, zk) = Held(folds, old[k])
  <2>1. k \in 1 .. n /\ DOMAIN old[k] = RecFields /\ old[k].folder \in 1 .. n /\ zk \in Entries(ix)
    BY <1>6, RecordingOld
  <2> QED BY <2>1, EntryFacts DEF Lot
<1>7. \A x : Entry(s, x, old[x], {}).item = {} /\ Entry(s, x, old[x], {}).id = x BY EntryFacts
<1>8. ASSUME kept = {} PROVE \E x : Takes(ix, folds, n, s, old, kept, y, x, rec)
  <2>1. z = y /\ rec = item.rec BY <1>8
  <2>2. \A x : y # Entry(s, x, old[x], {}) BY <1>2, <1>7
  <2>3. y.rec.folder = rec.folder /\ DOMAIN rec = RecFields /\ rec.folder \in 1 .. n BY <1>2, <1>3, <2>1
  <2>4. Lot(folds, y) = Held(folds, rec) BY <1>4, <2>1
  <2> HIDE DEF y, rec, z
  <2>5. Takes(ix, folds, n, s, old, kept, y, y, rec) BY <1>1, <1>2, <1>3, <1>8, <2>1, <2>2, <2>3, <2>4 DEF Takes
  <2> QED BY <2>5
<1>9. ASSUME kept # {} PROVE \E x : Takes(ix, folds, n, s, old, kept, y, x, rec)
  <2>1. kept = {k} /\ k \in DOMAIN old /\ z = zk BY <1>5, <1>9
  <2>2. /\ k \in 1 .. n /\ DOMAIN old[k] = RecFields /\ old[k].folder \in 1 .. n /\ zk \in Entries(ix)
        /\ zk.dir = s /\ zk.id = k /\ zk.rec = old[k] /\ zk.item = {} /\ Lot(folds, zk) = Held(folds, old[k])
    BY <1>6, <2>1
  <2>3. rec = [item.rec EXCEPT !.folder = old[k].folder, !.named = old[k].named] BY <1>9
  <2>4. DOMAIN item.rec = RecFields BY <1>2, <1>3
  <2>5. DOMAIN rec = RecFields /\ rec.folder = old[k].folder
    <3> HIDE DEF rec
    <3> QED BY <2>3, <2>4 DEF RecFields
  <2>6. Held(folds, rec) = Held(folds, old[k])
    <3> HIDE DEF rec
    <3> QED BY <2>5 DEF Held, Exists
  <2>7. \A i, t : ~ Holds(folds, y, i, t)
    <3>1. DOMAIN Lot(folds, y) = {} BY <1>0, <1>3, <2>2
    <3> QED BY <3>1 DEF Holds
  <2>8. zk # y BY <1>2, <2>2
  <2>9. \A x : x \in kept <=> x = k BY <2>1
  <2>10. zk = Entry(s, k, old[k], {}) OBVIOUS
  <2> HIDE DEF y, rec, zk, z, k
  <2>11. \A e : e = zk /\ e # y <=> \E x : x \in kept /\ x \in DOMAIN old /\ e = Entry(s, x, old[x], {})
    BY <2>1, <2>8, <2>9, <2>10
  <2>12. \A x \in DOMAIN old : zk # Entry(s, x, old[x], {}) \/ x \in kept BY <1>7, <2>2, <2>9
  <2>13. DOMAIN rec = RecFields /\ rec.folder \in 1 .. n /\ zk.rec.folder = rec.folder /\ Lot(folds, zk) = Held(folds, rec)
    BY <2>2, <2>5, <2>6
  <2>14. Takes(ix, folds, n, s, old, kept, y, zk, rec)
    BY <1>1, <1>2, <1>3, <2>2, <2>7, <2>11, <2>12, <2>13 DEF Takes
  <2> QED BY <2>14
<1>10. \E x : Takes(ix, folds, n, s, old, kept, y, x, rec)
  <2> HIDE DEF y, rec
  <2> QED BY <1>8, <1>9
<1> QED BY <1>10

\* Models of two that share no id.
LEMMA BothModels ==
    ASSUME NEW a, NEW b, NEW m, NEW T, m = a @@ b, WellModels(a, T), WellModels(b, T), DOMAIN a \cap DOMAIN b = {}
    PROVE  /\ WellModels(m, T)
           /\ \A i, t : /\ Has(m, i, t) <=> Has(a, i, t) \/ Has(b, i, t)
                        /\ Has(a, i, t) => m[i].rev = a[i].rev
                        /\ Has(b, i, t) => m[i].rev = b[i].rev
<1>1. /\ DOMAIN m = DOMAIN a \cup DOMAIN b /\ \A i \in DOMAIN a : m[i] = a[i]
      /\ \A i \in DOMAIN b : m[i] = b[i]
  BY DEF @@
<1>2. IsFiniteSet(DOMAIN a \cup DOMAIN b)
  <2>1. IsFiniteSet(DOMAIN a) /\ IsFiniteSet(DOMAIN b) BY DEF WellModels
  <2> QED BY Zenon, <2>1, FS_Union
<1>3. IsFiniteSet(DOMAIN m) BY Zenon, <1>1, <1>2
<1> QED BY <1>1, <1>3 DEF WellModels, Has

LEMMA RestoreServes ==
    ASSUME NEW ix, NEW folds, NEW lat, NEW n, NEW K, Sits(ix, folds, lat, n, K), NEW c, c \notin DOMAIN lat,
           NEW item \in ix.trash, Restorable(ix, item)
    PROVE  Serves(RestoreMaterial(ix, folds, item, n), ix, folds, lat, n, K, c)
<1> DEFINE f == n + 1
           T == DOMAIN lat
           s == item.session
           id == item.id
           orig == item.orig
           old == ix.sessions[s]
           kept == KeptOf(old, item)
           recs == Restrict(old, DOMAIN old \ kept)
           rec == IF kept = {} THEN item.rec
                  ELSE [item.rec EXCEPT !.folder = old[item.kept].folder, !.named = old[item.kept].named]
           from == Held(folds, rec)
           out == [ix EXCEPT !.trash = @ \ {item}]
           heldO == Held(folds, recs[orig])
           attach == /\ orig \in DOMAIN recs /\ IsAudio(recs[orig]) /\ Exists(folds, rec)
                     /\ DOMAIN from \cap DOMAIN heldO = {}
           y == ItemEntry(item)
           m == from @@ heldO
           to == In(recs[orig], f)
           newA == (orig :> to) @@ recs
           newP == (id :> rec) @@ recs
           nxA == PutSession(out, s, newA)
           nxP == PutSession(out, s, newP)
           F == f :> Folder(s, m)
           ask == RestoreMaterial(ix, folds, item, n)
           RA == kept \cup {orig}
           RP == kept \cup {id}
           eo == Entry(s, orig, old[orig], {})
           eA == Entry(s, orig, to, {})
           eP == Entry(s, id, rec, {})
           nowA == F @@ folds
           nowP == Empty @@ folds
<1>0. n \in Nat /\ f = n + 1 /\ f \in 1 .. n + 3 /\ ~ (f <= n) BY DEF Sits
<1>00. DOMAIN ix = Fields /\ Apart(ix) /\ AtHome(ix) BY DEF Sits
<1>1. s \in DOMAIN ix.sessions /\ id \notin DOMAIN old BY DEF Restorable
<1>2. (attach => ask = Staging(nxA, F)) /\ (~ attach => ask = Asking(nxP)) BY Zenon DEF RestoreMaterial
<1>3. /\ attach => ask.next = nxA /\ ask.folders = F /\ ask.makes = {} /\ ask.drops = {} /\ ask.old = {}
      /\ ~ attach => ask.next = nxP /\ ask.folders = Empty /\ ask.makes = {} /\ ask.drops = {} /\ ask.old = {}
  <2> HIDE DEF nxA, nxP, F, ask, attach
  <2> QED BY <1>2 DEF Asking, Staging
<1>4. /\ DOMAIN out = Fields /\ out.sessions = ix.sessions /\ out.gone = ix.gone /\ Apart(out)
      /\ Entries(out) = Entries(ix) \ {y}
  BY <1>00, <1>1, TakenEntries
<1>5. PICK z : Takes(ix, folds, n, s, old, kept, y, z, rec) BY <1>1, KeptFacts
<1>6. y.id = id BY ItemFacts
<1>7. \A x \in kept : x \in DOMAIN old BY DEF KeptOf
<1>8. \A x : /\ x \in DOMAIN recs <=> x \in DOMAIN old /\ x \notin kept
             /\ x \in DOMAIN recs => recs[x] = old[x]
  BY DEF Restrict
<1>9. /\ \A x : x \in DOMAIN newA <=> x = orig \/ x \in DOMAIN recs
      /\ newA[orig] = to /\ \A x : x \in DOMAIN recs /\ x # orig => newA[x] = recs[x]
  <2>1. newA = (orig :> to) @@ recs OBVIOUS
  <2> HIDE DEF newA, orig, to, recs
  <2> QED BY <2>1, AddedOne
<1>10. /\ \A x : x \in DOMAIN newP <=> x = id \/ x \in DOMAIN recs
       /\ newP[id] = rec /\ \A x : x \in DOMAIN recs /\ x # id => newP[x] = recs[x]
  <2>1. newP = (id :> rec) @@ recs OBVIOUS
  <2> HIDE DEF newP, id, rec, recs
  <2> QED BY <2>1, AddedOne
<1>11. /\ nxA = PutSession(out, s, newA) /\ nxP = PutSession(out, s, newP) /\ ix.sessions[s] = old
       /\ F = f :> Folder(s, m) /\ from = Held(folds, rec) /\ heldO = Held(folds, recs[orig]) /\ m = from @@ heldO
       /\ eo = Entry(s, orig, old[orig], {}) /\ eA = Entry(s, orig, to, {}) /\ eP = Entry(s, id, rec, {})
       /\ \A x : (x \in RA <=> x \in kept \/ x = orig) /\ (x \in RP <=> x \in kept \/ x = id)
       /\ attach => orig \in DOMAIN recs /\ DOMAIN from \cap DOMAIN heldO = {}
  OBVIOUS
<1>12. /\ eo.dir = s /\ eo.id = orig /\ eo.rec = old[orig] /\ eA.dir = s /\ eA.id = orig /\ eA.rec = to
       /\ eP.dir = s /\ eP.id = id /\ eP.rec = rec /\ \A x : x \notin eA.item /\ x \notin eP.item
       /\ \A fs, j, t : /\ Lot(fs, eA) = Held(fs, to) /\ (Holds(fs, eA, j, t) <=> Has(Held(fs, to), j, t))
                        /\ Lot(fs, eP) = Held(fs, rec) /\ (Holds(fs, eP, j, t) <=> Has(Held(fs, rec), j, t))
                        /\ Lot(fs, eo) = Held(fs, old[orig]) /\ (Holds(fs, eo, j, t) <=> Has(Held(fs, old[orig]), j, t))
  <2>1. \A q, w : LET e == Entry(s, q, w, {})
                  IN /\ e.dir = s /\ e.id = q /\ e.rec = w /\ \A x : x \notin e.item
                     /\ \A fs, j, t : Lot(fs, e) = Held(fs, w) /\ (Holds(fs, e, j, t) <=> Has(Held(fs, w), j, t))
    <3> TAKE q, w
    <3> HIDE DEF s
    <3> QED BY EntryFacts, LotFacts
  <2>2. eo = Entry(s, orig, old[orig], {}) /\ eA = Entry(s, orig, to, {}) /\ eP = Entry(s, id, rec, {})
    OBVIOUS
  <2> DEFINE was == old[orig]
  <2> HIDE DEF was, s, old, orig, to, id, rec, eo, eA, eP
  <2>3. eo = Entry(s, orig, was, {}) BY <2>2 DEF was
  <2> QED BY <2>1, <2>2, <2>3 DEF was
<1>13. WellModels(from, T) /\ WellModels(heldO, T) BY HeldWell
<1>14. orig \in DOMAIN old => orig \in 1 .. n /\ DOMAIN old[orig] = RecFields /\ eo \in Entries(ix)
  BY <1>1, RecordingOld
<1>15. orig \in DOMAIN recs => DOMAIN to = RecFields /\ to.folder = f
  <2> HIDE DEF recs, old, f
  <2> QED BY <1>8, <1>14, RecordingFacts
<1> HIDE DEF f, T, s, id, orig, old, kept, recs, rec, from, out, heldO, attach, y, m, to, newA, newP, nxA, nxP, F, ask,
             RA, RP, eo, eA, eP, nowA, nowP
<1>16. /\ y \in Entries(ix) /\ z \in Entries(ix) /\ z.dir = s /\ y.dir = s
       /\ y.id \in 1 .. n
       /\ DOMAIN rec = RecFields /\ rec.folder \in 1 .. n
       /\ z.rec.folder = rec.folder /\ Lot(folds, z) = from
       /\ z = y \/ \A i, t : ~ Holds(folds, y, i, t)
       /\ \A e : e = z /\ e # y <=> \E x : x \in kept /\ x \in DOMAIN old /\ e = Entry(s, x, old[x], {})
       /\ \A x \in DOMAIN old : z # Entry(s, x, old[x], {}) \/ x \in kept
  BY <1>5, <1>11 DEF Takes
<1>17. \A i, t : Holds(folds, z, i, t) <=> Has(from, i, t) BY <1>16 DEF Holds, Has
<1>18. ASSUME ~ attach PROVE Serves(ask, ix, folds, lat, n, K, c)
  <2>1. Edits(out, s, old, newP, RP) BY <1>1, <1>4, <1>8, <1>10, <1>11 DEF Edits, SameBut
  <2>2. \A e : e \in Part(s, old, RP) <=> e = z /\ e # y
    <3>1. \A x : x \in RP /\ x \in DOMAIN old <=> x \in kept /\ x \in DOMAIN old BY <1>1, <1>11
    <3>2. \A e : e \in Part(s, old, RP) <=> \E x : x \in kept /\ x \in DOMAIN old /\ e = Entry(s, x, old[x], {})
      BY <3>1, PartFacts
    <3>3. \A e : e = z /\ e # y <=> \E x : x \in kept /\ x \in DOMAIN old /\ e = Entry(s, x, old[x], {}) BY <1>16
    <3> QED BY <3>2, <3>3
  <2>3. \A e : e \in Part(s, newP, RP) <=> e = eP BY <1>1, <1>7, <1>8, <1>10, <1>11, PartFacts
  <2>4. nxP.gone = ix.gone /\ Entries(nxP) = (Entries(ix) \ {y, z}) \cup {eP}
    <3>1. nxP.gone = out.gone /\ Entries(nxP) = (Entries(out) \ Part(s, old, RP)) \cup Part(s, newP, RP)
      BY <1>11, <2>1, EditEntries
    <3> QED BY <1>4, <2>2, <2>3, <3>1
  <2>5. /\ \A x : x \notin DOMAIN Empty
        /\ Held(nowP, rec) = from /\ WellFolders(Empty, n + 3, T)
    BY <1>11, NoFolder DEF nowP
  <2>6. id \in 1 .. n + 3 /\ rec.folder \in 1 .. n + 3 BY <1>0, <1>6, <1>16
  <2>7. Fits({y, z}, {eP}, Empty, folds, n) BY <1>12, <1>16, <2>5, <2>6 DEF Fits, Free
  <2>8. \A t \in K : Carries({y, z}, {eP}, folds, nowP, t)
    <3> TAKE t \in K
    <3> DEFINE A == {z}
               B == {y, z}
    <3>1. \A i : /\ Holds(nowP, eP, i, t) <=> Holds(folds, z, i, t)
                 /\ Holds(folds, z, i, t) => Lot(nowP, eP)[i].rev = Lot(folds, z)[i].rev
      BY <1>12, <1>16, <1>17, <2>5
    <3>2. Carries(A, {eP}, folds, nowP, t) BY <3>1, CarryOne
    <3>3. (y \in A \/ \A i : ~ Holds(folds, y, i, t)) /\ \A e : e \in B <=> e \in A \/ e = y BY <1>16
    <3> HIDE DEF A, B
    <3>4. Carries(B, {eP}, folds, nowP, t) BY <3>2, <3>3, CarryAlso
    <3> QED BY <3>4 DEF B
  <2>9. DOMAIN Empty \subseteq (n + 1) .. (n + 3) BY <2>5
  <2>10. {y, z} \subseteq Entries(ix) BY <1>16
  <2>11. Swaps(ask, ix, folds, lat, n, K, {y, z}, {eP})
    BY <1>3, <1>18, <2>4, <2>5, <2>7, <2>8, <2>9, <2>10 DEF Swaps, nowP, T
  <2> QED BY <2>11, SwapServes
<1>19. ASSUME attach PROVE Serves(ask, ix, folds, lat, n, K, c)
  <2>0. orig \in DOMAIN recs /\ orig \in DOMAIN old /\ orig \notin kept /\ recs[orig] = old[orig] BY <1>8, <1>11, <1>19
  <2>1. Edits(out, s, old, newA, RA) BY <1>1, <1>4, <1>8, <1>9, <1>11, <2>0 DEF Edits, SameBut
  <2>2. \A e : e \in Part(s, old, RA) <=> e = eo \/ (e = z /\ e # y) BY <1>11, <1>16, <2>0, PartFacts
  <2>3. \A e : e \in Part(s, newA, RA) <=> e = eA BY <1>7, <1>8, <1>9, <1>11, <2>0, PartFacts
  <2>4. nxA.gone = ix.gone /\ Entries(nxA) = (Entries(ix) \ {y, z, eo}) \cup {eA}
    <3>1. nxA.gone = out.gone /\ Entries(nxA) = (Entries(out) \ Part(s, old, RA)) \cup Part(s, newA, RA)
      BY <1>11, <2>1, EditEntries
    <3> QED BY <1>4, <2>2, <2>3, <3>1
  <2>5. /\ WellModels(m, T)
        /\ \A i, t : /\ Has(m, i, t) <=> Has(from, i, t) \/ Has(heldO, i, t)
                     /\ Has(from, i, t) => m[i].rev = from[i].rev
                     /\ Has(heldO, i, t) => m[i].rev = heldO[i].rev
    BY <1>11, <1>13, <1>19, BothModels
  <2>6. /\ F[f].dir = s /\ \A x : x \in DOMAIN F <=> x = f
        /\ \A fs, x : x.folder = f => Held(F @@ fs, x) = m
        /\ \A U, k : WellModels(m, U) /\ f \in 1 .. k => WellFolders(F, k, U)
    BY <1>11, OneFolder
  <2>7. Held(nowA, to) = m /\ WellFolders(F, n + 3, T) BY <1>0, <1>15, <2>0, <2>5, <2>6 DEF nowA
  <2>8. orig \in 1 .. n + 3 BY <1>0, <1>14, <2>0
  <2>9. Fits({y, z, eo}, {eA}, F, folds, n) BY <1>0, <1>12, <1>15, <2>0, <2>6, <2>8 DEF Fits, Free
  <2>10. \A t \in K : Carries({y, z, eo}, {eA}, folds, nowA, t)
    <3> TAKE t \in K
    <3> DEFINE A == {z, eo}
               B == {y, z, eo}
    <3>1. \A i : /\ Holds(folds, z, i, t) => Holds(nowA, eA, i, t) /\ Lot(nowA, eA)[i].rev = Lot(folds, z)[i].rev
                 /\ Holds(folds, eo, i, t) => Holds(nowA, eA, i, t) /\ Lot(nowA, eA)[i].rev = Lot(folds, eo)[i].rev
                 /\ Holds(nowA, eA, i, t) => Holds(folds, z, i, t) \/ Holds(folds, eo, i, t)
      BY <1>11, <1>12, <1>16, <1>17, <2>0, <2>5, <2>7
    <3>2. z # eo BY <1>11, <1>16, <2>0
    <3>3. Carries(A, {eA}, folds, nowA, t) BY <3>1, <3>2, CarryJoin
    <3>4. (y \in A \/ \A i : ~ Holds(folds, y, i, t)) /\ \A e : e \in B <=> e \in A \/ e = y BY <1>16
    <3> HIDE DEF A, B
    <3>5. Carries(B, {eA}, folds, nowA, t) BY <3>3, <3>4, CarryAlso
    <3> QED BY <3>5 DEF B
  <2>11. DOMAIN F \subseteq (n + 1) .. (n + 3) BY <1>0, <2>6
  <2>12. {y, z, eo} \subseteq Entries(ix) BY <1>14, <1>16, <2>0
  <2>13. Swaps(ask, ix, folds, lat, n, K, {y, z, eo}, {eA})
    BY <1>3, <1>19, <2>4, <2>7, <2>9, <2>10, <2>11, <2>12 DEF Swaps, nowA, T
  <2> QED BY <2>13, SwapServes
<1>20. Serves(ask, ix, folds, lat, n, K, c) BY <1>18, <1>19
<1> QED BY <1>20 DEF ask

-----------------------------------------------------------------------------
(* Operations on sessions and on the whole trash.                            *)

\* An operation that stages nothing and lists the same.
LEMMA SameServes ==
    ASSUME NEW ix, NEW folds, NEW lat, NEW n, NEW K, Sits(ix, folds, lat, n, K), NEW c, c \notin DOMAIN lat,
           NEW nx, Entries(nx) = Entries(ix), AtHome(nx)
    PROVE  Serves(Asking(nx), ix, folds, lat, n, K, c)
<1> DEFINE ask == Asking(ix)
           ask2 == Asking(nx)
<1>1. /\ ask.next = ix /\ ask.folders = Empty /\ ask.makes = {} /\ ask.drops = {} /\ ask.old = {}
      /\ ask2.next = nx /\ ask2.folders = Empty /\ ask2.makes = {} /\ ask2.drops = {} /\ ask2.old = {}
  BY DEF Asking
<1> HIDE DEF ask, ask2
<1>2. /\ DOMAIN Empty = {} /\ WellFolders(Empty, n + 3, DOMAIN lat) BY NoFolder
<1>3. \A t \in K : Carries({}, {}, folds, Empty @@ folds, t)
  <2>1. \A t, rev, fs : NoneIn({}, fs, t) /\ ~ OnceIn({}, fs, t, rev) BY DEF NoneIn, OnceIn
  <2> QED BY <2>1 DEF Carries
<1>4. Fits({}, {}, Empty, folds, n) BY DEF Fits
<1>5. Entries(ix) = (Entries(ix) \ {}) \cup {} OBVIOUS
<1>6. Swaps(ask, ix, folds, lat, n, K, {}, {}) BY <1>1, <1>2, <1>3, <1>4, <1>5 DEF Swaps
<1>7. Serves(ask, ix, folds, lat, n, K, c) BY <1>6, SwapServes
<1>8. Serves(ask2, ix, folds, lat, n, K, c)
  BY <1>1, <1>7 DEF Serves
<1> QED BY <1>8 DEF ask2

\* The entries of an index whose fields are these.
Consists(ix, sess, items, gone) == ix.sessions = sess /\ ix.trash = items /\ ix.gone = gone

LEMMA ListedEntries ==
    ASSUME NEW ix, NEW sess, NEW items, NEW gone, NEW e, Consists(ix, sess, items, gone)
    PROVE  e \in Entries(ix) <=>
              \/ \E s : s \in DOMAIN sess /\ e \in OfRecs(s, sess[s])
              \/ \E x : x \in items /\ e = ItemEntry(x)
              \/ \E s : s \in DOMAIN gone /\ (e \in OfRecs(s, gone[s].recs)
                                              \/ \E x : x \in gone[s].trash /\ e = ItemEntry(x))
<1>1. \A it : e \in OfItems(it) <=> \E x : x \in it /\ e = ItemEntry(x) BY ItemFacts
<1>2. e \in Entries(ix) <=>
              \/ \E s \in DOMAIN sess : e \in OfRecs(s, sess[s])
              \/ e \in OfItems(items)
              \/ \E s \in DOMAIN gone : e \in OfRecs(s, gone[s].recs) \cup OfItems(gone[s].trash)
  BY EntriesFacts DEF Consists
<1>3. \A s : e \in OfRecs(s, gone[s].recs) \cup OfItems(gone[s].trash)
          <=> e \in OfRecs(s, gone[s].recs) \/ \E x : x \in gone[s].trash /\ e = ItemEntry(x)
  BY <1>1
<1> QED BY <1>1, <1>2, <1>3

LEMMA TrashSessionServes ==
    ASSUME NEW ix, NEW folds, NEW lat, NEW n, NEW K, Sits(ix, folds, lat, n, K), NEW c, c \notin DOMAIN lat,
           NEW s \in DOMAIN ix.sessions
    PROVE  Serves(TrashSession(ix, s), ix, folds, lat, n, K, c)
<1> DEFINE sess == ix.sessions
           gone == ix.gone
           items == ix.trash
           its == ItemsOf(ix, s)
           bag == [recs |-> ix.sessions[s], trash |-> its]
           sess2 == Without(sess, s)
           items2 == items \ its
           gone2 == (s :> bag) @@ gone
           nx == [ix EXCEPT !.sessions = Without(@, s), !.trash = @ \ ItemsOf(ix, s),
                      !.gone = (s :> [recs |-> ix.sessions[s], trash |-> ItemsOf(ix, s)]) @@ @]
<1>0. DOMAIN ix = Fields /\ Apart(ix) /\ AtHome(ix) BY DEF Sits
<1>1. nx.sessions = sess2 /\ nx.trash = items2 /\ nx.gone = gone2 BY <1>0 DEF Fields
<1>2. TrashSession(ix, s) = Asking(nx) BY Zenon DEF TrashSession
<1>3. \A x : x \in its <=> x \in items /\ x.session = s BY DEF ItemsOf
<1>4. s \notin DOMAIN gone BY <1>0 DEF Apart
<1>5. bag.recs = sess[s] /\ bag.trash = its OBVIOUS
<1>6. \A x : /\ x \in DOMAIN sess2 <=> x \in DOMAIN sess /\ x # s
             /\ x \in DOMAIN sess /\ x # s => sess2[x] = sess[x]
  BY WithoutFacts
<1>7. /\ \A x : x \in DOMAIN gone2 <=> x = s \/ x \in DOMAIN gone
      /\ gone2[s] = bag /\ \A x : x \in DOMAIN gone /\ x # s => gone2[x] = gone[x]
  <2>1. gone2 = (s :> bag) @@ gone OBVIOUS
  <2> HIDE DEF gone2, bag, gone
  <2> QED BY <2>1, AddedOne
<1>8. \A x : x \in items2 <=> x \in items /\ x \notin its OBVIOUS
<1>9. s \in DOMAIN sess /\ sess = ix.sessions /\ gone = ix.gone /\ items = ix.trash OBVIOUS
<1> HIDE DEF sess, gone, items, its, bag, sess2, items2, gone2, nx
<1>10. \A e : e \in Entries(nx) <=> e \in Entries(ix)
  <2> TAKE e
  <2> DEFINE P(x) == x \in DOMAIN sess /\ e \in OfRecs(x, sess[x])
             G(x) == x \in DOMAIN gone /\ (e \in OfRecs(x, gone[x].recs)
                                           \/ \E i : i \in gone[x].trash /\ e = ItemEntry(i))
             P2(x) == x \in DOMAIN sess2 /\ e \in OfRecs(x, sess2[x])
             G2(x) == x \in DOMAIN gone2 /\ (e \in OfRecs(x, gone2[x].recs)
                                           \/ \E i : i \in gone2[x].trash /\ e = ItemEntry(i))
  <2>1. e \in Entries(ix) <=> (\E x : P(x)) \/ (\E i : i \in items /\ e = ItemEntry(i)) \/ (\E x : G(x))
    <3>1. Consists(ix, sess, items, gone) BY <1>9 DEF Consists
    <3> QED BY <3>1, ListedEntries
  <2>2. e \in Entries(nx) <=> (\E x : P2(x)) \/ (\E i : i \in items2 /\ e = ItemEntry(i)) \/ (\E x : G2(x))
    <3>1. Consists(nx, sess2, items2, gone2) BY <1>1 DEF Consists
    <3> QED BY <3>1, ListedEntries
  <2>3. \A x : P2(x) <=> P(x) /\ x # s BY <1>6
  <2>4. \A x : x # s => (G2(x) <=> G(x)) BY <1>7
  <2>5. G2(s) <=> P(s) \/ \E i : i \in its /\ e = ItemEntry(i) BY <1>5, <1>7, <1>9
  <2>6. ~ G(s) BY <1>4
  <2> HIDE DEF P, G, P2, G2
  <2> QED BY <1>3, <1>8, <2>1, <2>2, <2>3, <2>4, <2>5, <2>6
<1>11. Entries(nx) = Entries(ix) BY <1>10
<1>12. AtHome(nx) BY <1>0, <1>1, <1>3, <1>5, <1>7, <1>9 DEF AtHome
<1> QED BY <1>2, <1>11, <1>12, SameServes

LEMMA RestoreSessionServes ==
    ASSUME NEW ix, NEW folds, NEW lat, NEW n, NEW K, Sits(ix, folds, lat, n, K), NEW c, c \notin DOMAIN lat,
           NEW s \in DOMAIN ix.gone
    PROVE  Serves(RestoreSession(ix, s), ix, folds, lat, n, K, c)
<1> DEFINE sess == ix.sessions
           gone == ix.gone
           items == ix.trash
           its == gone[s].trash
           rs == gone[s].recs
           sess2 == (s :> rs) @@ sess
           items2 == items \cup its
           gone2 == Without(gone, s)
           nx == [ix EXCEPT !.sessions = (s :> ix.gone[s].recs) @@ @, !.trash = @ \cup ix.gone[s].trash,
                      !.gone = Without(@, s)]
<1>0. DOMAIN ix = Fields /\ Apart(ix) /\ AtHome(ix) BY DEF Sits
<1>1. nx.sessions = sess2 /\ nx.trash = items2 /\ nx.gone = gone2 BY <1>0 DEF Fields
<1>2. RestoreSession(ix, s) = Asking(nx) BY Zenon DEF RestoreSession
<1>4. s \notin DOMAIN sess BY <1>0 DEF Apart
<1>6. \A x : /\ x \in DOMAIN gone2 <=> x \in DOMAIN gone /\ x # s
             /\ x \in DOMAIN gone /\ x # s => gone2[x] = gone[x]
  BY WithoutFacts
<1>7. /\ \A x : x \in DOMAIN sess2 <=> x = s \/ x \in DOMAIN sess
      /\ sess2[s] = rs /\ \A x : x \in DOMAIN sess /\ x # s => sess2[x] = sess[x]
  <2>1. sess2 = (s :> rs) @@ sess OBVIOUS
  <2> HIDE DEF sess2, rs, sess
  <2> QED BY <2>1, AddedOne
<1>8. \A x : x \in items2 <=> x \in items \/ x \in its OBVIOUS
<1>9. s \in DOMAIN gone /\ sess = ix.sessions /\ gone = ix.gone /\ items = ix.trash /\ its = gone[s].trash /\ rs = gone[s].recs
  OBVIOUS
<1> HIDE DEF sess, gone, items, its, rs, sess2, items2, gone2, nx
<1>10. \A e : e \in Entries(nx) <=> e \in Entries(ix)
  <2> TAKE e
  <2> DEFINE P(x) == x \in DOMAIN sess /\ e \in OfRecs(x, sess[x])
             G(x) == x \in DOMAIN gone /\ (e \in OfRecs(x, gone[x].recs)
                                           \/ \E i : i \in gone[x].trash /\ e = ItemEntry(i))
             P2(x) == x \in DOMAIN sess2 /\ e \in OfRecs(x, sess2[x])
             G2(x) == x \in DOMAIN gone2 /\ (e \in OfRecs(x, gone2[x].recs)
                                           \/ \E i : i \in gone2[x].trash /\ e = ItemEntry(i))
  <2>1. e \in Entries(ix) <=> (\E x : P(x)) \/ (\E i : i \in items /\ e = ItemEntry(i)) \/ (\E x : G(x))
    <3>1. Consists(ix, sess, items, gone) BY <1>9 DEF Consists
    <3> QED BY <3>1, ListedEntries
  <2>2. e \in Entries(nx) <=> (\E x : P2(x)) \/ (\E i : i \in items2 /\ e = ItemEntry(i)) \/ (\E x : G2(x))
    <3>1. Consists(nx, sess2, items2, gone2) BY <1>1 DEF Consists
    <3> QED BY <3>1, ListedEntries
  <2>3. \A x : G2(x) <=> G(x) /\ x # s BY <1>6
  <2>4. \A x : x # s => (P2(x) <=> P(x)) BY <1>7
  <2>5. G(s) <=> P2(s) \/ \E i : i \in its /\ e = ItemEntry(i) BY <1>7, <1>9
  <2>6. ~ P(s) BY <1>4
  <2> HIDE DEF P, G, P2, G2
  <2> QED BY <1>8, <2>1, <2>2, <2>3, <2>4, <2>5, <2>6
<1>11. Entries(nx) = Entries(ix) BY <1>10
<1>12. AtHome(nx) BY <1>0, <1>1, <1>6, <1>9 DEF AtHome
<1> QED BY <1>2, <1>11, <1>12, SameServes

LEMMA AddSessionEntries ==
    ASSUME NEW ix, DOMAIN ix = Fields, NEW n, n + 1 \notin DOMAIN ix.sessions
    PROVE  \E nx : AddSession(ix, n) = Asking(nx) /\ Entries(nx) = Entries(ix) /\ nx.gone = ix.gone
<1> DEFINE f == n + 1
           sess == ix.sessions
           sess2 == (f :> Empty) @@ sess
           nx == [ix EXCEPT !.sessions = ((n + 1) :> Empty) @@ @]
<1>1. nx.sessions = sess2 /\ nx.trash = ix.trash /\ nx.gone = ix.gone BY DEF Fields
<1>2. AddSession(ix, n) = Asking(nx) BY Zenon DEF AddSession
<1>3. f \notin DOMAIN sess OBVIOUS
<1>4. /\ \A x : x \in DOMAIN sess2 <=> x = f \/ x \in DOMAIN sess
      /\ sess2[f] = Empty /\ \A x : x \in DOMAIN sess /\ x # f => sess2[x] = sess[x]
  <2>1. sess2 = (f :> Empty) @@ sess OBVIOUS
  <2> HIDE DEF sess2, f, sess
  <2> QED BY <2>1, AddedOne
<1>5. sess = ix.sessions OBVIOUS
<1> HIDE DEF f, sess, sess2, nx
<1>6. \A e : e \notin OfRecs(f, Empty) BY NoModels DEF OfRecs
<1>7. \A e : e \in Entries(nx) <=> e \in Entries(ix)
  <2> TAKE e
  <2>1. (\E s \in DOMAIN sess2 : e \in OfRecs(s, sess2[s])) <=> (\E s \in DOMAIN sess : e \in OfRecs(s, sess[s]))
    BY <1>3, <1>4, <1>6
  <2> QED BY <1>1, <1>5, <2>1, EntriesFacts
<1>8. Entries(nx) = Entries(ix) BY <1>7
<1> QED BY <1>1, <1>2, <1>8

\* What is in the trash has a place there.
LEMMA TrashPlaced ==
    ASSUME NEW ix, NEW e \in Entries(ix), \A s \in DOMAIN ix.sessions : e \notin OfRecs(s, ix.sessions[s])
    PROVE  \E p \in TrashPlaces(ix) : p.rec = e.rec
<1> DEFINE Pl(s) == {[dir |-> s, id |-> r, rec |-> ix.gone[s].recs[r]] : r \in DOMAIN ix.gone[s].recs}
           Bag(s) == Pl(s) \cup ItemPlaces(ix.gone[s].trash)
<1>1. \A items : \A x \in items : \E p \in ItemPlaces(items) : p.rec = x.rec
  <2> TAKE items
  <2> TAKE x \in items
  <2> DEFINE p == [dir |-> x.session, id |-> x.id, rec |-> x.rec]
  <2>1. p \in ItemPlaces(items) /\ p.rec = x.rec BY DEF ItemPlaces
  <2> QED BY <2>1
<1>2. \A s : \A r \in DOMAIN ix.gone[s].recs : \E p \in Pl(s) : p.rec = ix.gone[s].recs[r]
  <2> TAKE s
  <2> TAKE r \in DOMAIN ix.gone[s].recs
  <2> DEFINE p == [dir |-> s, id |-> r, rec |-> ix.gone[s].recs[r]]
  <2>1. p \in Pl(s) /\ p.rec = ix.gone[s].recs[r] OBVIOUS
  <2> QED BY <2>1
<1>3. TrashPlaces(ix) = ItemPlaces(ix.trash) \cup UNION {Bag(s) : s \in DOMAIN ix.gone} BY Zenon DEF TrashPlaces
<1>4. \A s : Pl(s) \subseteq Bag(s) /\ ItemPlaces(ix.gone[s].trash) \subseteq Bag(s) OBVIOUS
<1> HIDE DEF Pl, Bag
<1>5. \A p : \A s \in DOMAIN ix.gone : p \in Bag(s) => p \in TrashPlaces(ix) BY <1>3
<1>6. CASE e \in OfItems(ix.trash)
  <2>1. PICK x \in ix.trash : e = ItemEntry(x) BY <1>6, ItemFacts
  <2>2. e.rec = x.rec BY <2>1, ItemFacts
  <2>3. PICK p \in ItemPlaces(ix.trash) : p.rec = x.rec BY <1>1, <2>1
  <2>4. p \in TrashPlaces(ix) BY <1>3, <2>3
  <2> QED BY <2>2, <2>3, <2>4
<1>7. ASSUME NEW s \in DOMAIN ix.gone, e \in OfRecs(s, ix.gone[s].recs) \cup OfItems(ix.gone[s].trash)
      PROVE  \E p \in TrashPlaces(ix) : p.rec = e.rec
  <2>1. CASE e \in OfRecs(s, ix.gone[s].recs)
    <3>1. PICK r \in DOMAIN ix.gone[s].recs : e = Entry(s, r, ix.gone[s].recs[r], {}) BY <2>1 DEF OfRecs
    <3>2. e.rec = ix.gone[s].recs[r] BY <3>1, EntryFacts
    <3>3. PICK p \in Pl(s) : p.rec = ix.gone[s].recs[r] BY <1>2, <3>1
    <3>4. p \in TrashPlaces(ix) BY <1>4, <1>5, <3>3
    <3> QED BY <3>2, <3>3, <3>4
  <2>2. CASE e \in OfItems(ix.gone[s].trash)
    <3>1. PICK x \in ix.gone[s].trash : e = ItemEntry(x) BY <2>2, ItemFacts
    <3>2. e.rec = x.rec BY <3>1, ItemFacts
    <3>3. PICK p \in ItemPlaces(ix.gone[s].trash) : p.rec = x.rec BY <1>1, <3>1
    <3>4. p \in TrashPlaces(ix) BY <1>4, <1>5, <3>3
    <3> QED BY <3>2, <3>3, <3>4
  <2> QED BY <1>7, <2>1, <2>2
<1> QED BY <1>6, <1>7, EntriesFacts

LEMMA ClearServes ==
    ASSUME NEW ix, NEW folds, NEW lat, NEW n, NEW K, Sits(ix, folds, lat, n, K), NEW c, c \notin DOMAIN lat
    PROVE  Serves(ClearTrash(ix, folds), ix, folds, lat, n, K, c)
<1> DEFINE nx == [ix EXCEPT !.trash = {}, !.gone = Empty]
           ask == ClearTrash(ix, folds)
           D == UNION {Texts(Held(folds, p.rec)) : p \in TrashPlaces(ix)}
           active(item) == {ix.sessions[item.session][r] : r \in DOMAIN ix.sessions[item.session]}
           unused == {x \in ix.trash : \A rec \in active(x) : rec.folder # x.rec.folder}
           O == {item.rec.folder : item \in unused} \cup {f \in DOMAIN folds : folds[f].dir \in DOMAIN ix.gone}
           M == {item.rec.media : item \in
                            {x \in ix.trash : \A rec \in active(x) : rec.media # x.rec.media}}
                \cup UNION {{ix.gone[s].recs[r].media : r \in DOMAIN ix.gone[s].recs} : s \in DOMAIN ix.gone}
           Out == Entries(ix) \ Entries(nx)
           E == Entries(ix)
           l == n + 3
<1>0. /\ DOMAIN ix = Fields /\ Apart(ix) /\ AtHome(ix) /\ n \in Nat /\ Good(E, folds, lat, n, K)
      /\ WellFolders(folds, n, DOMAIN lat) /\ K \subseteq DOMAIN lat
  BY DEF Sits
<1>1. ask = [Asking(nx) EXCEPT !.drops = D, !.old = O, !.oldMedia = M] BY Zenon DEF ClearTrash
<1>2. DOMAIN nx = Fields /\ nx.sessions = ix.sessions /\ nx.trash = {} /\ nx.gone = Empty BY <1>0 DEF Fields
<1>3. \A f : f \in O => \/ \E x \in ix.trash : f = x.rec.folder
                        \/ f \in DOMAIN folds /\ folds[f].dir \in DOMAIN ix.gone
  OBVIOUS
<1>4. Out = Entries(ix) \ Entries(nx) /\ E = Entries(ix) OBVIOUS
<1>5. \A p \in TrashPlaces(ix) : \A i, t : Has(Held(folds, p.rec), i, t) => t \in D BY DEF Has, Texts
<1> HIDE DEF nx, ask, D, O, M, Out, E, active, unused
<1>6. ask.next = nx /\ ask.folders = Empty /\ ask.makes = {} /\ ask.drops = D /\ ask.old = O
  BY <1>1 DEF Asking
<1>7. DOMAIN Empty = {} BY NoModels
<1>8. \A e : e \in Entries(nx) <=> \E s \in DOMAIN ix.sessions : e \in OfRecs(s, ix.sessions[s])
  <2>1. \A e : e \notin OfItems({}) BY ItemFacts
  <2> QED BY <1>2, <1>7, <2>1, EntriesFacts
<1>9. Entries(nx) = (E \ Out) \cup {}
  <2>1. \A e : e \in Entries(nx) => e \in E BY <1>4, <1>8, EntriesFacts
  <2> QED BY <1>4, <2>1
<1>10. ASSUME NEW e \in Out, NEW i, NEW t, Holds(folds, e, i, t) PROVE t \in D
  <2>1. PICK p \in TrashPlaces(ix) : p.rec = e.rec BY <1>4, <1>8, TrashPlaced
  <2>2. Has(Held(folds, p.rec), i, t) BY <1>10, <2>1 DEF Holds, Has, Lot
  <2> QED BY <1>5, <2>2
<1>11. /\ Good((E \ Out) \cup {}, Empty @@ folds, [t \in {} |-> 0] @@ lat, n + 3, (K \ D) \cup {})
       /\ Good(E, Empty @@ folds, [t \in {} |-> 0] @@ lat, n + 3, K)
  <2> DEFINE makes == {}
             To == {}
             F == Empty
  <2>1. Fits(Out, To, F, folds, n) BY DEF Fits
  <2>2. Brings(Out, To, F, folds, makes, D, K)
    <3>1. \A t \in K \ D : NoneIn(Out, folds, t) BY <1>10 DEF NoneIn
    <3>2. \A t \in K \ D : Carries(Out, To, folds, F @@ folds, t) BY <3>1 DEF Carries, NoneIn, OnceIn
    <3> QED BY <3>2 DEF Brings
  <2>3. makes \cap DOMAIN lat = {} /\ DOMAIN F \subseteq (n + 1) .. (n + 3) /\ Out \subseteq E BY <1>4, <1>7
  <2> HIDE DEF makes, To, F
  <2>4. /\ Good((E \ Out) \cup To, F @@ folds, [t \in makes |-> 0] @@ lat, n + 3, (K \ D) \cup makes)
        /\ Good(E, F @@ folds, [t \in makes |-> 0] @@ lat, n + 3, K)
    BY <1>0, <2>1, <2>2, <2>3, Replaced
  <2> QED BY <2>4 DEF makes, To, F
<1>12. WellFolders(Empty @@ folds, n + 3, DOMAIN lat \cup {})
  <2>1. WellFolders(Empty, n + 3, DOMAIN lat) BY NoFolder
  <2>2. WellFolders(Empty @@ folds, n + 3, DOMAIN lat) BY <1>0, <2>1, MergedFolders
  <2>3. DOMAIN lat \cup {} = DOMAIN lat OBVIOUS
  <2> QED BY <2>2, <2>3
<1>13. O \cap Listed(Entries(nx)) = {}
  <2> SUFFICES ASSUME NEW f \in O, f \in Listed(Entries(nx)) PROVE FALSE OBVIOUS
  <2>1. PICK e \in Entries(nx) : e.rec.folder = f BY DEF Listed
  <2>2. PICK s \in DOMAIN ix.sessions : e \in OfRecs(s, ix.sessions[s]) BY <1>8, <2>1
  <2>3. e.dir = s /\ e.item = {} /\ e \in E BY <1>4, <2>2, OwnEntries, EntriesFacts
  <2>4. ASSUME NEW x \in ix.trash, f = x.rec.folder PROVE FALSE
    <3>1. ItemEntry(x) \in E
      <4>1. ItemEntry(x) \in OfItems(ix.trash) BY ItemFacts
      <4> QED BY <1>4, <4>1, EntriesFacts
    <3>2. ItemEntry(x).rec = x.rec /\ x \in ItemEntry(x).item BY ItemFacts
    <3>3. ItemEntry(x) = e BY <1>0, <2>1, <2>3, <2>4, <3>1, <3>2 DEF Good, Shape
    <3> QED BY <2>3, <3>2, <3>3
  <2>5. ASSUME f \in DOMAIN folds, folds[f].dir \in DOMAIN ix.gone PROVE FALSE
    <3>1. folds[f].dir = s BY <1>0, <2>1, <2>3, <2>5 DEF Good, Shape
    <3> QED BY <1>0, <2>2, <2>5, <3>1 DEF Apart
  <2> QED BY <1>3, <2>4, <2>5
<1>14. AtHome(nx) BY <1>2, <1>7 DEF AtHome
<1>15. DOMAIN Empty \subseteq (n + 1) .. (n + 3) BY <1>7
<1>16. Stems(Entries(ix), Entries(nx), n)
  <2>1. \A e \in Entries(nx) : e \in Entries(ix) BY <1>4, <1>9
  <2> QED BY <2>1 DEF Stems
<1>17. Serves(ask, ix, folds, lat, n, K, c)
  BY <1>4, <1>6, <1>9, <1>11, <1>12, <1>13, <1>14, <1>15, <1>16 DEF Serves
<1> QED BY <1>17 DEF ask

-----------------------------------------------------------------------------
(* The inductive invariant of EveryTextOnce, with IInv.                      *)

\* The texts that an index with these calls in it has to list.
KnownIn(wr, eff, log) == (wr \cup (UNION {eff[c].makes : c \in log})) \ (UNION {eff[c].drops : c \in log})
Stock ==
    /\ WellFolders(folders, fresh, DOMAIN latest)
    /\ DOMAIN latest \subseteq 0 .. calls /\ written \subseteq DOMAIN latest /\ DOMAIN effect \subseteq 1 .. calls
    /\ \A c \in DOMAIN effect : effect[c].makes \subseteq DOMAIN latest
Lies(E, log) == log \subseteq DOMAIN effect /\ Good(E, folders, latest, fresh, KnownIn(written, effect, log))
Sure(ix) == Apart(ix) /\ AtHome(ix) /\ Lies(Entries(ix), ix.log)

\* What is to be saved with the lease lists the texts; what is saved without it
\* lists what is listed.
From(w) == IF work[w].pc = "save" THEN snap[w] ELSE index
NextGood(w) ==
    /\ Manages(w) /\ AtHome(work[w].next)
    /\ Lies(Entries(work[w].next), work[w].next.log \cup {work[w].call})
    /\ work[w].old \cap Listed(Entries(work[w].next)) = {}
NextSame(w) ==
    /\ Entries(work[w].next) = Entries(From(w)) /\ work[w].next.gone = From(w).gone
    /\ work[w].call \in DOMAIN effect /\ effect[work[w].call].makes = {} /\ effect[work[w].call].drops = {}
    /\ work[w].old = {} /\ work[w].undo = {}
WorkInv(w) ==
    /\ Asks(w) => NextGood(w) \/ NextSame(w)
    /\ work[w].pc = "publish" => Apart(work[w].next)
    /\ Undoes(w) => Sure(work[w].base) /\ (Manages(w) \/ Entries(work[w].base) = Entries(index))
    /\ Busy(w) /\ work[w].pc # "clean" => work[w].undo = {} \/
          (Manages(w) /\ work[w].undo \cap Listed(Entries(IF Undoes(w) THEN work[w].base ELSE index)) = {})
    /\ work[w].pc = "clean" =>
          work[w].old = {} \/ (Manages(w) /\ work[w].old \cap Listed(Entries(index)) = {})
OnceInv == Stock /\ Sure(index) /\ \A w \in Windows : WorkInv(w)

-----------------------------------------------------------------------------
(* Recordings that are opened from an old snapshot.                          *)

\* Where a recording lies that a window has open, or that a snapshot or an index
\* offers to be opened; and that another index agrees, if it lists the folder: it
\* is in that session, and is not the rest of a recording whose texts were kept.
Offers(f, s, E) == \E g \in E : g.item = {} /\ f = g.rec.folder /\ s = g.dir
Opened(f, s) == \E w \in Windows :
    \/ editor[w] # None /\ f = editor[w].folder /\ s = editor[w].session
    \/ snap[w] # None /\ Offers(f, s, Entries(snap[w]))
Calm(f, s, E) == \A e \in E : e.rec.folder = f => e.dir = s /\ Free(e)
Old(E) == \A f, s : Opened(f, s) => Calm(f, s, E)
Parted(E, now) == \A f, s : Offers(f, s, E) => Calm(f, s, now)

AskOld(w) ==
    \/ Manages(w) /\ Old(Entries(work[w].next)) /\ Parted(Entries(index), Entries(work[w].next))
    \/ Entries(work[w].next) = Entries(From(w))
OldInv ==
    /\ \A f, s : Opened(f, s) => f \in 1 .. fresh
    /\ Old(Entries(index))
    /\ \A w \in Windows : Undoes(w) => Old(Entries(work[w].base))
    /\ \A w \in Windows : Asks(w) => AskOld(w)

LEMMA OwnCalm ==
    ASSUME NEW E, NEW folds, NEW n, Shape(E, folds, n)
    PROVE  Parted(E, E) /\ \A f, s : Offers(f, s, E) => f \in 1 .. n
<1>1. \A g \in E : g.item = {} => Free(g) BY DEF Free
<1> QED BY <1>1 DEF Shape, Parted, Offers, Calm

LEMMA StemsCalm ==
    ASSUME NEW E, NEW now, NEW n, Stems(E, now, n), NEW f, NEW s, Calm(f, s, E), f <= n
    PROVE  Calm(f, s, now)
BY DEF Stems, Calm

\* A step after which a window may have open what it had, or what the index offers.
LEMMA OldStep ==
    ASSUME OldInv, NEW w \in Windows, NEW X,
           \A v \in Windows : v # w => work'[v] = work[v] /\ snap'[v] = snap[v],
           \A v \in Windows : v # w /\ Manages(v) => Manages(v)' /\ Entries(index') = Entries(index),
           \A v \in Windows : v # w /\ work[v].pc \in {"publish", "putback"} => index' = index,
           fresh \in Nat, fresh' \in Nat, fresh <= fresh',
           \A f, s : Opened(f, s)' => Opened(f, s) \/ Offers(f, s, X),
           \A f, s : Offers(f, s, X) => f \in 1 .. fresh',
           X = {} \/ (X = Entries(index') /\ Parted(X, X) /\ \A v \in Windows : ~ Undoes(v)'),
           Old(Entries(index')),
           Undoes(w)' => Old(Entries(work'[w].base)),
           Asks(w)' => AskOld(w)'
    PROVE  OldInv'
<1>1. \A E : Old(E) /\ (X = {} \/ Parted(X, E)) => Old(E)'
  <2> TAKE E
  <2> SUFFICES ASSUME Old(E), X = {} \/ Parted(X, E), NEW f, NEW s, Opened(f, s)' PROVE Calm(f, s, E)
    BY DEF Old
  <2>1. CASE Opened(f, s) BY <2>1 DEF Old
  <2>2. CASE Offers(f, s, X) BY <2>2 DEF Offers, Parted
  <2> QED BY <2>1, <2>2
<1>2. \A f, s : Opened(f, s)' => f \in 1 .. fresh'
  <2>1. \A f, s : Opened(f, s) => f \in 1 .. fresh BY DEF OldInv
  <2>2. \A f : f \in 1 .. fresh => f \in 1 .. fresh' OBVIOUS
  <2> QED BY <2>1, <2>2
<1>3. Old(Entries(index))' BY <1>1
<1>4. ASSUME NEW v \in Windows, Undoes(v)' PROVE Old(Entries(work[v].base))'
  <2>1. Old(Entries(work'[v].base)) BY <1>4 DEF OldInv, Undoes
  <2> QED BY <1>1, <1>4, <2>1
<1>5. ASSUME NEW v \in Windows, Asks(v)' PROVE AskOld(v)'
  <2>1. CASE v = w BY <1>5, <2>1
  <2>2. CASE v # w
    <3>1. Asks(v) /\ AskOld(v) /\ work'[v] = work[v] /\ snap'[v] = snap[v] BY <1>5, <2>2 DEF OldInv, Asks
    <3>2. CASE Manages(v) /\ Old(Entries(work[v].next)) /\ Parted(Entries(index), Entries(work[v].next))
      <4>1. Manages(v)' /\ Entries(index') = Entries(index) BY <2>2, <3>2
      <4>2. X = {} \/ Parted(X, Entries(work[v].next)) BY <3>2, <4>1
      <4>3. Old(Entries(work[v].next))' BY <1>1, <3>1, <3>2, <4>2
      <4>4. Parted(Entries(index'), Entries(work'[v].next)) BY <3>1, <3>2, <4>1
      <4> QED BY <3>1, <4>1, <4>3, <4>4 DEF AskOld
    <3>3. CASE Entries(work[v].next) = Entries(From(v))
      <4>1. work[v].pc = "publish" => index' = index BY <2>2
      <4>2. work[v].pc \in {"save", "publish"} BY <3>1 DEF Asks
      <4>3. From(v)' = From(v) BY <3>1, <4>1, <4>2 DEF From
      <4> QED BY <3>1, <3>3, <4>3 DEF AskOld
    <3> QED BY <3>1, <3>2, <3>3 DEF AskOld
  <2> QED BY <2>1, <2>2
<1> QED BY <1>2, <1>3, <1>4, <1>5 DEF OldInv

LEMMA OpenedSame ==
    ASSUME UNCHANGED <<snap, editor>>
    PROVE  \A f, s : Opened(f, s)' <=> Opened(f, s)
BY DEF Opened

\* Steps that leave what is open.
LEMMA OldOnly ==
    ASSUME IInv, OldInv, NEW w \in Windows, UNCHANGED <<snap, editor, fresh>>,
           \A v \in Windows : v # w => work'[v] = work[v],
           \A v \in Windows : v # w /\ Manages(v) => Manages(v)' /\ Entries(index') = Entries(index),
           \A v \in Windows : v # w /\ work[v].pc \in {"publish", "putback"} => index' = index,
           Old(Entries(index')), Undoes(w)' => Old(Entries(work'[w].base)), Asks(w)' => AskOld(w)'
    PROVE  OldInv'
<1>1. fresh \in Nat /\ fresh' = fresh BY DEF IInv, TypeInv
<1>2. \A f, s : Opened(f, s)' => Opened(f, s) \/ Offers(f, s, {}) BY OpenedSame
<1>3. \A f, s : ~ Offers(f, s, {}) BY DEF Offers
<1>4. \A v \in Windows : v # w => work'[v] = work[v] /\ snap'[v] = snap[v] OBVIOUS
<1> QED BY <1>1, <1>2, <1>3, <1>4, OldStep

-----------------------------------------------------------------------------
(* What a step leaves of it.                                                 *)
LEMMA GoodLess ==
    ASSUME NEW E, NEW folds, NEW lat, NEW n, NEW K, Good(E, folds, lat, n, K), NEW L \in SUBSET K
    PROVE  Good(E, folds, lat, n, L)
BY DEF Good

LEMMA KnownFacts ==
    ASSUME NEW wr, NEW eff, NEW log, log \subseteq DOMAIN eff
    PROVE  /\ \A n, x, now : n \notin DOMAIN eff /\ now = (n :> x) @@ eff => KnownIn(wr, now, log) = KnownIn(wr, eff, log)
           /\ \A c : KnownIn(wr, eff, log \cup {c}) \subseteq (KnownIn(wr, eff, log) \ eff[c].drops) \cup eff[c].makes
           /\ \A c : KnownIn(wr \cup {c}, eff, log) \subseteq KnownIn(wr, eff, log) \cup {c}
           /\ \A T : wr \subseteq T /\ (\A c \in DOMAIN eff : eff[c].makes \subseteq T) => KnownIn(wr, eff, log) \subseteq T
<1>1. ASSUME NEW n, NEW x, NEW now, n \notin DOMAIN eff, now = (n :> x) @@ eff
      PROVE  KnownIn(wr, now, log) = KnownIn(wr, eff, log)
  <2>1. \A c \in log : now[c] = eff[c] BY <1>1 DEF :>, @@
  <2>2. {now[c].makes : c \in log} = {eff[c].makes : c \in log} BY <2>1
  <2>3. {now[c].drops : c \in log} = {eff[c].drops : c \in log} BY <2>1
  <2> QED BY <2>2, <2>3, Zenon DEF KnownIn
<1>2. \A t : /\ t \in UNION {eff[c].makes : c \in log} <=> \E c \in log : t \in eff[c].makes
             /\ t \in UNION {eff[c].drops : c \in log} <=> \E c \in log : t \in eff[c].drops
  OBVIOUS
<1>3. \A n, t : /\ t \in UNION {eff[c].makes : c \in log \cup {n}} <=> \E c \in log \cup {n} : t \in eff[c].makes
                /\ t \in UNION {eff[c].drops : c \in log \cup {n}} <=> \E c \in log \cup {n} : t \in eff[c].drops
  OBVIOUS
<1>4. \A c : KnownIn(wr, eff, log \cup {c}) \subseteq (KnownIn(wr, eff, log) \ eff[c].drops) \cup eff[c].makes
  BY <1>2, <1>3 DEF KnownIn
<1>5. \A c : KnownIn(wr \cup {c}, eff, log) \subseteq KnownIn(wr, eff, log) \cup {c} BY DEF KnownIn
<1>6. \A T : wr \subseteq T /\ (\A c \in DOMAIN eff : eff[c].makes \subseteq T) => KnownIn(wr, eff, log) \subseteq T
  BY <1>2 DEF KnownIn
<1> QED BY <1>1, <1>4, <1>5, <1>6

LEMMA Others ==
    ASSUME NEW v \in Windows, WorkInv(v), work'[v] = work[v], snap'[v] = snap[v], Manages(v) => Manages(v)',
           \A E, log : (Manages(v) \/ E = Entries(index)) /\ Lies(E, log) => Lies(E, log)',
           work[v].pc \in {"publish", "putback"} => index' = index,
           Manages(v) => Entries(index') = Entries(index),
           \A c \in DOMAIN effect : c \in DOMAIN effect' /\ effect'[c] = effect[c]
    PROVE  WorkInv(v)'
<1>1. Asks(v)' => Asks(v) /\ (NextGood(v)' \/ NextSame(v)')
  <2>1. Asks(v)' <=> Asks(v) BY DEF Asks
  <2>2. From(v)' = From(v) \/ ~ Asks(v) BY DEF From, Asks
  <2>3. Asks(v) /\ NextGood(v) => NextGood(v)' BY DEF NextGood
  <2>4. Asks(v) /\ NextSame(v) => NextSame(v)' BY <2>2 DEF NextSame
  <2> QED BY <2>1, <2>3, <2>4 DEF WorkInv
<1>2. work'[v].pc = "publish" => Apart(work'[v].next) BY DEF WorkInv
<1>3. Undoes(v)' => Sure(work[v].base)' /\ (Manages(v)' \/ Entries(work'[v].base) = Entries(index'))
  BY DEF WorkInv, Undoes, Sure
<1>4. Busy(v)' /\ work'[v].pc # "clean" => work'[v].undo = {} \/
          (Manages(v)' /\ work'[v].undo \cap Listed(Entries(IF Undoes(v)' THEN work'[v].base ELSE index')) = {})
  BY DEF WorkInv, Busy, Undoes
<1>5. work'[v].pc = "clean" =>
          work'[v].old = {} \/ (Manages(v)' /\ work'[v].old \cap Listed(Entries(index')) = {})
  BY DEF WorkInv
<1> QED BY <1>1, <1>2, <1>3, <1>4, <1>5 DEF WorkInv

-----------------------------------------------------------------------------
(* The start of a save.                                                      *)

\* What is staged, and a call that no index has yet, leave what is listed.
LEMMA BegunKeeps ==
    ASSUME NEW folds, NEW lat, NEW n \in Nat, NEW T, WellFolders(folds, n, T),
           NEW F, DOMAIN F \subseteq (n + 1) .. (n + 3), NEW makes, makes \cap DOMAIN lat = {},
           NEW E, NEW K \in SUBSET DOMAIN lat, Good(E, folds, lat, n, K)
    PROVE  Good(E, F @@ folds, [t \in makes |-> 0] @@ lat, n + 3, K)
<1> DEFINE now == F @@ folds
           late == [t \in makes |-> 0] @@ lat
<1>1. DOMAIN folds \subseteq 1 .. n /\ DOMAIN F \cap 1 .. n = {} BY DEF WellFolders
<1>2. \A e \in E : Lot(now, e) = Lot(folds, e) BY <1>1, StagedLot DEF Good, Shape
<1>3. \A t \in K : late[t] = lat[t] BY DEF @@
<1>4. Shape(E, now, n + 3)
  <2>1. Fits({}, {}, F, folds, n) BY DEF Fits
  <2>2. Shape((E \ {}) \cup {}, now, n + 3)
    <3>1. {} \in SUBSET E OBVIOUS
    <3> HIDE DEF now
    <3> QED BY <1>1, <2>1, <3>1, ReplacedShape DEF Good, now
  <2>3. (E \ {}) \cup {} = E OBVIOUS
  <2> QED BY <2>2, <2>3
<1> HIDE DEF now, late
<1>5. \A t \in K : OnceIn(E, now, t, lat[t]) BY <1>2 DEF Good, OnceIn, Holds
<1>6. Good(E, now, late, n + 3, K) BY <1>3, <1>4, <1>5 DEF Good
<1> QED BY <1>6 DEF now, late

\* The state after the start of an operation that stages F and brings texts.
Brought(F, makes, drops) ==
    /\ folders' = F @@ folders /\ latest' = [t \in makes |-> 0] @@ latest /\ written' = written
    /\ effect' = (Call :> [makes |-> makes, drops |-> drops]) @@ effect
    /\ fresh' = fresh + 3 /\ calls' = Call

LEMMA BroughtLies ==
    ASSUME TypeInv, Stock, NEW F, DOMAIN F \subseteq (fresh + 1) .. (fresh + 3), NEW makes, makes \subseteq {Call},
           NEW drops, Brought(F, makes, drops)
    PROVE  /\ \A E, log : Lies(E, log) => Lies(E, log)'
           /\ \A c \in DOMAIN effect : c \in DOMAIN effect' /\ effect'[c] = effect[c]
           /\ Call \in DOMAIN effect' /\ effect'[Call].makes = makes /\ effect'[Call].drops = drops
           /\ Call \notin DOMAIN effect /\ Call \notin DOMAIN latest
           /\ \A log \in SUBSET DOMAIN effect : KnownIn(written, effect', log) = KnownIn(written, effect, log)
<1>1. Call \notin DOMAIN effect /\ Call \notin DOMAIN latest /\ fresh \in Nat
  BY DEF Stock, TypeInv, Call
<1>2. effect' = (Call :> [makes |-> makes, drops |-> drops]) @@ effect BY DEF Brought
<1>3. /\ \A c \in DOMAIN effect : c \in DOMAIN effect' /\ effect'[c] = effect[c]
      /\ Call \in DOMAIN effect' /\ effect'[Call].makes = makes /\ effect'[Call].drops = drops
  BY <1>1, <1>2 DEF :>, @@
<1>4. \A log \in SUBSET DOMAIN effect : KnownIn(written, effect', log) = KnownIn(written, effect, log)
  BY <1>1, <1>2, KnownFacts
<1>5. ASSUME NEW E, NEW log, Lies(E, log) PROVE Lies(E, log)'
  <2>1. log \subseteq DOMAIN effect' BY <1>3, <1>5 DEF Lies
  <2>2. KnownIn(written, effect, log) \in SUBSET DOMAIN latest BY <1>5, KnownFacts DEF Lies, Stock
  <2>3. makes \cap DOMAIN latest = {} BY <1>1
  <2>4. Good(E, F @@ folders, [t \in makes |-> 0] @@ latest, fresh + 3, KnownIn(written, effect, log))
    BY <1>1, <1>5, <2>2, <2>3, BegunKeeps DEF Lies, Stock
  <2>5. Good(E, folders', latest', fresh', KnownIn(written', effect', log))
    BY <1>4, <1>5, <2>4 DEF Brought, Lies
  <2> QED BY <2>1, <2>5 DEF Lies
<1> QED BY <1>1, <1>3, <1>4, <1>5

LEMMA BroughtStock ==
    ASSUME TypeInv, Stock, NEW F, NEW makes, makes \subseteq {Call}, NEW drops, Brought(F, makes, drops),
           DOMAIN F \subseteq (fresh + 1) .. (fresh + 3),
           WellFolders(F @@ folders, fresh + 3, DOMAIN latest \cup makes)
    PROVE  Stock'
<1>1. DOMAIN latest' = DOMAIN latest \cup makes BY DEF Brought, @@
<1>2. DOMAIN effect' = {Call} \cup DOMAIN effect
  <2>1. DOMAIN (Call :> [makes |-> makes, drops |-> drops]) = {Call} BY OneFacts
  <2> QED BY <2>1, MergeFacts DEF Brought
<1>3. /\ \A c \in DOMAIN effect : effect'[c] = effect[c]
      /\ effect'[Call].makes = makes
  BY BroughtLies
<1>4. WellFolders(folders', fresh', DOMAIN latest') BY <1>1 DEF Brought
<1>5. DOMAIN latest' \subseteq 0 .. calls' /\ DOMAIN effect' \subseteq 1 .. calls'
  BY <1>1, <1>2 DEF Stock, TypeInv, Brought, Call
<1>6. written' \subseteq DOMAIN latest' BY <1>1 DEF Stock, Brought
<1>7. \A c \in DOMAIN effect' : effect'[c].makes \subseteq DOMAIN latest' BY <1>1, <1>2, <1>3 DEF Stock
<1> QED BY <1>4, <1>5, <1>6, <1>7 DEF Stock

\* The windows that a step leaves as they are.
LEMMA RestInv ==
    ASSUME OnceInv, NEW w \in Windows, Only(w), index' = index,
           \A v \in Windows : v # w /\ Manages(v) => Manages(v)',
           \A E, log : Lies(E, log) => Lies(E, log)',
           \A c \in DOMAIN effect : c \in DOMAIN effect' /\ effect'[c] = effect[c]
    PROVE  Sure(index)' /\ \A v \in Windows : v # w => WorkInv(v)'
<1>1. Sure(index)' BY DEF OnceInv, Sure
<1>2. ASSUME NEW v \in Windows, v # w PROVE WorkInv(v)'
  <2>1. work'[v] = work[v] /\ snap'[v] = snap[v] BY <1>2 DEF Only
  <2>2. WorkInv(v) /\ (Manages(v) => Manages(v)') BY <1>2 DEF OnceInv
  <2> QED BY <2>1, <2>2, Others
<1> QED BY <1>1, <1>2

LEMMA ManageOnce ==
    ASSUME IInv, OnceInv, NEW w \in Windows, Ready(w), NEW ask, Manage(w, ask), ask.next.log = index.log,
           Serves(ask, index, folders, latest, fresh, KnownIn(written, effect, index.log), Call)
    PROVE  OnceInv'
<1> DEFINE K == KnownIn(written, effect, index.log)
           F == ask.folders
           makes == ask.makes
           drops == ask.drops
           nx == ask.next
           late == [t \in makes |-> 0] @@ latest
<1>0. /\ work[w].pc = "idle" /\ index' = index /\ lease = None /\ lease' = w /\ editor' = editor
      /\ Brought(F, makes, drops)
  BY DEF Ready, Manage, LeaseTaken, Begun, Brought
<1>1. /\ work'[w].pc = "save" /\ work'[w].call = Call /\ work'[w].next = nx /\ work'[w].old = ask.old
      /\ work'[w].undo \subseteq DOMAIN F
  BY DEF IInv, TypeInv, Manage, Begun
<1>2. Only(w) BY DEF IInv, TypeInv, Manage, Begun, Only
<1>3. /\ Good(Entries(nx), F @@ folders, late, fresh + 3, (K \ drops) \cup makes)
      /\ WellFolders(F @@ folders, fresh + 3, DOMAIN latest \cup makes)
      /\ DOMAIN F \subseteq (fresh + 1) .. (fresh + 3) /\ makes \subseteq {Call}
      /\ ask.old \cap Listed(Entries(nx)) = {} /\ AtHome(nx)
  BY DEF Serves
<1>4. TypeInv /\ Stock /\ NoneAssumption BY NoneAssumption DEF IInv, OnceInv
<1>5. /\ folders' = F @@ folders /\ latest' = late /\ fresh' = fresh + 3 /\ written' = written BY <1>0 DEF Brought
<1> HIDE DEF F, makes, drops, nx, K
<1>6. Stock' BY <1>0, <1>3, <1>4, BroughtStock
<1>7. /\ \A E, log : Lies(E, log) => Lies(E, log)'
      /\ \A c \in DOMAIN effect : c \in DOMAIN effect' /\ effect'[c] = effect[c]
      /\ Call \in DOMAIN effect' /\ effect'[Call].makes = makes /\ effect'[Call].drops = drops
      /\ \A log \in SUBSET DOMAIN effect : KnownIn(written, effect', log) = KnownIn(written, effect, log)
  BY <1>0, <1>3, <1>4, BroughtLies
<1>8. \A v \in Windows : ~ Manages(v) BY <1>0, <1>4 DEF Manages
<1>9. Sure(index)' /\ \A v \in Windows : v # w => WorkInv(v)' BY <1>0, <1>2, <1>7, <1>8, RestInv
<1>10. Manages(w)' BY <1>0, <1>4 DEF IInv, LeaseInv, Manages
<1>11. nx.log = index.log /\ index.log \subseteq DOMAIN effect BY DEF nx, OnceInv, Sure, Lies
<1>c. PICK c : c = Call OBVIOUS
<1>12. Lies(Entries(nx), nx.log \cup {c})'
  <2>1. KnownIn(written, effect', index.log \cup {Call}) \subseteq (K \ drops) \cup makes
    <3>1. index.log \subseteq DOMAIN effect' BY <1>7, <1>11
    <3> QED BY <1>7, <1>11, <3>1, KnownFacts DEF K
  <2>2. Good(Entries(nx), F @@ folders, late, fresh + 3, KnownIn(written, effect', index.log \cup {c}))
    BY <1>3, <1>c, <2>1, GoodLess
  <2>3. nx.log \cup {c} \subseteq DOMAIN effect' BY <1>7, <1>11, <1>c
  <2> HIDE DEF late
  <2> QED BY <1>5, <1>11, <2>2, <2>3 DEF Lies
<1>13. work'[w].undo \cap Listed(Entries(index)) = {}
  <2>1. Shape(Entries(index), folders, fresh) BY DEF OnceInv, Sure, Lies, Good
  <2>2. \A f \in Listed(Entries(index)) : f \in 1 .. fresh BY <2>1 DEF Shape, Listed
  <2>3. fresh \in Nat BY <1>4 DEF TypeInv
  <2> QED BY <1>1, <1>3, <2>2, <2>3
<1>14. NextGood(w)' BY <1>1, <1>3, <1>c, <1>10, <1>12 DEF NextGood
<1>15. WorkInv(w)' BY <1>0, <1>1, <1>10, <1>13, <1>14 DEF WorkInv, Undoes
<1> QED BY <1>6, <1>9, <1>15 DEF OnceInv

LEMMA ManageOld ==
    ASSUME IInv, OnceInv, OldInv, NEW w \in Windows, Ready(w), NEW ask, Manage(w, ask),
           Stems(Entries(index), Entries(ask.next), fresh)
    PROVE  OldInv'
<1>1. /\ index' = index /\ lease = None /\ lease' = w /\ editor' = editor /\ snap' = snap /\ fresh' = fresh + 3
      /\ work'[w].pc = "save" /\ work'[w].next = ask.next /\ \A v \in Windows : v # w => work'[v] = work[v]
  BY DEF Ready, Manage, LeaseTaken, Begun, IInv, TypeInv
<1>2. fresh \in Nat /\ fresh' \in Nat /\ fresh <= fresh' BY <1>1 DEF IInv, TypeInv
<1>3. (\A v \in Windows : ~ Manages(v)) /\ Manages(w)'
  BY <1>1, NoneAssumption DEF IInv, LeaseInv, Manages
<1>4. Shape(Entries(index), folders, fresh) BY DEF OnceInv, Sure, Lies, Good
<1>5. PICK nx : nx = Entries(ask.next) OBVIOUS
<1>6. /\ Parted(Entries(index), Entries(index))
      /\ \A f, s : Offers(f, s, Entries(index)) => f \in 1 .. fresh
  BY <1>4, OwnCalm
<1>7. \A f, s : Calm(f, s, Entries(index)) /\ f <= fresh => Calm(f, s, nx) BY <1>5, StemsCalm
<1>8. Old(nx)
  <2>1. \A f, s : Opened(f, s) => Calm(f, s, Entries(index)) /\ f <= fresh BY <1>2 DEF OldInv, Old
  <2> QED BY <1>7, <2>1 DEF Old
<1>9. Parted(Entries(index), nx)
  <2>1. \A f, s : Offers(f, s, Entries(index)) => Calm(f, s, Entries(index)) /\ f <= fresh
    BY <1>2, <1>6 DEF Parted
  <2> QED BY <1>7, <2>1 DEF Parted
<1>10. \A f, s : Opened(f, s)' => Opened(f, s) \/ Offers(f, s, {}) BY <1>1, OpenedSame
<1>11. \A f, s : ~ Offers(f, s, {}) BY DEF Offers
<1>12. AskOld(w)'
  <2>1. Old(nx)' BY <1>1, <1>8, <1>10, <1>11 DEF Old
  <2> QED BY <1>1, <1>3, <1>5, <1>9, <2>1 DEF AskOld
<1>13. Old(Entries(index')) /\ ~ Undoes(w)' BY <1>1 DEF OldInv, Undoes
<1> QED BY <1>1, <1>2, <1>3, <1>10, <1>11, <1>12, <1>13, OldStep

LEMMA SameOld ==
    ASSUME IInv, OldInv, NEW w \in Windows, work[w].pc = "idle", NEW nx, NEW p \in {"save", "publish"},
           Begun(w, Asking(nx), p), index' = index, \A v \in Windows : v # w /\ Manages(v) => Manages(v)',
           p = "save" => Entries(nx) = Entries(snap[w]), p = "publish" => nx = index
    PROVE  OldInv'
<1>1. /\ work'[w].pc = p /\ work'[w].next = nx /\ snap' = snap /\ editor' = editor /\ fresh' = fresh + 3
      /\ \A v \in Windows : v # w => work'[v] = work[v]
  <2>1. Asking(nx).next = nx BY AskingFacts
  <2> QED BY <2>1 DEF Begun, IInv, TypeInv
<1>2. fresh \in Nat /\ fresh' \in Nat /\ fresh <= fresh' BY <1>1 DEF IInv, TypeInv
<1>3. \A f, s : Opened(f, s)' => Opened(f, s) \/ Offers(f, s, {}) BY <1>1, OpenedSame
<1>4. \A f, s : ~ Offers(f, s, {}) BY DEF Offers
<1>5. AskOld(w)' BY <1>1 DEF AskOld, From
<1>6. Old(Entries(index')) /\ ~ Undoes(w)' BY <1>1 DEF OldInv, Undoes
<1> QED BY <1>1, <1>2, <1>3, <1>4, <1>5, <1>6, OldStep

LEMMA SameOnce ==
    ASSUME IInv, OnceInv, NEW w \in Windows, work[w].pc = "idle", NEW nx, NEW p \in {"save", "publish"},
           Begun(w, Asking(nx), p), index' = index, \A v \in Windows : v # w /\ Manages(v) => Manages(v)',
           p = "save" => Entries(nx) = Entries(snap[w]) /\ nx.gone = snap[w].gone,
           p = "publish" => nx = index
    PROVE  OnceInv'
<1> DEFINE ask == Asking(nx)
<1>1. /\ ask.next = nx /\ ask.folders = Empty /\ ask.makes = {} /\ ask.drops = {} /\ ask.old = {}
      /\ ask.undo = FALSE
  BY DEF Asking
<1> HIDE DEF ask
<1>2. Brought(Empty, {}, {}) BY <1>1 DEF Begun, Brought, ask
<1>3. /\ work'[w].pc = p /\ work'[w].call = Call /\ work'[w].next = nx /\ work'[w].old = {} /\ work'[w].undo = {}
      /\ snap' = snap /\ editor' = editor /\ Only(w)
  BY <1>1 DEF IInv, TypeInv, Begun, Only, ask
<1>4. TypeInv /\ Stock /\ Sure(index) /\ fresh \in Nat BY DEF IInv, OnceInv, TypeInv
<1>5. DOMAIN Empty \subseteq (fresh + 1) .. (fresh + 3) /\ {} \subseteq {Call}
  <2>1. DOMAIN Empty = {} BY NoFolder
  <2> QED BY <2>1
<1>6. Stock'
  <2>1. WellFolders(Empty, fresh + 3, DOMAIN latest) BY NoFolder
  <2>2. WellFolders(Empty @@ folders, fresh + 3, DOMAIN latest) BY <1>4, <2>1, MergedFolders DEF Stock
  <2>3. DOMAIN latest \cup {} = DOMAIN latest OBVIOUS
  <2> QED BY <1>2, <1>4, <1>5, <2>2, <2>3, BroughtStock
<1>7. /\ \A E, log : Lies(E, log) => Lies(E, log)'
      /\ \A c \in DOMAIN effect : c \in DOMAIN effect' /\ effect'[c] = effect[c]
      /\ Call \in DOMAIN effect' /\ effect'[Call].makes = {} /\ effect'[Call].drops = {}
  BY <1>2, <1>4, <1>5, BroughtLies
<1>8. Sure(index)' /\ \A v \in Windows : v # w => WorkInv(v)' BY <1>3, <1>7, RestInv
<1>9. NextSame(w)' BY <1>3, <1>7 DEF NextSame, From
<1>10. p = "publish" => Apart(nx) BY <1>4 DEF Sure
<1>11. WorkInv(w)' BY <1>3, <1>9, <1>10 DEF WorkInv, Undoes, Asks
<1> QED BY <1>6, <1>8, <1>11 DEF OnceInv

LEMMA MetadataOnce ==
    ASSUME IInv, OnceInv, OldInv, NEW w \in Windows, Describe(w) \/ CreateSession(w)
    PROVE  OnceInv' /\ OldInv'
<1>1. Ready(w) BY DEF Describe, CreateSession
<1>2. DOMAIN snap[w] = Fields /\ fresh + 1 \notin DOMAIN snap[w].sessions
  BY <1>1 DEF Ready, IInv, TypeInv, IsIndex
<1>3. \E nx : Metadata(w, Asking(nx)) /\ Entries(nx) = Entries(snap[w]) /\ nx.gone = snap[w].gone
  <2>1. CASE Describe(w) BY <2>1 DEF Describe
  <2>2. CASE CreateSession(w)
    <3>1. PICK nx : AddSession(snap[w], fresh) = Asking(nx) /\ Entries(nx) = Entries(snap[w]) /\ nx.gone = snap[w].gone
      BY <1>2, AddSessionEntries
    <3>2. Metadata(w, AddSession(snap[w], fresh)) BY <2>2 DEF CreateSession
    <3> QED BY <3>1, <3>2
  <2> QED BY <2>1, <2>2
<1>4. PICK nx : Metadata(w, Asking(nx)) /\ Entries(nx) = Entries(snap[w]) /\ nx.gone = snap[w].gone BY <1>3
<1>5. Begun(w, Asking(nx), "save") /\ index' = index /\ lease' = lease BY <1>4 DEF Metadata, ends
<1>6. editor' = editor BY <1>5 DEF Begun
<1>7. \A v \in Windows : v # w /\ Manages(v) => Manages(v)' BY <1>5, <1>6 DEF Manages
<1> QED BY <1>1, <1>4, <1>5, <1>7, SameOnce, SameOld DEF Ready

LEMMA RenameOnce ==
    ASSUME IInv, OnceInv, OldInv, NEW w \in Windows, Rename(w)
    PROVE  OnceInv' /\ OldInv'
<1>1. /\ work[w].pc = "idle" /\ index' = index /\ Begun(w, Asking(index), "publish")
      /\ editor[w] = None => lease = None
  BY DEF Rename, Ready, LeaseTaken
<1>2. \A v \in Windows : v # w => ~ Manages(v)
  BY <1>1, NoneAssumption DEF IInv, LeaseInv, Manages
<1>3. PICK nx : nx = index OBVIOUS
<1>4. Begun(w, Asking(nx), "publish") BY <1>1, <1>3
<1>5. \A v \in Windows : v # w /\ Manages(v) => Manages(v)' BY <1>2
<1> QED BY <1>1, <1>3, <1>4, <1>5, SameOnce, SameOld

-----------------------------------------------------------------------------
(* Each operation of the management of materials.                            *)

\* An operation is given the index, and serves it.
Wanted(ask, ix, folds, lat, n, K, c) == Derived(ask.next, ix, n) /\ Serves(ask, ix, folds, lat, n, K, c)

LEMMA Managed ==
    ASSUME IInv, OnceInv, OldInv, NEW w \in Windows, Ready(w), Current(w)
    PROVE  \E K : /\ Sits(snap[w], folders, latest, fresh, K) /\ Call \notin DOMAIN latest
                  /\ \A ask : Manage(w, ask) /\ Wanted(ask, snap[w], folders, latest, fresh, K, Call) => OnceInv' /\ OldInv'
<1> DEFINE K == KnownIn(written, effect, index.log)
<1>1. snap[w] = index
  BY DEF IInv, TypeInv, SnapInv, Agrees, Ready, Current
<1>2. K \subseteq DOMAIN latest BY KnownFacts DEF OnceInv, Sure, Lies, Stock
<1>3. Sits(index, folders, latest, fresh, K)
  <2>1. Good(Entries(index), folders, latest, fresh, K) BY DEF OnceInv, Sure, Lies
  <2> HIDE DEF K
  <2> QED BY <1>2, <2>1 DEF IInv, TypeInv, IsIndex, OnceInv, Stock, Sure, Sits
<1>4. Call \notin DOMAIN latest BY DEF IInv, TypeInv, OnceInv, Stock, Call
<1>5. ASSUME NEW ask, Manage(w, ask), Wanted(ask, index, folders, latest, fresh, K, Call) PROVE OnceInv' /\ OldInv'
  <2>1. ask.next.log = index.log BY <1>5 DEF Wanted, Derived, Follows
  <2>2. Serves(ask, index, folders, latest, fresh, K, Call) BY <1>5 DEF Wanted
  <2>3. Stems(Entries(index), Entries(ask.next), fresh) BY <2>2 DEF Serves
  <2> QED BY <1>5, <2>1, <2>2, <2>3, ManageOnce, ManageOld
<1> HIDE DEF K
<1> QED BY <1>1, <1>3, <1>4, <1>5

LEMMA ImportWanted ==
    ASSUME NEW ix, NEW folds, NEW lat, NEW n, NEW K, Sits(ix, folds, lat, n, K), NEW c, c \notin DOMAIN lat,
           NEW s \in DOMAIN ix.sessions
    PROVE  /\ \A storage : \A models \in {Empty, 1 :> Fresh(c)} :
                 Wanted(ImportAudio(ix, s, n, storage, models), ix, folds, lat, n, K, c)
           /\ Wanted(ImportText(ix, s, n, Fresh(c)), ix, folds, lat, n, K, c)
           /\ \A r \in DOMAIN ix.sessions[s] :
                 /\ Wanted(AppendText(ix, folds, s, r, n, Fresh(c)), ix, folds, lat, n, K, c)
                 /\ ~ Exists(folds, ix.sessions[s][r]) =>
                       Wanted(ImportExisting(ix, s, r, n, Fresh(c)), ix, folds, lat, n, K, c)
                 /\ Wanted(Relink(ix, s, r), ix, folds, lat, n, K, c)
<1>1. DOMAIN ix = Fields BY DEF Sits
<1>2. ASSUME NEW storage, NEW models \in {Empty, 1 :> Fresh(c)}
      PROVE  Wanted(ImportAudio(ix, s, n, storage, models), ix, folds, lat, n, K, c)
  BY <1>1, <1>2, ImportDerived, ImportAudioServes DEF Wanted
<1>3. Wanted(ImportText(ix, s, n, Fresh(c)), ix, folds, lat, n, K, c)
  BY <1>1, ImportDerived, ImportTextServes DEF Wanted
<1>4. ASSUME NEW r \in DOMAIN ix.sessions[s]
      PROVE  /\ Wanted(AppendText(ix, folds, s, r, n, Fresh(c)), ix, folds, lat, n, K, c)
             /\ ~ Exists(folds, ix.sessions[s][r]) =>
                   Wanted(ImportExisting(ix, s, r, n, Fresh(c)), ix, folds, lat, n, K, c)
             /\ Wanted(Relink(ix, s, r), ix, folds, lat, n, K, c)
  BY <1>1, <1>4, ImportDerived, AppendTextServes, ImportExistingServes, RelinkServes DEF Wanted
<1> QED BY <1>2, <1>3, <1>4

LEMMA ImportOnce ==
    ASSUME IInv, OnceInv, OldInv, NEW w \in Windows, Import(w) \/ RelinkMedia(w)
    PROVE  OnceInv' /\ OldInv'
<1>1. Ready(w) BY DEF Import, RelinkMedia
<1>2. \A ask : Manage(w, ask) => Current(w) BY DEF Manage
<1>3. Current(w) BY <1>2 DEF Import, RelinkMedia
<1>4. PICK K : /\ Sits(snap[w], folders, latest, fresh, K) /\ Call \notin DOMAIN latest
               /\ \A ask : Manage(w, ask) /\ Wanted(ask, snap[w], folders, latest, fresh, K, Call) => OnceInv' /\ OldInv'
  BY <1>1, <1>3, Managed
<1>5. New = Fresh(Call) BY DEF New, Fresh
<1> DEFINE W(ask) == Wanted(ask, snap[w], folders, latest, fresh, K, Call)
<1>6. ASSUME NEW s \in Sessions(w)
      PROVE  /\ \A storage : \A models \in {Empty, 1 :> New} : W(ImportAudio(snap[w], s, fresh, storage, models))
             /\ W(ImportText(snap[w], s, fresh, New))
             /\ \A r \in Recs(w, s) :
                   /\ W(AppendText(snap[w], folders, s, r, fresh, New))
                   /\ ~ Exists(folders, Rec(w, s, r)) => W(ImportExisting(snap[w], s, r, fresh, New))
                   /\ W(Relink(snap[w], s, r))
  BY <1>4, <1>5, <1>6, ImportWanted DEF Sessions, Recs, Rec
<1>7. \A ask : Manage(w, ask) /\ W(ask) => OnceInv' /\ OldInv' BY <1>4
<1> HIDE DEF W
<1>8. CASE Import(w) BY <1>6, <1>7, <1>8 DEF Import
<1>9. CASE RelinkMedia(w) BY <1>6, <1>7, <1>9 DEF RelinkMedia
<1> QED BY <1>8, <1>9

LEMMA MoveOnce ==
    ASSUME IInv, OnceInv, OldInv, NEW w \in Windows, MoveRecording(w) \/ ReassignManuscript(w)
    PROVE  OnceInv' /\ OldInv'
<1>1. Ready(w) BY DEF MoveRecording, ReassignManuscript
<1>2. \A ask : Manage(w, ask) => Current(w) BY DEF Manage
<1>3. Current(w)
  <2>1. CASE MoveRecording(w) BY <1>2, <2>1 DEF MoveRecording
  <2>2. CASE ReassignManuscript(w) BY <1>2, <2>2 DEF ReassignManuscript
  <2> QED BY <2>1, <2>2
<1>4. PICK K : /\ Sits(snap[w], folders, latest, fresh, K) /\ Call \notin DOMAIN latest
               /\ \A ask : Manage(w, ask) /\ Wanted(ask, snap[w], folders, latest, fresh, K, Call) => OnceInv' /\ OldInv'
  BY <1>1, <1>3, Managed
<1>5. DOMAIN snap[w] = Fields BY <1>4 DEF Sits
<1>6. CASE MoveRecording(w)
  <2>1. PICK s \in Sessions(w), d \in Sessions(w) : \E r \in Recs(w, s) :
           s # d /\ Manage(w, Move(snap[w], folders, s, d, r, fresh))
    BY <1>6 DEF MoveRecording
  <2>2. PICK r \in Recs(w, s) : s # d /\ Manage(w, Move(snap[w], folders, s, d, r, fresh)) BY <2>1
  <2>3. Serves(Move(snap[w], folders, s, d, r, fresh), snap[w], folders, latest, fresh, K, Call)
    BY <1>4, <2>1, <2>2, MoveServes DEF Sessions, Recs
  <2>4. Derived(Move(snap[w], folders, s, d, r, fresh).next, snap[w], fresh) BY <1>5, MoveDerived
  <2> QED BY <1>4, <2>2, <2>3, <2>4 DEF Wanted
<1>7. CASE ReassignManuscript(w)
  <2>1. PICK s \in Sessions(w) : \E r \in Recs(w, s) : \E d \in Recs(w, s) \cup {0} :
           LET held == HeldBy(w, s, r)
               empty == d = 0 \/ HeldBy(w, s, d) = Empty
           IN /\ held # Empty /\ r # d /\ (d # 0 => IsAudio(Rec(w, s, d)))
              /\ \E ids \in {{i} : i \in DOMAIN held} \cup {x \in {DOMAIN held} : empty} :
                    Manage(w, Reassign(snap[w], folders, s, r, d, ids, fresh))
    BY <1>7 DEF ReassignManuscript
  <2>2. PICK r \in Recs(w, s), d \in Recs(w, s) \cup {0} :
           LET held == HeldBy(w, s, r)
               empty == d = 0 \/ HeldBy(w, s, d) = Empty
           IN /\ r # d
              /\ \E ids \in {{i} : i \in DOMAIN held} \cup {x \in {DOMAIN held} : empty} :
                    Manage(w, Reassign(snap[w], folders, s, r, d, ids, fresh))
    BY <2>1
  <2>3. PICK ids \in {{i} : i \in DOMAIN HeldBy(w, s, r)}
                       \cup {x \in {DOMAIN HeldBy(w, s, r)} : d = 0 \/ HeldBy(w, s, d) = Empty} :
           Manage(w, Reassign(snap[w], folders, s, r, d, ids, fresh))
    BY <2>2
  <2>4. /\ ids \subseteq DOMAIN HeldBy(w, s, r)
        /\ d = 0 \/ HeldBy(w, s, d) = Empty \/ \E i \in DOMAIN HeldBy(w, s, r) : ids = {i}
    BY <2>3
  <2>5. Serves(Reassign(snap[w], folders, s, r, d, ids, fresh), snap[w], folders, latest, fresh, K, Call)
    BY <1>4, <2>1, <2>2, <2>4, ReassignServes DEF Sessions, Recs, HeldBy, Rec
  <2>6. Derived(Reassign(snap[w], folders, s, r, d, ids, fresh).next, snap[w], fresh) BY <1>5, ReassignDerived
  <2> QED BY <1>4, <2>3, <2>5, <2>6 DEF Wanted
<1> QED BY <1>6, <1>7

LEMMA TrashWanted ==
    ASSUME NEW ix, NEW folds, NEW lat, NEW n, NEW K, Sits(ix, folds, lat, n, K), NEW c, c \notin DOMAIN lat
    PROVE  /\ \A s \in DOMAIN ix.sessions :
                 /\ Wanted(TrashSession(ix, s), ix, folds, lat, n, K, c)
                 /\ \A r \in DOMAIN ix.sessions[s] :
                       /\ Wanted(TrashAll(ix, s, r), ix, folds, lat, n, K, c)
                       /\ Wanted(TrashAudio(ix, folds, s, r, n), ix, folds, lat, n, K, c)
                       /\ \A i \in DOMAIN Held(folds, ix.sessions[s][r]) :
                             Wanted(TrashModel(ix, folds, s, r, i, n), ix, folds, lat, n, K, c)
           /\ \A item \in ix.trash : Restorable(ix, item) =>
                 Wanted(RestoreMaterial(ix, folds, item, n), ix, folds, lat, n, K, c)
           /\ \A s \in DOMAIN ix.gone : Wanted(RestoreSession(ix, s), ix, folds, lat, n, K, c)
           /\ Wanted(ClearTrash(ix, folds), ix, folds, lat, n, K, c)
<1>1. DOMAIN ix = Fields BY DEF Sits
<1>2. ASSUME NEW s \in DOMAIN ix.sessions
      PROVE  /\ Wanted(TrashSession(ix, s), ix, folds, lat, n, K, c)
             /\ \A r \in DOMAIN ix.sessions[s] :
                   /\ Wanted(TrashAll(ix, s, r), ix, folds, lat, n, K, c)
                   /\ Wanted(TrashAudio(ix, folds, s, r, n), ix, folds, lat, n, K, c)
                   /\ \A i \in DOMAIN Held(folds, ix.sessions[s][r]) :
                         Wanted(TrashModel(ix, folds, s, r, i, n), ix, folds, lat, n, K, c)
  BY <1>1, <1>2, TrashDerived, SessionDerived, TrashSessionServes, TrashAllServes, TrashAudioServes, TrashModelServes
     DEF Wanted
<1>3. ASSUME NEW item \in ix.trash, Restorable(ix, item)
      PROVE  Wanted(RestoreMaterial(ix, folds, item, n), ix, folds, lat, n, K, c)
  BY <1>1, <1>3, RestoreDerived, RestoreServes DEF Wanted
<1>4. ASSUME NEW s \in DOMAIN ix.gone PROVE Wanted(RestoreSession(ix, s), ix, folds, lat, n, K, c)
  BY <1>1, <1>4, SessionDerived, RestoreSessionServes DEF Wanted
<1>5. Wanted(ClearTrash(ix, folds), ix, folds, lat, n, K, c) BY <1>1, SessionDerived, ClearServes DEF Wanted
<1> QED BY <1>2, <1>3, <1>4, <1>5

LEMMA TrashOnce ==
    ASSUME IInv, OnceInv, OldInv, NEW w \in Windows, Trash(w) \/ TrashInterview(w) \/ Restore(w) \/ Clear(w)
    PROVE  OnceInv' /\ OldInv'
<1>1. Ready(w) BY DEF Trash, TrashInterview, Restore, Clear
<1>2. \A ask : Manage(w, ask) => Current(w) BY DEF Manage
<1>3. Current(w) BY <1>2 DEF Trash, TrashInterview, Restore, Clear
<1>4. PICK K : /\ Sits(snap[w], folders, latest, fresh, K) /\ Call \notin DOMAIN latest
               /\ \A ask : Manage(w, ask) /\ Wanted(ask, snap[w], folders, latest, fresh, K, Call) => OnceInv' /\ OldInv'
  BY <1>1, <1>3, Managed
<1> DEFINE W(ask) == Wanted(ask, snap[w], folders, latest, fresh, K, Call)
<1>5. /\ \A s \in Sessions(w) :
            /\ W(TrashSession(snap[w], s))
            /\ \A r \in Recs(w, s) :
                  /\ W(TrashAll(snap[w], s, r)) /\ W(TrashAudio(snap[w], folders, s, r, fresh))
                  /\ \A i \in DOMAIN HeldBy(w, s, r) : W(TrashModel(snap[w], folders, s, r, i, fresh))
      /\ \A item \in snap[w].trash : Restorable(snap[w], item) => W(RestoreMaterial(snap[w], folders, item, fresh))
      /\ \A s \in DOMAIN snap[w].gone : W(RestoreSession(snap[w], s))
      /\ W(ClearTrash(snap[w], folders))
  BY <1>4, TrashWanted DEF Sessions, Recs, Rec, HeldBy
<1>6. \A ask : Manage(w, ask) /\ W(ask) => OnceInv' /\ OldInv' BY <1>4
<1> HIDE DEF W
<1>7. CASE Trash(w) BY <1>5, <1>6, <1>7 DEF Trash
<1>8. CASE TrashInterview(w) BY <1>5, <1>6, <1>8 DEF TrashInterview
<1>9. CASE Restore(w) BY <1>5, <1>6, <1>9 DEF Restore
<1>10. CASE Clear(w) BY <1>5, <1>6, <1>10 DEF Clear
<1> QED BY <1>7, <1>8, <1>9, <1>10

-----------------------------------------------------------------------------
(* The steps of a save, which leave the folders.                             *)
Settled == UNCHANGED <<folders, latest, effect, written, fresh, calls>>

LEMMA SettledKeeps ==
    ASSUME Settled
    PROVE  /\ Stock => Stock'
           /\ \A E, log : Lies(E, log) => Lies(E, log)'
           /\ \A ix : Sure(ix) => Sure(ix)'
           /\ \A c \in DOMAIN effect : c \in DOMAIN effect' /\ effect'[c] = effect[c]
<1>1. Stock => Stock' BY DEF Settled, Stock
<1>2. \A E, log : Lies(E, log) => Lies(E, log)' BY DEF Settled, Lies
<1>3. \A ix : Sure(ix) => Sure(ix)' BY <1>2 DEF Sure
<1> QED BY <1>1, <1>2, <1>3 DEF Settled

LEMMA SettledOnce ==
    ASSUME OnceInv, Settled, NEW w \in Windows, Only(w) \/ (\A v \in Windows : v # w => work'[v] = work[v] /\ snap'[v] = snap[v]),
           \A v \in Windows : v # w /\ Manages(v) => Manages(v)' /\ Entries(index') = Entries(index),
           index' = index \/ \A v \in Windows : v # w => work[v].pc \notin {"publish", "putback"},
           Sure(index'), WorkInv(w)'
    PROVE  OnceInv'
<1>1. Stock' /\ Sure(index)' BY SettledKeeps DEF OnceInv
<1>2. ASSUME NEW v \in Windows, v # w PROVE WorkInv(v)'
  <2>1. work'[v] = work[v] /\ snap'[v] = snap[v] BY <1>2 DEF Only
  <2>2. WorkInv(v) /\ (Manages(v) => Manages(v)' /\ Entries(index') = Entries(index)) BY <1>2 DEF OnceInv
  <2>3. work[v].pc \in {"publish", "putback"} => index' = index BY <1>2
  <2> QED BY <2>1, <2>2, <2>3, SettledKeeps, Others
<1> QED BY <1>1, <1>2 DEF OnceInv

LEMMA ReleasedOthers ==
    ASSUME NEW w \in Windows, Released(w), editor' = editor
    PROVE  \A v \in Windows : v # w /\ Manages(v) => Manages(v)'
BY DEF Released, Manages

LEMMA FailsOwn ==
    ASSUME TypeInv, NEW w \in Windows, Busy(w), Fails(w), UNCHANGED <<editor, calls, fresh>>,
           work[w].undo = {} \/ (Manages(w) /\ work[w].undo \cap Listed(Entries(index')) = {})
    PROVE  WorkInv(w)' /\ Leaves(w) /\ snap' = snap
<1>1. Leaves(w) /\ snap' = snap BY FailsLeaves
<1>2. CASE Goto(w, "undo") /\ UNCHANGED lease
  <2>1. work'[w].pc = "undo" /\ work'[w].undo = work[w].undo BY <1>2 DEF TypeInv, Busy, WorkFields, Goto
  <2>2. Manages(w) => Manages(w)' BY <1>2 DEF Manages
  <2> QED BY <1>1, <2>1, <2>2 DEF WorkInv, Asks, Undoes, Busy
<1>3. CASE work' = [work EXCEPT ![w] = Idle] /\ FreeLease(w)
  <2>1. work'[w].pc = "idle" BY <1>3 DEF TypeInv, Idle
  <2> QED BY <1>1, <2>1 DEF WorkInv, Asks, Undoes, Busy
<1> QED BY <1>2, <1>3 DEF Fails

LEMMA SoundApart ==
    ASSUME NEW ix, Sound(ix) PROVE Apart(ix)
<1>1. DOMAIN ix.sessions \cap DOMAIN ix.gone = {} BY DEF Sound
<1>2. ASSUME NEW s \in DOMAIN ix.sessions, NEW t \in DOMAIN ix.sessions, s # t
      PROVE  DOMAIN ix.sessions[s] \cap DOMAIN ix.sessions[t] = {}
  BY <1>2 DEF Sound
<1> QED BY <1>1, <1>2 DEF Apart

LEMMA CheckOnce ==
    ASSUME IInv, OnceInv, NEW w \in Windows, Check(w)
    PROVE  OnceInv'
<1>1. /\ work[w].pc = "save" /\ Busy(w) /\ TypeInv
      /\ UNCHANGED <<index, editor>> /\ Settled
  BY DEF Check, Busy, disk, texts, Settled, IInv
<1>2. Sure(index') /\ WorkInv(w) BY <1>1 DEF OnceInv
<1>3. CASE Fails(w)
  <2>1. work[w].undo = {} \/ (Manages(w) /\ work[w].undo \cap Listed(Entries(index')) = {})
    BY <1>1, <1>2 DEF WorkInv, Undoes
  <2>2. WorkInv(w)' /\ Leaves(w) BY <1>1, <1>3, <2>1, FailsOwn DEF Settled
  <2>3. \A v \in Windows : v # w /\ Manages(v) => Manages(v)' BY <1>1, <2>2, ReleasedOthers DEF Leaves
  <2> QED BY <1>1, <1>2, <2>2, <2>3, SettledOnce DEF Leaves
<1>4. CASE UpToDate(w) /\ Sound(work[w].next) /\ Goto(w, "publish") /\ UNCHANGED <<snap, lease, reports>>
  <2>1. /\ work'[w].pc = "publish" /\ work'[w].next = work[w].next /\ work'[w].call = work[w].call
        /\ work'[w].old = work[w].old /\ work'[w].undo = work[w].undo /\ Only(w)
    BY <1>1, <1>4 DEF IInv, TypeInv, Busy, WorkFields, Goto, Only
  <2>2. snap[w] = index
    BY <1>1, <1>4 DEF IInv, TypeInv, SnapInv, Agrees, UpToDate, Current
  <2>3. \A v \in Windows : Manages(v) => Manages(v)' BY <1>1, <1>4 DEF Manages
  <2>4. NextGood(w)' \/ NextSame(w)'
    <3>1. NextGood(w) \/ NextSame(w) BY <1>1, <1>2 DEF WorkInv, Asks
    <3>2. CASE NextGood(w) BY <1>1, <2>1, <2>3, <3>2, SettledKeeps DEF NextGood
    <3>3. CASE NextSame(w) BY <1>1, <2>1, <2>2, <3>3 DEF NextSame, From, Settled
    <3> QED BY <3>1, <3>2, <3>3
  <2>5. Apart(work[w].next) BY <1>4, SoundApart
  <2>6. WorkInv(w)' BY <1>1, <1>2, <2>1, <2>3, <2>4, <2>5 DEF WorkInv, Asks, Undoes, Busy
  <2> QED BY <1>1, <1>2, <2>1, <2>3, <2>6, SettledOnce
<1> QED BY <1>3, <1>4 DEF Check

LEMMA CheckOld ==
    ASSUME IInv, OldInv, NEW w \in Windows, Check(w)
    PROVE  OldInv'
<1>1. /\ work[w].pc = "save" /\ Busy(w) /\ TypeInv /\ UNCHANGED <<index, editor, fresh, calls>>
      /\ Old(Entries(index')) /\ AskOld(w)
  BY DEF Check, Busy, disk, texts, IInv, OldInv, Asks
<1>2. CASE Fails(w)
  <2>1. Leaves(w) /\ snap' = snap BY <1>1, <1>2, FailsLeaves
  <2>2. \A v \in Windows : v # w /\ Manages(v) => Manages(v)' BY <1>1, <2>1, ReleasedOthers DEF Leaves
  <2>3. ~ Undoes(w)' /\ ~ Asks(w)' BY <2>1 DEF Leaves, Undoes, Asks
  <2>4. \A v \in Windows : v # w => work'[v] = work[v] BY <2>1 DEF Leaves, Only
  <2> QED BY <1>1, <2>1, <2>2, <2>3, <2>4, OldOnly
<1>3. CASE UpToDate(w) /\ Goto(w, "publish") /\ UNCHANGED <<snap, lease>>
  <2>1. /\ work'[w].pc = "publish" /\ work'[w].next = work[w].next
        /\ \A v \in Windows : v # w => work'[v] = work[v]
    BY <1>1, <1>3 DEF TypeInv, Busy, WorkFields, Goto
  <2>2. snap[w] = index BY <1>1, <1>3 DEF IInv, TypeInv, SnapInv, Agrees, UpToDate, Current
  <2>3. \A v \in Windows : Manages(v) => Manages(v)' BY <1>1, <1>3 DEF Manages
  <2>4. ~ Undoes(w)' BY <2>1 DEF Undoes
  <2>5. AskOld(w)'
    <3>1. \A E : Old(E) => Old(E)' BY <1>1, <1>3, OpenedSame DEF Old
    <3>2. PICK nx : nx = Entries(work[w].next) OBVIOUS
    <3>3. CASE Manages(w) /\ Old(nx) /\ Parted(Entries(index), nx)
      <4>1. Old(nx)' BY <3>1, <3>3
      <4> QED BY <1>1, <2>1, <2>3, <3>2, <3>3, <4>1 DEF AskOld
    <3>4. CASE nx = Entries(From(w)) BY <1>1, <2>1, <2>2, <3>2, <3>4 DEF AskOld, From
    <3> QED BY <1>1, <3>2, <3>3, <3>4 DEF AskOld
  <2> QED BY <1>1, <1>3, <2>1, <2>3, <2>4, <2>5, OldOnly
<1> QED BY <1>2, <1>3 DEF Check

\* What is published lists the texts; without the lease it lists what is listed.
LEMMA UpdatedSure ==
    ASSUME IInv, OnceInv, NEW w \in Windows, work[w].pc = "publish"
    PROVE  /\ Sure(Updated(w))
           /\ Manages(w) \/ Entries(Updated(w)) = Entries(index)
           /\ work[w].old = {} \/ (Manages(w) /\ work[w].old \cap Listed(Entries(Updated(w))) = {})
           /\ \A v \in Windows : v # w => work[v].pc \notin {"publish", "putback"}
           /\ \A v \in Windows : v # w /\ Manages(v) => ~ Manages(w)
<1> DEFINE nx == work[w].next
           c == work[w].call
           ix == Updated(w)
<1>1. /\ DOMAIN nx = Fields /\ nx.log = index.log
  BY DEF IInv, TypeInv, SaveInv, Follows, Asks, IsIndex
<1>2. /\ ix.log = index.log \cup {c} /\ ix.sessions = nx.sessions /\ ix.trash = nx.trash /\ ix.gone = nx.gone
  BY <1>1 DEF Updated, Fields
<1>3. /\ Apart(nx) /\ (NextGood(w) \/ NextSame(w)) BY DEF OnceInv, WorkInv, Asks
<1>4. Sure(index) /\ From(w) = index BY DEF OnceInv, From
<1>5. \A v \in Windows : v # w => work[v].pc \notin {"publish", "putback"} BY DEF IInv, LockInv
<1>6. \A v \in Windows : v # w /\ Manages(v) => ~ Manages(w) BY DEF Manages
<1> HIDE DEF ix
<1>7. Entries(ix) = Entries(nx) BY <1>2, Zenon DEF Entries
<1>8. Apart(ix) BY <1>2, <1>3 DEF Apart
<1>9. CASE NextGood(w)
  <2>1. AtHome(ix) BY <1>2, <1>9 DEF NextGood, AtHome
  <2>2. Lies(Entries(ix), ix.log) BY <1>1, <1>2, <1>7, <1>9 DEF NextGood
  <2> QED BY <1>5, <1>6, <1>7, <1>8, <1>9, <2>1, <2>2 DEF Sure, NextGood, ix
<1>10. CASE NextSame(w)
  <2>1. AtHome(ix) BY <1>2, <1>4, <1>10 DEF NextSame, AtHome, Sure
  <2>2. Entries(ix) = Entries(index) BY <1>4, <1>7, <1>10 DEF NextSame
  <2>3. Lies(Entries(index), index.log) BY <1>4 DEF Sure
  <2>4. KnownIn(written, effect, index.log \cup {c}) \subseteq KnownIn(written, effect, index.log)
    <3>1. index.log \subseteq DOMAIN effect BY <2>3 DEF Lies
    <3>2. effect[c].makes = {} BY <1>10 DEF NextSame
    <3>3. \A n : KnownIn(written, effect, index.log \cup {n})
                    \subseteq (KnownIn(written, effect, index.log) \ effect[n].drops) \cup effect[n].makes
      BY <3>1, KnownFacts
    <3> HIDE DEF c
    <3>4. KnownIn(written, effect, index.log \cup {c})
             \subseteq (KnownIn(written, effect, index.log) \ effect[c].drops) \cup effect[c].makes
      BY Zenon, <3>3
    <3> QED BY <3>2, <3>4
  <2>5. Good(Entries(index), folders, latest, fresh, KnownIn(written, effect, index.log \cup {c}))
    BY <2>3, <2>4, GoodLess DEF Lies
  <2>6. Lies(Entries(ix), ix.log) BY <1>2, <1>10, <2>2, <2>3, <2>5 DEF Lies, NextSame
  <2> QED BY <1>5, <1>6, <1>8, <1>10, <2>1, <2>2, <2>6 DEF Sure, NextSame, ix
<1> QED BY <1>3, <1>9, <1>10

LEMMA PublishOnce ==
    ASSUME IInv, OnceInv, NEW w \in Windows, Publish(w)
    PROVE  OnceInv'
<1>1. work[w].pc = "publish" /\ Busy(w) /\ editor' = editor /\ Settled /\ TypeInv
  BY DEF Publish, texts, Settled, Busy, IInv
<1>2. PICK ux : ux = Updated(w) OBVIOUS
<1>3. /\ Sure(ux) /\ (Manages(w) \/ Entries(ux) = Entries(index))
      /\ work[w].old = {} \/ (Manages(w) /\ work[w].old \cap Listed(Entries(ux)) = {})
      /\ \A v \in Windows : v # w => work[v].pc \notin {"publish", "putback"}
      /\ \A v \in Windows : v # w /\ Manages(v) => ~ Manages(w)
  BY <1>1, <1>2, UpdatedSure
<1>4. Sure(index) /\ WorkInv(w) BY DEF OnceInv
<1>5. index' \in {index, ux} BY <1>2 DEF Publish
<1>6. Sure(index') BY <1>3, <1>4, <1>5
<1>7. \A v \in Windows : v # w /\ Manages(v) => Entries(index') = Entries(index) BY <1>3, <1>5
<1>8. CASE /\ index' = Updated(w) /\ snap' = [snap EXCEPT ![w] = Updated(w)]
           /\ IF work[w].old \cup work[w].oldMedia # {}
              THEN Goto(w, "clean") /\ UNCHANGED lease
              ELSE work' = [work EXCEPT ![w] = Idle] /\ FreeLease(w)
  <2>1. \A v \in Windows : v # w => work'[v] = work[v] /\ snap'[v] = snap[v]
    BY <1>1, <1>8 DEF TypeInv, Goto
  <2>2. Released(w) BY <1>8 DEF FreeLease, Released
  <2>3. \A v \in Windows : v # w /\ Manages(v) => Manages(v)' BY <1>1, <2>2, ReleasedOthers
  <2>4. WorkInv(w)'
    <3>1. CASE Goto(w, "clean") /\ UNCHANGED lease
      <4>1. work'[w].pc = "clean" /\ work'[w].old = work[w].old
        BY <1>1, <3>1 DEF TypeInv, Busy, WorkFields, Goto
      <4>2. Manages(w) => Manages(w)' BY <1>1, <3>1 DEF Manages
      <4>3. index' = ux BY <1>2, <1>8
      <4> QED BY <1>3, <4>1, <4>2, <4>3 DEF WorkInv, Asks, Undoes, Busy
    <3>2. CASE work' = [work EXCEPT ![w] = Idle]
      <4>1. work'[w].pc = "idle" BY <1>1, <3>2 DEF TypeInv, Idle
      <4> QED BY <4>1 DEF WorkInv, Asks, Undoes, Busy
    <3> QED BY <1>8, <3>1, <3>2
  <2> QED BY <1>1, <1>3, <1>6, <1>7, <2>1, <2>3, <2>4, SettledOnce
<1>9. CASE /\ work' = [work EXCEPT ![w].pc = "putback", ![w].base = index]
           /\ UNCHANGED <<snap, ends, reports>>
  <2>0. PICK bx : bx = index OBVIOUS
  <2>1. /\ work'[w].pc = "putback" /\ work'[w].base = bx /\ work'[w].undo = work[w].undo
        /\ \A v \in Windows : v # w => work'[v] = work[v] /\ snap'[v] = snap[v]
    BY <1>1, <1>9, <2>0 DEF TypeInv, Busy, WorkFields
  <2>2. \A v \in Windows : Manages(v) => Manages(v)' BY <1>1, <1>9 DEF Manages, ends
  <2>3. Sure(index)' BY <1>1, <1>6, SettledKeeps
  <2>4. Sure(bx)' BY <1>1, <1>4, <2>0, SettledKeeps
  <2>5. Manages(w)' \/ Entries(bx) = Entries(index') BY <1>3, <1>5, <2>0, <2>2
  <2>6. work'[w].undo = {} \/ (Manages(w)' /\ work'[w].undo \cap Listed(Entries(bx)) = {})
    BY <1>1, <1>4, <2>0, <2>1, <2>2 DEF WorkInv, Undoes
  <2>7. WorkInv(w)' BY <2>1, <2>4, <2>5, <2>6 DEF WorkInv, Asks, Undoes, Busy
  <2> QED BY <1>1, <1>3, <1>6, <1>7, <2>1, <2>2, <2>7, SettledOnce
<1> QED BY <1>8, <1>9 DEF Publish

LEMMA PublishOld ==
    ASSUME IInv, OnceInv, OldInv, NEW w \in Windows, Publish(w)
    PROVE  OldInv'
<1>1. /\ work[w].pc = "publish" /\ Busy(w) /\ UNCHANGED <<editor, fresh>> /\ TypeInv
      /\ fresh \in Nat /\ AskOld(w) /\ Old(Entries(index))
  BY DEF Publish, texts, Busy, IInv, TypeInv, OldInv, Asks
<1>2. PICK ux : ux = Updated(w) OBVIOUS
<1>3. /\ Sure(ux) /\ (Manages(w) \/ Entries(ux) = Entries(index))
      /\ \A v \in Windows : v # w => work[v].pc \notin {"publish", "putback"}
      /\ \A v \in Windows : v # w /\ Manages(v) => ~ Manages(w)
  BY <1>1, <1>2, UpdatedSure
<1>4. Old(Entries(ux))
  <2>1. DOMAIN work[w].next = Fields BY <1>1 DEF TypeInv, Asks, IsIndex
  <2>2. ux.sessions = work[w].next.sessions /\ ux.trash = work[w].next.trash /\ ux.gone = work[w].next.gone
    BY <1>2, <2>1 DEF Updated, Fields
  <2>3. Entries(ux) = Entries(work[w].next) BY <2>2, Zenon DEF Entries
  <2>4. From(w) = index BY <1>1 DEF From
  <2> QED BY <1>1, <2>3, <2>4 DEF AskOld
<1>5. index' \in {index, ux} BY <1>2 DEF Publish
<1>6. Old(Entries(index')) BY <1>1, <1>4, <1>5
<1>7. \A v \in Windows : v # w /\ Manages(v) => Entries(index') = Entries(index) BY <1>3, <1>5
<1>8. CASE /\ index' = Updated(w) /\ snap' = [snap EXCEPT ![w] = Updated(w)]
           /\ IF work[w].old \cup work[w].oldMedia # {}
              THEN Goto(w, "clean") /\ UNCHANGED lease
              ELSE work' = [work EXCEPT ![w] = Idle] /\ FreeLease(w)
  <2>1. \A v \in Windows : v # w => work'[v] = work[v] /\ snap'[v] = snap[v]
    BY <1>1, <1>8 DEF TypeInv, Goto
  <2>2. \A v \in Windows : v # w /\ Manages(v) => Manages(v)'
    <3>1. Released(w) BY <1>8 DEF FreeLease, Released
    <3> QED BY <1>1, <3>1, ReleasedOthers
  <2>3. work'[w].pc \in {"idle", "clean"} /\ snap'[w] = ux
    <3>1. CASE work' = [work EXCEPT ![w] = Idle] BY <1>1, <1>2, <1>8, <3>1 DEF TypeInv, Idle
    <3>2. CASE Goto(w, "clean") BY <1>1, <1>2, <1>8, <3>2 DEF TypeInv, Busy, WorkFields, Goto
    <3> QED BY <1>8, <3>1, <3>2
  <2>4. (\A v \in Windows : ~ Undoes(v)') /\ ~ Asks(w)' BY <1>3, <2>1, <2>3 DEF Undoes, Asks
  <2>5. PICK X : X = Entries(ux) OBVIOUS
  <2>6. Shape(X, folders, fresh) BY <1>3, <2>5 DEF Sure, Lies, Good
  <2>7. Parted(X, X) /\ \A f, s : Offers(f, s, X) => f \in 1 .. fresh BY <2>6, OwnCalm
  <2>8. \A f, s : Opened(f, s)' => Opened(f, s) \/ Offers(f, s, X) BY <1>1, <2>1, <2>3, <2>5 DEF Opened
  <2>9. X = Entries(index') BY <1>2, <1>8, <2>5
  <2> QED BY <1>1, <1>3, <1>6, <1>7, <2>1, <2>2, <2>4, <2>7, <2>8, <2>9, OldStep
<1>9. CASE /\ work' = [work EXCEPT ![w].pc = "putback", ![w].base = index]
           /\ UNCHANGED <<snap, ends, reports>>
  <2>1. /\ work'[w].pc = "putback" /\ work'[w].base = index
        /\ \A v \in Windows : v # w => work'[v] = work[v]
    BY <1>1, <1>9 DEF TypeInv, Busy, WorkFields
  <2>2. \A v \in Windows : Manages(v) => Manages(v)' BY <1>1, <1>9 DEF Manages, ends
  <2>3. ~ Asks(w)' /\ Old(Entries(work'[w].base)) BY <1>1, <2>1 DEF Asks
  <2> QED BY <1>1, <1>3, <1>6, <1>7, <1>9, <2>1, <2>2, <2>3, OldOnly
<1> QED BY <1>8, <1>9 DEF Publish

LEMMA PutBackOnce ==
    ASSUME IInv, OnceInv, StuckLate = FALSE, NEW w \in Windows, PutBack(w)
    PROVE  OnceInv'
<1>1. /\ work[w].pc = "putback" /\ Busy(w) /\ Undoes(w) /\ Fails(w) /\ editor' = editor /\ Settled /\ TypeInv
      /\ index' = work[w].base
  BY DEF PutBack, texts, Settled, Busy, Undoes, IInv
<1>2. /\ Sure(work[w].base) /\ (Manages(w) \/ Entries(work[w].base) = Entries(index))
      /\ work[w].undo = {} \/ (Manages(w) /\ work[w].undo \cap Listed(Entries(index')) = {})
  BY <1>1 DEF OnceInv, WorkInv
<1>3. WorkInv(w)' /\ Leaves(w) BY <1>1, <1>2, FailsOwn DEF Settled
<1>4. \A v \in Windows : v # w /\ Manages(v) => Manages(v)' BY <1>1, <1>3, ReleasedOthers DEF Leaves
<1>5. \A v \in Windows : v # w => work[v].pc \notin {"publish", "putback"} BY <1>1 DEF IInv, LockInv
<1>6. \A v \in Windows : v # w /\ Manages(v) => Entries(index') = Entries(index) BY <1>1, <1>2 DEF Manages
<1> QED BY <1>1, <1>2, <1>3, <1>4, <1>5, <1>6, SettledOnce DEF Leaves

LEMMA PutBackOld ==
    ASSUME IInv, OnceInv, OldInv, StuckLate = FALSE, NEW w \in Windows, PutBack(w)
    PROVE  OldInv'
<1>1. /\ work[w].pc = "putback" /\ Busy(w) /\ Undoes(w) /\ Fails(w) /\ UNCHANGED <<editor, fresh, calls>> /\ TypeInv
      /\ index' = work[w].base
  BY DEF PutBack, texts, Busy, Undoes, IInv
<1>2. Manages(w) \/ Entries(work[w].base) = Entries(index) BY <1>1 DEF OnceInv, WorkInv
<1>3. Leaves(w) /\ snap' = snap BY <1>1, FailsLeaves
<1>4. \A v \in Windows : v # w /\ Manages(v) => Manages(v)' BY <1>1, <1>3, ReleasedOthers DEF Leaves
<1>5. \A v \in Windows : v # w => work[v].pc \notin {"publish", "putback"} BY <1>1 DEF IInv, LockInv
<1>6. \A v \in Windows : v # w /\ Manages(v) => Entries(index') = Entries(index) BY <1>1, <1>2 DEF Manages
<1>7. ~ Undoes(w)' /\ ~ Asks(w)' BY <1>3 DEF Leaves, Undoes, Asks
<1>8. \A v \in Windows : v # w => work'[v] = work[v] BY <1>3 DEF Leaves, Only
<1>9. Old(Entries(index')) BY <1>1 DEF OldInv
<1> QED BY <1>1, <1>3, <1>4, <1>5, <1>6, <1>7, <1>8, <1>9, OldOnly

-----------------------------------------------------------------------------
(* The removal of folders, and the other steps.                              *)
LEMMA TidyKeeps ==
    ASSUME NEW folds, NEW O, NEW now, now = Restrict(folds, DOMAIN folds \ O)
    PROVE  /\ \A E, lat, n, K : O \cap Listed(E) = {} /\ Good(E, folds, lat, n, K) => Good(E, now, lat, n, K)
           /\ \A n, T : WellFolders(folds, n, T) => WellFolders(now, n, T)
<1>1. DOMAIN now = DOMAIN folds \ O /\ \A f \in DOMAIN now : now[f] = folds[f] BY DEF Restrict
<1>2. ASSUME NEW E, NEW lat, NEW n, NEW K, O \cap Listed(E) = {}, Good(E, folds, lat, n, K)
      PROVE  Good(E, now, lat, n, K)
  <2>1. \A e \in E : e.rec.folder \notin O BY <1>2 DEF Listed
  <2>2. \A e \in E : Lot(now, e) = Lot(folds, e) BY <1>1, <2>1 DEF Lot, Held, Exists
  <2>3. Shape(E, now, n) BY <1>1, <1>2, <2>2 DEF Good, Shape
  <2>4. ASSUME NEW t \in K PROVE OnceIn(E, now, t, lat[t])
    <3>1. \A e \in E : \A i : Holds(now, e, i, t) <=> Holds(folds, e, i, t) BY <2>2 DEF Holds
    <3>2. PICK e \in E : \E i : /\ Holds(folds, e, i, t) /\ Lot(folds, e)[i].rev = lat[t]
                                /\ \A g \in E : \A j : Holds(folds, g, j, t) => g = e /\ j = i
      BY <1>2 DEF Good, OnceIn
    <3> QED BY <2>2, <3>1, <3>2 DEF OnceIn
  <2> QED BY <2>3, <2>4 DEF Good
<1>3. ASSUME NEW n, NEW T, WellFolders(folds, n, T) PROVE WellFolders(now, n, T)
  <2>1. \A f \in DOMAIN now : f \in DOMAIN folds /\ now[f] = folds[f] BY <1>1
  <2> QED BY <1>3, <2>1 DEF WellFolders
<1> QED BY <1>2, <1>3

LEMMA TidyOnce ==
    ASSUME IInv, OnceInv, NEW w \in Windows, Tidy(w)
    PROVE  OnceInv'
<1>1. /\ work[w].pc \in {"clean", "undo"} /\ Busy(w) /\ ~ Undoes(w) /\ TypeInv /\ WorkInv(w)
      /\ work' = [work EXCEPT ![w] = Idle] /\ FreeLease(w)
      /\ UNCHANGED <<index, snap, editor, latest, effect, written, fresh, calls>>
  BY DEF Tidy, Busy, Undoes, texts, IInv, OnceInv
<1>2. \E O : /\ folders' = Restrict(folders, DOMAIN folders \ O)
             /\ O = {} \/ (Manages(w) /\ O \cap Listed(Entries(index)) = {})
  <2>1. CASE work[w].pc = "clean" BY <1>1, <2>1 DEF Tidy, WorkInv
  <2>2. CASE work[w].pc = "undo" BY <1>1, <2>2 DEF Tidy, WorkInv
  <2> QED BY <1>1, <2>1, <2>2
<1>3. PICK O : /\ folders' = Restrict(folders, DOMAIN folders \ O)
               /\ O = {} \/ (Manages(w) /\ O \cap Listed(Entries(index)) = {})
  BY <1>2
<1>4. \A E, log : O \cap Listed(E) = {} /\ Lies(E, log) => Lies(E, log)'
  <2> TAKE E, log
  <2> SUFFICES ASSUME O \cap Listed(E) = {}, Lies(E, log) PROVE Lies(E, log)' OBVIOUS
  <2>1. Good(E, folders', latest, fresh, KnownIn(written, effect, log)) BY <1>3, TidyKeeps DEF Lies
  <2> QED BY <1>1, <2>1 DEF Lies
<1>5. Stock' BY <1>1, <1>3, TidyKeeps DEF OnceInv, Stock
<1>6. O \cap Listed(Entries(index)) = {} BY <1>3
<1>7. Sure(index)' BY <1>1, <1>4, <1>6 DEF OnceInv, Sure
<1>8. \A v \in Windows : v # w /\ Manages(v) => ~ Manages(w) BY DEF Manages
<1>9. \A v \in Windows : v # w /\ Manages(v) => Manages(v)'
  <2>1. Released(w) BY <1>1 DEF FreeLease, Released
  <2> QED BY <1>1, <2>1, ReleasedOthers
<1>10. ASSUME NEW v \in Windows, v # w PROVE WorkInv(v)'
  <2>1. work'[v] = work[v] /\ snap'[v] = snap[v] BY <1>1, <1>10 DEF TypeInv
  <2>2. WorkInv(v) /\ (Manages(v) => Manages(v)') BY <1>9, <1>10 DEF OnceInv
  <2>3. \A E, log : (Manages(v) \/ E = Entries(index)) /\ Lies(E, log) => Lies(E, log)'
    BY <1>3, <1>4, <1>6, <1>8, <1>10
  <2> QED BY <1>1, <2>1, <2>2, <2>3, Others
<1>11. WorkInv(w)'
  <2>1. work'[w].pc = "idle" BY <1>1 DEF TypeInv, Idle
  <2> QED BY <2>1 DEF WorkInv, Asks, Undoes, Busy
<1> QED BY <1>5, <1>7, <1>10, <1>11 DEF OnceInv

LEMMA TidyOld ==
    ASSUME IInv, OldInv, NEW w \in Windows, Tidy(w)
    PROVE  OldInv'
<1>1. /\ work' = [work EXCEPT ![w] = Idle] /\ FreeLease(w) /\ UNCHANGED <<index, snap, editor, fresh>>
      /\ Old(Entries(index')) /\ TypeInv
  BY DEF Tidy, texts, IInv, OldInv
<1>2. \A v \in Windows : v # w /\ Manages(v) => Manages(v)'
  <2>1. Released(w) BY <1>1 DEF FreeLease, Released
  <2> QED BY <1>1, <2>1, ReleasedOthers
<1>3. work'[w].pc = "idle" /\ \A v \in Windows : v # w => work'[v] = work[v] BY <1>1 DEF TypeInv, Idle
<1>4. ~ Undoes(w)' /\ ~ Asks(w)' BY <1>3 DEF Undoes, Asks
<1> QED BY <1>1, <1>2, <1>3, <1>4, OldOnly

\* Steps of a window without work that leave the index and the folders.
IdleStep(w) ==
    /\ \A v \in Windows : v # w => work'[v] = work[v] /\ snap'[v] = snap[v]
    /\ work'[w].pc = "idle"
    /\ \A v \in Windows : v # w /\ Manages(v) => Manages(v)'

LEMMA IdleSteps ==
    ASSUME IInv, NEW w \in Windows,
           Open(w) \/ Enter(w) \/ FollowLink(w) \/ Leave(w) \/ Close(w)
    PROVE  IdleStep(w)
<1>1. CASE Open(w) BY <1>1 DEF Open, ends, IInv, TypeInv, Manages, IdleStep
<1>2. CASE Leave(w) BY <1>2, NoneAssumption DEF Leave, IInv, TypeInv, LeaseInv, Manages, IdleStep
<1>3. CASE Close(w) BY <1>3 DEF Close, Idle, IInv, TypeInv, Manages, IdleStep
<1>4. CASE Enter(w) \/ FollowLink(w)
  <2>1. lease = None \/ lease = w BY <1>4 DEF Enter, FollowLink, LeaseTaken, IInv, LeaseInv
  <2>2. /\ \E ix : Entering(w, ix)
        /\ \A v \in Windows : v # w => snap'[v] = snap[v]
    BY <1>4 DEF Enter, FollowLink, IInv, TypeInv
  <2>3. work[w].pc = "idle" /\ work' = work BY <2>2 DEF Entering
  <2>4. \A v \in Windows : v # w => ~ Manages(v) BY <2>1, NoneAssumption DEF Manages
  <2> QED BY <2>2, <2>3, <2>4 DEF IdleStep
<1> QED BY <1>1, <1>2, <1>3, <1>4

LEMMA IdleOnce ==
    ASSUME IInv, OnceInv, NEW w \in Windows,
           Open(w) \/ Enter(w) \/ FollowLink(w) \/ Leave(w) \/ Close(w)
    PROVE  OnceInv'
<1>1. index' = index /\ Settled
  <2>1. \A ix : Entering(w, ix) => index' = index /\ Settled BY DEF Entering, disk, texts, Settled
  <2>2. CASE Open(w) \/ Leave(w) \/ Close(w) BY <2>2 DEF Open, Leave, Close, disk, texts, Settled
  <2>3. CASE Enter(w) \/ FollowLink(w) BY <2>1, <2>3 DEF Enter, FollowLink
  <2> QED BY <2>2, <2>3
<1>2. Sure(index') BY <1>1 DEF OnceInv
<1>3. IdleStep(w) BY IdleSteps
<1>4. WorkInv(w)' BY <1>3 DEF IdleStep, WorkInv, Asks, Undoes, Busy
<1> QED BY <1>1, <1>2, <1>3, <1>4, SettledOnce DEF IdleStep

LEMMA IdleOld ==
    ASSUME IInv, OnceInv, OldInv, NEW w \in Windows,
           Open(w) \/ Enter(w) \/ FollowLink(w) \/ Leave(w) \/ Close(w)
    PROVE  OldInv'
<1>1. index' = index /\ fresh' = fresh /\ fresh \in Nat /\ TypeInv
  <2>1. \A ix : Entering(w, ix) => index' = index /\ fresh' = fresh BY DEF Entering, disk, texts
  <2>2. CASE Open(w) \/ Leave(w) \/ Close(w) BY <2>2 DEF Open, Leave, Close, disk, texts, IInv, TypeInv
  <2>3. CASE Enter(w) \/ FollowLink(w) BY <2>1, <2>3 DEF Enter, FollowLink, IInv, TypeInv
  <2> QED BY <2>2, <2>3
<1>2. IdleStep(w) BY IdleSteps
<1>3. ~ Undoes(w)' /\ ~ Asks(w)' /\ Old(Entries(index')) BY <1>1, <1>2 DEF IdleStep, Undoes, Asks, OldInv
<1>4. ASSUME NEW X, \A f, s : Opened(f, s)' => Opened(f, s) \/ Offers(f, s, X),
             X = {} \/ (X = Entries(index) /\ \A v \in Windows : ~ Undoes(v)')
      PROVE  OldInv'
  <2>1. Shape(Entries(index), folders, fresh) BY DEF OnceInv, Sure, Lies, Good
  <2>2. /\ Parted(Entries(index), Entries(index))
        /\ \A f, s : Offers(f, s, Entries(index)) => f \in 1 .. fresh
    BY <2>1, OwnCalm
  <2>3. \A f, s : ~ Offers(f, s, {}) BY DEF Offers
  <2>4. \A f, s : Offers(f, s, X) => f \in 1 .. fresh BY <1>4, <2>2, <2>3
  <2>5. X = {} \/ (X = Entries(index') /\ Parted(X, X) /\ \A v \in Windows : ~ Undoes(v)')
    BY <1>1, <1>4, <2>2
  <2> QED BY <1>1, <1>2, <1>3, <1>4, <2>4, <2>5, OldStep DEF IdleStep
<1>5. ASSUME lock = None PROVE \A v \in Windows : ~ Undoes(v)'
  <2>1. \A v \in Windows : ~ Undoes(v) BY <1>5, NoneAssumption DEF IInv, LockInv, Undoes
  <2> QED BY <1>2, <1>3, <2>1 DEF IdleStep, Undoes
<1>6. CASE Open(w)
  <2>1. PICK X : X = Entries(index) OBVIOUS
  <2>2. \A f, s : Opened(f, s)' => Opened(f, s) \/ Offers(f, s, X)
    <3>1. snap'[w] = index /\ editor' = editor /\ \A v \in Windows : v # w => snap'[v] = snap[v]
      BY <1>1, <1>6 DEF Open, TypeInv
    <3> QED BY <2>1, <3>1 DEF Opened
  <2> QED BY <1>4, <1>5, <1>6, <2>1, <2>2 DEF Open
<1>7. CASE Leave(w) \/ Close(w)
  <2>1. /\ \A v \in Windows : snap'[v] = None \/ snap'[v] = snap[v]
        /\ \A v \in Windows : editor'[v] = None \/ editor'[v] = editor[v]
    BY <1>1, <1>7 DEF Leave, Close, TypeInv
  <2>2. \A f, s : Opened(f, s)' => Opened(f, s) \/ Offers(f, s, {}) BY <2>1 DEF Opened
  <2> QED BY <1>4, <2>2
<1>8. \A ix, s, r : s \in DOMAIN ix.sessions /\ r \in DOMAIN ix.sessions[s] =>
         Offers(ix.sessions[s][r].folder, s, Entries(ix))
  <2> TAKE ix, s, r
  <2> SUFFICES ASSUME s \in DOMAIN ix.sessions, r \in DOMAIN ix.sessions[s]
               PROVE  Offers(ix.sessions[s][r].folder, s, Entries(ix))
    OBVIOUS
  <2>1. PICK g : g = Entry(s, r, ix.sessions[s][r], {}) OBVIOUS
  <2>2. g \in Entries(ix) BY <2>1, OwnEntry
  <2>3. g.rec = ix.sessions[s][r] /\ g.dir = s /\ g.item = {} BY <2>1, EntryFacts
  <2> QED BY <2>2, <2>3 DEF Offers
<1>9. ASSUME NEW ix, Entering(w, ix)
      PROVE  /\ Offers(editor'[w].folder, editor'[w].session, Entries(ix))
             /\ \A v \in Windows : v # w => editor'[v] = editor[v]
  <2>1. PICK s, r : /\ s \in DOMAIN ix.sessions /\ r \in DOMAIN ix.sessions[s]
                    /\ editor' = [editor EXCEPT ![w] = [session |-> s, id |-> r, folder |-> ix.sessions[s][r].folder]]
    BY <1>9 DEF Entering
  <2>2. editor'[w].folder = ix.sessions[s][r].folder /\ editor'[w].session = s BY <1>1, <2>1 DEF TypeInv
  <2> QED BY <1>1, <1>8, <2>1, <2>2 DEF TypeInv
<1>10. CASE Enter(w)
  <2>1. PICK ix : ix = snap[w] OBVIOUS
  <2>2. Entering(w, ix) /\ snap' = snap /\ snap[w] # None BY <1>10, <2>1 DEF Enter
  <2>3. /\ Offers(editor'[w].folder, editor'[w].session, Entries(ix))
        /\ \A v \in Windows : v # w => editor'[v] = editor[v]
    BY <1>9, <2>2
  <2>4. \A f, s : Opened(f, s)' => Opened(f, s) \/ Offers(f, s, {}) BY <2>1, <2>2, <2>3 DEF Opened
  <2> QED BY <1>4, <2>4
<1>11. CASE FollowLink(w)
  <2>1. PICK ix : ix = index OBVIOUS
  <2>2. Entering(w, ix) /\ snap' = [snap EXCEPT ![w] = ix] /\ lock = None BY <1>11, <2>1 DEF FollowLink
  <2>3. /\ Offers(editor'[w].folder, editor'[w].session, Entries(ix))
        /\ \A v \in Windows : v # w => editor'[v] = editor[v]
    BY <1>9, <2>2
  <2>4. snap'[w] = ix /\ \A v \in Windows : v # w => snap'[v] = snap[v] BY <1>1, <2>2 DEF TypeInv
  <2>5. PICK X : X = Entries(ix) OBVIOUS
  <2>6. \A f, s : Opened(f, s)' => Opened(f, s) \/ Offers(f, s, X) BY <2>3, <2>4, <2>5 DEF Opened
  <2> QED BY <1>4, <1>5, <2>1, <2>2, <2>5, <2>6
<1> QED BY <1>6, <1>7, <1>10, <1>11

-----------------------------------------------------------------------------
(* From the entries of the index to the places of its texts.                 *)
PlaceOf(e) == [dir |-> e.dir, id |-> e.id, rec |-> e.rec]

LEMMA PlaceFacts ==
    ASSUME NEW s, NEW recs, NEW items, NEW p
    PROVE  /\ (\E r \in DOMAIN recs : p = [dir |-> s, id |-> r, rec |-> recs[r]])
                 <=> \E e \in OfRecs(s, recs) : p = PlaceOf(e)
           /\ p \in ItemPlaces(items) <=> \E e \in OfItems(items) : p = PlaceOf(e)
<1>1. \A a, b, rec, item : PlaceOf(Entry(a, b, rec, item)) = [dir |-> a, id |-> b, rec |-> rec]
  BY DEF PlaceOf, Entry
<1>2. \A e : e \in OfRecs(s, recs) <=> \E r \in DOMAIN recs : e = Entry(s, r, recs[r], {}) BY DEF OfRecs
<1>3. \A e : e \in OfItems(items) <=> \E x \in items : e = Entry(x.session, x.id, x.rec, {x}) BY DEF OfItems
<1>4. p \in ItemPlaces(items) <=> \E x \in items : p = [dir |-> x.session, id |-> x.id, rec |-> x.rec]
  BY DEF ItemPlaces
<1> DEFINE Spot(r) == [dir |-> s, id |-> r, rec |-> recs[r]]
           Site(x) == [dir |-> x.session, id |-> x.id, rec |-> x.rec]
           Own(r) == Entry(s, r, recs[r], {})
           Put(x) == Entry(x.session, x.id, x.rec, {x})
<1>5. \A r : PlaceOf(Own(r)) = Spot(r) BY <1>1
<1>6. \A x : PlaceOf(Put(x)) = Site(x) BY <1>1
<1>7. \A e : e \in OfRecs(s, recs) <=> \E r \in DOMAIN recs : e = Own(r) BY <1>2
<1>8. \A e : e \in OfItems(items) <=> \E x \in items : e = Put(x) BY <1>3
<1>9. p \in ItemPlaces(items) <=> \E x \in items : p = Site(x) BY <1>4
<1> HIDE DEF PlaceOf, Spot, Site, Own, Put
<1>10. (\E r \in DOMAIN recs : p = Spot(r)) <=> \E e \in OfRecs(s, recs) : p = PlaceOf(e)
  <2>1. ASSUME NEW r \in DOMAIN recs, p = Spot(r) PROVE \E e \in OfRecs(s, recs) : p = PlaceOf(e)
    <3>1. Own(r) \in OfRecs(s, recs) BY <1>7
    <3>2. p = PlaceOf(Own(r)) BY <1>5, <2>1
    <3> QED BY <3>1, <3>2
  <2>2. ASSUME NEW e \in OfRecs(s, recs), p = PlaceOf(e) PROVE \E r \in DOMAIN recs : p = Spot(r)
    <3>1. PICK r \in DOMAIN recs : e = Own(r) BY <1>7
    <3>2. p = Spot(r) BY <1>5, <2>2, <3>1
    <3> QED BY <3>2
  <2> QED BY <2>1, <2>2
<1>11. p \in ItemPlaces(items) <=> \E e \in OfItems(items) : p = PlaceOf(e)
  <2>1. ASSUME NEW x \in items, p = Site(x) PROVE \E e \in OfItems(items) : p = PlaceOf(e)
    <3>1. Put(x) \in OfItems(items) BY <1>8
    <3>2. p = PlaceOf(Put(x)) BY <1>6, <2>1
    <3> QED BY <3>1, <3>2
  <2>2. ASSUME NEW e \in OfItems(items), p = PlaceOf(e) PROVE \E x \in items : p = Site(x)
    <3>1. PICK x \in items : e = Put(x) BY <1>8
    <3>2. p = Site(x) BY <1>6, <2>2, <3>1
    <3> QED BY <3>2
  <2> QED BY <1>9, <2>1, <2>2
<1> QED BY <1>10, <1>11 DEF Spot

LEMMA PlacesFacts ==
    ASSUME NEW ix, NEW p
    PROVE  p \in ActivePlaces(ix) \cup TrashPlaces(ix) <=> \E e \in Entries(ix) : p = PlaceOf(e)
<1> DEFINE Pl(s, recs) == {[dir |-> s, id |-> r, rec |-> recs[r]] : r \in DOMAIN recs}
           Bag(s) == Pl(s, ix.gone[s].recs) \cup ItemPlaces(ix.gone[s].trash)
           Own(s) == Pl(s, ix.sessions[s])
<1>1. \A s, recs : p \in Pl(s, recs) <=> \E e \in OfRecs(s, recs) : p = PlaceOf(e)
  <2> TAKE s, recs
  <2>1. p \in Pl(s, recs) <=> \E r \in DOMAIN recs : p = [dir |-> s, id |-> r, rec |-> recs[r]] OBVIOUS
  <2> QED BY <2>1, PlaceFacts
<1>2. \A items : p \in ItemPlaces(items) <=> \E e \in OfItems(items) : p = PlaceOf(e) BY PlaceFacts
<1>3. ActivePlaces(ix) = UNION {Own(s) : s \in DOMAIN ix.sessions} BY Zenon DEF ActivePlaces
<1>4. TrashPlaces(ix) = ItemPlaces(ix.trash) \cup UNION {Bag(s) : s \in DOMAIN ix.gone} BY Zenon DEF TrashPlaces
<1>5. \A s : p \in Bag(s) <=> p \in Pl(s, ix.gone[s].recs) \/ p \in ItemPlaces(ix.gone[s].trash) OBVIOUS
<1>6. \A s : p \in Own(s) <=> p \in Pl(s, ix.sessions[s]) OBVIOUS
<1> HIDE DEF Pl, Bag, Own
<1>7. p \in ActivePlaces(ix) \cup TrashPlaces(ix) <=>
         \/ \E s \in DOMAIN ix.sessions : p \in Own(s)
         \/ p \in ItemPlaces(ix.trash) \/ \E s \in DOMAIN ix.gone : p \in Bag(s)
  BY <1>3, <1>4
<1>8. \A e : e \in Entries(ix) <=>
         \/ \E s \in DOMAIN ix.sessions : e \in OfRecs(s, ix.sessions[s])
         \/ e \in OfItems(ix.trash)
         \/ \E s \in DOMAIN ix.gone : e \in OfRecs(s, ix.gone[s].recs) \cup OfItems(ix.gone[s].trash)
  BY EntriesFacts
<1>9. (\E s \in DOMAIN ix.sessions : p \in Own(s))
         <=> \E s \in DOMAIN ix.sessions : \E e \in OfRecs(s, ix.sessions[s]) : p = PlaceOf(e)
  BY <1>1, <1>6
<1>10. (\E s \in DOMAIN ix.gone : p \in Bag(s))
         <=> \E s \in DOMAIN ix.gone : \E e \in OfRecs(s, ix.gone[s].recs) \cup OfItems(ix.gone[s].trash) : p = PlaceOf(e)
  <2>1. \A s : p \in Bag(s) <=> \E e \in OfRecs(s, ix.gone[s].recs) \cup OfItems(ix.gone[s].trash) : p = PlaceOf(e)
    <3> TAKE s
    <3>1. p \in Pl(s, ix.gone[s].recs) <=> \E e \in OfRecs(s, ix.gone[s].recs) : p = PlaceOf(e) BY <1>1
    <3>2. p \in ItemPlaces(ix.gone[s].trash) <=> \E e \in OfItems(ix.gone[s].trash) : p = PlaceOf(e) BY <1>2
    <3> QED BY <1>5, <3>1, <3>2
  <2> QED BY <2>1
<1> QED BY <1>2, <1>7, <1>8, <1>9, <1>10

LEMMA ListsEntry ==
    ASSUME NEW f
    PROVE  Lists(f) <=> \E e \in Entries(index) : e.rec.folder = f
<1>1. \A p : p \in Places <=> \E e \in Entries(index) : p = PlaceOf(e) BY PlacesFacts DEF Places
<1>2. \A e : PlaceOf(e).rec = e.rec BY DEF PlaceOf
<1> HIDE DEF PlaceOf
<1>3. ASSUME NEW e \in Entries(index), e.rec.folder = f PROVE Lists(f)
  <2>1. PlaceOf(e) \in Places BY <1>1
  <2> QED BY <1>2, <1>3, <2>1 DEF Lists
<1>4. ASSUME Lists(f) PROVE \E e \in Entries(index) : e.rec.folder = f
  <2>1. PICK p \in Places : p.rec.folder = f BY <1>4 DEF Lists
  <2>2. PICK e \in Entries(index) : p = PlaceOf(e) BY <1>1
  <2> QED BY <1>2, <2>1, <2>2
<1> QED BY <1>3, <1>4

-----------------------------------------------------------------------------
(* Edits, and texts that are made in an editor.                              *)
Touched(folds, f, i, r, now) ==
    /\ DOMAIN now = DOMAIN folds /\ now[f].dir = folds[f].dir /\ DOMAIN now[f] = DOMAIN folds[f]
    /\ \A g \in DOMAIN folds : g # f => now[g] = folds[g]
    /\ DOMAIN now[f].models = DOMAIN folds[f].models
    /\ \A j \in DOMAIN folds[f].models :
          /\ j # i => now[f].models[j] = folds[f].models[j]
          /\ now[f].models[j].text = folds[f].models[j].text
          /\ DOMAIN now[f].models[j] = DOMAIN folds[f].models[j]
    /\ now[f].models[i].rev = r

LEMMA EditTouches ==
    ASSUME NEW folds, NEW n, NEW T, WellFolders(folds, n, T), NEW f \in DOMAIN folds,
           NEW i \in DOMAIN folds[f].models, NEW r, NEW now, now = [folds EXCEPT ![f].models[i].rev = r]
    PROVE  Touched(folds, f, i, r, now) /\ WellFolders(now, n, T)
<1>1. DOMAIN folds[f] = {"dir", "models"} /\ DOMAIN folds[f].models[i] = {"text", "rev"}
  BY DEF WellFolders, WellModels
<1> DEFINE x == [folds[f].models[i] EXCEPT !.rev = r]
           m == [folds[f].models EXCEPT ![i] = x]
           y == [folds[f] EXCEPT !.models = m]
<1>2. x.rev = r /\ x.text = folds[f].models[i].text /\ DOMAIN x = {"text", "rev"} BY <1>1
<1>3. DOMAIN now = DOMAIN folds /\ now[f] = y /\ \A g \in DOMAIN folds : g # f => now[g] = folds[g] OBVIOUS
<1> HIDE DEF x
<1>4. DOMAIN m = DOMAIN folds[f].models /\ m[i] = x /\ \A j \in DOMAIN m : j # i => m[j] = folds[f].models[j]
  OBVIOUS
<1> HIDE DEF m
<1>5. y.models = m /\ y.dir = folds[f].dir /\ DOMAIN y = DOMAIN folds[f] BY <1>1
<1> HIDE DEF y
<1>6. Touched(folds, f, i, r, now) BY <1>1, <1>2, <1>3, <1>4, <1>5 DEF Touched
<1>7. WellModels(m, T)
  <2>1. IsFiniteSet(DOMAIN m) BY <1>4 DEF WellFolders, WellModels
  <2>2. \A j \in DOMAIN m : DOMAIN m[j] = {"text", "rev"} /\ m[j].text \in T
    BY <1>2, <1>4 DEF WellFolders, WellModels
  <2> QED BY <2>1, <2>2 DEF WellModels
<1>8. WellFolders(now, n, T) BY <1>1, <1>3, <1>5, <1>7 DEF WellFolders
<1> QED BY <1>6, <1>8

LEMMA EditKeeps ==
    ASSUME NEW folds, NEW lat, NEW f, NEW i, NEW r, NEW now, Touched(folds, f, i, r, now),
           NEW t \in DOMAIN lat, f \in DOMAIN folds, Has(folds[f].models, i, t),
           NEW late, late = [lat EXCEPT ![t] = r],
           NEW E, NEW n, NEW K \in SUBSET DOMAIN lat, Good(E, folds, lat, n, K),
           \E e \in E : e.rec.folder = f
    PROVE  Good(E, now, late, n, K)
<1>1. late[t] = r /\ \A u \in DOMAIN lat : u # t => late[u] = lat[u] OBVIOUS
<1>2. \A e \in E : e.rec.folder # f => Lot(now, e) = Lot(folds, e) BY DEF Touched, Lot, Held, Exists
<1>3. \A e \in E : e.rec.folder = f => Lot(now, e) = now[f].models /\ Lot(folds, e) = folds[f].models
  BY DEF Touched, Lot, Held, Exists
<1>4. \A e \in E : DOMAIN Lot(now, e) = DOMAIN Lot(folds, e) BY <1>2, <1>3 DEF Touched
<1>5. Shape(E, now, n)
  <2>1. DOMAIN now = DOMAIN folds /\ \A g \in DOMAIN folds : now[g].dir = folds[g].dir BY DEF Touched
  <2> QED BY <1>4, <2>1 DEF Good, Shape
<1>6. \A e \in E : \A j, u : Holds(now, e, j, u) <=> Holds(folds, e, j, u)
  BY <1>2, <1>3 DEF Holds, Touched
<1>7. \A e \in E : \A j : e.rec.folder # f \/ j # i => Lot(now, e)[j] = Lot(folds, e)[j] \/ j \notin DOMAIN Lot(folds, e)
  BY <1>2, <1>3 DEF Touched
<1>8. \A e \in E : e.rec.folder = f => Lot(now, e)[i].rev = r /\ Holds(folds, e, i, t)
  BY <1>3 DEF Touched, Has, Holds
<1>9. ASSUME NEW u \in K PROVE OnceIn(E, now, u, late[u])
  <2>1. PICK g \in E : \E j : /\ Holds(folds, g, j, u) /\ Lot(folds, g)[j].rev = lat[u]
                              /\ \A h \in E : \A k : Holds(folds, h, k, u) => h = g /\ k = j
    BY <1>9 DEF Good, OnceIn
  <2>2. PICK j : /\ Holds(folds, g, j, u) /\ Lot(folds, g)[j].rev = lat[u]
                 /\ \A h \in E : \A k : Holds(folds, h, k, u) => h = g /\ k = j
    BY <2>1
  <2>3. Lot(now, g)[j].rev = late[u]
    <3>1. CASE u = t
      <4>1. PICK e \in E : e.rec.folder = f OBVIOUS
      <4>2. e = g /\ i = j BY <1>8, <2>2, <3>1, <4>1
      <4> QED BY <1>1, <1>8, <3>1, <4>1, <4>2
    <3>2. CASE u # t
      <4>1. g.rec.folder # f \/ j # i BY <1>8, <2>2, <3>2 DEF Holds
      <4>2. j \in DOMAIN Lot(folds, g) BY <2>2 DEF Holds
      <4> QED BY <1>1, <1>7, <2>2, <3>2, <4>1, <4>2
    <3> QED BY <3>1, <3>2
  <2>4. \A h \in E : \A k : Holds(now, h, k, u) => h = g /\ k = j BY <1>6, <2>2
  <2> QED BY <1>6, <2>2, <2>3, <2>4 DEF OnceIn
<1> QED BY <1>5, <1>9 DEF Good

LEMMA WriteKeeps ==
    ASSUME NEW folds, NEW lat, NEW n, WellFolders(folds, n, DOMAIN lat), NEW c, c \notin DOMAIN lat,
           NEW E, NEW K \in SUBSET DOMAIN lat, Good(E, folds, lat, n, K),
           NEW e \in E, NEW f, e.rec.folder = f, NEW s, e.dir = s, Free(e),
           NEW held, held = Lot(folds, e), NEW m, m = (FreeId(held) :> Fresh(c)) @@ held,
           NEW now, now = (f :> Folder(s, m)) @@ folds, NEW late, late = (c :> 0) @@ lat
    PROVE  Good(E, now, late, n, K \cup {c})
<1>1. /\ \A u : u \in DOMAIN late <=> u = c \/ u \in DOMAIN lat
      /\ late[c] = 0 /\ \A u : u \in DOMAIN lat /\ u # c => late[u] = lat[u]
  BY AddedOne
<1>2. /\ \A g : g \in DOMAIN now <=> g = f \/ g \in DOMAIN folds
      /\ now[f] = Folder(s, m) /\ \A g : g \in DOMAIN folds /\ g # f => now[g] = folds[g]
  BY AddedOne
<1>3. Folder(s, m).dir = s /\ Folder(s, m).models = m /\ DOMAIN Folder(s, m) = {"dir", "models"} BY DEF Folder
<1>4. WellModels(held, DOMAIN lat)
  <2>1. CASE f \in DOMAIN folds BY <2>1 DEF Lot, Held, Exists, WellFolders
  <2>2. CASE f \notin DOMAIN folds BY <2>2, NoFolder DEF Lot, Held, Exists
  <2> QED BY <2>1, <2>2
<1>5. /\ \A U : (\A t \in DOMAIN lat : t \in U) /\ c \in U => WellModels(m, U)
      /\ \A i, t : t # c => (Has(m, i, t) <=> Has(held, i, t)) /\ (Has(m, i, t) => m[i].rev = held[i].rev)
      /\ \E i : Has(m, i, c) /\ m[i].rev = 0 /\ \A j : Has(m, j, c) => j = i
  BY <1>4, AddedText
<1>6. Shape(E, folds, n) BY DEF Good
<1>7. Lot(now, e) = m BY <1>2, <1>3 DEF Lot, Held, Exists
<1>8. \A g \in E : g # e => g.rec.folder # f /\ Lot(now, g) = Lot(folds, g)
  BY <1>2, <1>6 DEF Lot, Held, Exists, Shape
<1>9. Shape(E, now, n)
  <2>1. \A g \in E : g.rec.folder \in DOMAIN now => now[g.rec.folder].dir = g.dir
    BY <1>2, <1>3, <1>6, <1>8 DEF Shape
  <2>2. \A g \in E : \A x \in g.item : x.kept = 0 \/ DOMAIN Lot(now, g) = {} BY <1>6, <1>8 DEF Shape, Free
  <2> QED BY <1>6, <2>1, <2>2 DEF Shape
<1>10. \A i, t : Holds(now, e, i, t) <=> Has(m, i, t) BY <1>7 DEF Holds, Has
<1>11. \A i, t : Holds(folds, e, i, t) <=> Has(held, i, t) BY DEF Holds, Has
<1>12. \A g \in E : g # e => \A i, t : Holds(now, g, i, t) <=> Holds(folds, g, i, t) BY <1>8 DEF Holds
<1>13. ASSUME NEW t \in K PROVE OnceIn(E, now, t, late[t])
  <2>1. t # c /\ late[t] = lat[t] BY <1>1
  <2>2. PICK g \in E : \E j : /\ Holds(folds, g, j, t) /\ Lot(folds, g)[j].rev = lat[t]
                              /\ \A h \in E : \A k : Holds(folds, h, k, t) => h = g /\ k = j
    BY <1>13 DEF Good, OnceIn
  <2>3. PICK j : /\ Holds(folds, g, j, t) /\ Lot(folds, g)[j].rev = lat[t]
                 /\ \A h \in E : \A k : Holds(folds, h, k, t) => h = g /\ k = j
    BY <2>2
  <2>4. \A h \in E : \A k : Holds(now, h, k, t) <=> Holds(folds, h, k, t)
    BY <1>5, <1>10, <1>11, <1>12, <2>1
  <2>5. Lot(now, g)[j].rev = lat[t] BY <1>5, <1>7, <1>8, <1>10, <2>1, <2>3, <2>4
  <2> QED BY <2>1, <2>3, <2>4, <2>5 DEF OnceIn
<1>14. OnceIn(E, now, c, 0)
  <2>1. NoneIn(E, folds, c) BY NewText
  <2>2. PICK i : Has(m, i, c) /\ m[i].rev = 0 /\ \A j : Has(m, j, c) => j = i BY <1>5
  <2>3. \A g \in E : \A j : Holds(now, g, j, c) => g = e /\ j = i BY <1>10, <1>12, <2>1, <2>2 DEF NoneIn
  <2> QED BY <1>7, <1>10, <2>2, <2>3 DEF OnceIn
<1>15. Good(E, now, late, n, K \cup {c}) BY <1>1, <1>9, <1>13, <1>14 DEF Good
<1> QED BY <1>15

LEMMA WriteFolders ==
    ASSUME NEW folds, NEW lat, NEW n, WellFolders(folds, n, DOMAIN lat), NEW c, c \notin DOMAIN lat,
           NEW f, f \in 1 .. n, NEW s, NEW held, held = IF f \in DOMAIN folds THEN folds[f].models ELSE Empty,
           NEW m, m = (FreeId(held) :> Fresh(c)) @@ held, NEW now, now = (f :> Folder(s, m)) @@ folds
    PROVE  WellFolders(now, n, DOMAIN lat \cup {c})
<1> DEFINE U == DOMAIN lat \cup {c}
<1>1. WellModels(held, DOMAIN lat)
  <2>1. CASE f \in DOMAIN folds BY <2>1 DEF WellFolders
  <2>2. CASE f \notin DOMAIN folds BY <2>2, NoFolder
  <2> QED BY <2>1, <2>2
<1>2. \A V : (\A t \in DOMAIN lat : t \in V) /\ c \in V => WellModels(m, V) BY <1>1, AddedText
<1>3. WellModels(m, U) BY <1>2
<1>4. \A g \in DOMAIN folds : /\ g \in 1 .. n /\ DOMAIN folds[g] = {"dir", "models"}
                              /\ WellModels(folds[g].models, U)
  BY DEF WellFolders, WellModels
<1> HIDE DEF U
<1>5. /\ \A g : g \in DOMAIN now <=> g = f \/ g \in DOMAIN folds
      /\ now[f] = Folder(s, m) /\ \A g : g \in DOMAIN folds /\ g # f => now[g] = folds[g]
  BY AddedOne
<1>6. Folder(s, m).models = m /\ DOMAIN Folder(s, m) = {"dir", "models"} BY DEF Folder
<1>7. \A g \in DOMAIN now : (g = f /\ now[g] = Folder(s, m)) \/ (g \in DOMAIN folds /\ now[g] = folds[g])
  BY <1>5
<1>8. \A g \in DOMAIN now : /\ g \in 1 .. n /\ DOMAIN now[g] = {"dir", "models"}
                            /\ WellModels(now[g].models, U)
  BY <1>3, <1>4, <1>6, <1>7
<1>9. WellFolders(now, n, U) BY <1>8 DEF WellFolders
<1> QED BY <1>9 DEF U

\* Where a folder is not listed, what is done in it is nothing to the index.
LEMMA UnlistedKeeps ==
    ASSUME NEW folds, NEW now, NEW f,
           \A g : g # f => (g \in DOMAIN now <=> g \in DOMAIN folds) /\ (g \in DOMAIN folds => now[g] = folds[g]),
           NEW E, \A e \in E : e.rec.folder # f,
           NEW lat, NEW late, NEW n, NEW K, Good(E, folds, lat, n, K), \A t \in K : late[t] = lat[t]
    PROVE  Good(E, now, late, n, K)
<1>1. \A e \in E : Lot(now, e) = Lot(folds, e) BY DEF Lot, Held, Exists
<1>2. Shape(E, now, n) BY <1>1 DEF Good, Shape
<1>3. ASSUME NEW t \in K PROVE OnceIn(E, now, t, late[t])
  <2>1. \A e \in E : \A i : Holds(now, e, i, t) <=> Holds(folds, e, i, t) BY <1>1 DEF Holds
  <2>2. OnceIn(E, folds, t, lat[t]) /\ late[t] = lat[t] BY DEF Good
  <2> QED BY <1>1, <2>1, <2>2 DEF OnceIn
<1> QED BY <1>2, <1>3 DEF Good

\* Who has a recording open has the lease, so no window manages.
LEMMA EditorAlone ==
    ASSUME IInv, NEW w \in Windows, editor[w] # None
    PROVE  \A v \in Windows : ~ Manages(v)
BY DEF IInv, LeaseInv, Manages

LEMMA WrittenOnce ==
    ASSUME OnceInv, \A v \in Windows : ~ Manages(v), UNCHANGED <<index, work, snap, effect>>, Stock',
           \A log : Lies(Entries(index), log) => \A E : E = Entries(index) => Lies(E, log)'
    PROVE  OnceInv'
<1>1. Sure(index)' BY DEF OnceInv, Sure
<1>2. ASSUME NEW v \in Windows PROVE WorkInv(v)' BY <1>2, Others DEF OnceInv
<1> QED BY <1>1, <1>2 DEF OnceInv

LEMMA WrittenOld ==
    ASSUME OldInv, UNCHANGED <<index, work, snap, editor, lease, fresh>>
    PROVE  OldInv'
<1>1. \A f, s : Opened(f, s)' <=> Opened(f, s) BY OpenedSame
<1>2. \A E : Old(E) => Old(E)' BY <1>1 DEF Old
<1>3. \A v \in Windows : /\ Manages(v) => Manages(v)'
                         /\ Undoes(v)' => Undoes(v)
                         /\ Asks(v)' => Asks(v)
                         /\ From(v)' = From(v)
  BY DEF Manages, Undoes, Asks, From
<1>4. \A v \in Windows : AskOld(v) => AskOld(v)'
  <2> TAKE v \in Windows
  <2>1. PICK nx : nx = Entries(work[v].next) OBVIOUS
  <2>2. CASE Manages(v) /\ Old(nx) /\ Parted(Entries(index), nx)
    <3>1. Old(nx)' BY <1>2, <2>2
    <3> QED BY <1>3, <2>1, <2>2, <3>1 DEF AskOld
  <2>3. CASE nx = Entries(From(v)) BY <1>3, <2>1, <2>3 DEF AskOld
  <2> QED BY <2>1, <2>2, <2>3 DEF AskOld
<1>5. Old(Entries(index))' BY <1>2 DEF OldInv
<1>6. \A v \in Windows : Undoes(v)' => Old(Entries(work[v].base))' BY <1>2, <1>3 DEF OldInv
<1>7. \A f, s : Opened(f, s)' => f \in 1 .. fresh' BY <1>1 DEF OldInv
<1> QED BY <1>3, <1>4, <1>5, <1>6, <1>7 DEF OldInv

LEMMA EditOnce ==
    ASSUME IInv, OnceInv, OldInv, NEW w \in Windows, Edit(w)
    PROVE  OnceInv' /\ OldInv'
<1>1. /\ editor[w] # None /\ editor[w].folder \in DOMAIN folders
      /\ UNCHANGED <<index, work, snap, editor, lease, effect, written, fresh, calls>> /\ Stock
  BY DEF Edit, ends, OnceInv
<1>2. PICK f : f = editor[w].folder OBVIOUS
<1>3. PICK i \in DOMAIN folders[f].models :
         LET t == folders[f].models[i].text
         IN /\ latest' = IF Lists(f) THEN [latest EXCEPT ![t] = @ + 1] ELSE latest
            /\ folders' = [folders EXCEPT ![f].models[i].rev = latest[t] + 1]
  BY <1>2 DEF Edit
<1>4. PICK t : t = folders[f].models[i].text OBVIOUS
<1>5. PICK r : r = latest[t] + 1 OBVIOUS
<1>6. /\ latest' = IF Lists(f) THEN [latest EXCEPT ![t] = r] ELSE latest
      /\ folders' = [folders EXCEPT ![f].models[i].rev = r]
  BY <1>3, <1>4, <1>5
<1>7. f \in DOMAIN folders /\ t \in DOMAIN latest /\ Has(folders[f].models, i, t)
  BY <1>1, <1>2, <1>3, <1>4 DEF Stock, WellFolders, WellModels, Has
<1>n. PICK now, late : now = folders' /\ late = latest' OBVIOUS
<1>8. Touched(folders, f, i, r, now) /\ WellFolders(now, fresh, DOMAIN latest)
  <2>1. now = [folders EXCEPT ![f].models[i].rev = r] BY <1>6, <1>n
  <2>2. WellFolders(folders, fresh, DOMAIN latest) /\ f \in DOMAIN folders /\ i \in DOMAIN folders[f].models
    BY <1>1, <1>3, <1>7 DEF Stock
  <2> QED BY <2>1, <2>2, EditTouches
<1>9. DOMAIN latest' = DOMAIN latest BY <1>6
<1>10. Stock' BY <1>1, <1>n, <1>8, <1>9 DEF Stock
<1>11. \A v \in Windows : ~ Manages(v) BY <1>1, EditorAlone
<1>12. ASSUME NEW log, Lies(Entries(index), log), NEW E, E = Entries(index) PROVE Lies(E, log)'
  <2>1. KnownIn(written, effect, log) \in SUBSET DOMAIN latest BY <1>1, <1>12, KnownFacts DEF Lies, Stock
  <2>2. Good(E, folders, latest, fresh, KnownIn(written, effect, log)) BY <1>12 DEF Lies
  <2>3. CASE Lists(f)
    <3>1. late = [latest EXCEPT ![t] = r] BY <1>6, <1>n, <2>3
    <3>2. \E e \in E : e.rec.folder = f BY <1>12, <2>3, ListsEntry
    <3>3. Good(E, now, late, fresh, KnownIn(written, effect, log))
      BY <1>7, <1>8, <2>1, <2>2, <3>1, <3>2, EditKeeps
    <3> QED BY <1>1, <1>n, <1>12, <3>3 DEF Lies
  <2>4. CASE ~ Lists(f)
    <3>1. late = latest BY <1>6, <1>n, <2>4
    <3>2. \A e \in E : e.rec.folder # f BY <1>12, <2>4, ListsEntry
    <3>3. \A g : g # f => (g \in DOMAIN now <=> g \in DOMAIN folders) /\ (g \in DOMAIN folders => now[g] = folders[g])
      BY <1>8 DEF Touched
    <3>4. Good(E, now, late, fresh, KnownIn(written, effect, log)) BY <2>2, <3>1, <3>2, <3>3, UnlistedKeeps
    <3> QED BY <1>1, <1>n, <1>12, <3>4 DEF Lies
  <2> QED BY <2>3, <2>4
<1>13. OldInv' BY <1>1, WrittenOld
<1> QED BY <1>1, <1>10, <1>11, <1>12, <1>13, WrittenOnce

LEMMA WriteOnce ==
    ASSUME IInv, OnceInv, OldInv, NEW w \in Windows, Write(w)
    PROVE  OnceInv' /\ OldInv'
<1>1. /\ editor[w] # None /\ UNCHANGED <<index, work, snap, editor, lease, effect, fresh>> /\ Stock
      /\ latest' = (Call :> 0) @@ latest /\ calls' = Call
  BY DEF Write, ends, OnceInv
<1>2. PICK c : c = Call OBVIOUS
<1>3. calls \in Nat /\ c \notin DOMAIN latest BY <1>1, <1>2 DEF Stock, IInv, TypeInv, Call
<1>4. PICK f, s : f = editor[w].folder /\ s = editor[w].session OBVIOUS
<1>5. f \in 1 .. fresh /\ Calm(f, s, Entries(index)) BY <1>1, <1>4 DEF OldInv, Old, Opened
<1>6. PICK held : held = IF f \in DOMAIN folders THEN folders[f].models ELSE Empty OBVIOUS
<1>7. PICK m : m = (FreeId(held) :> Fresh(c)) @@ held OBVIOUS
<1>8. /\ folders' = (f :> Folder(s, m)) @@ folders
      /\ written' = written \cup (IF Lists(f) THEN {c} ELSE {})
  <2>1. New = Fresh(c) BY <1>2 DEF New, Fresh
  <2> QED BY <1>2, <1>4, <1>6, <1>7, <2>1 DEF Write
<1>9. latest' = (c :> 0) @@ latest BY <1>1, <1>2
<1>10. /\ \A u : u \in DOMAIN latest' <=> u = c \/ u \in DOMAIN latest
       /\ \A u \in DOMAIN latest : u # c => latest'[u] = latest[u]
  BY <1>9, AddedOne
<1>n. PICK now, late : now = folders' /\ late = latest' OBVIOUS
<1>11. now = (f :> Folder(s, m)) @@ folders /\ late = (c :> 0) @@ latest BY <1>8, <1>9, <1>n
<1>12. Stock'
  <2>1. WellFolders(folders, fresh, DOMAIN latest) BY <1>1 DEF Stock
  <2>2. WellFolders(now, fresh, DOMAIN latest \cup {c})
    BY <1>3, <1>5, <1>6, <1>7, <1>11, <2>1, WriteFolders
  <2>3. DOMAIN latest' = DOMAIN latest \cup {c} BY <1>10
  <2>4. WellFolders(folders, fresh, DOMAIN latest)' BY <1>1, <1>n, <2>2, <2>3
  <2>5. DOMAIN latest' \subseteq 0 .. calls' /\ DOMAIN effect' \subseteq 1 .. calls'
    BY <1>1, <1>2, <1>3, <1>10 DEF Stock, Call
  <2>6. written' \subseteq DOMAIN latest' BY <1>1, <1>8, <1>10 DEF Stock
  <2>7. \A n \in DOMAIN effect' : effect'[n].makes \subseteq DOMAIN latest' BY <1>1, <1>10 DEF Stock
  <2> QED BY <2>4, <2>5, <2>6, <2>7 DEF Stock
<1>13. ASSUME NEW log, Lies(Entries(index), log), NEW E, E = Entries(index) PROVE Lies(E, log)'
  <2>1. log \subseteq DOMAIN effect BY <1>13 DEF Lies
  <2>2. KnownIn(written, effect, log) \in SUBSET DOMAIN latest BY <1>1, <2>1, KnownFacts DEF Stock
  <2>3. Good(E, folders, latest, fresh, KnownIn(written, effect, log)) BY <1>13 DEF Lies
  <2>4. CASE Lists(f)
    <3>1. PICK e \in E : e.rec.folder = f BY <1>13, <2>4, ListsEntry
    <3>2. e.dir = s /\ Free(e) BY <1>5, <1>13, <3>1 DEF Calm
    <3>3. held = Lot(folders, e) BY <1>6, <3>1 DEF Lot, Held, Exists
    <3>4. WellFolders(folders, fresh, DOMAIN latest) BY <1>1 DEF Stock
    <3>5. Good(E, now, late, fresh, KnownIn(written, effect, log) \cup {c})
      BY <1>3, <1>7, <1>11, <2>2, <2>3, <3>1, <3>2, <3>3, <3>4, WriteKeeps
    <3>6. KnownIn(written \cup {c}, effect, log) \subseteq KnownIn(written, effect, log) \cup {c}
      BY <2>1, KnownFacts
    <3>7. written' = written \cup {c} BY <1>8, <2>4
    <3>8. KnownIn(written', effect, log) \subseteq KnownIn(written, effect, log) \cup {c} BY <3>6, <3>7
    <3>9. Good(E, now, late, fresh, KnownIn(written', effect, log)) BY <3>5, <3>8, GoodLess
    <3> QED BY <1>1, <1>n, <2>1, <3>9 DEF Lies
  <2>5. CASE ~ Lists(f)
    <3>1. written' = written BY <1>8, <2>5
    <3>2. \A e \in E : e.rec.folder # f BY <1>13, <2>5, ListsEntry
    <3>3. \A g : g # f => (g \in DOMAIN now <=> g \in DOMAIN folders) /\ (g \in DOMAIN folders => now[g] = folders[g])
      BY <1>11, AddedOne
    <3>4. \A t \in KnownIn(written, effect, log) : late[t] = latest[t] BY <1>3, <1>10, <1>n, <2>2
    <3>5. Good(E, now, late, fresh, KnownIn(written, effect, log)) BY <2>3, <3>2, <3>3, <3>4, UnlistedKeeps
    <3> QED BY <1>1, <1>n, <2>1, <3>1, <3>5 DEF Lies
  <2> QED BY <2>4, <2>5
<1>14. \A v \in Windows : ~ Manages(v) BY <1>1, EditorAlone
<1>15. OldInv' BY <1>1, WrittenOld
<1> QED BY <1>1, <1>12, <1>13, <1>14, <1>15, WrittenOnce

-----------------------------------------------------------------------------
(* What the invariant says of the index.                                     *)
LEMMA OnceTrue ==
    ASSUME OnceInv PROVE EveryTextOnce
<1> DEFINE Here(p) == {[place |-> p, model |-> i] : i \in DOMAIN Held(folders, p.rec)}
<1>1. ASSUME NEW t \in Known \ Dropped
      PROVE  \E c \in Copies(t) : Copies(t) = {c} /\ Held(folders, c.place.rec)[c.model].rev = latest[t]
  <2>1. t \in KnownIn(written, effect, index.log) BY <1>1, Zenon DEF Known, Dropped, KnownIn
  <2>2. OnceIn(Entries(index), folders, t, latest[t]) BY <2>1 DEF OnceInv, Sure, Lies, Good
  <2>3. PICK e \in Entries(index) : \E i :
           /\ Holds(folders, e, i, t) /\ Lot(folders, e)[i].rev = latest[t]
           /\ \A g \in Entries(index) : \A j : Holds(folders, g, j, t) => g = e /\ j = i
    BY <2>2 DEF OnceIn
  <2>4. PICK i : /\ Holds(folders, e, i, t) /\ Lot(folders, e)[i].rev = latest[t]
                 /\ \A g \in Entries(index) : \A j : Holds(folders, g, j, t) => g = e /\ j = i
    BY <2>3
  <2>5. \A p : p \in Places <=> \E g \in Entries(index) : p = PlaceOf(g) BY PlacesFacts DEF Places
  <2>6. \A g : PlaceOf(g).rec = g.rec BY DEF PlaceOf
  <2> HIDE DEF PlaceOf
  <2> DEFINE c == [place |-> PlaceOf(e), model |-> i]
  <2>7. Copies(t) = {x \in UNION {Here(p) : p \in Places} : Held(folders, x.place.rec)[x.model].text = t}
    BY Zenon DEF Copies
  <2>8. \A x, p : x \in Here(p) <=> \E j \in DOMAIN Held(folders, p.rec) : x = [place |-> p, model |-> j]
    OBVIOUS
  <2>9. \A x : x \in Copies(t) => x = c
    <3> TAKE x
    <3> SUFFICES ASSUME x \in Copies(t) PROVE x = c OBVIOUS
    <3> HIDE DEF Here, c
    <3>1. PICK p \in Places : x \in Here(p) /\ Held(folders, x.place.rec)[x.model].text = t BY <2>7
    <3>2. PICK j \in DOMAIN Held(folders, p.rec) : x = [place |-> p, model |-> j] BY <2>8, <3>1
    <3>3. x.place = p /\ x.model = j BY <3>2
    <3>4. PICK g \in Entries(index) : p = PlaceOf(g) BY <2>5, <3>1
    <3>5. p.rec = g.rec BY <2>6, <3>4
    <3>6. Holds(folders, g, j, t) BY <3>1, <3>2, <3>3, <3>5 DEF Holds, Lot
    <3>7. g = e /\ j = i BY <2>4, <3>6
    <3> QED BY <3>2, <3>4, <3>7 DEF c
  <2>10. c.place = PlaceOf(e) /\ c.model = i OBVIOUS
  <2>11. PlaceOf(e) \in Places /\ PlaceOf(e).rec = e.rec BY <2>5, <2>6
  <2>12. i \in DOMAIN Held(folders, e.rec) /\ Held(folders, e.rec)[i].text = t /\ Held(folders, e.rec)[i].rev = latest[t]
    BY <2>4 DEF Holds, Lot
  <2>13. c \in Here(PlaceOf(e)) BY <2>11, <2>12
  <2> HIDE DEF Here, c
  <2>14. c \in Copies(t) BY <2>7, <2>10, <2>11, <2>12, <2>13
  <2>15. Copies(t) = {c} BY <2>9, <2>14
  <2> QED BY <2>10, <2>11, <2>12, <2>14, <2>15
<1> QED BY <1>1 DEF EveryTextOnce

-----------------------------------------------------------------------------
(* The invariant of EveryTextOnce holds of every state.                      *)
LEMMA FirstEntries ==
    ASSUME Init
    PROVE  \E copy, refer : /\ \A e : e \in Entries(index) <=> e = copy \/ e = refer
                            /\ copy = Entry(1, 3, Recording("copy", 3, FALSE, 3), {})
                            /\ refer = Entry(1, 4, Recording("reference", 4, FALSE, 0), {})
<1> DEFINE cp == Recording("copy", 3, FALSE, 3)
           rf == Recording("reference", 4, FALSE, 0)
           two == (3 :> cp) @@ (4 :> rf)
<1>1. index.sessions = (1 :> two) @@ (2 :> Empty) /\ index.trash = {} /\ index.gone = Empty
  BY DEF Init, First
<1> HIDE DEF cp, rf
<1>2. \A x : x \in DOMAIN two <=> x = 3 \/ x = 4 BY DEF :>, @@
<1>3. two[3] = cp /\ two[4] = rf BY DEF :>, @@
<1> HIDE DEF two
<1>4. /\ \A s : s \in DOMAIN index.sessions <=> s = 1 \/ s = 2
      /\ index.sessions[1] = two /\ index.sessions[2] = Empty
  BY <1>1 DEF :>, @@
<1>5. DOMAIN Empty = {} BY DEF Empty
<1>6. \A e : e \in Entries(index) <=> \E s \in DOMAIN index.sessions : e \in OfRecs(s, index.sessions[s])
  <2>1. DOMAIN index.gone = {} BY <1>1, <1>5
  <2>2. \A e : e \notin OfItems(index.trash) BY <1>1 DEF OfItems
  <2>3. \A e : e \in Entries(index) <=>
           \/ \E s \in DOMAIN index.sessions : e \in OfRecs(s, index.sessions[s])
           \/ e \in OfItems(index.trash)
           \/ \E s \in DOMAIN index.gone : e \in OfRecs(s, index.gone[s].recs) \cup OfItems(index.gone[s].trash)
    BY EntriesFacts
  <2> QED BY <2>1, <2>2, <2>3
<1>7. \A s, recs, e : e \in OfRecs(s, recs) <=> \E r \in DOMAIN recs : e = Entry(s, r, recs[r], {})
  BY DEF OfRecs
<1>8. \A e : e \notin OfRecs(2, Empty) BY <1>5, <1>7
<1>9. \A e : e \in OfRecs(1, two) <=> e = Entry(1, 3, cp, {}) \/ e = Entry(1, 4, rf, {})
  BY <1>2, <1>3, <1>7
<1>10. \A e : e \in Entries(index) <=> e \in OfRecs(1, two) BY <1>4, <1>6, <1>8
<1> WITNESS Entry(1, 3, Recording("copy", 3, FALSE, 3), {}), Entry(1, 4, Recording("reference", 4, FALSE, 0), {})
<1> QED BY <1>9, <1>10, Zenon DEF cp, rf

LEMMA OnceInit ==
    ASSUME Init PROVE OnceInv
<1> DEFINE m == 1 :> [text |-> 0, rev |-> 0]
           T == DOMAIN latest
<1>1. /\ fresh = 4 /\ calls = 0 /\ written = {0} /\ effect = Empty /\ latest = (0 :> 0)
      /\ folders = (3 :> Folder(1, m)) /\ work = [w \in Windows |-> Idle] /\ index = First
  BY Zenon DEF Init
<1>2. T = {0} /\ latest[0] = 0 BY <1>1, OneFacts
<1>3. DOMAIN Empty = {} BY DEF Empty
<1>4. /\ WellModels(m, T) /\ DOMAIN m = {1} /\ m[1].text = 0 /\ m[1].rev = 0
      /\ \A i, t : Has(m, i, t) <=> i = 1 /\ t = 0
  <2>1. 0 \in T BY <1>2
  <2> QED BY <2>1, OneModel
<1> HIDE DEF m, T
<1>5. /\ folders[3].dir = 1 /\ folders[3].models = m /\ \A f : f \in DOMAIN folders <=> f = 3
      /\ \A l : 3 \in 1 .. l => WellFolders(folders, l, T)
  BY <1>1, <1>4, OneFolder
<1>6. Stock
  <2>1. WellFolders(folders, fresh, T) BY <1>1, <1>5
  <2> QED BY <1>1, <1>2, <1>3, <2>1 DEF Stock, T
<1>7. \A t \in KnownIn(written, effect, index.log) : t = 0
  BY <1>1, <1>3 DEF KnownIn, First
<1>8. Sure(index)
  <2>1. index.log = {} /\ DOMAIN index.gone = {} BY <1>1, <1>3 DEF First
  <2>2. Apart(index) /\ AtHome(index)
    <3>1. index.sessions = (1 :> ((3 :> Recording("copy", 3, FALSE, 3)) @@ (4 :> Recording("reference", 4, FALSE, 0))))
                            @@ (2 :> Empty)
      BY <1>1 DEF First
    <3> DEFINE one == (3 :> Recording("copy", 3, FALSE, 3)) @@ (4 :> Recording("reference", 4, FALSE, 0))
    <3> HIDE DEF one
    <3>2. index.sessions = (1 :> one) @@ (2 :> Empty) BY <3>1, Zenon DEF one
    <3>3. (\A s : s \in DOMAIN index.sessions <=> s = 1 \/ s = 2) /\ index.sessions[2] = Empty BY <3>2 DEF :>, @@
    <3> QED BY <1>3, <2>1, <3>3 DEF Apart, AtHome
  <2>3. PICK copy, refer : /\ \A e : e \in Entries(index) <=> e = copy \/ e = refer
                           /\ copy = Entry(1, 3, Recording("copy", 3, FALSE, 3), {})
                           /\ refer = Entry(1, 4, Recording("reference", 4, FALSE, 0), {})
    BY Zenon, FirstEntries
  <2>4. /\ copy.dir = 1 /\ copy.id = 3 /\ DOMAIN copy.rec = RecFields /\ copy.rec.folder = 3 /\ copy.item = {}
        /\ refer.dir = 1 /\ refer.id = 4 /\ DOMAIN refer.rec = RecFields /\ refer.rec.folder = 4 /\ refer.item = {}
    <3> DEFINE cp == Recording("copy", 3, FALSE, 3)
               rf == Recording("reference", 4, FALSE, 0)
    <3>1. DOMAIN cp = RecFields /\ cp.folder = 3 /\ DOMAIN rf = RecFields /\ rf.folder = 4
      BY DEF Recording, RecFields
    <3>2. copy = Entry(1, 3, cp, {}) /\ refer = Entry(1, 4, rf, {}) BY <2>3, Zenon
    <3> HIDE DEF cp, rf
    <3> QED BY <3>1, <3>2 DEF Entry
  <2>5. Lot(folders, copy) = m /\ Lot(folders, refer) = Empty
    BY <1>5, <2>4 DEF Lot, Held, Exists
  <2> HIDE DEF Entry
  <2>6. Shape(Entries(index), folders, fresh)
    <3> SUFFICES ASSUME NEW e \in Entries(index)
                 PROVE  /\ DOMAIN e.rec = RecFields /\ e.id \in 1 .. fresh /\ e.rec.folder \in 1 .. fresh
                        /\ e.rec.folder \in DOMAIN folders => folders[e.rec.folder].dir = e.dir
                        /\ e.item = {}
                        /\ \A g \in Entries(index) : g.rec.folder = e.rec.folder => g = e
      BY DEF Shape
    <3>1. e = copy \/ e = refer BY <2>3
    <3>2. \A g \in Entries(index) : g = copy \/ g = refer BY <2>3
    <3>3. 3 \in 1 .. fresh /\ 4 \in 1 .. fresh BY <1>1
    <3>4. CASE e = copy
      <4>1. \A g \in Entries(index) : g.rec.folder = e.rec.folder => g = e BY <2>4, <3>2, <3>4
      <4> QED BY <1>5, <2>4, <3>3, <3>4, <4>1
    <3>5. CASE e = refer
      <4>1. \A g \in Entries(index) : g.rec.folder = e.rec.folder => g = e BY <2>4, <3>2, <3>5
      <4>2. 4 \notin DOMAIN folders BY <1>5
      <4> QED BY <2>4, <3>3, <3>5, <4>1, <4>2
    <3> QED BY <3>1, <3>4, <3>5
  <2>7. OnceIn(Entries(index), folders, 0, latest[0])
    <3>1. copy \in Entries(index) BY <2>3
    <3>2. Holds(folders, copy, 1, 0) /\ Lot(folders, copy)[1].rev = latest[0]
      BY <1>2, <1>4, <2>5 DEF Holds
    <3>3. \A j : ~ Holds(folders, refer, j, 0) BY <1>3, <2>5 DEF Holds
    <3>4. \A j : Holds(folders, copy, j, 0) => j = 1 BY <1>4, <2>5 DEF Holds
    <3>5. \A g \in Entries(index) : \A j : Holds(folders, g, j, 0) => g = copy /\ j = 1
      BY <2>3, <3>3, <3>4
    <3> QED BY <3>1, <3>2, <3>5 DEF OnceIn
  <2>8. Good(Entries(index), folders, latest, fresh, KnownIn(written, effect, index.log))
    BY <1>7, <2>6, <2>7 DEF Good
  <2> QED BY <2>1, <2>2, <2>8 DEF Sure, Lies
<1>9. \A w \in Windows : WorkInv(w)
  <2>1. \A w \in Windows : work[w].pc = "idle" BY <1>1 DEF Idle
  <2> QED BY <2>1 DEF WorkInv, Asks, Undoes, Busy
<1> QED BY <1>6, <1>8, <1>9 DEF OnceInv

LEMMA OldInit ==
    ASSUME Init PROVE OldInv
<1>1. PICK E : E = Entries(index) OBVIOUS
<1>2. Shape(E, folders, fresh) BY <1>1, OnceInit DEF OnceInv, Sure, Lies, Good
<1>3. Parted(E, E) /\ \A f, s : Offers(f, s, E) => f \in 1 .. fresh BY <1>2, OwnCalm
<1>4. \A f, s : Opened(f, s) => Offers(f, s, E)
  <2>1. \A w \in Windows : editor[w] = None /\ snap[w] = index BY DEF Init
  <2> QED BY <1>1, <2>1 DEF Opened
<1>5. Old(Entries(index)) BY <1>1, <1>3, <1>4 DEF Old, Parted
<1>6. \A w \in Windows : ~ Undoes(w) /\ ~ Asks(w)
  <2>1. \A w \in Windows : work[w].pc = "idle" BY DEF Init, Idle
  <2> QED BY <2>1 DEF Undoes, Asks
<1> QED BY <1>3, <1>4, <1>5, <1>6 DEF OldInv

LEMMA OnceStep ==
    ASSUME IInv, OnceInv, OldInv, StuckLate = FALSE, [Next]_vars PROVE OnceInv' /\ OldInv'
<1>1. CASE UNCHANGED vars
  <2>1. UNCHANGED <<index, folders, snap, lease, work, editor, latest, effect, written, fresh, calls>>
    BY <1>1 DEF vars, disk, ends, reports, texts
  <2>2. Settled BY <2>1 DEF Settled
  <2>3. Stock' /\ Sure(index)'
    <3>1. Sure(index') BY <2>1 DEF OnceInv
    <3>2. Stock BY DEF OnceInv
    <3> QED BY <2>2, <3>1, <3>2, SettledKeeps
  <2>4. ASSUME NEW w \in Windows PROVE WorkInv(w)'
    <3>1. Manages(w) <=> Manages(w)' BY <2>1 DEF Manages
    <3>2. \A E, log : Lies(E, log) => Lies(E, log)' BY <2>2, SettledKeeps
    <3>3. \A c \in DOMAIN effect : c \in DOMAIN effect' /\ effect'[c] = effect[c] BY <2>1
    <3>4. WorkInv(w) BY DEF OnceInv
    <3>5. \A E, log : (Manages(w) \/ E = Entries(index)) /\ Lies(E, log) => Lies(E, log)' BY <3>2
    <3>6. /\ work'[w] = work[w] /\ snap'[w] = snap[w] /\ (Manages(w) => Manages(w)')
          /\ (work[w].pc \in {"publish", "putback"} => index' = index)
          /\ (Manages(w) => Entries(index') = Entries(index))
      BY <2>1, <3>1
    <3> QED BY <3>3, <3>4, <3>5, <3>6, Others
  <2>5. OnceInv' BY <2>3, <2>4 DEF OnceInv
  <2> QED BY <2>1, <2>5, WrittenOld
<1>2. ASSUME NEW w \in Windows, Describe(w) \/ CreateSession(w) \/ Rename(w) PROVE OnceInv' /\ OldInv'
  BY <1>2, MetadataOnce, RenameOnce
<1>3. ASSUME NEW w \in Windows,
             Import(w) \/ RelinkMedia(w) \/ MoveRecording(w) \/ ReassignManuscript(w)
      PROVE  OnceInv' /\ OldInv'
  BY <1>3, ImportOnce, MoveOnce
<1>4. ASSUME NEW w \in Windows, Trash(w) \/ TrashInterview(w) \/ Restore(w) \/ Clear(w)
      PROVE  OnceInv' /\ OldInv'
  BY <1>4, TrashOnce
<1>5. ASSUME NEW w \in Windows, Check(w) \/ Publish(w) \/ PutBack(w) \/ Tidy(w)
      PROVE  OnceInv' /\ OldInv'
  <2>1. OnceInv' BY <1>5, CheckOnce, PublishOnce, PutBackOnce, TidyOnce
  <2>2. OldInv' BY <1>5, CheckOld, PublishOld, PutBackOld, TidyOld
  <2> QED BY <2>1, <2>2
<1>6. ASSUME NEW w \in Windows,
             Open(w) \/ Enter(w) \/ FollowLink(w) \/ Leave(w) \/ Edit(w) \/ Write(w) \/ Close(w)
      PROVE  OnceInv' /\ OldInv'
  <2>1. CASE Edit(w) \/ Write(w) BY <2>1, EditOnce, WriteOnce
  <2>2. CASE Open(w) \/ Enter(w) \/ FollowLink(w) \/ Leave(w) \/ Close(w) BY <2>2, IdleOnce, IdleOld
  <2> QED BY <1>6, <2>1, <2>2
<1> QED BY <1>1, <1>2, <1>3, <1>4, <1>5, <1>6 DEF Next

\* Every text that was brought or written is listed in one place, with all that was
\* edited in it, until the trash is emptied (EveryTextOnce): whatever windows move,
\* detach, remove, restore or import (the mutations of projectStore.ts), wherever a
\* save fails or loses its lease, and whatever old snapshot a recording is opened
\* from (ProjectWorkspace.tsx:285), if the old index can be put back.  Texts that are
\* edited or written in a folder which the index no longer lists do not count.
THEOREM TextsKept ==
    ASSUME StuckLate = FALSE PROVE Spec => []EveryTextOnce
<1>1. Init => OnceInv /\ OldInv BY OnceInit, OldInit
<1>2. IInv /\ OnceInv /\ OldInv /\ [Next]_vars => OnceInv' /\ OldInv' BY OnceStep
<1>3. Spec => []IInv BY Invariance
<1>4. OnceInv => EveryTextOnce BY OnceTrue
<1> QED BY <1>1, <1>2, <1>3, <1>4, PTL DEF Spec
=============================================================================
