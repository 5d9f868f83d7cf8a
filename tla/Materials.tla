----------------------------- MODULE Materials -----------------------------
(* Decisions about the materials of a project, fe/lib/projectStore.ts: what an *)
(* operation stages and the index it asks for, as functions of the index a      *)
(* window knows and of the folders on disk.  Sessions, recordings, folders and  *)
(* media have numbers; an operation takes its new ones after "n", the last one  *)
(* used.  A folder is in the directory of a session and holds models under      *)
(* their ids; a model is its text, at the revision copied or written there.     *)
EXTENDS Integers, FiniteSets, Functions

\* As in the module TLC, whose operators the provers cannot look into.
a :> b == [x \in {a} |-> b]
f @@ g == [x \in DOMAIN f \cup DOMAIN g |-> IF x \in DOMAIN f THEN f[x] ELSE g[x]]

Empty == [x \in {} |-> x]
Without(f, x) == Restrict(f, DOMAIN f \ {x})

\* A recording of a session; "named" when the index gives its folder, which else
\* follows from its file name.  An entry without audio is a document.
Recording(storage, folder, named, copy) ==
    [storage |-> storage, folder |-> folder, named |-> named, media |-> copy]
Document(folder) == Recording("none", folder, TRUE, 0)
IsAudio(rec) == rec.storage # "none"
In(rec, folder) == [rec EXCEPT !.folder = folder, !.named = TRUE]

Folder(s, models) == [dir |-> s, models |-> models]
Exists(folders, rec) == rec.folder \in DOMAIN folders
Held(folders, rec) == IF Exists(folders, rec) THEN folders[rec.folder].models ELSE Empty
FreeId(models) == CHOOSE i \in 1 .. (Cardinality(DOMAIN models) + 1) :
                     i \notin DOMAIN models /\ \A j \in 1 .. (i - 1) : j \in DOMAIN models
Texts(models) == {models[i].text : i \in DOMAIN models}

\* What an operation stages, the index it wants saved, the texts it brings and
\* gives up, and what it removes: afterwards (old), or if it fails (undo).
Asking(ix) == [next |-> ix, folders |-> Empty, media |-> Empty, makes |-> {}, drops |-> {},
               old |-> {}, oldMedia |-> {}, undo |-> FALSE]
Staging(ix, folders) == [Asking(ix) EXCEPT !.folders = folders]

PutSession(ix, s, recs) == [ix EXCEPT !.sessions[s] = recs]
PutRecording(ix, s, r, rec) == PutSession(ix, s, (r :> rec) @@ ix.sessions[s])

-----------------------------------------------------------------------------
(* Sessions and imports                                                      *)
AddSession(ix, n) == Asking([ix EXCEPT !.sessions = ((n + 1) :> Empty) @@ @])

\* importProjectMaterials: an audio, alone or with a text; a text alone; a text
\* for an audio that is there, into a copy of what it has.
ImportAudio(ix, s, n, storage, models) ==
    LET copy == IF storage = "copy" THEN n + 1 ELSE 0
    IN [Asking(PutRecording(ix, s, n + 1, Recording(storage, n + 1, FALSE, copy)))
          EXCEPT !.folders = IF models = Empty THEN Empty ELSE (n + 1) :> Folder(s, models),
                 !.media = IF storage = "copy" THEN copy :> s ELSE Empty,
                 !.makes = Texts(models), !.undo = TRUE]
ImportText(ix, s, n, new) ==
    [Staging(PutRecording(ix, s, n + 1, Recording("none", n + 1, FALSE, 0)),
             (n + 1) :> Folder(s, 1 :> new)) EXCEPT !.makes = {new.text}, !.undo = TRUE]
AppendText(ix, folders, s, r, n, new) ==
    LET rec == ix.sessions[s][r]
        held == Held(folders, rec)
    IN [Staging(PutRecording(ix, s, r, In(rec, n + 1)),
                (n + 1) :> Folder(s, (FreeId(held) :> new) @@ held))
          EXCEPT !.makes = {new.text}, !.undo = TRUE]

\* importExistingManuscript, for a recording whose folder is not there yet.
ImportExisting(ix, s, r, n, new) ==
    [Staging(PutRecording(ix, s, r, In(ix.sessions[s][r], n + 1)), (n + 1) :> Folder(s, 1 :> new))
       EXCEPT !.makes = {new.text}]

\* relinkMedia: a copy in the project is left where it is.
Relink(ix, s, r) ==
    Asking(PutRecording(ix, s, r, [ix.sessions[s][r] EXCEPT !.storage = "reference", !.media = 0]))

-----------------------------------------------------------------------------
(* Moving texts: originals stay on disk, copies are put in their place.       *)

\* moveProjectRecordings: the other session gets copies, of the audio too.
Moved(rec, n) == [rec EXCEPT !.folder = n + 1, !.media = IF rec.storage = "copy" THEN n + 1 ELSE 0]
Move(ix, folders, s, d, r, n) ==
    LET rec == ix.sessions[s][r]
        to == [Moved(rec, n) EXCEPT !.named = Exists(folders, rec)]
    IN [Staging(PutRecording(PutSession(ix, s, Without(ix.sessions[s], r)), d, r, to),
                IF Exists(folders, rec) THEN (n + 1) :> Folder(d, Held(folders, rec)) ELSE Empty)
          EXCEPT !.media = IF rec.storage = "copy" THEN (n + 1) :> d ELSE Empty]

\* reassignManuscript: the models "ids" of one recording go to another, or (0) to
\* a document of their own; the rest is copied into a new folder.
JoinedOver(held, i, model) == (i :> model) @@ held
Joined(held, i, model) == ((IF i \in DOMAIN held THEN FreeId(held) ELSE i) :> model) @@ held
Remains(rec, rest, n) == IF ~IsAudio(rec) /\ rest = Empty THEN {} ELSE {In(rec, n)}
Reassign(ix, folders, s, src, dst, ids, n) ==
    LET recs == ix.sessions[s]
        held == Held(folders, recs[src])
        rest == Restrict(held, DOMAIN held \ ids)
        there == IF dst = 0 THEN Empty ELSE Held(folders, recs[dst])
        staged == IF there = Empty THEN Restrict(held, ids)
                  ELSE LET i == CHOOSE i \in ids : TRUE IN Joined(there, i, held[i])
        to == IF dst = 0 THEN (n + 3) :> Document(n + 1) ELSE dst :> In(recs[dst], n + 1)
        from == [r \in {x \in {src} : Remains(recs[src], rest, n + 2) # {}} |-> In(recs[src], n + 2)]
    IN Staging(PutSession(ix, s, to @@ from @@ Restrict(recs, DOMAIN recs \ {src})),
               ((n + 1) :> Folder(s, staged)) @@ ((n + 2) :> Folder(s, rest)))

-----------------------------------------------------------------------------
(* The trash                                                                 *)
Item(s, id, rec, orig, kept) == [session |-> s, id |-> id, rec |-> rec, orig |-> orig, kept |-> kept]
Discarded(ix, s, recs, item) == [PutSession(ix, s, recs) EXCEPT !.trash = @ \cup {item}]

\* trashProjectMaterial: a recording with its texts; one whose texts stay, as a
\* document; or one model of a recording.
TrashAll(ix, s, r) ==
    Asking(Discarded(ix, s, Without(ix.sessions[s], r), Item(s, r, ix.sessions[s][r], 0, 0)))
TrashAudio(ix, folders, s, r, n) ==
    LET rec == ix.sessions[s][r]
    IN Staging(Discarded(ix, s, ((n + 2) :> Document(n + 2)) @@ Without(ix.sessions[s], r),
                         Item(s, r, In(rec, n + 1), 0, n + 2)),
               ((n + 1) :> Folder(s, Empty)) @@ ((n + 2) :> Folder(s, Held(folders, rec))))
TrashModel(ix, folders, s, r, i, n) ==
    LET rec == ix.sessions[s][r]
        held == Held(folders, rec)
        rest == Without(held, i)
        from == [x \in {y \in {r} : Remains(rec, rest, n + 2) # {}} |-> In(rec, n + 2)]
    IN Staging(Discarded(ix, s, from @@ Without(ix.sessions[s], r),
                         Item(s, n + 3, Document(n + 1), IF IsAudio(rec) THEN r ELSE 0, 0)),
               ((n + 1) :> Folder(s, Restrict(held, {i}))) @@ ((n + 2) :> Folder(s, rest)))

\* restoreProjectMaterial: the audio takes back the document kept of it; a model
\* goes back to its audio, or stands alone where its id is taken by now.
KeptOf(recs, item) == {r \in DOMAIN recs \cap {item.kept} : ~IsAudio(recs[r])}
Restorable(ix, item) == item.session \in DOMAIN ix.sessions /\ item.id \notin DOMAIN ix.sessions[item.session]
RestoreMaterial(ix, folders, item, n) ==
    LET s == item.session
        kept == KeptOf(ix.sessions[s], item)
        recs == Restrict(ix.sessions[s], DOMAIN ix.sessions[s] \ kept)
        rec == IF kept = {} THEN item.rec
               ELSE [item.rec EXCEPT !.folder = ix.sessions[s][item.kept].folder,
                                     !.named = ix.sessions[s][item.kept].named]
        from == Held(folders, rec)
        out == [ix EXCEPT !.trash = @ \ {item}]
        attach == /\ item.orig \in DOMAIN recs /\ IsAudio(recs[item.orig]) /\ Exists(folders, rec)
                  /\ DOMAIN from \cap DOMAIN Held(folders, recs[item.orig]) = {}
    IN IF attach
       THEN Staging(PutSession(out, s, (item.orig :> In(recs[item.orig], n + 1)) @@ recs),
                    (n + 1) :> Folder(s, from @@ Held(folders, recs[item.orig])))
       ELSE Asking(PutSession(out, s, (item.id :> rec) @@ recs))

\* trashProjectInterview, restoreProjectInterview: a session with what it has in
\* the trash.
ItemsOf(ix, s) == {item \in ix.trash : item.session = s}
TrashSession(ix, s) ==
    Asking([ix EXCEPT !.sessions = Without(@, s), !.trash = @ \ ItemsOf(ix, s),
                      !.gone = (s :> [recs |-> ix.sessions[s], trash |-> ItemsOf(ix, s)]) @@ @])
Ids(sessions) == DOMAIN sessions \cup UNION {DOMAIN sessions[s] : s \in DOMAIN sessions}
RestoreSession(ix, s) ==
    Asking([ix EXCEPT !.sessions = (s :> ix.gone[s].recs) @@ @, !.trash = @ \cup ix.gone[s].trash,
                      !.gone = Without(@, s)])

\* Where the index lists texts: recordings and items of the trash.
ActivePlaces(ix) == UNION {{[dir |-> s, id |-> r, rec |-> ix.sessions[s][r]] :
                               r \in DOMAIN ix.sessions[s]} : s \in DOMAIN ix.sessions}
ItemPlaces(items) == {[dir |-> item.session, id |-> item.id, rec |-> item.rec] : item \in items}
TrashPlaces(ix) == ItemPlaces(ix.trash) \cup UNION
    {{[dir |-> s, id |-> r, rec |-> ix.gone[s].recs[r]] : r \in DOMAIN ix.gone[s].recs}
        \cup ItemPlaces(ix.gone[s].trash) : s \in DOMAIN ix.gone}

\* clearProjectTrash: the folders and audio of the items that no recording of
\* their session uses, and the directories of the sessions.
ClearTrash(ix, folders) ==
    LET active(item) == {ix.sessions[item.session][r] : r \in DOMAIN ix.sessions[item.session]}
    IN [Asking([ix EXCEPT !.trash = {}, !.gone = Empty])
          EXCEPT !.drops = UNION {Texts(Held(folders, p.rec)) : p \in TrashPlaces(ix)},
                 !.old = {item.rec.folder : item \in
                            {x \in ix.trash : \A rec \in active(x) : rec.folder # x.rec.folder}}
                         \cup {f \in DOMAIN folders : folders[f].dir \in DOMAIN ix.gone},
                 !.oldMedia = {item.rec.media : item \in
                            {x \in ix.trash : \A rec \in active(x) : rec.media # x.rec.media}}
                         \cup UNION {{ix.gone[s].recs[r].media : r \in DOMAIN ix.gone[s].recs} : s \in DOMAIN ix.gone}]

-----------------------------------------------------------------------------
\* parseProject, what it asks of the references of an index.
Sound(ix) ==
    /\ \A s \in DOMAIN ix.sessions \cup DOMAIN ix.gone :
          \A t \in (DOMAIN ix.sessions \cup DOMAIN ix.gone) \ {s} :
             LET of(x) == DOMAIN (IF x \in DOMAIN ix.sessions THEN ix.sessions[x] ELSE ix.gone[x].recs)
             IN of(s) \cap of(t) = {}
    /\ DOMAIN ix.sessions \cap DOMAIN ix.gone = {}
    /\ \A item \in ix.trash : item.session \in DOMAIN ix.sessions
=============================================================================
