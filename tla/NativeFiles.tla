----------------------------- MODULE NativeFiles -----------------------------
(* The file system that the desktop shell gives the page in the place of a   *)
(* browser's: frontend/src/lib/desktopFs.ts over desktop/src-tauri/src/      *)
(* main.rs, grants.rs and file_transfer.rs.  A folder is reached by the root *)
(* of a handle, the path it had when the user chose it; the registry of      *)
(* grants knows where it is now and which folder it has to be.  A file is    *)
(* written through a session: a temporary file beside it, which takes its    *)
(* place at the commit, and read piece by piece.                             *)
(*                                                                           *)
(* One step is one command of the shell.  The folders are projects, with one *)
(* file, whose text n has n pieces.                                          *)
EXTENDS Naturals, Sequences

CONSTANTS Places,     \* the paths at which a folder can be
          Dirs,       \* the folders, by their identity (device and inode)
          Lengths,    \* the texts, by their number of pieces
          Slots,      \* the calls of the page that can be under way at once, by number
          None,
          MaxQueue,   \* the documents that wait to be opened (16)
          MaxIds, MaxTrips, MaxFailures   \* bounds: calls, events outside, failures

NativeAssumption == /\ Lengths \subseteq Nat \ {0} /\ Slots \subseteq Nat
                    /\ None \notin Dirs /\ Dirs # {}
                    /\ {MaxQueue, MaxIds, MaxTrips, MaxFailures} \subseteq Nat

VARIABLES
    place,     \* which folder is at a path
    text,      \* the file of a folder, as its pieces
    temps,     \* the temporary files of a folder, by the id of their session
    grant,     \* Grants.entries: of a root, the path and the identity
    registry,  \* the saved registry
    waiting,   \* PendingProjects: documents opened from the system
    session,   \* Writes: of an id, the target and what was received
    request,   \* the calls of the page
    project,   \* the root of the open project
    recent,    \* the projects opened before: of a project, the root
    ids, trips, failures,
    chosen, put   \* history: what the user chose, the calls whose text is in place

filesVars == <<place, text, temps, grant, registry, waiting, session, request, project, recent,
               ids, trips, failures, chosen, put>>

WholeText(n) == [i \in 1 .. n |-> n]
Wholes == {WholeText(n) : n \in Lengths}
Idle == [pc |-> "idle", caller |-> "none", what |-> 0, id |-> 0, sent |-> 0, size |-> 0,
         got |-> <<>>, replaced |-> FALSE, outcome |-> "none"]

\* A folder is at a path, there are others elsewhere; no path or folder is special.
Nowhere == [p \in Places |-> None]
Somewhere == {[Nowhere EXCEPT ![CHOOSE p \in Places : TRUE] = CHOOSE d \in Dirs : TRUE]}

Start(places, texts) ==
        /\ place \in places /\ text \in texts
        /\ temps = [d \in Dirs |-> {}]
        /\ grant = Nowhere /\ registry = grant /\ waiting = <<>>
        /\ session = [i \in 1 .. MaxIds |-> None]
        /\ request = [s \in Slots |-> Idle] /\ project = None
        /\ recent = [d \in Dirs |-> None]
        /\ ids = 0 /\ trips = 0 /\ failures = 0
        /\ chosen = {} /\ put = {}

\* The file is missing, or has the longest text.
Longest == {n \in Lengths : \A m \in Lengths : m <= n}
FilesInit == Start(Somewhere, {[d \in Dirs |-> t] :
                                  t \in {None} \cup {WholeText(n) : n \in Longest}})

-----------------------------------------------------------------------------
(* Grants                                                                     *)

\* grant_path: the grant of the root, if the folder at its path is still the one.
ValidatesByPath(g) == g # None /\ place[g.at] # None
Validates(g) == g # None /\ place[g.at] # None /\ place[g.at] = g.is
Permitted(root) == Validates(grant[root])
Folder(root) == place[grant[root].at]

MayFail == failures < MaxFailures /\ failures' = failures + 1

\* Grants::remember: the registry first, then the entries; a failure leaves both.
Remember(root, p) == /\ grant' = [grant EXCEPT ![root] = [at |-> p, is |-> place[p]]]
                     /\ registry' = grant'
                     /\ chosen' = chosen \cup {place[p]}

\* A project is opened when no call on the file of another is under way.
NoCalls == \A s \in Slots : request[s].pc = "idle"
SameFiles == UNCHANGED <<place, text, temps, session, request, ids, trips, put>>

\* openProject and rememberProject: every folder here is a project.
Opened(root) == project' = root /\ recent' = [recent EXCEPT ![place[root]] = root]

\* pick_project, pick_directory, and the parent of pick_save_file.
Pick(p) == /\ NoCalls /\ place[p] # None
           /\ \/ Remember(p, p) /\ Opened(p) /\ UNCHANGED failures
              \/ MayFail /\ UNCHANGED <<grant, registry, chosen, project, recent>>
           /\ SameFiles /\ UNCHANGED waiting

\* PendingProjects::enqueue, for a document that the system asks to open.
OpenDocument(p) ==
    /\ trips < MaxTrips /\ trips' = trips + 1
    /\ place[p] # None /\ Len(waiting) < MaxQueue /\ \A i \in DOMAIN waiting : waiting[i] # p
    /\ waiting' = Append(waiting, p)
    /\ UNCHANGED <<place, text, temps, grant, registry, session, request, project, recent, ids,
                   failures, chosen, put>>

\* project_open_next, when the page is ready: taken out, whether it can be opened or not.
NextDocument ==
    /\ NoCalls /\ waiting # <<>> /\ waiting' = Tail(waiting)
    /\ LET p == Head(waiting) IN
       IF place[p] # None
       THEN \/ Remember(p, p) /\ Opened(p) /\ UNCHANGED failures
            \/ MayFail /\ UNCHANGED <<grant, registry, chosen, project, recent>>
       ELSE UNCHANGED <<grant, registry, chosen, project, recent, failures>>
    /\ SameFiles

\* openChosenProject with a project opened before: no dialog, and only that project.
OpenRecent(d) ==
    /\ NoCalls /\ recent[d] # None /\ project # recent[d]
    /\ Permitted(recent[d]) /\ Folder(recent[d]) = d
    /\ project' = recent[d] /\ UNCHANGED recent
    /\ SameFiles /\ UNCHANGED <<grant, registry, waiting, failures, chosen>>

\* requestPermission: the user has to choose what is at the path of the root now.
Reauthorize(root) ==
    /\ NoCalls /\ (\E d \in Dirs : recent[d] = root) /\ ~Permitted(root) /\ place[root] # None
    /\ \/ Remember(root, root) /\ UNCHANGED failures
       \/ MayFail /\ UNCHANGED <<grant, registry, chosen>>
    /\ SameFiles /\ UNCHANGED <<waiting, project, recent>>

-----------------------------------------------------------------------------
(* Calls of the page on the file of its project                               *)

CallStep == UNCHANGED <<place, grant, registry, waiting, project, recent, trips, chosen>>
Become(s, c) == request' = [request EXCEPT ![s] = c]
Ends(s, outcome) == Become(s, [Idle EXCEPT !.outcome = outcome])
At(s, pc) == request[s].pc = pc
Free(s) == At(s, "idle") /\ \A r \in Slots : At(r, "idle") => s <= r
Can == project # None /\ Permitted(project)
Here == Folder(project)

\* A call begins with getFileHandle, which finds out about the file (fs_stat).
Begins(s, pc, found, absent) ==
    /\ project # None /\ Free(s) /\ ids < MaxIds /\ ids' = ids + 1 /\ put' = put \ {s}
    /\ Become(s, IF ~Can THEN [Idle EXCEPT !.outcome = "failed"]
                 ELSE IF text[Here] = None THEN absent ELSE [found EXCEPT !.pc = pc])
    /\ CallStep /\ UNCHANGED <<text, temps, session, failures>>

\* Some callers read back what they wrote.
Callers == {"writes", "checks"}
Write(s, n, caller) ==
    LET c == [Idle EXCEPT !.caller = caller, !.what = n, !.id = ids + 1]
    IN  Begins(s, "begin", c, [c EXCEPT !.pc = "create"])
ReadText(s) == LET c == [Idle EXCEPT !.caller = "reads"]
               IN  Begins(s, "size", c, [Idle EXCEPT !.outcome = "missing"])

\* fs_create_file, for a writer of a file that is missing.
CreateFile(s) ==
    /\ At(s, "create")
    /\ IF Can THEN /\ text' = [text EXCEPT ![Here] = IF @ = None THEN <<>> ELSE @]
                   /\ Become(s, [request[s] EXCEPT !.pc = "begin"])
       ELSE Ends(s, "failed") /\ UNCHANGED text
    /\ CallStep /\ UNCHANGED <<temps, session, ids, failures, put>>

\* createWritable: fs_begin_write; that it was refused shows at the first piece.
BeginWrite(s) ==
    /\ At(s, "begin")
    /\ Become(s, [request[s] EXCEPT !.pc = "send"])
    /\ \/ /\ Can
          /\ session' = [session EXCEPT ![request[s].id] = [to |-> grant[project].at, holds |-> <<>>]]
          /\ temps' = [temps EXCEPT ![Here] = @ \cup {request[s].id}]
          /\ UNCHANGED failures
       \/ /\ IF Can THEN MayFail ELSE UNCHANGED failures
          /\ UNCHANGED <<session, temps>>
    /\ CallStep /\ UNCHANGED <<text, ids, put>>

\* A session that ends takes its temporary file along, if that is still where it was.
Temporary(i) == session[i] # None /\ place[session[i].to] # None /\ i \in temps[place[session[i].to]]
Dropped(i) == IF Temporary(i) THEN [temps EXCEPT ![place[session[i].to]] = @ \ {i}] ELSE temps

\* Most callers abort a stream that failed, some do not (pipeTo, localStore's writers).
Fails(s) == \/ Become(s, [request[s] EXCEPT !.pc = "abort"])
            \/ request[s].caller = "writes" /\ Ends(s, "failed")

\* fs_write_chunk
Received(i, piece) == [session EXCEPT ![i].holds = Append(@, piece)]
Send(s) ==
    /\ At(s, "send")
    /\ \/ /\ session[request[s].id] # None
          /\ session' = Received(request[s].id, request[s].what)
          /\ Become(s, [request[s] EXCEPT !.sent = @ + 1,
                           !.pc = IF request[s].sent + 1 = request[s].what THEN "commit" ELSE "send"])
          /\ UNCHANGED failures
       \/ /\ IF session[request[s].id] # None THEN MayFail ELSE UNCHANGED failures
          /\ Fails(s) /\ UNCHANGED session
    /\ CallStep /\ UNCHANGED <<text, temps, ids, put>>

\* fs_commit_write: the session is over, whether its file takes the place or not.
Replacing(d, holds) ==
    [r \in Slots |-> IF request[r].pc = "read" /\ Here = d /\ Len(holds) >= request[r].size
                     THEN [request[r] EXCEPT !.replaced = TRUE] ELSE request[r]]
Commit(s) ==
    /\ At(s, "commit")
    /\ LET i == request[s].id  d == place[session[i].to] IN
       /\ session' = [session EXCEPT ![i] = None] /\ temps' = Dropped(i)
       /\ \/ /\ Temporary(i)
             /\ text' = [text EXCEPT ![d] = session[i].holds]
             /\ request' = [Replacing(d, session[i].holds) EXCEPT ![s] =
                           IF request[s].caller = "checks" THEN [request[s] EXCEPT !.pc = "size"]
                           ELSE [Idle EXCEPT !.outcome = "ok"]]
             /\ put' = put \cup {s} /\ UNCHANGED failures
          \/ /\ IF Temporary(i) THEN MayFail ELSE UNCHANGED failures
             /\ Fails(s) /\ UNCHANGED <<text, put>>
    /\ CallStep /\ UNCHANGED ids

\* abort: fs_abort_write; what the caller sees is the first error.
Abort(s) ==
    /\ At(s, "abort")
    /\ session' = [session EXCEPT ![request[s].id] = None]
    /\ temps' = Dropped(request[s].id)
    /\ Ends(s, "failed")
    /\ CallStep /\ UNCHANGED <<text, ids, failures, put>>

-----------------------------------------------------------------------------
(* getFile: the size, then the pieces; also to check what was written         *)

Unread(s) == Ends(s, IF request[s].caller = "checks" THEN "unread" ELSE "failed")
HasRead(s, got) ==
    IF request[s].caller = "checks" THEN Ends(s, IF got = WholeText(request[s].what) THEN "ok" ELSE "unread")
    ELSE Become(s, [Idle EXCEPT !.got = got, !.replaced = request[s].replaced, !.outcome = "read"])

GetSize(s) ==
    /\ At(s, "size")
    /\ IF ~Can \/ text[Here] = None THEN Unread(s)
       ELSE IF text[Here] = <<>> THEN HasRead(s, <<>>)
       ELSE Become(s, [request[s] EXCEPT !.pc = "read", !.size = Len(text[Here])])
    /\ CallStep /\ UNCHANGED <<text, temps, session, ids, failures, put>>

\* a piece that is not there any longer: the file changed while it was read
InFull(pieces, i) == i <= Len(pieces)
ReadPiece(s) ==
    /\ At(s, "read")
    /\ LET i == Len(request[s].got) + 1 IN
       IF ~Can \/ text[Here] = None THEN Unread(s)
       ELSE IF ~InFull(text[Here], i) THEN Unread(s)
       ELSE LET got == Append(request[s].got, text[Here][i]) IN
            IF i = request[s].size THEN HasRead(s, got)
            ELSE Become(s, [request[s] EXCEPT !.got = got])
    /\ CallStep /\ UNCHANGED <<text, temps, session, ids, failures, put>>

-----------------------------------------------------------------------------
(* Outside                                                                    *)

\* The user moves folders about, with what is in them.
Takes(p, d) == /\ trips < MaxTrips /\ trips' = trips + 1
               /\ place' = [place EXCEPT ![p] = d]
               /\ UNCHANGED <<text, temps, grant, registry, waiting, session, request, project,
                              recent, ids, failures, chosen, put>>
MovesAway(p) == place[p] # None /\ Takes(p, None)
MovesIn(p, d) == place[p] = None /\ d \notin {place[q] : q \in Places} /\ Takes(p, d)

\* The program ends and is started again (Grants::load): a bookmark may find the
\* folder of a grant where it is now.
Bookmarked(g) == IF g = None THEN {None}
                 ELSE {g} \cup {[g EXCEPT !.at = p] : p \in {q \in Places : place[q] = g.is}}
Restart ==
    /\ trips < MaxTrips /\ trips' = trips + 1
    /\ grant' \in {f \in [Places -> UNION {Bookmarked(registry[p]) : p \in Places}] :
                      \A p \in Places : f[p] \in Bookmarked(registry[p])}
    /\ session' = [i \in 1 .. MaxIds |-> None]
    /\ request' = [s \in Slots |-> Idle] /\ project' = None /\ waiting' = <<>> /\ put' = {}
    /\ UNCHANGED <<place, text, temps, registry, recent, ids, failures, chosen>>

CallOf(s) == \/ \E n \in Lengths, caller \in Callers : Write(s, n, caller)
             \/ ReadText(s) \/ CreateFile(s) \/ BeginWrite(s) \/ Send(s) \/ Commit(s)
             \/ Abort(s) \/ GetSize(s) \/ ReadPiece(s)

FilesNext ==
    \/ \E p \in Places : \/ Pick(p) \/ OpenDocument(p) \/ Reauthorize(p) \/ MovesAway(p)
                         \/ \E d \in Dirs : MovesIn(p, d)
    \/ \E d \in Dirs : OpenRecent(d)
    \/ NextDocument \/ Restart \/ \E s \in Slots : CallOf(s)

FilesSpec == FilesInit /\ [][FilesNext]_filesVars

-----------------------------------------------------------------------------
(* What the user asks of a file is what happens.  A file changes only in a    *)
(* folder that the user chose, never in another that took its path, and to    *)
(* one text whole, whatever fails or is cut off.  A write that is reported    *)
(* done is in place, and one that failed is not, unless its text was put in   *)
(* place and could not be read back; and what a read returns is one text      *)
(* whole, if the file was not meanwhile replaced by one at least as long,     *)
(* which getFile cannot tell.                                                 *)
Honest(s, c) ==
    CASE c.outcome = "ok"     -> s \in put'
      [] c.outcome = "failed" -> s \notin put'
      [] c.outcome = "read"   -> c.replaced \/ c.got \in Wholes \cup {<<>>}
      [] OTHER                -> TRUE

TrueAccess ==
    [][/\ \A d \in Dirs : text'[d] # text[d] => d \in chosen /\ text'[d] \in Wholes \cup {<<>>}
       /\ \A s \in Slots : Honest(s, request'[s])]_filesVars
=============================================================================
