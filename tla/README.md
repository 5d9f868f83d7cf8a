# Verification of Ripple

Ripple is an editor for interview transcripts: a React front end, in a Tauri
shell or in a browser, which reads and writes the user's files, and a local
FastAPI backend, which transcribes recordings and connects AI clients to the
editor. These modules model the parts in which what can go wrong is hard to
test: file protocols that must survive a crash, promises that interleave, and
calls that are lost, repeated or late. Paths are relative to `src/`; `fe/` is
`frontend/src/`, `be/` is `backend/app/`, `de/` is `desktop/src-tauri/src/`.

To check a run: `tlc -config <cfg> <module>`. To check the proofs of a module:
`tlapm <module>`. `PROJECT.json` lists the runs, the theorems and the hazards,
and names for every definition the lines of code that it stands for.

1. [Inventory](#1-inventory)
2. [Plan](#2-plan)
3. [The modules and their runs](#3-the-modules-and-their-runs)
4. [What is proved](#4-what-is-proved)
5. [Only model-checked](#5-only-model-checked)
6. [Not modelled](#6-not-modelled)
7. [Conventions](#7-conventions)

## 1. Inventory

A window shows one version of one interview. Edits go to the undo history of
the *editor* and to *autosave*, which writes them with the *manuscript store*;
*version switching* replaces what is shown. A manuscript with tags is a body and
a metadata file, which *tag storage* changes together with the project's tag
library, by the *tag file transaction*. Which interviews a project has is the
*project store*'s. A recording becomes a *transcription job* of the backend,
whose result the window saves. An AI client calls operations of the editor
through the *connector*; its edits are applied batch by batch by the *AI
continuation*, while *edit ownership* keeps the user off the same manuscript.
The *launcher* (browser) or the *desktop shell* starts all of it and ends it.

| Component | State | Operations | What is hard | What makes it correct |
|---|---|---|---|---|
| Tag file transaction, `fe/lib/tagFileTransaction.ts` | project files, a journal | commit, recover, restore | crash or failure between any two writes; other programs | all files change or none; nothing foreign is replaced; the report is true |
| Manuscript store, `fe/localStore.ts`, `fe/lib/manifestRecovery.ts` | version files, index with backup and swap file, recordings and containers | create, copy, save, rename, designate, remove; migrate, resolve, rename a recording | two-step writes, rollbacks that fail, older layouts | one version changes; the index stays readable; no text is lost or shown under another recording |
| Autosave, `fe/hooks/usePersistence.ts`, `useFolder.ts`, `useVersions.ts` | screen, pending snapshot, timer, chain of writes, status | edit, undo, flush, load, switch | edits during writes and loads, failed writes, two flushes | "saved" is true; no edit is lost; every edit is saved in the end |
| Version switching, `fe/hooks/useVersions.ts`, `useFolder.ts`, `useImport.ts`, `fe/App.tsx` | screen, index and text read, flags that make it inert | open, copy, rename, delete, import, load, new title | several awaited operations at once | autosave writes a version's own text; the screen is usable again |
| Tag storage, `fe/lib/tagSidecar.ts`, `projectTagRepository.ts`, `tags.ts`, `projectTagTasks.ts`, `fe/hooks/useProjectTags.ts` | library, history of transactions, metadata per version, tasks | save, commands, undo, redo, AI tasks | two files per version, undo after others' changes | body and metadata match; every tag is defined; answers are true |
| AI continuation, `fe/lib/incrementalContinuation.ts`, `continuationBatch.ts` | tasks, receipts, pending batches | batch, stage, checkpoint, pause, resume, cancel | crash between a save and its receipt | a batch is applied once; progress is true |
| AI edit ownership, `fe/lib/aiEditOwnership.ts`, `projectAIConnector.ts`, `projectConnectorHost.ts` | leases of tasks on versions | acquire, progress, end | user and AI at one text, saves in the background | what a task says it has saved is in its version |
| Connector, `be/connector.py`, `connector_relay.py`, class `Relay` of `be/connection_service.py`, `fe/hooks/useAIConnector.ts` | windows with leases, pending futures, remembered calls, queue of jobs | enable, poll, reply, call, deliver, revoke | late replies, retries, lost polls, threads | a call is not handled twice |
| Transcription, `be/transcription_jobs.py`, `be/main.py`, `be/providers/tencent_cloud_url.py`, `be/cos.py`, `fe/hooks/useTranscription.ts` | markers, jobs, versions, a copy in the cloud | submit, poll, save, acknowledge, cancel | lost answers, late results, restarts, pruning | a job is paid for once, its result is not lost |
| Project store, `fe/lib/projectStore.ts`, `fe/components/ProjectWorkspace.tsx` | index with revision, lock, lease, folders | create, import, move, reassign, rename, trash, restore | two windows, stale snapshots, failed saves | no update is lost; every text is listed once |
| Transcript editing, `fe/lib/transcriptOps.ts`, `wordOrigins.ts`, `segmentOps.ts`, `fe/hooks/useEditor.ts`, `fe/useTranscriptHistory.ts` | segments, words with times, marks, undo and redo | type, split, merge, mark, replace, undo | alignment of a new text with the old words | words spell the text; letters that stay keep their time |
| Launcher, `scripts/launcher.mjs`, `lifecycle-lock.mjs` | lock file, pid file, services, window | start, stop, refresh, watch | processes that race for the lock; watchers of old sessions | they take turns; an open window has its services |
| Client configuration and tunnel, `be/connector_config.py`, `connector_setup.py`, `de/tunnel_recovery.rs`, `de/main.rs` | files, list of disabled clients, child process, backoff | save, start, stop, delete | three processes at one configuration | what is deleted stays deleted; the tunnel comes back |
| Desktop shell, `de/main.rs`, `de/normal_close.rs` | close guard, window, children | close, quit, exit | a page that saves while being closed | nothing typed is lost; no child is left |
| Desktop file access, `fe/lib/desktopFs.ts`, `de/grants.rs`, `de/file_transfer.rs`, `de/project_documents.rs` | grants, registry, sessions, temporary files, recent projects | choose, reopen, write and read a file | folders that move, failed pieces, two calls at one file | only a chosen folder is written; a text is whole; the report is true |
| Connection service, `be/connection_service.py`, `configure` of `be/connector_relay.py` | records with lifetimes, the desktop's credential, secrets of applications | enroll, pair, consent, approve, exchange, call, revoke | lost answers, expiry, revocation while a worker waits | an application reaches what the user agreed to, once and until revoked |
| Updates, other providers, settings, import and export, user interface | | | | section 6 |

The hazards, each at its line with the properties that cover it, are in
`PROJECT.json`.

## 2. Plan

The project was written in this order, what keeps the user's text first:
tag transaction, manuscript store, autosave, connector; then continuation with
ownership, transcription, project store, tag storage, editing, version
switching, launcher and desktop shell. The modules that are proved about keep to
one action per operation and have no recursive operator.

Done: a run for each part, and proofs for ten of them (section 4).
To do: proofs of `TrueProgress` and `AppliedOnce` of the continuation
and of `WritesOwn` of version switching.

## 3. The modules and their runs

### Tag file transaction (`AtomicFiles`, `TagTransaction`)

`AtomicFiles` promises: a request changes several files at one moment or not at
all, and what is reported agrees; another program may write between requests.

`TagTransaction` is the code: one step per awaited file operation. `Begin` is the
call of `commitTagFileTransaction` up to its first await; `ReadJournal`,
`Inspect`, `Check` the recovery; `Create`, `Effect`, `Write` the two halves of
writing a file; `Cleanup` the removal of the journal. `Fault` is an operation that
throws, `LateFault` one that throws though it took effect, `Crash` the end of the
program; `Open` starts it again. The refinement mapping (`Meaning`) shows the files
of the journal's request by their old text for as long as the journal says
"prepared": that is what a reader after recovery would find.

Run `tag_transaction`: two requests over two files and two texts, two faults, one
foreign edit between calls. Two faults are what it takes to interrupt a recovery
of an interrupted commit; two files are what it takes to be half written; the
second request finds what the first left. Checked: `AtomicUpdate` (the refinement),
`KeepsForeign`, `TrueReport`.

Left out, reachable by a constant: with `"mark"` in `LateFaults` (writing the
committed journal throws but took effect) the rollback that follows works on a
journal that says committed, and interrupted it leaves files of both generations
(`tagFileTransaction.ts:79-80`). With `ForeignMid = TRUE` another program writes
between the check of `restore` and its writes (`:44-50`), and is overwritten. A
rename removes a file; if its rollback is interrupted just after the file was created
anew, and empty, no later recovery accepts it.

### Manuscript store and its files (`VersionSet`, `Versions`, `ManuscriptStore`, `Recordings`, `NativeFiles`, `Folder`)

`VersionSet` promises: a call changes one version or none, never the text of a
read-only one, and after a failure or a crash the versions are as before or as asked.

`Versions` holds the handlers' decisions as operators on an index: labels, file
names, what a removal makes active. `ManuscriptStore` runs them: a handler reads the
index, decides a *plan*, and the plan is carried out one file operation a step:
write the version file, keep the old index in the backup, publish the new one, drop a
file, tidy up. `inDirectory` queues the calls of a directory, hence one plan at a time.
A step can fail before, after or in the middle of its effect (`Partial`, `Torn`), and
the program can end (`Crash`). The refinement maps what a reader finds (`Read`, the
recovery of the index) to `shown`.

`Recordings` has the level above: recordings with their containers, finding the
container of a recording by name, memory or fingerprint, opening it, the migrations
of both older layouts, and the rename by verified copies. The user renames an audio outside to any
free name. If that name has a container of another recording, the code takes it by its
name (`localStore.ts:475-480`): the history variable `strayed` records such a recording, and
whoever's container it is written to, and `TextsFollow` excuses these from then on.

`NativeFiles` has the level below: what the desktop shell does in the place of a
browser's file system (`fe/lib/desktopFs.ts`, `de/grants.rs`, `de/file_transfer.rs`). The
page names a folder by its root, the path it had when the user chose it; `grant` is
where the shell finds it now and which folder it must be (`Validates`). A write is a
session with a temporary file that takes the file's place at `Commit`; a read asks
for the size, then for the pieces. Two calls of the page run at once, folders are moved
about by the user (`MovesAway`, `MovesIn`) and the program is restarted.

`Folder` composes the three: a behaviour is of one `level`, since one operation of a
folder runs at a time and each level abstracts the one below; it makes one run of them.

Run `folder`: at the level of a container three calls, or two of which one and its
rollback may fail; shared files and label clashes need a creation, a rename or
removal and another creation. At the level of the folder two recordings, three names,
three calls, two failures: a rename takes a second name, a clash a third. (The texts of both levels are the same model
values, which spares a symmetry; no behaviour has both.) At the level of
the shell two folders, two places, texts of one and two pieces, two calls at once,
one failure and two events from outside: a read meets a write, and the path of a granted folder is
taken by another. Checked: `OneVersionAtATime` (the refinement; it includes that the index stays
readable), `NoSharedFile`, `TextsFollow`, `RenameWhole`, `TrueAccess`.

Left out, reachable by a constant:
* `StuckLate`: an index write takes effect, is reported failed, and its rollback fails:
  `createEdit` then removes the file although the index on disk names it
  (`localStore.ts:1251-1252`).
* `"again"` in `Outside`: an audio renamed in the file manager is opened by its
  fingerprint and transcribed again: the new container shadows the earlier versions
  (`localStore.ts:1091-1092`, `478-482`; the comment `333-335` says otherwise), so
  `TextsFollow` fails. `"live"`, `"unmarked"` and `"reuse"` are further things a user
  may do outside.
* `ScanFaults`: the scan for older layouts fails and the stale list of the folder before
  is kept (`useFolder.ts:92-98`, whose comment says the set is then empty): a recording
  is taken for one that needs no migration.

Noted while modelling: two separate faults in two calls can lose index and backup
(with a torn index the next call rewrites the backup from the backup,
`manifestRecovery.ts:67-70`). A first index that cannot be written leaves files that
make all later calls refuse, against the comment at `localStore.ts:1362`
(`:1484`). A crash in a migration leaves its copies for ever. Two audios with one stem
share a container; the model has one name per stem. Containers with tag storage write
through the tag file transaction instead. `getFile` asks for the size once: a file that is
replaced meanwhile by one at least as long is read in two halves (`desktopFs.ts:145-161`); `TrueAccess`
excuses such reads by `replaced`. Callers that do not abort a failed stream leave its session
and its temporary file (`projectStore.ts:482`).

### Autosave (`Autosave`)

A document's content is a revision number: every edit makes a new one, undo
returns to an older. The code compares contents by value; so do revisions. An
action is what runs between two awaits: the effect of React (`Effect`, part of the
action that renders), the timer, the start and end of a write, the check after a
flush, the stages of a navigation. `queue` is the promise chain; an entry says whose
snapshot it writes and who waits for it.

Run `autosave`: two documents, three edits, an undo, three calls (manual saves,
loads, switches; a close is a flush too), one failing write or load. Two callers
of the flush are what it takes for one to queue behind the other, and three edits to
edit during both. Checked: `SavedMeansOnDisk`, `NothingLost`, `EventuallySaved`, each until `slipped`:
the user has edited between the flush of a load and its start (`"position"` in `EditWhile`). Such an edit is
pending when the load takes the screen, and a load of the same document drops it (`useFolder.ts:112`).
Fairness: timers fire, file operations settle, promises that can resume do, React
renders. The user's actions have none.

The run leaves two things out; the proofs show that nothing else is needed
(section 4), and each breaks what is checked:
* `UndoWhileSaving`: the user undoes while the newer content is being written. The
  screen equals the old `lastWritten`, so nothing is pending and no timer is set; then
  the write ends. The file keeps the undone edit, no save is scheduled, and closing
  does not warn (`usePersistence.ts:173`; `docs/SAVING_AND_EXPORT.md:5` says edits are
  saved automatically).
* `LateFaults`: a write that is reported failed and took effect; after an undo a manual
  save is then skipped as unchanged though the file has other content (`:108-110`).

With `"refresh"` in `EditWhile` an edit after a load, while the list of recordings is
refreshed, is never scheduled (`useFolder.ts:130-135`, `usePersistence.ts:79`): it is
not lost, but `EventuallySaved` fails. A timer left over by an undo sets the status to
saved while a document loads, which unlocks the editor early (`:110-113`,
`App.tsx:1397`). Not modelled: editor drafts, `persistTranscriptChange`, a load that
overtakes another (`Viewing` has that).

### Version switching (`Viewing`)

The ways to replace what is shown run into one another here, with the index of
`Versions`. An operation is a slot of `ops` with a place in its function; a step is
one call of the store with what the program does up to the next await. The calls of
the store queue up per folder (`line`). `ui` keeps what the screen says it shows and
the content shown apart, which is what can go wrong.

Run `viewing`: two recordings, two operations at a time out of three, one edit.
Checked: `WritesOwn` (autosave writes into a version its own text only), `EditsKept`
and, with fairness of every operation and of saving, `UsableAgain`.

The operations run into one another as they may: nothing keeps one from starting during another
but the flags of the code. Some such meetings break `WritesOwn` or `EditsKept` in the code;
the history variable `crossed` records that one has happened, and both promise what holds until then:
* `Stale`, a load shows the text of a version under an index read before, since it reads them by two
  calls (`useFolder.ts:121-122`) between which an AI's edit, a switch or an import can come; or it reads
  a version again whose edits still wait to be written (`:112`). A title change goes on after the version it was
  called for left the screen (`App.tsx:1158-1208`), also after an import whose reload was
  refused or failed, though `useImport.ts:55` says memory and disk agree then.
* `Late`, a copy, removal or an assistant's version that was overtaken still changes the index
  (`useVersions.ts:230-234`).

One situation the run leaves out, by `"window"` in `Kinds`: another window opens a version; renaming a label
here publishes the index of the disk, and autosave writes one version's text into another, against
`useVersions.ts:350-351`. `UsableAgain` is promised throughout.

A title change is modelled in folder mode. Its early return (`!savedTranscript`) and a
load overtaken by one that is refused leave the status "loading". Left out: the switch
of a folder, drafts of recordings without a transcript, the designation of originals.

### Connector and pairing (`Broker`, `Relay`, `Connector`, `Pairing`)

`Broker` is class `Broker` with the loop of a window. The backend runs a coroutine up
to its next await; `/session` and `/reply` are handlers in threads, so `Call` (the
call is accepted, its task created) and `Dispatch` (the task runs and picks the
window) are two steps between which a window can go. A task remembers its `owner`
(the window it was accepted for, until that is disabled) and `at` (the window whose
reply is pending). `Resume` ends the wait, by the answer or the 120 seconds; an answer
set by a thread in the same turn can still lose to the timer. `current()` ends expired
leases first, so that is part of every call and dispatch (`Expire`). In the window,
renewing and polling are `Heartbeat` and `Poll`; the answer of a poll or a reply can be
lost, the window can end (`Close`) or sleep past its lease (`LeaseEnds`), and a heartbeat
under way when the user turns the connection off can arrive after it.
`Relay` is the queue of the connection service and the worker, which takes one job
at a time, makes the local call once and delivers the outcome until it is confirmed.
`Connector` composes them: the worker's call is a `Call` of the broker.

`Pairing` is how an application comes to call at all: the records of the connection service
(`Store`), the desktop that enrolls as a device and shows a code (`configure`), the consent
page where the user types it, the code and the tokens that the application exchanges
(`Provider`), and the ways in which that ends. A handler has no await between what it
reads and what it writes, so it is one step; what interleaves are requests, lost answers, records
that expire in the order of their lifetimes, and a worker that waits for a call in `Relay.poll`
while its device is revoked. A store that is full refuses in the middle of a handler (`Stored`).
`agreed` says for which application's page the user typed the code of which computer.

Run `connector`: two windows (sessions: a window that is enabled again is a new one),
one call from outside and a local id that is called again and again, room for one
remembered call (256 in the code), three tasks, one fault. With room for one call the
second evicts the first, and the third can be the first once more. Or (`part`) two
applications, seven ids and secrets, a store of six records, one that expires and one lost answer: enrolling,
registering, consent, approval, tokens and their renewal take six, and a second pairing or a repetition meets
them. Checked: `RemoteOnce`, `NoOverlap`, `Consented`. No liveness: the caller's answer in 120 or 125 seconds is a
timer of its own.

The model also shows that a call that timed out stays remembered with the timeout as
its answer, so a retry with the same id gets it again, and the window's late reply is
refused: the comment at `be/connector.py:138` reads as if a retry recovered
the outcome. An exchange whose answer is lost, or for whose second token there is no room, uses up what
it exchanged: the application has to be paired again (`connection_service.py:198-202`). An approval
renews the device but not the device's token (`:503`), so that after a year the desktop is refused, enrolls
anew or is told that its pairing is revoked, while the service still renews tokens for the old
device; no call is handed over for it, which is what `Consented` says. Abstracted: the arguments of a call,
what an operation does, the csrf of any page but the last.

### AI continuation and ownership (`Batches`, `EditLease`, `Continuation`)

`Batches` has the data: a text as a sequence of segments with counts of the user's and
the AI's changes, the batches a task cuts it into with the guard of neighbours, the
record of a task. `EditLease` has the leases of `aiEditOwnership.ts` and what the
controller makes of a task's answers. `Continuation` runs calls of clients over them:
a call is one action, only a save is several, since everything may come between its
reading, its writes and its answer. Journals are cached per owner, as in the code.

After a crash, `Reconnect` is what `recover()` makes of each journal: a draft is paused and protects its
version again, as a task that was paused or completed does, and can be resumed and save on.

Run `continuation`: up to two tasks, the second perhaps the successor of the first, batches of one segment, two
segments, three versions, two owners, two events out of a fault, a crash, an edit, the opening of a version, a
call of the window, a batch that deletes, a batch that is staged first, and a second task. Checked: `TrueProgress`, `AppliedOnce`.

The model has two ways in which a version can change under a task, which the documentation excludes. The user
opens a version while a save to it is under way (`useVersions.ts:147-179`; `docs/AI_CONNECTOR.md:99`
says it is locked): the screen then lacks the save, and what is saved from the screen takes its place.
`overtaken` records the versions so shown, and `TrueProgress` excuses them. And the owner of another
version can put a lease back to the version that a "new version" task came from, by its stale record
(`projectAIConnector.ts:43`, `incrementalContinuation.ts:96`), so that the version the
task writes to can be edited, although `docs/STYLEBOOK.md:176` says nothing but the user lifts
the protection: so no property says that a version is locked while its task writes. Not modelled: limits in
bytes, phases of a review, the tasks for marks.

### Transcription (`CloudCopy`, `Transcription`)

`Transcription` has the window's function (`run`), the marker beside the audio, the
jobs of the backend with retention and capacity, and navigation meanwhile; a question
to the user and its answer belong to the step that asks. `CloudCopy` is the provider's
thread: upload in parts with retries, the task, the removal of the copy; a request may
fail without effect, be cut off after it took effect, or be refused.

Run `transcription`: two jobs where the backend keeps one, two recordings, two settings,
two parts with two attempts, two events out of: a lost connection, a failing disk, a
restart of the backend, a reload, a day, an unheard request, a cancellation, a load, a
switch. Checked: `PaidOnce`, `SavedOnce`, `CopyRemoved`, `KeptUntilSaved` and `RunEnds` (fairness: the
window's function goes on, the backend takes what reached it, and the provider's thread goes on).

Noted: a reload between `createModel` and the removal of the marker makes the version
twice (`localStore.ts:1709-1710`); an upload that was cut off after it took effect leaves
the copy, since `put_object` is outside the `try` whose `finally` discards it
(`tencent_cloud_url.py:17-20`); both are excused in what is proved, and nothing else is.

### Project store (`Materials`, `ProjectIndex`)

`Materials` has the decisions: what an operation stages and the index it asks for, as
functions of the index a window knows and the folders on disk. `ProjectIndex` runs
windows: they take the editor lease, stage copies, save under the project's lock if the
revision is still theirs, and roll back; windows end at any point, and their locks with
them.

Run `project`: two windows, fourteen operations, three steps. Three steps are an import
or a move in one window, an edit or another operation in the second, and a fault; that
is the shortest way in which a stale snapshot meets a save. Checked: `EveryTextOnce`,
`NoLostUpdate`, `OpenStaysListed`.

A recording is opened from whatever snapshot its window has (`ProjectWorkspace.tsx:285`), so from one that
another window has replaced too, and its folder may no longer be listed; `i18n/locales/en.json:608` tells the user to
reopen the project. What is edited or written there is lost: `EveryTextOnce` does not count it, but it does
count every text that is listed, and an open recording that is listed stays so (`OpenStaysListed`).
Left out: with `StuckLate` a failed save whose old index cannot be put back is reported as failed and
stays (`projectStore.ts:806-812`, `218-221`), and `NoLostUpdate` fails. Two saves of one
window can refuse each other; a window runs one operation at a time in the model, and
the index is written whole. Not modelled: `addRecordings` (unused), the order of
materials, rules for names, AI locks, shared tag libraries.

### Tag storage (`TagTree`, `ProjectTags`)

`TagTree` has the library as a forest with its commands and the mapping of a version's
tags; `ProjectTags` the windows with their caches and queues, saves of a version (body and
metadata in one transaction), commands on the whole project, undo and redo by receipt,
tasks of AI clients, and a copy of a version made in the background.

Run `tags`: two windows, one task, two names for tags (`PathsMC`),
three steps. Undo needs a command, another command or save, and the undo. Checked:
`Openable`, `Defined`, `AnswersTrue`.

Noted: an undo can take a tag from the library that a version copied meanwhile still has
(`projectTagRepository.ts:214`; `docs/AI_CONNECTOR.md:133` says a later transaction
prevents it): `Defined` excuses, for a copy, an undo of a command from before it that does not
name it (`CopiedSince`), and covers every other step of every version. What the screen shows
after a transaction counts as written (`App.tsx:777-786`); after a failed stamp of the save an
undo can leave unsaved text counted as saved. A deletion works out the next library at the
click, before the flush (`useProjectTags.ts:142-159`). Tasks lock all versions of a project
(`useAIConnector.ts:176-179`), and a failed task keeps blocking edits until it is ended. Commit
and publication are one step; orders and groups are left out.

### Transcript editing (`TextAlign`, `Segments`, `Editor`)

`TextAlign` has the alignment of a new text with the old words, by the matrix and, for long
texts, by halves, with its recursive functions; `Segments` the operations on segments, words
and marks; `Editor` the component with drafts, the confirmation of a merge of two speakers, undo
history and an AI's edit in between. A letter knows the moment it was heard (`heard`), a history
variable by which the properties tell letters apart.

Run `editing`: three operations on small texts; the matrix is limited to three pairs so that
longer texts are halved. Checked: `WordsSpellText`, `SurvivorsKeepTime`, and `AlignedExactly`, the
alignment against its definition as a longest common subsequence.

Noted: text typed between the flush for an AI's edit and its lock is lost
(`projectAIConnector.ts:228-230`, `projectConnectorHost.ts:106`). A highlight that a split cut in two
keeps one identity, so toggling one half removes both (`useEditor.ts:305-307`). Words keep the speaker
of before a merge across speakers, which the deletion of a speaker does not look at
(`useEditor.ts:122,195`). An update that changes nothing still makes an entry of the history and clears
redo. Not modelled: the list of speakers, notes, the drafts of the other area.

### Launcher (`Launcher`)

Processes `start`, `stop`, `refresh` and `watch` with their places in the scripts. The lock file is
created, signed with a pid, read (`Look`), judged (`Judge`) and removed (`Recover`) in steps of their own:
what was read is kept by the process, the owner it names may end before it is tested, a file read without a pid is
judged by the age of the file there is by then, and whatever file is there is removed. A minute's wait may end for
every command and for the watcher (`GiveUp`). Services come up or not; the user closes the window.

Run `launcher`: up to four processes (two starts with their watchers), or three after a crash; a command is
given while nobody waits, so that two wait when a watcher or a crash comes to it; no command once a removal
has gone astray; two closings. Checked: `TakeTurns`, `SessionWhole`, `NeverStuck`, `NoOrphans`. Fairness:
processes that are alive go on, a lock file that somebody has read unsigned grows old in the end, and a
process that keeps asking for the lock gets it (strong: the others give it back again and again); nobody has to give up.

The code does not always "Serialize start/stop/cleanup across processes" (`lifecycle-lock.mjs:3`), and the model has
the behaviours that break it: a process reads the pid of an owner that ends in the normal way, tests it,
and removes the lock of the next owner (`:12-17`); two that find the same dead lock each remove what is there,
the second the lock of the first; an owner that needs more than five seconds to sign, for instance on a computer
that was suspended, loses its lock to a waiting process. The history variable `astray` records such a removal,
and `TakeTurns` and `SessionWhole` promise what holds until then, crashes included. `NoOrphans` promises the
end of the services (`README.md:67`) unless the window is opened again, a process crashed, a removal went astray or
the watcher waited its minute in vain: the code then leaves them to the next start or stop (`launcher.mjs:450`).
Not modelled: a pid that the operating system gives out again.

### Client configuration, tunnel and desktop shell (`Tunnel`, `Desktop`)

`Tunnel` is the supervisor thread with its mutex, backoff and patience in ticks of five
seconds, the setup program, the deletion by the backend and its answer in time or not, and another
program at the same lock file. `Desktop` adds leaving: the page's guard, the exit requested and the exit,
which stop backend and client twice. Commands of the window run on the main thread, so none runs
while it leaves.

Run `desktop`: backoff and patience of two ticks, two events (asked for or going wrong) in all.
Checked: `DeletedStays`, `LeavesWell`, `Recovers`. Fairness: the page, the main thread (strongly for
the mutex that the thread keeps taking), the setup program, the backend and time go on; a client
with network connects before the second tick. With `LateEdits` text is typed between the guard's
save and the exit, and lost (`App.tsx:656`). Noted: a crash leaves `.client-config.lock`; a
deletion answered after the five seconds can remove a newer configuration.

## 4. What is proved

The proof modules hold theorems for every value of the constants, hence for any number of
files, windows, jobs, events and operations. Each proof has an inductive invariant in named parts,
a lemma for each action or part, and a last step in temporal logic. Where a theorem has a hypothesis on
constants (`ASSUME C PROVE Spec => []P`), the hypothesis is a mode of the model, and section 3 says
what happens without it.

**`TagTransactionProofs`** (five theorems; all but `TypeCorrect` assume `Quiet`: no other program writes
while a call runs, and the write of the committed mark does not fail after it took effect). None of the
properties is inductive: whether a rollback may overwrite a file depends on what the journal says, how far
the loop was, and what was on disk when it began. `ProtocolInv` says so: `NotLanded` (before the mark the
request has not landed), `JournalOK` (a journal that is missing or empty holds no request), `CommitOK`
(while files are written the journal holds the running request, those behind the loop hold the new text,
all others one the request may have left there), `RestoreOK` (while files are put back, those inspected hold
one of the request's texts and those put back the old one), `ReportOK`. `RestoreOK` is the heart: without it
a restore could overwrite a foreign text. `AtomicStep` maps each step to the abstract one: the mark is
the commit, everything else a stutter, a report or a foreign edit.

**`AutosaveProofs`** (`Invariance`, `NothingGivenUp`, `SavedIsTrue`, `FlushesSave`, under `Careful`: neither of the
two things of section 3; and until `slipped`. Edits during a refresh are allowed). What makes it inductive: `ChainInv`, the chain
of writes is about the document on the screen only, once an entry holds what is on the screen so do all
behind it, and the last one releases what is pending; `Waits`, a caller waits for one entry, which has the
content it asked for, and when it looks again that content is the one last written; `NavInv`, from the end of
its flush until it is rendered, a navigation leaves a screen that is written. So nothing is left to be
written when a document is replaced (`NothingLeft`), and the chain cannot carry an entry of the old document
over. `DateInv` (no content is from the future) is what tells a new edit from everything in the chain.

**`LauncherProofs`** (`TypeCorrect`, `TurnsTaken`, `SessionsWhole`). Whom a lock names, or a waiting
process has read, has been inside and does not wait again; what was judged dead is still dead when it
is removed, or the file is another; so until a removal goes astray the lock is held by whoever is inside, crashes
included (`LockInv`). What a start saw of the ports is still so, the watcher that the file names is at work or has
given up, and between commands an open window has both services and a watcher (`SessionInv`).

**`ConnectorProofs`** (`TypeCorrect`, `RetriesJoin`, `OnceFromOutside`; `OnlyAgreed` of `Pairing`), for any capacity: a call that is not
answered and whose window is enabled is remembered (`CallInv`), since only finished calls are forgotten; a
request from outside is in one place, of the queue, the worker and what is withdrawn (`RemoteInv`). For the
pairing: a number is given once, and a device is its own subject (`MadeInv`); the page names the application of its
transaction and the desktop shows a code of its own device (`ShownInv`), so that what the user agreed to is
what the records say; a device that the user was told is revoked is not authorized again (`ToldInv`), though its
record may live on.

**`DesktopProofs`** puts side by side three modules of what the desktop program keeps.

*Manuscript store* (`StoreTypeCorrect`, `FilesNotShared` and `KeepsItsPromise`, that `ManuscriptStore` implements
`VersionSet`; all with `StuckLate = FALSE`, the last for at most one failure, since two in two calls may hit index
and backup). That no file belongs to two versions depends on how a handler's plan was made and how far it got,
so `IInv` says both: `IndexInv`, every index that can be found (in place, backup, half of a rename, the one a call
met) is missing or good, that is, no file has two entries and a reserved name is its own group's; `PlanInv`, a plan under way
`Fitting` the index it was made from (one file more or one less, and a file it has is written only as a save
does), whose texts are all there, with the old index at hand until the new one is published. For the refinement, `Undisturbed`
says that only a failure takes the index from its place, and `ShownInv` that a reader finds, at each point of a
plan, the versions the call met or those it is to leave. Publishing is the
step of the abstract store; every other step is a stutter, a report or the queue. That a handler finds a free label and a free
file name for any number of versions is an induction on numbers, made as a least counterexample
(`WellFoundedInduction`).

*Desktop file access* (`AccessTypeCorrect`, `AccessTrue`), for any number of calls at once, failures, moves and
restarts. `GrantInv`: a grant, and its copy on disk, is of a folder the user chose; `TempInv` and `WriteInv`: a
temporary file is in the folder granted, of one call, and its session holds what that call has sent, so that what a commit
puts in place is one text whole; `ReadInv`: what was read so far is the beginning of the text in place, unless that
text was replaced by one at least as long, or is now too short to be read to the end; `Told`: what a call
reported stays true. A step of one call leaves the parts of the others (`AloneStep`).

*Shell and tunnel* (`NothingRevived`, `LeavesNothing` with `LateEdits = FALSE`, `ChildrenEnd`). `LockInv`: whoever
is at work has the mutex of the tunnel, or the lock file, and what was read of the list of disabled clients is
still so; `DeletionInv`: the deletion the user waits for removes the files in their order; `ReportedInv`: nothing
under way, a later deletion that fails among it, brings back what was reported as deleted; `TypedInv`: what was typed
is saved before the page lets the program go; `StoppedInv`: past the last stop nothing starts a child again.

**`TranscriptionProofs`** (seven theorems). `JobInv`: a job the backend has not heard of is as it was made, and
is submitted and asked for once. `FolderInv`: a job that was made was saved, is led to by its marker, or was
given up; `RunInv`: the job the window waits for is its marker's until saved. `PaidInv` counts: the jobs nobody
agreed to beyond the versions are at most one, the marker's. `SavedInv`, `CapacityInv`, `BucketInv` carry
`VersionOnce`, the capacity in `TypeCorrect`, and `NoCopyLeft`. `KeptUntilSaved` is an action
property that follows step by step.

**`ProjectIndexProofs`** (`Invariance`, `SavesKept`, `EditsListed`, `TextsKept`, with
`StuckLate = FALSE`). For the first three: A snapshot of the current revision is the index, also after the old index was put back
(`SnapInv`); what an operation asks for is derived from the index it knows (`Derived`), so that a save under the
lock changes that index only (`SaveInv`); who edits has the lease, and the lease excludes operations
(`LeaseInv`).

`TextsKept` (`EveryTextOnce`) says that no mutation of the materials, and no save that fails or comes too late,
loses a text or lists it twice. The index alone does not tell, because an operation stages folders long before its
index is published, and removes others long after. So the proof speaks of the entries of an index (recordings and
items of the trash alike): an index is `Good` for a set of texts when no two entries share a folder, each folder is
in the directory of its entry's session, and each text is in one model of one entry with its last revision.
`OnceInv`, inductive with the invariant above, asks it of three indexes: the one in place; the one that a save is to
publish, for the texts there will be when its operation counts (`NextGood`; an operation without the lease lists the
same entries, `NextSame`); and the old one while it may be put back. Beyond that, no folder that a tidying is to
remove is listed by an index that can be found then (`WorkInv`). Each of the fourteen operations is an operator of
`Materials` on an index; most replace one or two entries by others that carry the same texts (`Swaps`, `Carries`),
and a move or a reassignment that joins models of two recordings takes ids that are free in a finite set
(`FreeIdFacts`, by `WellFoundedInduction`).
Windows that work in a recording opened from an old snapshot need `OldInv`: whatever folder a window has open or its
snapshot offers, an index found now lists it, if at all, in the same session and as no item of the trash whose texts
were kept for another (`Calm`); so a transcript written there lands where the index looks for it or nowhere. It holds
because the folders that an operation brings into an index are those it had, or new (`Stems`).

**`ProjectTagsProofs`** (`Invariance`, `AlwaysOpenable`, `AnswersHonest`, `TagsDefined`). For the first three:
every operation keeps the segments of the versions (`ApplyKeeps`), a receipt has the same segments on both sides,
the history is not empty when the index is the one an undo was asked for, and an answer agrees with the state of
its task and the receipts.

`TagsDefined` is about `OwnTags`: the versions that are not copies. It needs more than that the current library and metadata agree: an undo puts back a library and the
metadata of the versions as one receipt has them, and a save in between writes new metadata under the same library.
`TagInv` says that there is an account of the past: which library `L[h]` each head `h` of the project's tags stands
for, which token `K[h][v]` each version had then, and which tags `T[v][k]` that token admits, all of them defined in
`L[h]`. Disk, editors and both sides of every receipt agree with one such account. Commands and tasks continue it by a
new head, undo and redo go back in it, and saves and local edits keep the token and what it admits
(`ApplyDefines`: only a shared change takes tags from the library, and it stays within the library it leaves).
That the path of a new tag can be walked through a library, however long, is an induction over its segments, made
as a least counterexample (`WalkExists`, `MadeExtends`). Of the constants it assumes that a path is not empty
(`PathsAssumption`).

The inductive invariants were model-checked on the runs' instances before they were proved. The hypotheses
`NoneAssumption`, `DocsAssumption` and the like say that a model value is none of the records it is compared with.

## 5. Only model-checked

* Liveness (`EventuallySaved`, `RunEnds`, `NeverStuck`, `NoOrphans`, `Recovers`, `UsableAgain`): the prover has no
  rules for fairness and ENABLED.
* `AlignedExactly`, `WordsSpellText`, `SurvivorsKeepTime`: what the recursive alignment of two texts computes; the
  prover loses its arithmetic in a module with a recursive operator.
* `TextsFollow`, `RenameWhole`: the operations of `Recordings` make their plans of file operations as sequences that
  are built by folds over what is on disk; a proof needs what each such sequence leaves, operation by operation.
* `TrueProgress`, `AppliedOnce`, `WritesOwn`, `EditsKept`: not attempted; nothing in them is out of reach.
* The delays of the tunnel are 2^n ticks; the proofs leave `retryIn` untyped.

## 6. Not modelled

The map covers about a fifth of the implementation. Left out for their nature: layout and input of the user
interface (a third of all lines), conversions (import, export, subtitles), the requests of seven providers whose
answers decide almost everything, HTTP signing, settings and credential storage (single files written by
replacement). Left out so far: MCP adapters, listing and media in the desktop shell, its updates, playback,
audio notes. `PROJECT.json` lists every component with what is and what is not modelled of it.

## 7. Conventions

Texts and names are members of small sets; formatting, messages, logging and layout are left out. A
file is whole or torn, never a sequence of bytes. Symmetric sets are declared so, except where liveness is
checked. Runs may stop (deadlock is not checked) since calls, edits and faults are bounded; every bound is a
constant whose name begins with `Max`, or `Capacity`, `Patience` and the like where it is one of the code,
shortened. History variables, which no guard reads, are named as such where they are declared.
