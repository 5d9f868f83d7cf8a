--------------------------- MODULE Transcription ---------------------------
(* The transcription of a recording, from the button to the manuscript: the *)
(* hook frontend/src/hooks/useTranscription.ts with transcribeAudio and     *)
(* acknowledgeTranscription of localStore.ts, the jobs of the backend       *)
(* (backend/app/transcription_jobs.py and main.py), what the user does to   *)
(* the screen meanwhile, and the provider's work (CloudCopy).               *)
(*                                                                          *)
(* A job is paid for, so its identity is kept in a marker beside the audio  *)
(* before it is submitted: a window that lost its connection, or a new one, *)
(* waits for the job again.  The backend keeps jobs in memory, for 24 hours *)
(* and up to a limit.  A window.confirm stops the window, so the question   *)
(* and the answer of the user belong to the step that asks.                 *)
EXTENDS CloudCopy, Sequences, SequencesExt

CONSTANTS Audios, None,
          Settings,    \* what goes into the signature: the audio's date and size, the options
          MaxJobs,     \* MAX_JOBS of the backend
          Events,      \* what may happen once
          MaxVersions, MaxEvents   \* bounds of the exploration

ASSUME SetAssumption == Audios # {} /\ Settings # {} /\ None \notin Audios \cup Ids \cup Settings
ASSUME NoneAssumption == None \notin [job : Ids, sig : Settings]
ASSUME BoundAssumption == /\ MaxJobs \in Nat \ {0} /\ {MaxVersions, MaxEvents} \subseteq Nat
                          /\ Events \subseteq {"net", "disk", "restart", "reload", "day", "unheard",
                                              "cancel", "load", "switch"}

VARIABLES
    marker,    \* the marker beside each audio: a job and a signature
    jobs,      \* JOBS of the backend
    old,       \* the jobs that ended more than RETENTION ago
    transit,   \* a submission: "no", "sent", "accepted" or "full"
    run,       \* startTranscription of the window
    saved,     \* the jobs whose transcripts are versions of each audio
    active,    \* the version the index names, 0 for one of another origin
    screen,    \* the audio and the version shown
    nav,       \* loadAudio, or selectEdit
    origin,    \* history: the audio of each job that was made
    agreed,    \* history: the jobs made because the user agreed to pay again
    dropped,   \* history: the jobs the user gave up
    used       \* what has happened of Events

backend == <<jobs, old, cvars>>
folder == <<marker, saved, active>>
view == <<screen, nav>>
history == <<origin, agreed, dropped>>
vars == <<backend, transit, run, folder, view, history, used>>


NoRun == [pc |-> "idle", audio |-> None, sig |-> None, job |-> 0, prior |-> FALSE,
          stop |-> FALSE, agreed |-> FALSE, since |-> None]
NoNav == [pc |-> "idle", audio |-> None, text |-> 0]

Init == /\ InitCopy
        /\ jobs = [j \in Ids |-> "none"] /\ old = {} /\ transit = [j \in Ids |-> "no"]
        /\ run = NoRun /\ nav = NoNav
        /\ marker = [a \in Audios |-> None] /\ saved = [a \in Audios |-> <<>>]
        /\ active = [a \in Audios |-> 0]
        /\ screen = [audio |-> CHOOSE a \in Audios : TRUE, text |-> 0]
        /\ origin = [j \in Ids |-> None]
        /\ agreed = {} /\ dropped = {}
        /\ used = {}

Once(what) == /\ what \in Events \ used /\ Cardinality(used) < MaxEvents
              /\ used' = used \cup {what}

At(pc) == run.pc = pc

\* A submission that is under way when the window gives it up may still arrive; the
\* backend accepts no half of one.
Unanswered == [j \in Ids |-> IF transit[j] = "sent" THEN "sent" ELSE "no"]
Answers(j) == At("posted") /\ run.job = j

-----------------------------------------------------------------------------
(* The jobs of the backend                                                  *)
Done(j) == jobs[j] \in {"completed", "empty", "failed"}

\* prune(), the first thing get and ensure_capacity do
StaleAny == {j \in Ids : Done(j)}
Stale == {j \in old : Done(j)}
Pruned == [j \in Ids |-> IF j \in Stale THEN "none" ELSE jobs[j]]
Kept == {j \in Ids : Pruned[j] # "none"}

Reply(j, answer) == transit' = [transit EXCEPT ![j] = IF Answers(j) THEN answer ELSE "no"]

\* ensure_capacity: a running job and a result that waits count alike.
Full == Cardinality(Kept) >= MaxJobs

\* POST /api/transcribe with background: ensure_capacity, submit
Accept(j) ==
    /\ transit[j] = "sent"
    /\ IF Full
       THEN jobs' = Pruned /\ Reply(j, "full") /\ UNCHANGED worker
       ELSE /\ Reply(j, "accepted")
            /\ jobs' = [Pruned EXCEPT ![j] = "running"]
            /\ worker' \in Hired(j)
    /\ UNCHANGED <<bucket, asked, excused, old, run, folder, view, history, used>>

Working(j) == /\ Work(j)
              /\ UNCHANGED <<jobs, old, transit, run, folder, view, history, used>>

\* The end of run() in submit: the result stays until it is fetched.
Finish(j) ==
    /\ jobs[j] = "running" /\ worker[j].pc = "ended"
    /\ \E outcome \in {"completed", "empty", "failed"} :
          /\ worker[j].well <=> outcome # "failed"
          /\ jobs' = [jobs EXCEPT ![j] = outcome]
    /\ UNCHANGED <<cvars, old, transit, run, folder, view, history, used>>

\* DELETE /api/transcribe/jobs/{id}
Without(j) == IF Done(j) THEN [jobs EXCEPT ![j] = "none"] ELSE jobs
Delete(j) == \/ jobs' = Without(j) /\ UNCHANGED used
             \/ Once("net") /\ UNCHANGED jobs

Day == /\ Once("day") /\ old' = {j \in Ids : Done(j)}
       /\ UNCHANGED <<jobs, cvars, transit, run, folder, view, history>>

Restart == /\ Once("restart")
           /\ jobs' = [j \in Ids |-> "none"] /\ old' = {}
           /\ worker' = [j \in Ids |-> NoWorker]
           /\ transit' = [j \in Ids |-> IF transit[j] = "sent" THEN "no" ELSE transit[j]]
           /\ UNCHANGED <<bucket, asked, excused, run, folder, view, history>>

-----------------------------------------------------------------------------
(* startTranscription, transcribeAudio and acknowledgeTranscription          *)
Goto(pc) == run' = [run EXCEPT !.pc = pc]
End == run' = NoRun
Unused == {j \in Ids : origin[j] = None}
NewId == CHOOSE j \in Unused : TRUE

\* The user agrees to give the job up and to pay for another one.
Agree(j, pc) == /\ run' = [run EXCEPT !.pc = pc, !.agreed = TRUE]
                /\ dropped' = dropped \cup {j}
                /\ UNCHANGED <<origin, agreed>>

\* The button is off while a version is switched, the window while it loads.
Start == /\ At("idle") /\ nav.pc \notin {"read", "switch"} /\ Unused # {}
         /\ Len(saved[screen.audio]) < MaxVersions
         /\ \E s \in Settings : run' = [NoRun EXCEPT !.pc = "prepare", !.audio = screen.audio,
                                                     !.sig = s, !.since = screen]
         /\ UNCHANGED <<backend, transit, folder, view, history, used>>

\* cancelTranscription: a request that waits is given up at once.
Cancel == /\ ~At("idle") /\ Once("cancel")
          /\ IF run.pc \in {"posted", "wait"} THEN End ELSE run' = [run EXCEPT !.stop = TRUE]
          /\ IF At("posted") THEN transit' \in {Unanswered, [transit EXCEPT ![run.job] = "no"]}
             ELSE UNCHANGED transit
          /\ UNCHANGED <<backend, folder, view, history>>

\* beforeChange; the read of the marker, and what the user says if it is of other settings.
Prepare ==
    /\ At("prepare")
    /\ \/ /\ \/ marker[run.audio] = None /\ Goto("write")
             \/ /\ marker[run.audio] # None /\ marker[run.audio].sig = run.sig
                /\ run' = [run EXCEPT !.pc = "wait", !.prior = TRUE, !.job = marker[run.audio].job]
          /\ UNCHANGED <<history, used>>
       \/ /\ marker[run.audio] # None /\ marker[run.audio].sig # run.sig
          /\ \/ Agree(marker[run.audio].job, "write")
             \/ End /\ UNCHANGED history
          /\ UNCHANGED used
       \/ Once("disk") /\ End /\ UNCHANGED history
    /\ UNCHANGED <<backend, transit, folder, view>>

\* The job that is given up is forgotten by the backend, if it hears of it.
Dismiss ==
    /\ At("dismiss") /\ Delete(run.job) /\ Goto("write")
    /\ UNCHANGED <<old, cvars, transit, folder, view, history>>

WriteMarker ==
    /\ At("write")
    /\ \/ /\ ~run.stop /\ Unused # {}
          /\ marker' = [marker EXCEPT ![run.audio] = [job |-> NewId, sig |-> run.sig]]
          /\ origin' = [origin EXCEPT ![NewId] = run.audio]
          /\ agreed' = IF run.agreed THEN agreed \cup {NewId} ELSE agreed
          /\ run' = [run EXCEPT !.pc = "post", !.job = NewId, !.prior = FALSE]
          /\ UNCHANGED used
       \/ run.stop /\ End /\ UNCHANGED <<marker, origin, agreed, used>>
       \/ ~run.stop /\ Once("disk") /\ End /\ UNCHANGED <<marker, origin, agreed>>
    /\ UNCHANGED <<backend, transit, saved, active, view, dropped>>

Post == /\ At("post")
        /\ IF run.stop THEN End /\ UNCHANGED transit
           ELSE Goto("posted") /\ transit' = [transit EXCEPT ![run.job] = "sent"]
        /\ UNCHANGED <<backend, folder, view, history, used>>

Posted ==
    /\ At("posted")
    /\ \/ /\ transit[run.job] # "sent"
          /\ IF transit[run.job] = "accepted" THEN Goto("wait") ELSE End
          /\ transit' = [transit EXCEPT ![run.job] = "no"]
          /\ UNCHANGED used
       \/ Once("net") /\ End
          /\ transit' \in {Unanswered, [transit EXCEPT ![run.job] = "no"]}
    /\ UNCHANGED <<backend, folder, view, history>>

\* A prior job that failed or is lost is replaced if the user agrees; a window
\* that cannot reach the backend never submits again.
Failed == \/ run.prior /\ Agree(run.job, "dismiss")
          \/ End /\ UNCHANGED history
UnreachableAgain == Goto("write") /\ UNCHANGED history
Unreachable == End /\ UNCHANGED history

LostUnseen == {"failed"}
Lost == {"none", "failed"}

\* waitForTranscription: one question.  Other errors of HTTP count as failures,
\* and so does a transcript without a segment, where nobody is asked.
Wait ==
    /\ At("wait")
    /\ \/ run.stop /\ End /\ UNCHANGED <<jobs, history, used>>
       \/ /\ ~run.stop /\ jobs' = Pruned
          /\ \/ Pruned[run.job] = "completed" /\ Goto("got") /\ UNCHANGED history
             \/ Pruned[run.job] = "empty" /\ End /\ UNCHANGED history
             \/ Pruned[run.job] = "running" /\ UNCHANGED <<run, history>>
             \/ Pruned[run.job] \in Lost /\ Failed
          /\ UNCHANGED used
       \/ ~run.stop /\ Once("net") /\ Unreachable /\ UNCHANGED jobs
       \/ ~run.stop /\ Once("unheard") /\ Failed /\ UNCHANGED jobs
    /\ UNCHANGED <<old, cvars, transit, folder, view>>

AfterArrival == "save"

\* The transcript has arrived.  From here on a cancel comes too late.
Got == /\ At("got")
       /\ \/ Goto(AfterArrival) /\ ~run.stop /\ UNCHANGED used
          \/ End /\ run.stop /\ UNCHANGED used
          \/ End /\ Once("disk")
       /\ UNCHANGED <<backend, transit, folder, view, history>>

\* createModel: the new version becomes the active one.
AfterSavingShow == "show"
AfterSaving == "acknowledge"
Save == /\ At("save")
        /\ \/ /\ saved' = [saved EXCEPT ![run.audio] = Append(@, run.job)]
              /\ active' = [active EXCEPT ![run.audio] = run.job]
              /\ Goto(AfterSaving)
              /\ UNCHANGED used
           \/ Once("disk") /\ End /\ UNCHANGED <<saved, active>>
        /\ UNCHANGED <<backend, transit, marker, view, history>>

\* The marker is removed first; what fails here is not reported.
Acknowledge ==
    /\ At("acknowledge")
    /\ \/ marker' = [marker EXCEPT ![run.audio] = None] /\ Goto("delete") /\ UNCHANGED used
       \/ Once("disk") /\ Goto("show") /\ UNCHANGED marker
    /\ UNCHANGED <<backend, transit, saved, active, view, history>>
DeleteJob ==
    /\ At("delete") /\ Delete(run.job) /\ Goto("show")
    /\ UNCHANGED <<old, cvars, transit, folder, view, history>>

\* isCurrent(): a result never replaces what the user has turned to.
IsCurrent == screen = run.since
Show == /\ At("show") /\ End
        /\ screen' = IF IsCurrent THEN [audio |-> run.audio, text |-> run.job] ELSE screen
        /\ UNCHANGED <<backend, transit, folder, nav, history, used>>

-----------------------------------------------------------------------------
(* The user: another recording (loadAudio), another version (selectEdit,     *)
(* which the index remembers, or openOriginal for what a job has saved)      *)
LoadStart == /\ nav.pc = "idle" /\ At("idle") /\ Once("load")
             /\ \E a \in Audios : nav' = [pc |-> "flush", audio |-> a, text |-> 0]
             /\ UNCHANGED <<backend, transit, run, folder, screen, history>>
\* canChangeDocument is asked again after the save.
LoadRead == /\ nav.pc = "flush"
            /\ nav' = IF At("idle") THEN [nav EXCEPT !.pc = "read", !.text = active[nav.audio]] ELSE NoNav
            /\ UNCHANGED <<backend, transit, run, folder, screen, history, used>>
SwitchStart == /\ nav.pc = "idle" /\ Once("switch")
               /\ \E v \in {0} \cup Range(saved[screen.audio]) :
                     v # screen.text /\ nav' = [pc |-> "switch", audio |-> screen.audio, text |-> v]
               /\ UNCHANGED <<backend, transit, run, folder, screen, history>>
Arrive == /\ nav.pc \in {"read", "switch"}
          /\ screen' = [audio |-> nav.audio, text |-> nav.text]
          /\ active' = IF nav.pc = "switch" /\ nav.text = 0 THEN [active EXCEPT ![nav.audio] = 0] ELSE active
          /\ nav' = NoNav
          /\ UNCHANGED <<backend, transit, run, marker, saved, history, used>>

\* The window is closed or reloaded, and opens the recording again.
Reload == /\ Once("reload")
          /\ run' = NoRun /\ nav' = NoNav
          /\ screen' = [screen EXCEPT !.text = active[screen.audio]]
          /\ transit' \in {Unanswered, [j \in Ids |-> "no"]}
          /\ UNCHANGED <<backend, folder, history>>

-----------------------------------------------------------------------------
Window == \/ Prepare \/ Dismiss \/ WriteMarker \/ Post \/ Posted \/ Wait
          \/ Got \/ Save \/ Acknowledge \/ DeleteJob \/ Show
User == Start \/ Cancel \/ LoadStart \/ LoadRead \/ SwitchStart \/ Arrive
Next == \/ Window \/ User \/ Reload \/ Restart \/ Day
        \/ \E j \in Ids : Accept(j) \/ Working(j) \/ Finish(j)

Spec == Init /\ [][Next]_vars
\* Requests end, the threads of the backend run, and a recognition ends or times
\* out; a question to the user is answered.
FairSpec == Spec /\ WF_vars(Window)
                 /\ \A j \in Ids : WF_vars(Accept(j)) /\ WF_vars(Working(j)) /\ WF_vars(Finish(j))
-----------------------------------------------------------------------------
(* Properties                                                               *)

TypeOK ==
    /\ \A j \in Ids : /\ worker[j].pc \in {"none", "put", "begin", "part", "complete", "abort", "create",
                                           "wait", "discard", "ended"}
                      /\ worker[j].part \in 1 .. Parts /\ worker[j].try \in 1 .. Attempts
    /\ bucket \in [Ids -> [open : BOOLEAN, copy : BOOLEAN]]
    /\ asked \in [Ids -> Nat] /\ excused \subseteq Ids
    /\ jobs \in [Ids -> {"none", "running", "completed", "empty", "failed"}] /\ old \subseteq Ids
    /\ Cardinality({j \in Ids : jobs[j] # "none"}) <= MaxJobs
    /\ transit \in [Ids -> {"no", "sent", "accepted", "full"}]
    /\ run.pc \in {"idle", "prepare", "dismiss", "write", "post", "posted", "wait", "got", "save",
                   "acknowledge", "delete", "show"}
    /\ \A a \in Audios : marker[a] # None => origin[marker[a].job] = a /\ marker[a].sig \in Settings
    /\ \A a \in Audios : \A j \in Range(saved[a]) : origin[j] = a
    /\ \A a \in Audios : active[a] \in {0} \cup Range(saved[a])
    /\ nav.pc \in {"idle", "flush", "read", "switch"}
    /\ agreed \subseteq Ids /\ dropped \subseteq Ids /\ used \subseteq Events

\* An audio is not paid for twice (transcriptionRecovery.test.ts: "never silently
\* resubmits"): a second recognition of it needs a version saved from the first, or
\* the user's word for each.  Not by a retry, a new window, or a lost answer.
PaidOnce ==
    /\ \A j \in Ids : asked[j] <= 1
    /\ \A a \in Audios :
          Cardinality({j \in Ids \ agreed : origin[j] = a /\ asked[j] > 0})
             <= 1 + Cardinality(Range(saved[a]))

\* What was paid for can be had: a transcript that the backend still keeps and that
\* is not saved is the one its marker leads to, unless the user gave it up.
Reachable ==
    \A j \in Ids : jobs[j] = "completed" /\ j \notin dropped =>
        \/ j \in Range(saved[origin[j]])
        \/ marker[origin[j]] # None /\ marker[origin[j]].job = j

\* A result leaves the backend only when it is saved, given up or 24 hours old, or
\* when the backend ends: never to make room, and not before the save.
KeptUntilSaved ==
    [][\A j \in Ids : jobs[j] = "completed" /\ jobs'[j] = "none" =>
          \/ j \in Range(saved[origin[j]]) \cup dropped \cup old
          \/ "restart" \in used' \ used]_vars

\* A transcript becomes one version, unless the window ended or the disk failed
\* between the save and the removal of the marker.
SavedOnce ==
    \A a \in Audios : IsInjective(saved[a]) \/ used \cap {"reload", "disk"} # {}

\* The provider's work ends with no copy of the interview and no half of one left in
\* the bucket, whatever failed, unless it could not know of it or was not let.
CopyRemoved ==
    \A j \in Ids : worker[j].pc = "ended" /\ j \notin excused => ~bucket[j].copy /\ ~bucket[j].open

\* A transcription ends: the window does not wait for ever for a job that failed, was
\* refused, was pruned or was lost with the backend.
RunEnds == ~At("idle") ~> At("idle")
=============================================================================
