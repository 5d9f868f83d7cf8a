------------------------ MODULE TranscriptionProofs ------------------------
(* Machine-checked facts about Transcription, for any recordings, settings, *)
(* jobs, parts and attempts, for any capacity of the backend, and for any   *)
(* choice of what may happen once.                                          *)
EXTENDS Transcription, FiniteSetTheorems, TLAPS

-----------------------------------------------------------------------------
(* The inductive invariants.                                                *)

Texts == {0} \cup Ids
Marks == [job : Ids, sig : Settings]
WorkPoints == {"none", "put", "begin", "part", "complete", "abort", "create", "wait", "discard",
               "ended"}
Points == {"idle", "prepare", "dismiss", "write", "post", "posted", "wait", "got", "save",
           "acknowledge", "delete", "show"}
WorkerType == [pc : WorkPoints, part : 1 .. Parts, try : 1 .. Attempts, well : BOOLEAN]
CopyTyped ==
    /\ worker \in [Ids -> WorkerType]
    /\ bucket \in [Ids -> [open : BOOLEAN, copy : BOOLEAN]]
    /\ asked \in [Ids -> Nat]
    /\ excused \subseteq Ids

JobsTyped ==
    /\ jobs \in [Ids -> {"none", "running", "completed", "empty", "failed"}]
    /\ old \subseteq Ids
    /\ transit \in [Ids -> {"no", "sent", "accepted", "full"}]

FolderTyped ==
    /\ marker \in [Audios -> {None} \cup Marks]
    /\ saved \in [Audios -> Seq(Ids)]
    /\ active \in [Audios -> Texts]
    /\ origin \in [Ids -> Audios \cup {None}]
    /\ agreed \subseteq Ids
    /\ dropped \subseteq Ids

WindowTyped ==
    /\ DOMAIN run = DOMAIN NoRun /\ run.pc \in Points /\ run.job \in Texts
    /\ ~At("idle") => run.audio \in Audios /\ run.sig \in Settings
    /\ run.pc \in {"post", "posted", "wait", "got", "save", "acknowledge", "dismiss", "delete", "show"}
          => run.job \in Ids
    /\ DOMAIN screen = {"audio", "text"} /\ screen.audio \in Audios /\ screen.text \in Texts
    /\ DOMAIN nav = DOMAIN NoNav /\ nav.pc \in {"idle", "flush", "read", "switch"}
    /\ nav.text \in Texts
    /\ nav.pc # "idle" => nav.audio \in Audios
    /\ used \subseteq Events

TypeInv == CopyTyped /\ JobsTyped /\ FolderTyped /\ WindowTyped

\* A job the backend has not heard of: nobody works on it, nothing was asked for it,
\* and nothing of it is in the bucket.
Pristine(j) == /\ worker[j].pc = "none" /\ asked[j] = 0 /\ jobs[j] = "none"
               /\ ~bucket[j].open /\ ~bucket[j].copy

\* A job is asked for at the provider at most once, as it is submitted at most once.
JobInv ==
    /\ \A j \in Ids : origin[j] = None => Pristine(j) /\ transit[j] = "no"
    /\ \A j \in Ids : transit[j] = "sent" => Pristine(j)
    /\ \A j \in Ids : asked[j] <= 1
    /\ \A j \in Ids : asked[j] = 0 \/ worker[j].pc \in {"none", "wait", "discard", "ended"}
    /\ At("post") => Pristine(run.job) /\ transit[run.job] = "no"

\* What is in the bucket at each point of the provider's work.
BucketInv ==
    \A j \in Ids \ excused :
        /\ worker[j].pc \in {"put", "begin", "part", "complete", "abort", "ended"} => ~bucket[j].copy
        /\ worker[j].pc \in {"put", "begin", "create", "wait", "discard", "ended"} => ~bucket[j].open

\* A job that was made leads to its marker, was saved, or was given up.
Leads(j) == marker[origin[j]] # None /\ marker[origin[j]].job = j
FolderInv ==
    /\ \A a \in Audios : marker[a] # None => origin[marker[a].job] = a
    /\ \A a \in Audios : \A j \in Range(saved[a]) : origin[j] = a
    /\ \A a \in Audios : active[a] \in {0} \cup Range(saved[a])
    /\ \A j \in Ids \ dropped : origin[j] # None => j \in Range(saved[origin[j]]) \/ Leads(j)

\* The window's job is the one of the marker, until it is saved.
RunInv ==
    /\ run.pc \in {"post", "posted", "wait", "got", "save", "acknowledge", "dismiss"}
          => origin[run.job] = run.audio /\ Leads(run.job)
    /\ run.pc \in {"acknowledge", "delete", "show"}
          => origin[run.job] = run.audio /\ run.job \in Range(saved[run.audio])
    /\ run.pc \in {"write", "dismiss"} /\ marker[run.audio] # None
          => run.agreed /\ marker[run.audio].job \in dropped
    /\ At("dismiss") => run.job \in dropped

\* Every recognition nobody agreed to belongs to a version, but for the one of the marker.
Unagreed(a) == {j \in Ids \ agreed : origin[j] = a}
Owing(a) == marker[a] # None /\ marker[a].job \notin Range(saved[a])
PaidInv ==
    \A a \in Audios :
        /\ IsFiniteSet(Unagreed(a)) /\ IsFiniteSet(Range(saved[a]))
        /\ Cardinality(Unagreed(a)) <= Cardinality(Range(saved[a])) + (IF Owing(a) THEN 1 ELSE 0)

\* While no window and no disk failed, a marker outlives its version only while the
\* window is about to remove it.
Removing(a) == At("acknowledge") /\ run.audio = a
SavedInv ==
    used \cap {"reload", "disk"} = {} =>
        \A a \in Audios : /\ IsInjective(saved[a])
                          /\ marker[a] # None => Owing(a) \/ Removing(a)

\* The backend keeps no more jobs than it may.
Known == {j \in Ids : jobs[j] # "none"}
CapacityInv == IsFiniteSet(Known) /\ Cardinality(Known) <= MaxJobs

IInv == TypeInv /\ JobInv /\ BucketInv /\ FolderInv /\ RunInv /\ PaidInv /\ SavedInv /\ CapacityInv
-----------------------------------------------------------------------------
(* Typing.                                                                  *)

LEMMA NoWorkerTyped == NoWorker \in WorkerType
BY CopyAssumption DEF NoWorker, WorkerType, WorkPoints

LEMMA GoesTyped ==
    ASSUME worker \in [Ids -> WorkerType], NEW j \in Ids, NEW pc \in WorkPoints, Goes(j, pc)
    PROVE  worker' \in [Ids -> WorkerType]
BY DEF Goes, WorkerType

LEMMA EndsTyped ==
    ASSUME worker \in [Ids -> WorkerType], NEW j \in Ids, NEW well \in BOOLEAN, Ends(j, well)
    PROVE  worker' \in [Ids -> WorkerType]
BY NoWorkerTyped DEF Ends, WorkerType, WorkPoints

LEMMA StoredTyped ==
    ASSUME bucket \in [Ids -> [open : BOOLEAN, copy : BOOLEAN]], NEW j \in Ids,
           NEW open \in BOOLEAN, NEW copy \in BOOLEAN, Stored(j, open, copy)
    PROVE  bucket' \in [Ids -> [open : BOOLEAN, copy : BOOLEAN]]
BY DEF Stored

LEMMA CopyStep ==
    ASSUME CopyTyped, NEW j \in Ids, Work(j)
    PROVE  CopyTyped'
<1> USE GoesTyped, EndsTyped, StoredTyped DEF CopyTyped, Excuse
<1>0. /\ {"create", "part", "abort", "wait", "discard"} \subseteq WorkPoints
      /\ worker[j].well \in BOOLEAN /\ bucket[j].open \in BOOLEAN /\ bucket[j].copy \in BOOLEAN
      /\ FALSE \in BOOLEAN /\ TRUE \in BOOLEAN
  BY DEF WorkPoints, WorkerType
<1>1. CASE Put(j) BY <1>0, <1>1 DEF Put
<1>2. CASE BeginParts(j) BY <1>0, <1>2 DEF BeginParts
<1>3. CASE PutPart(j)
  <2>1. worker[j] \in WorkerType /\ worker[j].part \in 1 .. Parts /\ worker[j].try \in 1 .. Attempts
    BY DEF WorkerType
  <2>2. CASE worker[j].part < Parts /\ worker' = [worker EXCEPT ![j].part = @ + 1, ![j].try = 1]
    <3>1. worker[j].part + 1 \in 1 .. Parts /\ 1 \in 1 .. Attempts BY <2>1, <2>2, CopyAssumption
    <3>2. worker' = [worker EXCEPT ![j] = [worker[j] EXCEPT !.part = worker[j].part + 1, !.try = 1]]
      BY <2>2
    <3>3. [worker[j] EXCEPT !.part = worker[j].part + 1, !.try = 1] \in WorkerType
      BY <2>1, <3>1 DEF WorkerType
    <3> QED BY <3>2, <3>3, <1>3 DEF PutPart
  <2>3. CASE Again(j) /\ worker' = [worker EXCEPT ![j].try = @ + 1]
    <3>1. worker[j].try + 1 \in 1 .. Attempts BY <2>1, <2>3, CopyAssumption DEF Again
    <3>2. worker' = [worker EXCEPT ![j] = [worker[j] EXCEPT !.try = worker[j].try + 1]] BY <2>3
    <3>3. [worker[j] EXCEPT !.try = worker[j].try + 1] \in WorkerType BY <2>1, <3>1 DEF WorkerType
    <3> QED BY <3>2, <3>3, <1>3 DEF PutPart
  <2>4. \A pc \in WorkPoints : [NoWorker EXCEPT !.pc = pc] \in WorkerType
    BY NoWorkerTyped DEF WorkerType
  <2>5. CASE \/ worker' = [worker EXCEPT ![j] = [NoWorker EXCEPT !.pc = "complete"]]
             \/ worker' = [worker EXCEPT ![j] = [NoWorker EXCEPT !.pc = "abort"]]
    <3>1. "complete" \in WorkPoints /\ "abort" \in WorkPoints BY DEF WorkPoints
    <3> QED BY <2>4, <2>5, <3>1, <1>3 DEF PutPart
  <2> QED BY <2>2, <2>3, <2>5, <1>3 DEF PutPart
<1>4. CASE CompleteParts(j) BY <1>0, <1>4 DEF CompleteParts
<1>5. CASE AbortParts(j) BY <1>0, <1>5 DEF AbortParts
<1>6. CASE CreateTask(j) BY <1>0, <1>6 DEF CreateTask, AfterFailure
<1>7. CASE WaitTask(j)
  <2>1. /\ [worker[j] EXCEPT !.pc = "discard"] \in WorkerType
        /\ [worker[j] EXCEPT !.pc = "discard", !.well = TRUE] \in WorkerType
    BY <1>0 DEF WorkerType
  <2>2. \/ worker' = [worker EXCEPT ![j] = [worker[j] EXCEPT !.pc = "discard"]]
        \/ worker' = [worker EXCEPT ![j] = [worker[j] EXCEPT !.pc = "discard", !.well = TRUE]]
    BY <1>7 DEF WaitTask, AfterFailure
  <2> QED BY <1>7, <2>1, <2>2 DEF WaitTask
<1>8. CASE Discard(j) BY <1>0, <1>8 DEF Discard
<1> QED BY <1>1, <1>2, <1>3, <1>4, <1>5, <1>6, <1>7, <1>8 DEF Work

\* The next identity is one that no job has.
LEMMA NewIdUnused == ASSUME Unused # {} PROVE NewId \in Ids /\ origin[NewId] = None
BY DEF NewId, Unused

\* Each step leaves the provider's work alone, is a step of it, or starts a worker.
LEMMA CopyTypedStep ==
    ASSUME TypeInv, [Next]_vars
    PROVE  CopyTyped'
<1> USE DEF TypeInv, backend, cvars
<1>1. CASE UNCHANGED cvars BY <1>1 DEF CopyTyped
<1>2. CASE Window \/ User \/ Reload \/ Day
  <2>1. UNCHANGED cvars
    BY <1>2 DEF Window, Prepare, Dismiss, WriteMarker, Post, Posted, Wait, Got, Save, Acknowledge,
                DeleteJob, Show, User, Start, Cancel, LoadStart, LoadRead, SwitchStart, Arrive,
                Reload, Day
  <2> QED BY <2>1, <1>1
<1>3. CASE Restart BY <1>3, NoWorkerTyped DEF Restart, CopyTyped
<1>4. ASSUME NEW j \in Ids, Accept(j) PROVE CopyTyped'
  <2>1. ASSUME worker' \in Hired(j) PROVE worker' \in [Ids -> WorkerType]
    <3>1. PICK pc \in {"put", "begin"} : Goes(j, pc) BY <2>1 DEF Hired, Goes
    <3>2. pc \in WorkPoints BY DEF WorkPoints
    <3> QED BY <3>1, <3>2, GoesTyped DEF CopyTyped
  <2> QED BY <1>4, <2>1 DEF Accept, CopyTyped
<1>5. ASSUME NEW j \in Ids, Working(j) PROVE CopyTyped' BY <1>5, CopyStep DEF Working
<1>6. ASSUME NEW j \in Ids, Finish(j) PROVE CopyTyped' BY <1>6, <1>1 DEF Finish
<1> QED BY <1>1, <1>2, <1>3, <1>4, <1>5, <1>6 DEF Next, vars

LEMMA JobsTypedStep ==
    ASSUME TypeInv, [Next]_vars
    PROVE  JobsTyped'
<1> USE DEF TypeInv, JobsTyped, backend
<1>1. CASE Window
  <2>1. /\ old' = old /\ transit' \in [Ids -> {"no", "sent", "accepted", "full"}]
    BY <1>1 DEF Window, Prepare, Dismiss, WriteMarker, Post, Posted, Unanswered, Wait, Got, Save,
                Acknowledge, DeleteJob, Show
  <2>2. jobs' \in {jobs, Pruned, Without(run.job)}
    BY <1>1 DEF Window, Prepare, Dismiss, Delete, WriteMarker, Post, Posted, Wait, Got, Save,
                Acknowledge, DeleteJob, Show
  <2> QED BY <2>1, <2>2 DEF Pruned, Without
<1>2. CASE User \/ Reload
  BY <1>2 DEF User, Start, Cancel, Unanswered, LoadStart, LoadRead, SwitchStart, Arrive, Reload
<1>3. CASE Restart BY <1>3 DEF Restart
<1>4. CASE Day BY <1>4 DEF Day
<1>5. ASSUME NEW j \in Ids, Accept(j) PROVE JobsTyped' BY <1>5 DEF Accept, Reply, Pruned
<1>6. ASSUME NEW j \in Ids, Working(j) \/ Finish(j) PROVE JobsTyped' BY <1>6 DEF Working, Finish
<1>7. CASE UNCHANGED vars BY <1>7 DEF vars
<1> QED BY <1>1, <1>2, <1>3, <1>4, <1>5, <1>6, <1>7 DEF Next

LEMMA FolderTypedStep ==
    ASSUME TypeInv, [Next]_vars
    PROVE  FolderTyped'
<1> USE DEF TypeInv, FolderTyped, folder, history
<1>1. CASE UNCHANGED <<marker, saved, active, origin, agreed, dropped>> BY <1>1
<1>2. CASE Prepare \/ Dismiss \/ Wait
  <2>1. UNCHANGED <<marker, saved, active, origin, agreed>>
    BY <1>2 DEF Prepare, Dismiss, Wait, Failed, Agree, Unreachable
  <2>2. dropped' \subseteq Ids
    <3>1. CASE Prepare
      <4>1. At("prepare") /\ marker[run.audio] \in {None} \cup Marks
        BY <3>1 DEF Prepare, At, WindowTyped
      <4> QED BY <3>1, <4>1 DEF Prepare, Agree, Marks
    <3>2. CASE Dismiss BY <3>2 DEF Dismiss
    <3>3. CASE Wait
      <4>1. run.job \in Ids BY <3>3 DEF Wait, At, WindowTyped
      <4> QED BY <3>3, <4>1 DEF Wait, Failed, Agree, Unreachable
    <3> QED BY <1>2, <3>1, <3>2, <3>3
  <2> QED BY <2>1, <2>2
<1>3. CASE WriteMarker
  <2>1. At("write") /\ run.audio \in Audios /\ run.sig \in Settings
    BY <1>3 DEF WriteMarker, At, WindowTyped
  <2>2. CASE UNCHANGED <<marker, origin, agreed>> BY <2>2, <1>1, <1>3 DEF WriteMarker
  <2>3. CASE Unused # {} /\ marker' = [marker EXCEPT ![run.audio] = [job |-> NewId, sig |-> run.sig]]
    <3>1. NewId \in Ids BY <2>3, NewIdUnused
    <3>2. [job |-> NewId, sig |-> run.sig] \in Marks BY <3>1, <2>1 DEF Marks
    <3>3. marker' \in [Audios -> {None} \cup Marks] BY <2>3, <3>2
    <3>4. origin' \in [Ids -> Audios \cup {None}] /\ agreed' \subseteq Ids
      BY <1>3, <2>1, <3>1 DEF WriteMarker
    <3> QED BY <1>3, <3>3, <3>4 DEF WriteMarker
  <2> QED BY <1>3, <2>2, <2>3 DEF WriteMarker
<1>4. CASE Save
  <2>1. At("save") /\ run.audio \in Audios /\ run.job \in Ids
    BY <1>4 DEF Save, At, WindowTyped
  <2>2. Append(saved[run.audio], run.job) \in Seq(Ids) BY <2>1
  <2>3. saved' \in [Audios -> Seq(Ids)] BY <1>4, <2>2 DEF Save
  <2>4. active' \in [Audios -> Texts] BY <1>4, <2>1 DEF Save, Texts
  <2> QED BY <1>4, <2>3, <2>4 DEF Save
<1>5. CASE Acknowledge BY <1>5 DEF Acknowledge
<1>6. CASE Post \/ Posted \/ Got \/ DeleteJob \/ Show
  BY <1>6, <1>1 DEF Post, Posted, Got, DeleteJob, Show
<1>7. CASE User
  <2>1. UNCHANGED <<marker, saved, origin, agreed, dropped>>
    BY <1>7 DEF User, Start, Cancel, LoadStart, LoadRead, SwitchStart, Arrive
  <2>2. active' \in [Audios -> Texts]
    BY <1>7 DEF User, Start, Cancel, LoadStart, LoadRead, SwitchStart, Arrive, Texts
  <2> QED BY <2>1, <2>2
<1>8. CASE Reload \/ Restart \/ Day BY <1>8, <1>1 DEF Reload, Restart, Day
<1>9. ASSUME NEW j \in Ids, Accept(j) \/ Working(j) \/ Finish(j) PROVE FolderTyped'
  BY <1>9, <1>1 DEF Accept, Working, Finish
<1>10. CASE UNCHANGED vars BY <1>10, <1>1 DEF vars
<1> QED BY <1>2, <1>3, <1>4, <1>5, <1>6, <1>7, <1>8, <1>9, <1>10 DEF Next, Window

LEMMA WindowTypedStep ==
    ASSUME TypeInv, [Next]_vars
    PROVE  WindowTyped'
<1> USE SetAssumption DEF TypeInv, WindowTyped, At, Goto, End, NoRun, NoNav, Texts, Points, Once
<1>1. CASE Prepare
  <2>1. marker[run.audio] # None => marker[run.audio].job \in Ids
    BY <1>1 DEF Prepare, FolderTyped, Marks
  <2>2. CASE run' = [run EXCEPT !.pc = "write"] \/ run' = [run EXCEPT !.pc = "write", !.agreed = TRUE]
    BY <1>1, <2>2 DEF Prepare, view
  <2>3. CASE run' = NoRun BY <1>1, <2>3 DEF Prepare, view
  <2>4. CASE /\ marker[run.audio] # None
             /\ run' = [run EXCEPT !.pc = "wait", !.prior = TRUE, !.job = marker[run.audio].job]
    BY <1>1, <2>1, <2>4 DEF Prepare, view
  <2> QED BY <1>1, <2>2, <2>3, <2>4 DEF Prepare, Agree
<1>2. CASE Dismiss BY <1>2 DEF Dismiss, Delete, view
<1>3. CASE WriteMarker
  <2>1. CASE run' = NoRun BY <1>3, <2>1 DEF WriteMarker, view
  <2>2. CASE /\ Unused # {}
             /\ run' = [run EXCEPT !.pc = "post", !.job = NewId, !.prior = FALSE]
    <3>1. NewId \in Ids BY <2>2, NewIdUnused
    <3> QED BY <1>3, <2>2, <3>1 DEF WriteMarker, view
  <2> QED BY <1>3, <2>1, <2>2 DEF WriteMarker
<1>4. CASE Post BY <1>4 DEF Post, view
<1>5. CASE Posted BY <1>5 DEF Posted, view
<1>6. CASE Wait
  <2>1. /\ At("wait") /\ UNCHANGED <<screen, nav>> /\ used' \subseteq Events
        /\ \/ run' \in {run, NoRun}
           \/ run' = [run EXCEPT !.pc = "got"]
           \/ run' = [run EXCEPT !.pc = "dismiss", !.agreed = TRUE]
    BY <1>6 DEF Wait, Failed, Agree, Unreachable, view
  <2>2. CASE run' = run \/ run' = NoRun BY <2>1, <2>2
  <2>3. CASE run' = [run EXCEPT !.pc = "got"] BY <2>1, <2>3
  <2>4. CASE run' = [run EXCEPT !.pc = "dismiss", !.agreed = TRUE] BY <2>1, <2>4
  <2> QED BY <2>1, <2>2, <2>3, <2>4
<1>7. CASE Got BY <1>7 DEF Got, AfterArrival, view
<1>8. CASE Save BY <1>8 DEF Save, AfterSaving, view
<1>9. CASE Acknowledge BY <1>9 DEF Acknowledge, view
<1>10. CASE DeleteJob BY <1>10 DEF DeleteJob, Delete, view
<1>11. CASE Show BY <1>11 DEF Show
<1>12. CASE Start BY <1>12 DEF Start, view
<1>13. CASE Cancel BY <1>13 DEF Cancel, view
<1>14. CASE LoadStart
  <2>1. PICK a \in Audios : nav' = [pc |-> "flush", audio |-> a, text |-> 0] BY <1>14 DEF LoadStart
  <2>2. UNCHANGED <<run, screen>> /\ used' \subseteq Events BY <1>14 DEF LoadStart
  <2> QED BY <2>1, <2>2
<1>15. CASE LoadRead
  <2>1. nav.audio \in Audios /\ active[nav.audio] \in Texts BY <1>15 DEF LoadRead, FolderTyped
  <2>2. CASE At("idle") BY <1>15, <2>1, <2>2 DEF LoadRead
  <2>3. CASE ~At("idle") BY <1>15, <2>3 DEF LoadRead
  <2> QED BY <2>2, <2>3
<1>16. CASE SwitchStart
  <2>1. Range(saved[screen.audio]) \subseteq Ids BY DEF Range, FolderTyped
  <2>2. \E v \in Texts : nav' = [pc |-> "switch", audio |-> screen.audio, text |-> v]
    BY <1>16, <2>1 DEF SwitchStart
  <2>3. UNCHANGED <<run, screen>> /\ used' \subseteq Events BY <1>16 DEF SwitchStart
  <2> QED BY <2>2, <2>3
<1>17. CASE Arrive
  <2>1. nav.audio \in Audios /\ nav.text \in Texts BY <1>17 DEF Arrive
  <2>2. /\ screen' = [audio |-> nav.audio, text |-> nav.text]
        /\ nav' = NoNav /\ UNCHANGED <<run, used>>
    BY <1>17 DEF Arrive
  <2> QED BY <2>1, <2>2
<1>18. CASE Reload BY <1>18 DEF Reload, FolderTyped
<1>19. CASE Restart \/ Day BY <1>19 DEF Restart, Day, view
<1>20. ASSUME NEW j \in Ids, Accept(j) \/ Working(j) \/ Finish(j) PROVE WindowTyped'
  BY <1>20 DEF Accept, Working, Finish, view
<1>21. CASE UNCHANGED vars BY <1>21 DEF vars, view
<1> HIDE DEF WindowTyped
<1> QED
  BY <1>1, <1>2, <1>3, <1>4, <1>5, <1>6, <1>7, <1>8, <1>9, <1>10, <1>11, <1>12, <1>13, <1>14,
     <1>15, <1>16, <1>17, <1>18, <1>19, <1>20, <1>21 DEF Next, Window, User

LEMMA TypeInit == Init => TypeInv
<1> SUFFICES ASSUME Init PROVE TypeInv OBVIOUS
<1> USE SetAssumption, CopyAssumption DEF Init, InitCopy
<1>1. CopyTyped BY NoWorkerTyped DEF CopyTyped
<1>2. JobsTyped BY DEF JobsTyped
<1>3. FolderTyped BY DEF FolderTyped, Texts
<1>4. WindowTyped BY DEF WindowTyped, NoRun, NoNav, Texts, Points, At
<1> QED BY <1>1, <1>2, <1>3, <1>4 DEF TypeInv

LEMMA TypeStep == TypeInv /\ [Next]_vars => TypeInv'
BY CopyTypedStep, JobsTypedStep, FolderTypedStep, WindowTypedStep DEF TypeInv
-----------------------------------------------------------------------------
(* The marker, the versions and the window.                                 *)

LEMMA RangeFacts ==
    ASSUME NEW s \in Seq(Ids), NEW j \in Ids
    PROVE  /\ Range(s) \subseteq Ids
           /\ Append(s, j) \in Seq(Ids)
           /\ Range(Append(s, j)) = Range(s) \cup {j}
<1>1. Len(s) \in Nat /\ DOMAIN s = 1 .. Len(s) /\ \A i \in 1 .. Len(s) : s[i] \in Ids OBVIOUS
<1>2. /\ Append(s, j) \in Seq(Ids) /\ Len(Append(s, j)) = Len(s) + 1
      /\ Append(s, j)[Len(s) + 1] = j
      /\ \A i \in 1 .. Len(s) : Append(s, j)[i] = s[i]
  BY <1>1
<1>3. DOMAIN Append(s, j) = 1 .. Len(s) + 1 BY <1>1, <1>2
<1>4. 1 .. Len(s) + 1 = (1 .. Len(s)) \cup {Len(s) + 1} BY <1>1
<1> HIDE <1>2
<1> QED BY <1>1, <1>2, <1>3, <1>4 DEF Range

LEMMA MarkFacts ==
    ASSUME TypeInv, NEW a \in Audios, marker[a] # None
    PROVE  marker[a] \in Marks /\ marker[a].job \in Ids /\ marker[a].sig \in Settings
BY DEF TypeInv, FolderTyped, Marks

\* No version has an identity that no job has.
LEMMA NewUnsaved ==
    ASSUME TypeInv, FolderInv, NEW n \in Ids, origin[n] = None
    PROVE  \A a \in Audios : Range(saved[a]) \subseteq Ids \ {n} /\ n \notin Range(saved[a])
BY SetAssumption DEF FolderInv, TypeInv, FolderTyped, Range

LEMMA MarkStep ==
    ASSUME TypeInv, FolderInv, RunInv, [Next]_vars
    PROVE  FolderInv' /\ RunInv'
<1> DEFINE Still == UNCHANGED <<marker, saved, active, origin, dropped>>
<1> USE DEF backend, folder, view, history
<1>1. CASE Still /\ run'.pc = run.pc /\ run'.job = run.job /\ run'.audio = run.audio
           /\ run'.agreed = run.agreed
  BY <1>1 DEF FolderInv, RunInv, Leads, At
<1>2. CASE Still /\ run' = NoRun
  BY <1>2 DEF FolderInv, RunInv, Leads, At, NoRun
<1>3. CASE Prepare
  <2>1. At("prepare") /\ run.audio \in Audios /\ UNCHANGED <<marker, saved, active, origin>>
        /\ DOMAIN run = DOMAIN NoRun
    BY <1>3 DEF Prepare, At, TypeInv, WindowTyped, Agree
  <2>2. CASE marker[run.audio] = None /\ Goto("write") /\ UNCHANGED dropped
    BY <2>1, <2>2 DEF Goto, FolderInv, RunInv, Leads, At, NoRun
  <2>3. CASE /\ marker[run.audio] # None /\ UNCHANGED dropped
             /\ run' = [run EXCEPT !.pc = "wait", !.prior = TRUE, !.job = marker[run.audio].job]
    BY <2>1, <2>3, MarkFacts DEF FolderInv, RunInv, Leads, At, NoRun
  <2>4. CASE marker[run.audio] # None /\ Agree(marker[run.audio].job, "write")
    BY <2>1, <2>4, MarkFacts DEF Agree, FolderInv, RunInv, Leads, At, NoRun
  <2> QED BY <1>2, <1>3, <2>1, <2>2, <2>3, <2>4 DEF Prepare, End
<1>4. CASE Dismiss
  <2>1. At("dismiss") /\ run' = [run EXCEPT !.pc = "write"] /\ Still /\ DOMAIN run = DOMAIN NoRun
    BY <1>4 DEF Dismiss, Goto, TypeInv, WindowTyped
  <2> QED BY <2>1 DEF FolderInv, RunInv, Leads, At, NoRun
<1>5. CASE WriteMarker
  <2>1. At("write") /\ UNCHANGED <<saved, active, dropped>> /\ DOMAIN run = DOMAIN NoRun
        /\ run.audio \in Audios /\ run.sig \in Settings
    BY <1>5 DEF WriteMarker, TypeInv, WindowTyped, At
  <2>2. CASE /\ Unused # {}
             /\ marker' = [marker EXCEPT ![run.audio] = [job |-> NewId, sig |-> run.sig]]
             /\ origin' = [origin EXCEPT ![NewId] = run.audio]
             /\ run' = [run EXCEPT !.pc = "post", !.job = NewId, !.prior = FALSE]
    <3> DEFINE n == NewId
    <3>1. n \in Ids /\ origin[n] = None BY <2>2, NewIdUnused
    <3> HIDE DEF n
    <3>2. /\ marker' = [marker EXCEPT ![run.audio] = [job |-> n, sig |-> run.sig]]
          /\ origin' = [origin EXCEPT ![n] = run.audio]
          /\ run'.pc = "post" /\ run'.job = n /\ run'.audio = run.audio
      BY <2>1, <2>2 DEF n, NoRun
    <3>3. /\ marker'[run.audio].job = n /\ origin'[n] = run.audio
          /\ marker'[run.audio] # None
          /\ \A a \in Audios \ {run.audio} : marker'[a] = marker[a]
          /\ \A j \in Ids \ {n} : origin'[j] = origin[j]
      BY <2>1, <3>1, <3>2, NoneAssumption DEF TypeInv, FolderTyped, Marks
    <3>4. \A a \in Audios : marker[a] # None => marker[a].job \in Ids \ {n}
      BY <3>1, MarkFacts, SetAssumption DEF FolderInv
    <3>5. \A a \in Audios : Range(saved[a]) \subseteq Ids \ {n}
      BY <3>1, NewUnsaved
    <3>6. (\A a \in Audios : marker[a] # None => origin[marker[a].job] = a)'
      BY <2>1, <3>1, <3>3, <3>4, MarkFacts DEF FolderInv
    <3>7. (\A a \in Audios : \A j \in Range(saved[a]) : origin[j] = a)'
      BY <2>1, <3>3, <3>5 DEF FolderInv
    <3>8. \A j \in Ids \ dropped : origin'[j] # None => j \in Range(saved[origin'[j]]) \/ Leads(j)'
      <4> SUFFICES ASSUME NEW j \in Ids \ dropped, origin'[j] # None
                   PROVE  j \in Range(saved[origin'[j]]) \/ Leads(j)'
        OBVIOUS
      <4>1. CASE j = n BY <4>1, <3>3 DEF Leads
      <4>2. CASE j # n /\ origin[j] = run.audio
        BY <4>2, <2>1, <3>3 DEF FolderInv, RunInv, Leads, At
      <4>3. CASE j # n /\ origin[j] # run.audio
        <5>1. origin[j] \in Audios \ {run.audio} BY <4>3, <3>3 DEF TypeInv, FolderTyped
        <5> QED BY <5>1, <4>3, <3>3 DEF FolderInv, Leads
      <4> QED BY <4>1, <4>2, <4>3
    <3>9. FolderInv' BY <2>1, <3>6, <3>7, <3>8 DEF FolderInv
    <3>10. RunInv' BY <2>1, <3>2, <3>3 DEF RunInv, Leads, At
    <3> QED BY <3>9, <3>10
  <2> QED BY <1>2, <1>5, <2>2 DEF WriteMarker, End
<1>6. CASE Post
  <2>1. Still /\ (run' = NoRun \/ (At("post") /\ run' = [run EXCEPT !.pc = "posted"]))
    BY <1>6 DEF Post, End, Goto
  <2> QED BY <1>2, <2>1 DEF FolderInv, RunInv, Leads, At, TypeInv, WindowTyped, NoRun
<1>7. CASE Posted
  <2>1. Still /\ (run' = NoRun \/ (At("posted") /\ run' = [run EXCEPT !.pc = "wait"]))
    BY <1>7 DEF Posted, End, Goto
  <2> QED BY <1>2, <2>1 DEF FolderInv, RunInv, Leads, At, TypeInv, WindowTyped, NoRun
<1>8. CASE Wait
  <2>1. /\ At("wait") /\ UNCHANGED <<marker, saved, active, origin>> /\ DOMAIN run = DOMAIN NoRun
        /\ run.audio \in Audios /\ run.job \in Ids
    BY <1>8 DEF Wait, TypeInv, WindowTyped, At, Failed, Agree, Unreachable
  <2>2. \/ Still /\ (run' = NoRun \/ run' = run \/ run' = [run EXCEPT !.pc = "got"])
        \/ Agree(run.job, "dismiss")
    BY <1>8 DEF Wait, Failed, Unreachable, End, Goto
  <2>3. CASE Still /\ run' = [run EXCEPT !.pc = "got"]
    BY <2>1, <2>3 DEF FolderInv, RunInv, Leads, At, NoRun
  <2>4. CASE Agree(run.job, "dismiss")
    BY <2>1, <2>4 DEF FolderInv, RunInv, Leads, At, NoRun, Agree
  <2> QED BY <1>1, <1>2, <2>2, <2>3, <2>4
<1>9. CASE Got
  <2>1. Still /\ (run' = NoRun \/ (At("got") /\ run' = [run EXCEPT !.pc = "save"]))
    BY <1>9 DEF Got, End, Goto, AfterArrival
  <2> QED BY <1>2, <2>1 DEF FolderInv, RunInv, Leads, At, TypeInv, WindowTyped, NoRun
<1>10. CASE Save
  <2>1. /\ At("save") /\ UNCHANGED <<marker, origin, dropped>> /\ DOMAIN run = DOMAIN NoRun
        /\ run.audio \in Audios /\ run.job \in Ids /\ origin[run.job] = run.audio /\ Leads(run.job)
    BY <1>10 DEF Save, TypeInv, WindowTyped, At, RunInv
  <2>2. CASE /\ saved' = [saved EXCEPT ![run.audio] = Append(@, run.job)]
             /\ active' = [active EXCEPT ![run.audio] = run.job]
             /\ run' = [run EXCEPT !.pc = "acknowledge"]
    <3>1. /\ Range(saved'[run.audio]) = Range(saved[run.audio]) \cup {run.job}
          /\ \A a \in Audios \ {run.audio} : saved'[a] = saved[a]
          /\ active'[run.audio] = run.job
          /\ \A a \in Audios \ {run.audio} : active'[a] = active[a]
      BY <2>1, <2>2, RangeFacts DEF TypeInv, FolderTyped
    <3>2. \A a \in Audios : Range(saved[a]) \subseteq Range(saved'[a]) BY <3>1
    <3>3. (\A a \in Audios : \A j \in Range(saved[a]) : origin[j] = a)'
      BY <2>1, <3>1 DEF FolderInv
    <3>4. (\A a \in Audios : active[a] \in {0} \cup Range(saved[a]))' BY <3>1, <3>2 DEF FolderInv
    <3>5. (\A j \in Ids \ dropped : origin[j] # None => j \in Range(saved[origin[j]]) \/ Leads(j))'
      <4>1. \A j \in Ids : origin[j] # None => origin[j] \in Audios BY DEF TypeInv, FolderTyped
      <4> QED BY <2>1, <3>2, <4>1 DEF FolderInv, Leads
    <3>6. RunInv'
      <4>1. run'.pc = "acknowledge" /\ run'.job = run.job /\ run'.audio = run.audio
        BY <2>1, <2>2 DEF NoRun
      <4> QED BY <4>1, <2>1, <3>1 DEF RunInv, Leads, At
    <3>7. (\A a \in Audios : marker[a] # None => origin[marker[a].job] = a)' BY <2>1 DEF FolderInv
    <3> QED BY <3>3, <3>4, <3>5, <3>6, <3>7 DEF FolderInv
  <2> QED BY <1>2, <1>10, <2>2, <2>1 DEF Save, AfterSaving, Goto, End
<1>11. CASE Acknowledge
  <2>1. /\ At("acknowledge") /\ UNCHANGED <<saved, active, origin, dropped>> /\ DOMAIN run = DOMAIN NoRun
        /\ run.audio \in Audios /\ run.job \in Ids /\ origin[run.job] = run.audio /\ Leads(run.job)
        /\ run.job \in Range(saved[run.audio])
    BY <1>11 DEF Acknowledge, TypeInv, WindowTyped, At, RunInv
  <2>2. CASE marker' = [marker EXCEPT ![run.audio] = None] /\ run' = [run EXCEPT !.pc = "delete"]
    <3>1. /\ marker'[run.audio] = None /\ \A a \in Audios \ {run.audio} : marker'[a] = marker[a]
          /\ run'.pc = "delete" /\ run'.job = run.job /\ run'.audio = run.audio
      BY <2>1, <2>2 DEF NoRun, TypeInv, FolderTyped
    <3>2. RunInv' BY <2>1, <3>1 DEF RunInv, At
    <3>3. \A j \in Ids : origin[j] # None => origin[j] \in Audios BY DEF TypeInv, FolderTyped
    <3>4. (\A j \in Ids \ dropped : origin[j] # None => j \in Range(saved[origin[j]]) \/ Leads(j))'
      BY <2>1, <3>1, <3>3 DEF FolderInv, Leads
    <3> QED BY <2>1, <3>1, <3>2, <3>4 DEF FolderInv
  <2>3. CASE marker' = marker /\ run' = [run EXCEPT !.pc = "show"]
    BY <2>1, <2>3 DEF FolderInv, RunInv, Leads, At, NoRun
  <2> QED BY <1>11, <2>2, <2>3 DEF Acknowledge, Goto
<1>12. CASE DeleteJob
  <2>1. Still /\ At("delete") /\ run' = [run EXCEPT !.pc = "show"] BY <1>12 DEF DeleteJob, Goto
  <2> QED BY <2>1 DEF FolderInv, RunInv, Leads, At, TypeInv, WindowTyped, NoRun
<1>13. CASE Show BY <1>2, <1>13 DEF Show, End
<1>14. CASE Start
  <2>1. Still /\ run'.pc = "prepare" BY <1>14 DEF Start, NoRun
  <2> QED BY <2>1 DEF FolderInv, RunInv, Leads, At
<1>15. CASE Cancel
  <2>1. Still /\ (run' = NoRun \/ run' = [run EXCEPT !.stop = TRUE]) /\ DOMAIN run = DOMAIN NoRun
    BY <1>15 DEF Cancel, End, TypeInv, WindowTyped
  <2> QED BY <1>1, <1>2, <2>1 DEF NoRun
<1>16. CASE LoadStart \/ LoadRead \/ SwitchStart
  <2>1. Still /\ run' = run BY <1>16 DEF LoadStart, LoadRead, SwitchStart
  <2> QED BY <1>1, <2>1
<1>17. CASE Arrive
  <2>1. UNCHANGED <<marker, saved, origin, dropped, run>> BY <1>17 DEF Arrive
  <2>2. \A a \in Audios : active'[a] \in {0, active[a]} BY <1>17 DEF Arrive, TypeInv, FolderTyped
  <2> QED BY <2>1, <2>2 DEF FolderInv, RunInv, Leads, At
<1>18. CASE Reload BY <1>2, <1>18 DEF Reload
<1>19. CASE Restart \/ Day BY <1>1, <1>19 DEF Restart, Day
<1>20. ASSUME NEW j \in Ids, Accept(j) \/ Working(j) \/ Finish(j) PROVE FolderInv' /\ RunInv'
  BY <1>1, <1>20 DEF Accept, Working, Finish
<1>21. CASE UNCHANGED vars BY <1>1, <1>21 DEF vars
<1> QED
  BY <1>3, <1>4, <1>5, <1>6, <1>7, <1>8, <1>9, <1>10, <1>11, <1>12, <1>13, <1>14,
     <1>15, <1>16, <1>17, <1>18, <1>19, <1>20, <1>21 DEF Next, Window, User
-----------------------------------------------------------------------------
(* The jobs and the provider's work.                                        *)

\* A step of the provider's work is one of a worker that was hired.
LEMMA WorkFacts ==
    ASSUME TypeInv, NEW j \in Ids, Work(j)
    PROVE  /\ worker[j].pc # "none"
           /\ \A k \in Ids \ {j} : /\ worker'[k] = worker[k] /\ bucket'[k] = bucket[k]
                                   /\ asked'[k] = asked[k]
           /\ \/ asked' = asked
              \/ worker[j].pc = "create" /\ asked' = [asked EXCEPT ![j] = @ + 1]
           /\ worker[j].pc = "create" => worker'[j].pc \in {"wait", "discard"}
           /\ worker[j].pc \in {"wait", "discard"} => worker'[j].pc \in {"discard", "ended"}
           /\ worker[j].pc # "ended"
<1> USE NoWorkerTyped DEF TypeInv, CopyTyped, WorkerType, Goes, Ends, Stored
<1>1. CASE Put(j) BY <1>1 DEF Put
<1>2. CASE BeginParts(j) BY <1>2 DEF BeginParts
<1>3. CASE PutPart(j)
  <2>1. \A k \in Ids \ {j} : worker'[k] = worker[k] BY <1>3 DEF PutPart
  <2> QED BY <1>3, <2>1 DEF PutPart
<1>4. CASE CompleteParts(j) BY <1>4 DEF CompleteParts
<1>5. CASE AbortParts(j) BY <1>5 DEF AbortParts
<1>6. CASE CreateTask(j) BY <1>6 DEF CreateTask, AfterFailure
<1>7. CASE WaitTask(j)
  <2>1. /\ \A k \in Ids \ {j} : worker'[k] = worker[k]
        /\ worker'[j].pc = "discard"
    BY <1>7 DEF WaitTask, AfterFailure
  <2> QED BY <1>7, <2>1 DEF WaitTask
<1>8. CASE Discard(j) BY <1>8 DEF Discard
<1> QED BY <1>1, <1>2, <1>3, <1>4, <1>5, <1>6, <1>7, <1>8 DEF Work

\* A step that only forgets jobs, or answers of the backend, keeps JobInv.
LEMMA QuietStep ==
    ASSUME TypeInv, JobInv, UNCHANGED <<cvars, origin>>,
           \A j \in Ids : jobs'[j] \in {jobs[j], "none"} /\ transit'[j] \in {transit[j], "no"},
           ~At("post")' \/ (At("post") /\ run'.job = run.job)
    PROVE  JobInv'
<1>1. At("post") => run.job \in Ids BY DEF TypeInv, WindowTyped, At
<1> QED BY <1>1 DEF JobInv, Pristine, cvars, At

LEMMA JobStep ==
    ASSUME TypeInv, RunInv, JobInv, [Next]_vars
    PROVE  JobInv'
<1> DEFINE Forgets == \A j \in Ids : jobs'[j] \in {jobs[j], "none"} /\ transit'[j] \in {transit[j], "no"}
<1> USE DEF backend, history
<1>0. DOMAIN run = DOMAIN NoRun /\ jobs \in [Ids -> {"none", "running", "completed", "empty", "failed"}]
      /\ transit \in [Ids -> {"no", "sent", "accepted", "full"}]
  BY DEF TypeInv, WindowTyped, JobsTyped
<1>1. CASE Prepare \/ Dismiss \/ Wait \/ Got \/ Save \/ Acknowledge \/ DeleteJob \/ Show
  <2>1. UNCHANGED <<cvars, origin, transit>>
    BY <1>1 DEF Prepare, Dismiss, Wait, Got, Save, Acknowledge, DeleteJob, Show, Agree, Failed,
                Unreachable
  <2>2. jobs' \in {jobs, Pruned, Without(run.job)}
    BY <1>1 DEF Prepare, Dismiss, Delete, Wait, Got, Save, Acknowledge, DeleteJob, Show
  <2>3. \A j \in Ids : jobs'[j] \in {jobs[j], "none"} BY <1>0, <2>2 DEF Pruned, Without
  <2>4. CASE Prepare
    <3>1. run'.pc \in {"idle", "write", "wait"}
      <4>1. CASE run' = [run EXCEPT !.pc = "write"] BY <1>0, <4>1 DEF NoRun
      <4>2. CASE run' = NoRun BY <4>2 DEF NoRun
      <4>3. CASE run' = [run EXCEPT !.pc = "wait", !.prior = TRUE, !.job = marker[run.audio].job]
        BY <1>0, <4>3 DEF NoRun
      <4>4. CASE run' = [run EXCEPT !.pc = "write", !.agreed = TRUE] BY <1>0, <4>4 DEF NoRun
      <4> QED BY <2>4, <4>1, <4>2, <4>3, <4>4 DEF Prepare, Goto, End, Agree
    <3> QED BY <1>0, <2>1, <2>3, <3>1, QuietStep DEF At
  <2>5. CASE ~Prepare
    <3>1. CASE Dismiss \/ Got \/ Save \/ Acknowledge \/ DeleteJob \/ Show
      <4>1. ~At("post")'
        BY <1>0, <3>1 DEF Dismiss, Got, Save, Acknowledge, DeleteJob, Show, At, Goto, End, NoRun,
                          AfterArrival, AfterSaving
      <4> QED BY <1>0, <2>1, <2>3, <4>1, QuietStep
    <3>2. CASE Wait
      <4>1. \/ run' \in {run, NoRun} /\ At("wait")
            \/ run' = [run EXCEPT !.pc = "got"]
            \/ run' = [run EXCEPT !.pc = "dismiss", !.agreed = TRUE]
        BY <3>2 DEF Wait, Goto, End, Failed, Agree, Unreachable
      <4>2. run'.pc \in {"wait", "idle", "got", "dismiss"}
        <5>1. CASE run' \in {run, NoRun} /\ At("wait") BY <5>1 DEF At, NoRun
        <5>2. CASE run' = [run EXCEPT !.pc = "got"] BY <1>0, <5>2 DEF NoRun
        <5>3. CASE run' = [run EXCEPT !.pc = "dismiss", !.agreed = TRUE] BY <1>0, <5>3 DEF NoRun
        <5> QED BY <4>1, <5>1, <5>2, <5>3
      <4>3. ~At("post")' BY <4>2 DEF At
      <4> QED BY <1>0, <2>1, <2>3, <4>3, QuietStep
    <3> QED BY <1>1, <2>5, <3>1, <3>2
  <2> QED BY <2>4, <2>5
<1>2. CASE WriteMarker
  <2>1. CASE run' = NoRun /\ UNCHANGED origin
    <3>1. ~At("post")' /\ UNCHANGED <<cvars, transit, jobs>>
      BY <1>2, <2>1 DEF WriteMarker, At, NoRun
    <3> QED BY <2>1, <3>1, QuietStep
  <2>2. CASE /\ Unused # {} /\ origin' = [origin EXCEPT ![NewId] = run.audio]
             /\ run' = [run EXCEPT !.pc = "post", !.job = NewId, !.prior = FALSE]
    <3> DEFINE n == NewId
    <3>1. n \in Ids /\ origin[n] = None BY <2>2, NewIdUnused
    <3> HIDE DEF n
    <3>2. run'.job = n /\ UNCHANGED <<cvars, transit, jobs>>
          /\ \A j \in Ids \ {n} : origin'[j] = origin[j]
      BY <1>0, <1>2, <2>2 DEF WriteMarker, n, NoRun, TypeInv, FolderTyped
    <3>3. Pristine(n) /\ transit[n] = "no" BY <3>1 DEF JobInv
    <3>4. origin'[n] \in Audios
      BY <3>1, <2>2, <1>2 DEF n, TypeInv, FolderTyped, WindowTyped, WriteMarker, At
    <3> QED BY <3>1, <3>2, <3>3, <3>4, SetAssumption DEF JobInv, Pristine, cvars, At
  <2> QED BY <1>2, <2>1, <2>2 DEF WriteMarker, End
<1>3. CASE Post
  <2>1. UNCHANGED <<cvars, jobs, origin>> BY <1>3 DEF Post
  <2>2. CASE run' = NoRun /\ transit' = transit BY <2>1, <2>2, QuietStep DEF At, NoRun
  <2>3. CASE run' = [run EXCEPT !.pc = "posted"] /\ transit' = [transit EXCEPT ![run.job] = "sent"]
    <3>1. Pristine(run.job) /\ At("post") /\ run.job \in Ids
      BY <1>3 DEF Post, JobInv, TypeInv, WindowTyped, At
    <3>2. ~At("post")' BY <1>0, <2>3 DEF At, NoRun
    <3>3. origin[run.job] # None
      BY <3>1, <1>3, SetAssumption DEF RunInv, Post, TypeInv, WindowTyped, At
    <3>4. \A j \in Ids \ {run.job} : transit'[j] = transit[j] BY <1>0, <2>3
    <3> QED BY <2>1, <3>1, <3>2, <3>3, <3>4 DEF JobInv, Pristine, cvars
  <2> QED BY <1>3, <2>2, <2>3 DEF Post, End, Goto
<1>4. CASE Posted
  <2>1. ~At("post")' /\ UNCHANGED <<cvars, jobs, origin>>
    BY <1>0, <1>4 DEF Posted, At, Goto, End, NoRun
  <2>2. \A j \in Ids : transit'[j] \in {transit[j], "no"} BY <1>0, <1>4 DEF Posted, Unanswered
  <2> QED BY <2>1, <2>2, QuietStep
<1>5. CASE Cancel
  <2>1. UNCHANGED <<cvars, jobs, origin>> /\ (~At("post")' \/ (At("post") /\ run'.job = run.job))
    BY <1>0, <1>5 DEF Cancel, At, End, NoRun
  <2>2. \A j \in Ids : transit'[j] \in {transit[j], "no"} BY <1>0, <1>5 DEF Cancel, Unanswered
  <2> QED BY <2>1, <2>2, QuietStep
<1>6. CASE Start
  BY <1>6, QuietStep DEF Start, At, NoRun
<1>7. CASE LoadStart \/ LoadRead \/ SwitchStart \/ Arrive
  <2>1. UNCHANGED <<cvars, jobs, origin, transit, run>>
    BY <1>7 DEF LoadStart, LoadRead, SwitchStart, Arrive
  <2> QED BY <2>1, QuietStep DEF At
<1>8. CASE Reload
  <2>1. UNCHANGED <<cvars, jobs, origin>> /\ ~At("post")' BY <1>8 DEF Reload, At, NoRun
  <2>2. \A j \in Ids : transit'[j] \in {transit[j], "no"} BY <1>0, <1>8 DEF Reload, Unanswered
  <2> QED BY <2>1, <2>2, QuietStep
<1>9. CASE Day \/ UNCHANGED vars
  <2>1. UNCHANGED <<cvars, jobs, origin, transit, run>> BY <1>9 DEF Day, vars, cvars
  <2> QED BY <2>1, QuietStep DEF At
<1>10. CASE Restart
  <2>1. /\ UNCHANGED <<bucket, asked, run, origin>>
        /\ \A j \in Ids : /\ worker'[j].pc = "none" /\ jobs'[j] = "none"
                          /\ transit'[j] # "sent" /\ transit'[j] \in {transit[j], "no"}
    BY <1>0, <1>10 DEF Restart, NoWorker
  <2> QED BY <2>1, <1>0 DEF JobInv, Pristine, At, TypeInv, WindowTyped
<1>11. ASSUME NEW j \in Ids, Accept(j) PROVE JobInv'
  <2>1. UNCHANGED <<asked, bucket, run, origin>> /\ transit[j] = "sent" BY <1>11 DEF Accept, cvars
  <2>2. Pristine(j) /\ origin[j] # None BY <2>1 DEF JobInv
  <2>3. ~At("post") \/ run.job # j BY <2>1 DEF JobInv
  <2>4. \A k \in Ids : k # j => worker'[k] = worker[k] /\ transit'[k] = transit[k]
                              /\ jobs'[k] \in {jobs[k], "none"}
    BY <1>0, <1>11 DEF Accept, Hired, Reply, Pruned, TypeInv, CopyTyped
  <2>5. transit'[j] # "sent" BY <1>0, <1>11 DEF Accept, Reply
  <2> QED BY <2>1, <2>2, <2>3, <2>4, <2>5 DEF JobInv, Pristine, At, TypeInv, WindowTyped
<1>12. ASSUME NEW j \in Ids, Working(j) PROVE JobInv'
  <2>1. UNCHANGED <<jobs, transit, run, origin>> BY <1>12 DEF Working
  <2>2. ~Pristine(j) /\ (At("post") => run.job # j) BY <1>12, WorkFacts DEF Working, Pristine, JobInv
  <2>3. \A k \in Ids : asked'[k] <= 1 /\ (asked'[k] = 0 \/ worker'[k].pc \in {"none", "wait", "discard", "ended"})
    <3>1. asked \in [Ids -> Nat] BY DEF TypeInv, CopyTyped
    <3>2. \A k \in Ids : k # j => worker'[k] = worker[k] /\ asked'[k] = asked[k]
      BY <1>12, WorkFacts DEF Working
    <3>3. CASE asked' = asked
      BY <1>12, <3>1, <3>2, <3>3, WorkFacts DEF Working, JobInv
    <3>4. CASE worker[j].pc = "create" /\ asked' = [asked EXCEPT ![j] = @ + 1]
      <4>1. asked[j] = 0 BY <3>4 DEF JobInv
      <4>2. asked'[j] = 1 BY <3>1, <3>4, <4>1
      <4> QED BY <1>12, <3>2, <3>4, <4>2, WorkFacts DEF Working, JobInv
    <3> QED BY <1>12, <3>3, <3>4, WorkFacts DEF Working
  <2>4. \A k \in Ids : k # j => (Pristine(k) => Pristine(k)')
    BY <1>12, <2>1, WorkFacts DEF Working, Pristine
  <2> QED BY <2>1, <2>2, <2>3, <2>4 DEF JobInv, At, TypeInv, WindowTyped
<1>13. ASSUME NEW j \in Ids, Finish(j) PROVE JobInv'
  <2>1. UNCHANGED <<cvars, transit, run, origin>> /\ jobs[j] = "running" BY <1>13 DEF Finish
  <2>2. \A k \in Ids : k # j => jobs'[k] = jobs[k] BY <1>0, <1>13 DEF Finish
  <2>3. ~Pristine(j) BY <2>1 DEF Pristine
  <2> QED BY <2>1, <2>2, <2>3 DEF JobInv, Pristine, cvars, At, TypeInv, WindowTyped
<1> QED
  BY <1>1, <1>2, <1>3, <1>4, <1>5, <1>6, <1>7, <1>8, <1>9, <1>10, <1>11, <1>12, <1>13
  DEF Next, Window, User

LEMMA BucketStep ==
    ASSUME TypeInv, JobInv, BucketInv, [Next]_vars
    PROVE  BucketInv'
<1> USE DEF backend
<1>1. CASE UNCHANGED cvars BY <1>1 DEF BucketInv, cvars
<1>2. CASE Window \/ User \/ Reload \/ Day
  <2>1. UNCHANGED cvars
    BY <1>2 DEF Window, Prepare, Dismiss, WriteMarker, Post, Posted, Wait, Got, Save, Acknowledge,
                DeleteJob, Show, User, Start, Cancel, LoadStart, LoadRead, SwitchStart, Arrive,
                Reload, Day
  <2> QED BY <2>1, <1>1
<1>3. CASE Restart BY <1>3 DEF Restart, NoWorker, BucketInv
<1>4. ASSUME NEW j \in Ids, Accept(j) PROVE BucketInv'
  <2>1. Pristine(j) /\ UNCHANGED <<bucket, excused>> BY <1>4 DEF Accept, JobInv
  <2>2. \A k \in Ids : k # j => worker'[k] = worker[k]
    BY <1>4 DEF Accept, Hired, TypeInv, CopyTyped
  <2> QED BY <2>1, <2>2 DEF BucketInv, Pristine
<1>5. ASSUME NEW j \in Ids, Working(j) PROVE BucketInv'
  <2>1. \A k \in Ids : k # j => worker'[k] = worker[k] /\ bucket'[k] = bucket[k]
    BY <1>5, WorkFacts DEF Working
  <2>2. excused' \in {excused, excused \cup {j}}
    BY <1>5 DEF Working, Work, Put, BeginParts, PutPart, CompleteParts, AbortParts, CreateTask,
                WaitTask, Discard, Excuse
  <2>3. j \notin excused' =>
          /\ worker'[j].pc \in {"put", "begin", "part", "complete", "abort", "ended"} => ~bucket'[j].copy
          /\ worker'[j].pc \in {"put", "begin", "create", "wait", "discard", "ended"} => ~bucket'[j].open
    <3> SUFFICES ASSUME j \notin excused'
                 PROVE /\ worker'[j].pc \in {"put", "begin", "part", "complete", "abort", "ended"}
                              => ~bucket'[j].copy
                       /\ worker'[j].pc \in {"put", "begin", "create", "wait", "discard", "ended"}
                              => ~bucket'[j].open
      OBVIOUS
    <3>0. Work(j) /\ j \notin excused BY <1>5, <2>2 DEF Working
    <3> USE NoWorkerTyped DEF TypeInv, CopyTyped, WorkerType, Goes, Ends, Stored, Excuse, BucketInv
    <3>1. CASE Put(j) BY <3>0, <3>1 DEF Put
    <3>2. CASE BeginParts(j) BY <3>0, <3>2 DEF BeginParts
    <3>3. CASE PutPart(j)
      <4>1. worker'[j].pc \in {"part", "complete", "abort"} BY <3>3 DEF PutPart
      <4> QED BY <3>0, <3>3, <4>1 DEF PutPart
    <3>4. CASE CompleteParts(j) BY <3>0, <3>4 DEF CompleteParts
    <3>5. CASE AbortParts(j) BY <3>0, <3>5 DEF AbortParts
    <3>6. CASE CreateTask(j) BY <3>0, <3>6 DEF CreateTask, AfterFailure
    <3>7. CASE WaitTask(j)
      <4>1. worker'[j].pc = "discard" BY <3>7 DEF WaitTask, AfterFailure
      <4> QED BY <3>0, <3>7, <4>1 DEF WaitTask
    <3>8. CASE Discard(j) BY <3>0, <3>8 DEF Discard
    <3> QED BY <3>0, <3>1, <3>2, <3>3, <3>4, <3>5, <3>6, <3>7, <3>8 DEF Work
  <2> QED BY <2>1, <2>2, <2>3 DEF BucketInv
<1>6. ASSUME NEW j \in Ids, Finish(j) PROVE BucketInv' BY <1>6, <1>1 DEF Finish
<1> QED BY <1>1, <1>2, <1>3, <1>4, <1>5, <1>6 DEF Next, vars
-----------------------------------------------------------------------------
(* What was paid for, what was saved, and what the backend keeps.            *)

LEMMA PaidStep ==
    ASSUME TypeInv, JobInv, FolderInv, RunInv, PaidInv, [Next]_vars
    PROVE  PaidInv'
<1> USE DEF folder, history
<1>1. CASE UNCHANGED <<marker, saved, origin, agreed>> BY <1>1 DEF PaidInv, Unagreed, Owing
<1>2. CASE WriteMarker
  <2>1. At("write") /\ run.audio \in Audios /\ run.sig \in Settings /\ UNCHANGED saved
    BY <1>2 DEF WriteMarker, TypeInv, WindowTyped, At
  <2>2. CASE /\ Unused # {}
             /\ marker' = [marker EXCEPT ![run.audio] = [job |-> NewId, sig |-> run.sig]]
             /\ origin' = [origin EXCEPT ![NewId] = run.audio]
             /\ agreed' = IF run.agreed THEN agreed \cup {NewId} ELSE agreed
    <3> DEFINE n == NewId
    <3>0. PICK a \in Audios : a = run.audio BY <2>1
    <3>1. n \in Ids /\ origin[n] = None BY <2>2, NewIdUnused
    <3>2. /\ marker' = [marker EXCEPT ![a] = [job |-> n, sig |-> run.sig]]
          /\ origin' = [origin EXCEPT ![n] = a]
          /\ agreed' = IF run.agreed THEN agreed \cup {n} ELSE agreed
      BY <2>2, <3>0
    <3> HIDE DEF n
    <3>3. /\ marker'[a].job = n /\ marker'[a] # None /\ origin'[n] = a
          /\ \A b \in Audios \ {a} : marker'[b] = marker[b]
          /\ \A j \in Ids \ {n} : origin'[j] = origin[j]
      BY <2>1, <3>1, <3>2, NoneAssumption DEF TypeInv, FolderTyped, Marks
    <3>4. \A b \in Audios : Range(saved[b]) \subseteq Ids \ {n}
      BY <3>1, NewUnsaved
    <3>5. Owing(a)' BY <2>1, <3>3, <3>4 DEF Owing
    <3>6. \A b \in Audios \ {a} : Unagreed(b)' = Unagreed(b) /\ (Owing(b)' <=> Owing(b))
      BY <2>1, <3>1, <3>2, <3>3, SetAssumption DEF Unagreed, Owing
    <3>7. CASE run.agreed
      <4>1. Unagreed(a)' = Unagreed(a) BY <3>1, <3>2, <3>3, <3>7, <2>1, SetAssumption DEF Unagreed
      <4>2. Cardinality(Unagreed(a)) \in Nat /\ Cardinality(Range(saved[a])) \in Nat
        BY <2>1, FS_CardinalityType DEF PaidInv
      <4>3. Cardinality(Unagreed(a)) <= Cardinality(Range(saved[a])) + 1 BY <2>1, <4>2 DEF PaidInv
      <4> QED BY <2>1, <3>5, <3>6, <4>1, <4>3 DEF PaidInv
    <3>8. CASE ~run.agreed
      <4>1. marker[a] = None BY <2>1, <3>0, <3>8 DEF RunInv, At
      <4>2. Unagreed(a)' \subseteq Unagreed(a) \cup {n} BY <3>1, <3>2, <3>3, <3>8 DEF Unagreed
      <4>3. /\ IsFiniteSet(Unagreed(a)) /\ IsFiniteSet(Range(saved[a]))
            /\ Cardinality(Unagreed(a)) <= Cardinality(Range(saved[a])) + 0
        BY <2>1, <4>1 DEF PaidInv, Owing
      <4> DEFINE U == Unagreed(a)
                 V == Unagreed(a)'
      <4>4. V \in SUBSET (U \cup {n}) BY <4>2
      <4> HIDE DEF U, V
      <4>5. IsFiniteSet(U) /\ Cardinality(U) \in Nat BY <4>3, FS_CardinalityType DEF U
      <4>6. IsFiniteSet(U \cup {n}) /\ Cardinality(U \cup {n}) <= Cardinality(U) + 1
        <5>1. /\ IsFiniteSet(U \cup {n})
              /\ Cardinality(U \cup {n}) = IF n \in U THEN Cardinality(U) ELSE Cardinality(U) + 1
          BY <4>5, FS_AddElement
        <5>2. CASE n \in U BY <4>5, <5>1, <5>2
        <5>3. CASE n \notin U BY <4>5, <5>1, <5>3
        <5> QED BY <5>2, <5>3
      <4>7. IsFiniteSet(V) /\ Cardinality(V) <= Cardinality(U \cup {n}) BY <4>4, <4>6, FS_Subset
      <4>8. Cardinality(V) \in Nat /\ Cardinality(U \cup {n}) \in Nat /\ Cardinality(Range(saved[a])) \in Nat
        BY <4>3, <4>6, <4>7, FS_CardinalityType
      <4>9. Cardinality(V) <= Cardinality(Range(saved[a])) + 1
        BY <4>3, <4>5, <4>6, <4>7, <4>8 DEF U
      <4> QED BY <2>1, <3>5, <3>6, <4>3, <4>7, <4>9 DEF PaidInv, V
    <3> QED BY <3>7, <3>8
  <2> QED BY <1>1, <1>2, <2>1, <2>2 DEF WriteMarker
<1>3. CASE Save
  <2>1. /\ At("save") /\ UNCHANGED <<marker, origin, agreed>>
        /\ run.audio \in Audios /\ run.job \in Ids /\ origin[run.job] = run.audio /\ Leads(run.job)
    BY <1>3 DEF Save, TypeInv, WindowTyped, At, RunInv
  <2>2. CASE saved' = [saved EXCEPT ![run.audio] = Append(@, run.job)]
    <3>0. PICK a \in Audios : a = run.audio BY <2>1
    <3> DEFINE R == Range(saved[a])
    <3>1. /\ Range(saved'[a]) = R \cup {run.job}
          /\ \A b \in Audios \ {a} : saved'[b] = saved[b]
      BY <2>1, <2>2, <3>0, RangeFacts DEF TypeInv, FolderTyped
    <3>2. ~Owing(a)' BY <2>1, <3>0, <3>1 DEF Owing, Leads
    <3>3. Owing(a) <=> run.job \notin R BY <2>1, <3>0 DEF Owing, Leads
    <3>4. /\ IsFiniteSet(R) /\ IsFiniteSet(Unagreed(a))
          /\ Cardinality(Unagreed(a)) <= Cardinality(R) + (IF Owing(a) THEN 1 ELSE 0)
      BY <2>1 DEF PaidInv
    <3> HIDE DEF R
    <3>5. IsFiniteSet(R \cup {run.job})
          /\ Cardinality(R \cup {run.job}) = IF run.job \in R THEN Cardinality(R) ELSE Cardinality(R) + 1
      BY <3>4, FS_AddElement
    <3>6. Cardinality(R) \in Nat /\ Cardinality(Unagreed(a)) \in Nat BY <3>4, FS_CardinalityType
    <3>7. Cardinality(Unagreed(a)) <= Cardinality(R \cup {run.job}) + 0 BY <3>3, <3>4, <3>5, <3>6
    <3>8. \A b \in Audios : Unagreed(b)' = Unagreed(b) BY <2>1 DEF Unagreed
    <3>9. \A b \in Audios \ {a} : Owing(b)' <=> Owing(b) BY <2>1, <3>0, <3>1 DEF Owing
    <3>10. IsFiniteSet(Range(saved'[a])) /\ Cardinality(Unagreed(a)) <= Cardinality(Range(saved'[a])) + 0
      BY <3>1, <3>5, <3>7
    <3> QED BY <3>1, <3>2, <3>4, <3>8, <3>9, <3>10 DEF PaidInv
  <2> QED BY <1>1, <1>3, <2>1, <2>2 DEF Save
<1>4. CASE Acknowledge
  <2>1. /\ At("acknowledge") /\ UNCHANGED <<saved, origin, agreed>>
        /\ run.audio \in Audios /\ Leads(run.job) /\ origin[run.job] = run.audio
        /\ run.job \in Range(saved[run.audio])
    BY <1>4 DEF Acknowledge, TypeInv, WindowTyped, At, RunInv
  <2>2. CASE marker' = [marker EXCEPT ![run.audio] = None]
    <3>1. \A b \in Audios : Owing(b)' <=> Owing(b)
      BY <2>1, <2>2 DEF Owing, Leads, TypeInv, FolderTyped
    <3>2. \A b \in Audios : Unagreed(b)' = Unagreed(b) BY <2>1 DEF Unagreed
    <3> QED BY <2>1, <3>1, <3>2 DEF PaidInv
  <2> QED BY <1>1, <1>4, <2>1, <2>2 DEF Acknowledge
<1>5. CASE Prepare \/ Dismiss \/ Post \/ Posted \/ Wait \/ Got \/ DeleteJob \/ Show \/ User
           \/ Reload \/ Restart \/ Day \/ UNCHANGED vars
  BY <1>1, <1>5
  DEF Prepare, Dismiss, Post, Posted, Wait, Failed, Agree, Unreachable, Got, DeleteJob, Show, User,
      Start, Cancel, LoadStart, LoadRead, SwitchStart, Arrive, Reload, Restart, Day, vars
<1>6. ASSUME NEW j \in Ids, Accept(j) \/ Working(j) \/ Finish(j) PROVE PaidInv'
  BY <1>1, <1>6 DEF Accept, Working, Finish
<1> QED BY <1>2, <1>3, <1>4, <1>5, <1>6 DEF Next, Window

LEMMA SavedStep ==
    ASSUME TypeInv, FolderInv, RunInv, SavedInv, [Next]_vars
    PROVE  SavedInv'
<1> USE DEF folder, history
<1> SUFFICES ASSUME (used \cap {"reload", "disk"} = {})'
             PROVE  (\A a \in Audios : /\ IsInjective(saved[a])
                                       /\ marker[a] # None => Owing(a) \/ Removing(a))'
  BY DEF SavedInv
<1>0. used \subseteq used' /\ DOMAIN run = DOMAIN NoRun
  BY DEF Next, Window, Prepare, Dismiss, Delete, WriteMarker, Post, Posted, Wait, Got, Save,
         Acknowledge, DeleteJob, Show, User, Start, Cancel, LoadStart, LoadRead, SwitchStart, Arrive,
         Reload, Restart, Day, Accept, Working, Finish, Once, vars, TypeInv, WindowTyped
<1>1. used \cap {"reload", "disk"} = {} BY <1>0
<1>2. \A a \in Audios : IsInjective(saved[a]) /\ (marker[a] # None => Owing(a) \/ Removing(a))
  BY <1>1 DEF SavedInv
<1>3. CASE UNCHANGED <<marker, saved>> /\ (~At("acknowledge") \/ (At("acknowledge")' /\ run'.audio = run.audio))
  BY <1>2, <1>3 DEF Owing, Removing
<1>4. CASE WriteMarker
  <2>1. At("write") /\ run.audio \in Audios /\ run.sig \in Settings /\ UNCHANGED saved
    BY <1>4 DEF WriteMarker, TypeInv, WindowTyped, At
  <2>2. CASE /\ Unused # {}
             /\ marker' = [marker EXCEPT ![run.audio] = [job |-> NewId, sig |-> run.sig]]
    <3> DEFINE n == NewId
    <3>1. n \in Ids /\ origin[n] = None BY <2>2, NewIdUnused
    <3>2. marker' = [marker EXCEPT ![run.audio] = [job |-> n, sig |-> run.sig]] BY <2>2
    <3> HIDE DEF n
    <3>3. marker'[run.audio].job = n /\ \A b \in Audios \ {run.audio} : marker'[b] = marker[b]
      BY <2>1, <3>2 DEF TypeInv, FolderTyped
    <3>4. \A b \in Audios : n \notin Range(saved[b])
      BY <3>1, NewUnsaved
    <3> QED BY <1>2, <2>1, <3>3, <3>4 DEF Owing, Removing, At
  <2>3. CASE UNCHANGED marker BY <1>3, <2>1, <2>3 DEF At
  <2> QED BY <1>4, <2>2, <2>3 DEF WriteMarker
<1>5. CASE Save
  <2>1. /\ At("save") /\ UNCHANGED marker
        /\ run.audio \in Audios /\ run.job \in Ids /\ origin[run.job] = run.audio /\ Leads(run.job)
        /\ "disk" \notin used'
    BY <1>5 DEF Save, TypeInv, WindowTyped, At, RunInv
  <2>2. /\ saved' = [saved EXCEPT ![run.audio] = Append(@, run.job)]
        /\ run' = [run EXCEPT !.pc = "acknowledge"]
    BY <1>5, <2>1 DEF Save, Once, Goto, AfterSaving
  <2> DEFINE a == run.audio
             s == saved[a]
  <2>3. /\ saved'[a] = Append(s, run.job) /\ Range(saved'[a]) = Range(s) \cup {run.job}
        /\ \A b \in Audios \ {a} : saved'[b] = saved[b]
        /\ run'.pc = "acknowledge" /\ run'.audio = a
    BY <1>0, <2>1, <2>2, RangeFacts DEF TypeInv, FolderTyped, NoRun
  <2>4. run.job \notin Range(s) /\ IsInjective(s) BY <1>2, <2>1 DEF Owing, Removing, At, Leads
  <2>5. IsInjective(saved'[a])
    <3>1. s \in Seq(Ids) BY <2>1 DEF TypeInv, FolderTyped
    <3> HIDE DEF s
    <3>2. Len(s) \in Nat /\ DOMAIN s = 1 .. Len(s) BY <3>1
    <3>3. /\ DOMAIN Append(s, run.job) = 1 .. Len(s) + 1
          /\ Append(s, run.job)[Len(s) + 1] = run.job
          /\ \A i \in 1 .. Len(s) : Append(s, run.job)[i] = s[i]
      BY <3>1, <3>2, <2>1
    <3>4. 1 .. Len(s) + 1 = (1 .. Len(s)) \cup {Len(s) + 1} BY <3>2
    <3>5. \A i \in 1 .. Len(s) : s[i] # run.job BY <2>4, <3>2 DEF Range
    <3>6. \A x, y \in DOMAIN Append(s, run.job) :
              Append(s, run.job)[x] = Append(s, run.job)[y] => x = y
      <4> HIDE DEF a
      <4> SUFFICES ASSUME NEW x \in DOMAIN Append(s, run.job), NEW y \in DOMAIN Append(s, run.job),
                          Append(s, run.job)[x] = Append(s, run.job)[y]
                   PROVE  x = y
        OBVIOUS
      <4>1. CASE x \in 1 .. Len(s) /\ y \in 1 .. Len(s) BY <4>1, <2>4, <3>2, <3>3 DEF IsInjective
      <4>2. CASE x = Len(s) + 1 \/ y = Len(s) + 1 BY <4>2, <3>3, <3>4, <3>5
      <4> QED BY <3>3, <3>4, <4>1, <4>2
    <3> QED BY <2>3, <3>6 DEF IsInjective
  <2> QED BY <1>2, <2>1, <2>3, <2>5 DEF Owing, Removing, At
<1>6. CASE Acknowledge
  <2>1. /\ At("acknowledge") /\ UNCHANGED saved /\ run.audio \in Audios /\ "disk" \notin used'
    BY <1>6 DEF Acknowledge, TypeInv, WindowTyped, At
  <2>2. marker' = [marker EXCEPT ![run.audio] = None]
    BY <1>6, <2>1 DEF Acknowledge, Once
  <2>3. marker'[run.audio] = None /\ \A b \in Audios \ {run.audio} : marker'[b] = marker[b]
    BY <2>1, <2>2 DEF TypeInv, FolderTyped
  <2> QED BY <1>2, <2>1, <2>3 DEF Owing, Removing
<1>7. CASE Prepare \/ Dismiss \/ Post \/ Posted \/ Wait \/ Got \/ DeleteJob \/ Show \/ Start
  <2>1. UNCHANGED <<marker, saved>> /\ ~At("acknowledge")
    BY <1>7 DEF Prepare, Dismiss, Post, Posted, Wait, Got, DeleteJob, Show, Start, At
  <2> QED BY <2>1, <1>3
<1>8. CASE Cancel
  <2>1. UNCHANGED <<marker, saved>>
        /\ (~At("acknowledge") \/ (At("acknowledge")' /\ run'.audio = run.audio))
    BY <1>0, <1>8 DEF Cancel, At, NoRun
  <2> QED BY <2>1, <1>3
<1>9. CASE Reload BY <1>9 DEF Reload, Once
<1>10. CASE LoadStart \/ LoadRead \/ SwitchStart \/ Arrive \/ Restart \/ Day \/ UNCHANGED vars
  <2>1. UNCHANGED <<marker, saved, run>>
    BY <1>10 DEF LoadStart, LoadRead, SwitchStart, Arrive, Restart, Day, vars
  <2> QED BY <2>1, <1>3 DEF At
<1>11. ASSUME NEW j \in Ids, Accept(j) \/ Working(j) \/ Finish(j)
       PROVE UNCHANGED <<marker, saved, run>>
  BY <1>11 DEF Accept, Working, Finish
<1>12. CASE UNCHANGED <<marker, saved, run>> BY <1>12, <1>3 DEF At
<1> QED
  BY <1>4, <1>5, <1>6, <1>7, <1>8, <1>9, <1>10, <1>11, <1>12 DEF Next, Window, User

LEMMA CapacityStep ==
    ASSUME TypeInv, CapacityInv, [Next]_vars
    PROVE  CapacityInv'
<1> USE DEF backend
<1>0. jobs \in [Ids -> {"none", "running", "completed", "empty", "failed"}]
      /\ Cardinality(Known) \in Nat /\ MaxJobs \in Nat
  BY FS_CardinalityType, BoundAssumption DEF TypeInv, JobsTyped, CapacityInv
<1>1. CASE Known' \subseteq Known
  <2>1. IsFiniteSet(Known') /\ Cardinality(Known') <= Cardinality(Known)
    BY <1>1, FS_Subset DEF CapacityInv
  <2> QED BY <1>0, <2>1, FS_CardinalityType DEF CapacityInv
<1>2. CASE Window
  <2>1. jobs' \in {jobs, Pruned, Without(run.job)}
    BY <1>2 DEF Window, Prepare, Dismiss, Delete, WriteMarker, Post, Posted, Wait, Got, Save,
                Acknowledge, DeleteJob, Show
  <2> QED BY <1>0, <1>1, <2>1 DEF Known, Pruned, Without
<1>3. CASE User \/ Reload \/ Day \/ UNCHANGED vars
  BY <1>1, <1>3 DEF User, Start, Cancel, LoadStart, LoadRead, SwitchStart, Arrive, Reload, Day, vars, Known
<1>4. CASE Restart BY <1>1, <1>4 DEF Restart, Known
<1>5. ASSUME NEW j \in Ids, Accept(j) PROVE CapacityInv'
  <2>1. CASE Full
    BY <1>0, <1>1, <1>5, <2>1 DEF Accept, Known, Pruned
  <2>2. CASE ~Full
    <3>1. Kept \in SUBSET Known BY DEF Kept, Known, Pruned
    <3>2. IsFiniteSet(Kept) /\ Cardinality(Kept) \in Nat
      BY <3>1, FS_Subset, FS_CardinalityType DEF CapacityInv
    <3>3. Cardinality(Kept) < MaxJobs BY <1>0, <2>2, <3>2 DEF Full
    <3>4. jobs' = [Pruned EXCEPT ![j] = "running"] BY <1>5, <2>2 DEF Accept
    <3>5. Known' = Kept \cup {j} BY <1>5, <3>4 DEF Known, Kept, Pruned
    <3>6. IsFiniteSet(Kept \cup {j}) /\ Cardinality(Kept \cup {j}) <= Cardinality(Kept) + 1
      BY <3>2, FS_AddElement
    <3>7. Cardinality(Kept \cup {j}) \in Nat BY <3>6, FS_CardinalityType
    <3>8. Cardinality(Kept \cup {j}) <= MaxJobs BY <1>0, <3>2, <3>3, <3>6, <3>7
    <3> QED BY <3>5, <3>6, <3>8 DEF CapacityInv
  <2> QED BY <2>1, <2>2
<1>6. ASSUME NEW j \in Ids, Working(j) \/ Finish(j) PROVE CapacityInv'
  <2>1. \A k \in Ids : jobs[k] = "none" => jobs'[k] = "none"
    BY <1>0, <1>6 DEF Working, Finish
  <2> QED BY <1>1, <2>1 DEF Known
<1> QED BY <1>2, <1>3, <1>4, <1>5, <1>6 DEF Next
-----------------------------------------------------------------------------
(* The theorems.                                                            *)

LEMMA Initially == Init => IInv
<1> SUFFICES ASSUME Init PROVE IInv OBVIOUS
<1>1. TypeInv BY TypeInit
<1> USE SetAssumption DEF Init, InitCopy, At, NoRun, NoWorker
<1>2. JobInv BY DEF JobInv, Pristine
<1>3. BucketInv BY DEF BucketInv
<1>4. \A a \in Audios : Range(saved[a]) = {} BY DEF Range
<1>5. FolderInv BY <1>4 DEF FolderInv
<1>6. RunInv BY DEF RunInv
<1>7. PaidInv
  <2>1. \A a \in Audios : Unagreed(a) = {} BY DEF Unagreed
  <2>2. \A a \in Audios : ~Owing(a) BY DEF Owing
  <2>3. IsFiniteSet({}) /\ Cardinality({}) = 0 BY FS_EmptySet
  <2>4. \A a \in Audios : Cardinality(Unagreed(a)) = 0 /\ Cardinality(Range(saved[a])) = 0
    BY <1>4, <2>1, <2>3
  <2>5. \A a \in Audios : IsFiniteSet(Unagreed(a)) /\ IsFiniteSet(Range(saved[a]))
    BY <1>4, <2>1, <2>3
  <2> QED BY <2>2, <2>4, <2>5 DEF PaidInv
<1>8. SavedInv BY DEF SavedInv, IsInjective
<1>9. CapacityInv
  <2>1. Known = {} BY DEF Known
  <2> QED BY <2>1, FS_EmptySet, BoundAssumption DEF CapacityInv
<1> QED BY <1>1, <1>2, <1>3, <1>5, <1>6, <1>7, <1>8, <1>9 DEF IInv

LEMMA Inductive == IInv /\ [Next]_vars => IInv'
BY TypeStep, JobStep, BucketStep, MarkStep, PaidStep, SavedStep, CapacityStep DEF IInv

THEOREM Invariance == Spec => []IInv
BY Initially, Inductive, PTL DEF Spec

\* The state of the window, the folder, the backend and the provider's work stays well
\* typed: a marker and a version belong to the recording their job was made for, and
\* the backend keeps no more than MaxJobs jobs.
THEOREM TypeCorrect == Spec => []TypeOK
<1>1. IInv => TypeOK
  <2> SUFFICES ASSUME IInv PROVE TypeOK OBVIOUS
  <2>1. \A j \in Ids : /\ worker[j].pc \in WorkPoints
                       /\ worker[j].part \in 1 .. Parts /\ worker[j].try \in 1 .. Attempts
    BY DEF IInv, TypeInv, CopyTyped, WorkerType
  <2>2. \A a \in Audios : marker[a] # None => origin[marker[a].job] = a /\ marker[a].sig \in Settings
    BY MarkFacts DEF IInv, FolderInv
  <2> QED
    BY <2>1, <2>2 DEF IInv, TypeInv, CopyTyped, JobsTyped, FolderTyped, WindowTyped, FolderInv,
                      CapacityInv, Known, TypeOK, WorkPoints, Points
<1> QED BY <1>1, Invariance, PTL

\* An audio is not paid for twice: a job is asked for at most once, and a second
\* recognition of an audio needs a saved version or the user's word (the marker of
\* transcribeAudio, and waitForTranscription that never submits again).
THEOREM PaidForOnce == Spec => []PaidOnce
<1>1. IInv => PaidOnce
  <2> SUFFICES ASSUME IInv PROVE PaidOnce OBVIOUS
  <2>1. \A j \in Ids : asked[j] <= 1 BY DEF IInv, JobInv
  <2>2. ASSUME NEW a \in Audios
        PROVE  Cardinality({j \in Ids \ agreed : origin[j] = a /\ asked[j] > 0})
                  <= 1 + Cardinality(Range(saved[a]))
    <3> DEFINE U == Unagreed(a)
               V == {j \in Ids \ agreed : origin[j] = a /\ asked[j] > 0}
               R == Range(saved[a])
    <3>1. V \in SUBSET U BY DEF Unagreed
    <3>2. /\ IsFiniteSet(U) /\ IsFiniteSet(R)
          /\ Cardinality(U) <= Cardinality(R) + (IF Owing(a) THEN 1 ELSE 0)
      BY DEF IInv, PaidInv
    <3> HIDE DEF U, V, R
    <3>3. IsFiniteSet(V) /\ Cardinality(V) <= Cardinality(U) BY <3>1, <3>2, FS_Subset
    <3>4. Cardinality(U) \in Nat /\ Cardinality(V) \in Nat /\ Cardinality(R) \in Nat
      BY <3>2, <3>3, FS_CardinalityType
    <3>5. Cardinality(V) <= 1 + Cardinality(R) BY <3>2, <3>3, <3>4
    <3> QED BY <3>5 DEF V, R
  <2> QED BY <2>1, <2>2 DEF PaidOnce
<1> QED BY <1>1, Invariance, PTL

\* A transcript the backend still keeps was saved, is the one its marker leads to, or
\* was given up by the user: no lost answer, reload or failed write strands it.
THEOREM StillReachable == Spec => []Reachable
<1>1. IInv => Reachable
  BY DEF IInv, JobInv, Pristine, FolderInv, Leads, Reachable
<1> QED BY <1>1, Invariance, PTL

\* A transcript becomes one version, unless the window ended or the disk failed between
\* createModel and the removal of the marker (acknowledgeTranscription).
THEOREM VersionOnce == Spec => []SavedOnce
<1>1. IInv => SavedOnce BY DEF IInv, SavedInv, SavedOnce
<1> QED BY <1>1, Invariance, PTL

\* The provider's work ends with nothing left in the bucket, whatever failed, unless a
\* request of it was not heard or not obeyed (_discard, _abort_multipart).
THEOREM NoCopyLeft == Spec => []CopyRemoved
<1>1. IInv => CopyRemoved BY DEF IInv, BucketInv, CopyRemoved
<1> QED BY <1>1, Invariance, PTL

\* A result leaves the backend only when it is saved, given up or a day old, or when
\* the backend ends: prune, remove and ensure_capacity never make room with it.
THEOREM ResultsKept == Spec => KeptUntilSaved
<1> DEFINE Gone(j) == jobs[j] = "completed" /\ jobs'[j] = "none"
           Allowed(j) == \/ j \in Range(saved[origin[j]]) \cup dropped \cup old
                         \/ "restart" \in used' \ used
<1>1. ASSUME IInv, [Next]_vars, NEW j \in Ids, Gone(j) PROVE Allowed(j)
  <2> USE DEF backend
  <2>0. jobs \in [Ids -> {"none", "running", "completed", "empty", "failed"}]
    BY <1>1 DEF IInv, TypeInv, JobsTyped
  <2>1. CASE jobs' = jobs BY <1>1, <2>1
  <2>2. CASE jobs' = Pruned BY <1>1, <2>2 DEF Pruned, Stale
  <2>3. CASE Dismiss BY <1>1, <2>0, <2>3 DEF Dismiss, Delete, Without, IInv, RunInv, At
  <2>4. CASE DeleteJob BY <1>1, <2>0, <2>4 DEF DeleteJob, Delete, Without, IInv, RunInv, At
  <2>5. CASE Restart BY <2>5 DEF Restart, Once
  <2>6. ASSUME NEW k \in Ids, Accept(k) PROVE Allowed(j)
    <3>1. jobs' = Pruned \/ jobs' = [Pruned EXCEPT ![k] = "running"] BY <2>6 DEF Accept
    <3> QED BY <1>1, <3>1 DEF Pruned, Stale
  <2>7. ASSUME NEW k \in Ids, Finish(k) PROVE Allowed(j) BY <1>1, <2>0, <2>7 DEF Finish
  <2>8. ASSUME NEW k \in Ids, Working(k) PROVE jobs' = jobs BY <2>8 DEF Working
  <2>9. CASE Prepare \/ WriteMarker \/ Post \/ Posted \/ Wait \/ Got \/ Save \/ Acknowledge \/ Show
             \/ User \/ Reload \/ Day \/ UNCHANGED vars
    <3>1. jobs' = jobs \/ jobs' = Pruned
      BY <2>9 DEF Prepare, WriteMarker, Post, Posted, Wait, Got, Save, Acknowledge, Show, User, Start,
                  Cancel, LoadStart, LoadRead, SwitchStart, Arrive, Reload, Day, vars
    <3> QED BY <2>1, <2>2, <3>1
  <2> QED BY <1>1, <2>1, <2>3, <2>4, <2>5, <2>6, <2>7, <2>8, <2>9 DEF Next, Window
<1>2. IInv /\ [Next]_vars => [\A j \in Ids : Gone(j) => Allowed(j)]_vars BY <1>1
<1> QED BY <1>2, Invariance, PTL DEF Spec, KeptUntilSaved
=============================================================================
