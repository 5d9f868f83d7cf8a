----------------------------- MODULE CloudCopy -----------------------------
(* The work of a transcription job with a provider that fetches the audio   *)
(* from a bucket: backend/app/providers/tencent_cloud_url.py over the       *)
(* client of backend/app/cos.py.  The audio is copied into the bucket, a    *)
(* recognition task is created and waited for, and the copy is removed.     *)
(*                                                                          *)
(* A request is an action.  It may fail without effect, be cut off after it *)
(* took effect (the answer is lost), or be refused by the service.          *)
EXTENDS Naturals, FiniteSets

CONSTANTS Ids,        \* the identities of jobs
          Parts,      \* the parts of an audio above MULTIPART_THRESHOLD_BYTES
          Attempts    \* PART_MAX_ATTEMPTS

ASSUME CopyAssumption == Ids \subseteq Nat \ {0} /\ {Parts, Attempts} \subseteq Nat \ {0}

VARIABLES
    worker,   \* the thread of each job: where it is, the part and the attempt
    bucket,   \* what each job has in the bucket: an upload that is open, a copy
    asked,    \* history: the recognition tasks created for each job
    excused   \* history: the jobs whose clean-up failed, or that never heard of their copy

cvars == <<worker, bucket, asked, excused>>

NoWorker == [pc |-> "none", part |-> 1, try |-> 1, well |-> FALSE]
InitCopy == /\ worker = [j \in Ids |-> NoWorker]
            /\ bucket = [j \in Ids |-> [open |-> FALSE, copy |-> FALSE]]
            /\ asked = [j \in Ids |-> 0]
            /\ excused = {}

Goes(j, pc) == worker' = [worker EXCEPT ![j].pc = pc]
Ends(j, well) == worker' = [worker EXCEPT ![j] = [NoWorker EXCEPT !.pc = "ended", !.well = well]]
Stored(j, open, copy) == bucket' = [bucket EXCEPT ![j] = [open |-> open, copy |-> copy]]
Excuse(j) == excused' = excused \cup {j}

\* transcribe: an audio above the threshold is put in parts.
Hired(j) == {[worker EXCEPT ![j].pc = pc] : pc \in {"put", "begin"}}

-----------------------------------------------------------------------------
\* _put_at_once
Put(j) ==
    /\ worker[j].pc = "put"
    /\ \/ Goes(j, "create") /\ Stored(j, FALSE, TRUE) /\ UNCHANGED excused
       \/ Ends(j, FALSE) /\ UNCHANGED <<bucket, excused>>
       \/ Ends(j, FALSE) /\ Stored(j, FALSE, TRUE) /\ Excuse(j)
    /\ UNCHANGED asked

\* _begin_multipart fails before there is an upload to abort.
BeginParts(j) ==
    /\ worker[j].pc = "begin"
    /\ \/ Goes(j, "part") /\ Stored(j, TRUE, FALSE) /\ UNCHANGED excused
       \/ Ends(j, FALSE) /\ UNCHANGED <<bucket, excused>>
       \/ Ends(j, FALSE) /\ Stored(j, TRUE, FALSE) /\ Excuse(j)
    /\ UNCHANGED asked

\* A part that was cut off, or that the service failed to take, is put again up to
\* the limit; what the service refuses is not.
Again(j) == worker[j].try < Attempts
PutPart(j) ==
    /\ worker[j].pc = "part"
    /\ \/ worker[j].part < Parts /\ worker' = [worker EXCEPT ![j].part = @ + 1, ![j].try = 1]
       \/ worker[j].part = Parts /\ worker' = [worker EXCEPT ![j] = [NoWorker EXCEPT !.pc = "complete"]]
       \/ Again(j) /\ worker' = [worker EXCEPT ![j].try = @ + 1]
       \/ worker' = [worker EXCEPT ![j] = [NoWorker EXCEPT !.pc = "abort"]]
    /\ UNCHANGED <<bucket, asked, excused>>

CompleteParts(j) ==
    /\ worker[j].pc = "complete"
    /\ \/ Goes(j, "create") /\ Stored(j, FALSE, TRUE) /\ UNCHANGED excused
       \/ Goes(j, "abort") /\ UNCHANGED <<bucket, excused>>
       \/ Goes(j, "abort") /\ Stored(j, FALSE, TRUE) /\ Excuse(j)
    /\ UNCHANGED asked

\* _abort_multipart gives up after one try, whatever the answer.
AbortParts(j) ==
    /\ worker[j].pc = "abort" /\ Ends(j, FALSE)
    /\ \/ Stored(j, FALSE, bucket[j].copy) /\ UNCHANGED excused
       \/ Excuse(j) /\ UNCHANGED bucket
    /\ UNCHANGED asked

\* _create_task is not retried: it may have been accepted.
AfterFailureEnded == "ended"
AfterFailure == "discard"
CreateTask(j) ==
    /\ worker[j].pc = "create"
    /\ \/ Goes(j, "wait") /\ asked' = [asked EXCEPT ![j] = @ + 1]
       \/ Goes(j, AfterFailure) /\ asked' \in {asked, [asked EXCEPT ![j] = @ + 1]}
    /\ UNCHANGED <<bucket, excused>>

\* _wait_task: the task succeeded; it failed, a question failed or 30 minutes are over.
WaitTask(j) ==
    /\ worker[j].pc = "wait"
    /\ worker' \in {[worker EXCEPT ![j].pc = "discard", ![j].well = TRUE],
                    [worker EXCEPT ![j].pc = AfterFailure]}
    /\ UNCHANGED <<bucket, asked, excused>>

\* _discard, in the finally of transcribe
Discard(j) ==
    /\ worker[j].pc = "discard" /\ Ends(j, worker[j].well)
    /\ \/ Stored(j, bucket[j].open, FALSE) /\ UNCHANGED excused
       \/ Excuse(j) /\ UNCHANGED bucket
    /\ UNCHANGED asked

Work(j) == \/ Put(j) \/ BeginParts(j) \/ PutPart(j) \/ CompleteParts(j) \/ AbortParts(j)
           \/ CreateTask(j) \/ WaitTask(j) \/ Discard(j)
=============================================================================
