-------------------------------- MODULE Relay --------------------------------
(* Calls from outside: the queue of the connection service (class Relay of  *)
(* backend/app/connection_service.py) and the worker on the user's computer *)
(* (backend/app/connector_relay.py), which takes one call at a time, passes *)
(* it to the local broker and delivers the outcome.                         *)
EXTENDS Naturals, Sequences, SequencesExt

CONSTANTS Remotes,    \* the request ids the service makes, one for every call
          Nothing

VARIABLES
    remote,    \* each call: was it asked, taken, and what was it answered?
    jobs,      \* the calls not yet taken
    paired,    \* the device has not been revoked
    worker     \* its position, the call it is at, and pending_reply

rvars == <<remote, jobs, paired, worker>>

Idle(reply) == [pc |-> "idle", job |-> Nothing, reply |-> reply]
NoReply == Nothing

InitRelay == /\ remote = [q \in Remotes |-> [asked |-> FALSE, taken |-> FALSE, answer |-> Nothing]]
             /\ jobs = <<>> /\ paired = TRUE
             /\ worker = Idle(NoReply)

Open(q) == remote[q].asked /\ remote[q].answer = Nothing

Ask(q) == /\ paired /\ ~remote[q].asked
          /\ remote' = [remote EXCEPT ![q].asked = TRUE]
          /\ jobs' = Append(jobs, q)
          /\ UNCHANGED <<paired, worker>>

\* Relay.call gives up after 125 seconds and takes its job out of the queue.
Withdrawn(q) == IF \E i \in DOMAIN jobs : jobs[i] = q
                THEN RemoveAt(jobs, CHOOSE i \in DOMAIN jobs : jobs[i] = q) ELSE jobs
GiveUp(q) == /\ Open(q)
             /\ remote' = [remote EXCEPT ![q].answer = "error"]
             /\ jobs' = Withdrawn(q)
             /\ UNCHANGED <<paired, worker>>

\* The caller has read its answer: its job is not in the queue any longer.
Revoke == /\ paired /\ paired' = FALSE
          /\ jobs' = <<>>
          /\ remote' = [q \in Remotes |-> IF Open(q) THEN [remote[q] EXCEPT !.answer = "error"]
                                                     ELSE remote[q]]
          /\ UNCHANGED worker

\* GET /devices/jobs; `lost`: the answer does not reach the worker.
Take(lost) == /\ worker = Idle(NoReply) /\ paired /\ jobs # <<>>
              /\ jobs' = Tail(jobs)
              /\ remote' = [remote EXCEPT ![Head(jobs)].taken = TRUE]
              /\ worker' = IF lost THEN worker ELSE [Idle(NoReply) EXCEPT !.pc = "call", !.job = Head(jobs)]
              /\ UNCHANGED paired

\* The outcome of the local call becomes the pending reply.
Outcome(q, result) == worker' = Idle([id |-> q, result |-> result])

\* POST /devices/reply, again and again until it is confirmed.
Received(q, result) == [remote EXCEPT ![q].answer = IF @ = Nothing THEN result ELSE @]
Deliver(lost) == /\ worker.pc = "idle" /\ worker.reply # NoReply /\ paired
                 /\ remote' \in {Received(worker.reply.id, worker.reply.result)}
                                   \cup IF lost THEN {remote} ELSE {}
                 /\ worker' = IF lost THEN worker ELSE Idle(NoReply)
                 /\ UNCHANGED <<jobs, paired>>

\* The service refuses a revoked device (401): the worker ends.
Stop == /\ worker.pc = "idle" /\ ~paired
        /\ worker' = [Idle(NoReply) EXCEPT !.pc = "stopped"]
        /\ UNCHANGED <<remote, jobs, paired>>

\* The worker is killed and started again: what it had in memory is lost.
Restart == /\ paired /\ worker # Idle(NoReply)
           /\ worker' = Idle(NoReply)
           /\ UNCHANGED <<remote, jobs, paired>>
=============================================================================
