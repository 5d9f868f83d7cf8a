---------------------------- MODULE AtomicFiles ----------------------------
(* What a multi-file commit promises its callers: the files of one request *)
(* change together, at one instant, and only if every one of them still    *)
(* holds what the caller read.  Nothing else the program does shows: a     *)
(* crash, a rollback, a recovery or a refusal leaves the files alone.      *)
EXTENDS Integers

CONSTANTS Files, Contents

VARIABLES store,    \* what each file means to a reader that recovers first
          request,  \* the last request: what was read, what is to be stored
          landed,   \* has the last request taken effect?
          edits     \* how many changes other programs have made

vars == <<store, request, landed, edits>>

Generations == [Files -> Contents]
Changed(r) == {f \in Files : r.before[f] # r.after[f]}

Init == /\ store \in Generations
        /\ Changed(request) = {}
        /\ landed = FALSE
        /\ edits = 0

\* A caller asks for a commit; nothing has happened yet.
Request == /\ request'.before \in Generations
           /\ request'.after \in Generations
           /\ landed' = FALSE
           /\ UNCHANGED <<store, edits>>

\* Every changed file moves from the generation the caller read to the new one.
Commit == /\ ~landed
          /\ \A f \in Changed(request) : store[f] = request.before[f]
          /\ store' = [f \in Files |-> IF f \in Changed(request)
                                       THEN request.after[f] ELSE store[f]]
          /\ landed' = TRUE
          /\ UNCHANGED <<request, edits>>

\* Another program changes one file.  A change that leaves one of the two
\* generations of an unfinished commit in place cannot be told from it.
Edit == /\ edits' = edits + 1
        /\ \/ UNCHANGED store
           \/ \E f \in Files, c \in Contents : store' = [store EXCEPT ![f] = c]
        /\ UNCHANGED <<request, landed>>

Next == Request \/ Commit \/ Edit

Spec == Init /\ [][Next]_vars
=============================================================================
