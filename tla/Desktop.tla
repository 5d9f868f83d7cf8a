------------------------------ MODULE Desktop -------------------------------
(***************************************************************************)
(* The desktop shell around its window: leaving the program, together with *)
(* the tunnel of module Tunnel.  Closing the window or quitting is first   *)
(* put to the page, whose guard saves the open text and answers with       *)
(* finish_normal_close; a refusal leaves the program as it was.  Leaving   *)
(* stops the backend and the tunnel client, twice: when the exit is        *)
(* requested and when it happens.  The thread that looks after the tunnel  *)
(* runs until the process is gone.                                         *)
(*                                                                         *)
(* Closings are counted with the events of Tunnel.                        *)
(***************************************************************************)
EXTENDS Tunnel
CONSTANT LateEdits  \* may text be typed between the guard's save and the exit?

VARIABLES
  close,   \* NormalClose: ready, pending, approved
  shell,   \* what the main thread does: run, or the steps of leaving
  window,  \* the main window is there
  exits,   \* app.exit was called: its event is queued
  backend, \* the backend, a child process
  guard,   \* the page's answer to ripple-normal-close
  dirty    \* text was typed that is not in the file

closeVars == <<close, shell, window, exits, backend, guard, dirty>>
desktopVars == <<tunnelVars, closeVars>>

DesktopInit ==
  /\ TunnelInit
  /\ close = [ready |-> FALSE, pending |-> FALSE, approved |-> FALSE]
  /\ shell = "run" /\ window = TRUE /\ exits = FALSE /\ backend = TRUE
  /\ guard = "idle" /\ dirty = FALSE

TunnelRest == <<tunnel, holder, due, network, files, disabled, lockFile, setup, deletion,
                other, deleted>>
Alone == UNCHANGED <<TunnelRest, events>>

\* the page listens for the event before it says it is ready
PageReady ==
  /\ window /\ ~close.ready /\ shell = "run"
  /\ close' = [close EXCEPT !.ready = TRUE]
  /\ Alone /\ UNCHANGED <<shell, window, exits, backend, guard, dirty>>

\* the editor is there once the page is; closing does not stop the typing
Edit ==
  /\ window /\ close.ready /\ shell = "run" /\ ~dirty
  /\ ~LateEdits => guard \in {"idle", "asked", "save"} /\ ~close.approved
  /\ dirty' = TRUE
  /\ Alone /\ UNCHANGED <<close, shell, window, exits, backend, guard>>

Autosave ==
  /\ window /\ dirty /\ shell = "run"
  /\ dirty' = FALSE
  /\ Alone /\ UNCHANGED <<close, shell, window, exits, backend, guard>>

-----------------------------------------------------------------------------
\* normal_close::request: the page is asked once, and asked again after a refusal
Emits == ~close.pending /\ window
HeldOnce == close.ready /\ ~close.approved /\ Emits
Held == close.ready /\ ~close.approved /\ (close.pending \/ window)

Ask ==
  IF Held THEN /\ close' = [close EXCEPT !.pending = TRUE]
               /\ guard' = IF Emits THEN "asked" ELSE guard
          ELSE UNCHANGED <<close, guard>>

\* CloseRequested: kept open, or destroyed after the children were stopped
CloseRequested ==
  /\ shell = "run" /\ window /\ Spend
  /\ Ask
  /\ IF Held THEN UNCHANGED <<shell, window>> ELSE shell' = "destroy" /\ window' = FALSE
  /\ UNCHANGED <<TunnelRest, exits, backend, dirty>>

\* the menu: exit now when the page cannot be asked
Quit ==
  /\ shell = "run" /\ Spend
  /\ Ask
  /\ exits' = (exits \/ ~Held)
  /\ UNCHANGED <<TunnelRest, shell, window, backend, dirty>>

ExitRequested ==
  /\ shell = "run" /\ exits
  /\ exits' = FALSE
  /\ Ask
  /\ shell' = IF Held THEN "run" ELSE "stop"
  /\ Alone /\ UNCHANGED <<window, backend, dirty>>

\* stop_backend waits for the lock of the tunnel
StopBackend ==
  /\ shell \in {"destroy", "stop", "exit"} /\ holder = Nothing
  /\ tunnel' = Stopped(tunnel) /\ backend' = FALSE
  /\ shell' = CASE shell = "destroy" -> "run" [] shell = "stop" -> "between"
                [] shell = "exit" -> "leave"
  /\ exits' = (exits \/ shell = "destroy")
  /\ UNCHANGED <<holder, due, network, files, disabled, lockFile, setup, deletion, other,
                 deleted, events, close, window, guard, dirty>>

Exit ==
  /\ shell = "between" /\ shell' = "exit"
  /\ Alone /\ UNCHANGED <<close, window, exits, backend, guard, dirty>>

Gone ==
  /\ shell = "leave" /\ shell' = "gone"
  /\ Alone /\ UNCHANGED <<close, window, exits, backend, guard, dirty>>

-----------------------------------------------------------------------------
(* The guard of the page: save, remember the reading position, answer       *)

\* a tag library being saved refuses at once; so does a save that fails
GuardStarts ==
  /\ guard = "asked" /\ window
  /\ guard' \in {"save", "refuse"}
  /\ Alone /\ UNCHANGED <<close, shell, window, exits, backend, dirty>>

GuardSaves ==
  /\ guard = "save" /\ window
  /\ \/ dirty' = FALSE /\ guard' = "position"
     \/ guard' = "refuse" /\ UNCHANGED dirty
  /\ Alone /\ UNCHANGED <<close, shell, window, exits, backend>>

GuardKeepsPosition ==
  /\ guard = "position" /\ window
  /\ guard' \in {"allow", "refuse"}
  /\ Alone /\ UNCHANGED <<close, shell, window, exits, backend, dirty>>

\* finish_normal_close
Finish ==
  /\ guard \in {"allow", "refuse"} /\ shell = "run"
  /\ guard' = "idle"
  /\ IF ~close.pending THEN UNCHANGED <<close, exits>>
     ELSE IF guard = "allow" THEN close' = [close EXCEPT !.approved = TRUE] /\ exits' = TRUE
     ELSE close' = [close EXCEPT !.pending = FALSE] /\ UNCHANGED exits
  /\ Alone /\ UNCHANGED <<shell, window, backend, dirty>>

-----------------------------------------------------------------------------
\* commands of the window run on the main thread
Commands == TunnelStart \/ TunnelStop \/ SaveConfiguration
Others ==
  \/ SupervisorLooks \/ SetupStep \/ DeleteAsked \/ DeleteStep \/ DeleteAnswered
  \/ DeleteTimesOut \/ OtherLocks \/ OtherEnables
  \/ Tick \/ NetworkFails \/ NetworkReturns \/ ClientConnects \/ ClientSuffers

Beside(step) == step /\ shell # "gone" /\ UNCHANGED closeVars
Leaving == StopBackend \/ Exit \/ Gone
Guard == GuardStarts \/ GuardSaves \/ GuardKeepsPosition \/ Finish

DesktopNext ==
  \/ PageReady \/ Edit \/ Autosave \/ CloseRequested \/ Quit \/ ExitRequested
  \/ Leaving \/ Guard
  \/ Commands /\ shell \in {"run", "between"} /\ window /\ close.ready /\ UNCHANGED closeVars
  \/ Beside(Others)

\* the page and the main thread go on; the rest as in Tunnel
Fairness ==
  /\ WF_desktopVars(Guard) /\ WF_desktopVars(Leaving) /\ SF_desktopVars(StopBackend) /\ WF_desktopVars(ExitRequested)
  /\ WF_desktopVars(Beside(SetupStep)) /\ WF_desktopVars(Beside(DeleteStep))
  /\ WF_desktopVars(Beside(DeleteAnswered))
  /\ WF_desktopVars(Beside(OtherEnables))
  /\ WF_desktopVars(Beside(SupervisorLooks))
  /\ WF_desktopVars(Beside(Tick)) /\ WF_desktopVars(Beside(ClientConnects))

DesktopSpec == DesktopInit /\ [][DesktopNext]_desktopVars /\ Fairness

-----------------------------------------------------------------------------
(* When the process is gone, everything typed before the page's guard      *)
(* answered is in the file and no child is left behind, whichever way it   *)
(* was asked to leave, how often, and whatever the tunnel was doing.  With *)
(* LateEdits text is typed after the guard's save, and lost (App.tsx:656). *)
LeavesWell == shell = "gone" => ~dirty /\ ~backend /\ tunnel.child = Nothing
=============================================================================
