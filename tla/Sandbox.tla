------------------------------- MODULE Sandbox -------------------------------
(***************************************************************************)
(* ContainerPython.execute (engine/interpreter.py): one execution of code  *)
(* in a container, which outlives the command that started it, and its     *)
(* removal, which a cancellation of the execution must not stop.           *)
(***************************************************************************)
VARIABLES
  box,         \* where execute is
  container,   \* "none", "up" or "gone"
  removal,     \* the cleanup task: "none", "going", "done" or "failed"
  ends,        \* execute may still "return", or was cancelled: "timeout", "cancel"
  hurried      \* cancelled where no removal has been started yet

sandbox == <<box, container, removal, ends, hurried>>

SandboxInit ==
  box = "none" /\ container = "none" /\ removal = "none"
  /\ ends = "return" /\ hurried = FALSE

\* create_subprocess_exec, a new name.
BoxStarts ==
  box' = "starting" /\ container' = "none" /\ removal' = "none"
  /\ ends' = "return" /\ hurried' = FALSE

BoxRuns ==
  /\ box = "starting"
  /\ box' = "running" /\ container' = "up"
  /\ UNCHANGED <<removal, ends, hurried>>

\* The output has come, is too long or malformed, or the host deadline passed.
BoxFinishes ==
  /\ box = "running"
  /\ box' = "cleaning"
  /\ UNCHANGED <<container, removal, ends, hurried>>

\* The readers are gathered and the command is dead.
BoxCleans ==
  /\ box = "cleaning"
  /\ box' = "removing" /\ removal' = "going"
  /\ UNCHANGED <<container, ends, hurried>>

\* _remove, a task of its own: its command fails, or does not end in time.
Removes ==
  /\ removal = "going"
  /\ \/ removal' = "done" /\ container' = "gone"
     \/ removal' = "failed" /\ UNCHANGED container
  /\ UNCHANGED <<box, ends, hurried>>

BoxLeaves ==
  /\ box = "removing" /\ removal # "going"
  /\ box' = "left"
  /\ UNCHANGED <<container, removal, ends, hurried>>

\* The removal is cancelled with the execution that awaits it.
BoxCancelledUnshielded(how) ==
  /\ box \in {"starting", "running", "cleaning", "removing"}
  /\ box' = IF box = "running" THEN "cleaning" ELSE "left"
  /\ container' \in IF box = "starting" THEN {"none", "up"} ELSE {container}
  /\ hurried' = (hurried \/ box \in {"starting", "cleaning"})
  /\ ends' = how
  /\ removal' = "none"

\* CancelledError where execute awaits: the tool's own deadline ("timeout") or a
\* cancellation of the run ("cancel"). The command may be started all the same.
BoxCancelled(how) ==
  /\ box \in {"starting", "running", "cleaning", "removing"}
  /\ box' = IF box = "running" THEN "cleaning" ELSE "left"
  /\ container' \in IF box = "starting" THEN {"none", "up"} ELSE {container}
  /\ hurried' = (hurried \/ box \in {"starting", "cleaning"})
  /\ ends' = how
  /\ UNCHANGED removal

\* Its frame or its process is gone: nothing knows the container's name.
SandboxLost ==
  box' = "none" /\ container' = "none" /\ removal' = "none"
  /\ ends' = "return" /\ hurried' = FALSE

-----------------------------------------------------------------------------
SandboxTypeOK ==
  /\ box \in {"none", "starting", "running", "cleaning", "removing", "left"}
  /\ container \in {"none", "up", "gone"}
  /\ removal \in {"none", "going", "done", "failed"}
  /\ ends \in {"return", "timeout", "cancel"} /\ hurried \in BOOLEAN
=============================================================================
