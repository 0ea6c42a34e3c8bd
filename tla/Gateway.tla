------------------------------ MODULE Gateway -------------------------------
(***************************************************************************)
(* BaseGateway (interfaces/gateway.py): executions of A2A tasks, each in   *)
(* an asyncio task of its own that registers itself under its task id, and *)
(* what cancel and shutdown do to them.  An action ends at an await; a     *)
(* cancellation that was requested is delivered at the next one.  The      *)
(* TaskUpdater of the SDK refuses a second terminal status from the same   *)
(* execution.                                                              *)
(***************************************************************************)
EXTENDS A2AMessage

CONSTANTS
  Executions,  \* calls of execute
  TaskOf,      \* the task each is for
  MessageOf,   \* the message each was sent
  Nothing      \* model value: no execution

ASSUME GatewayAssumption ==
  /\ DOMAIN TaskOf = Executions
  /\ DOMAIN MessageOf = Executions
  /\ Nothing \notin Executions

VARIABLES
  stage,       \* how far each execution has come
  running,     \* _running_tasks: the execution registered for each task
  doomed,      \* executions whose asyncio task was cancelled
  files,       \* what each handler was given
  poolOpen,    \* the executor for decoding accepts work
  cut,         \* executions with a file whose decoding shutdown cancelled
  awaited,     \* the executions shutdown waits for
  stopping,    \* shutdown: "no", "waiting" or "done"
  verdicts,    \* history: terminal statuses each execution published
  latest       \* history: the last execution begun for each task

gateway == <<stage, running, doomed, files, poolOpen, cut, awaited, stopping,
             verdicts, latest>>

TaskIds == {TaskOf[e] : e \in Executions}

\* starting: in start_work, outside the try; decoding: its files are with the
\* executor; handled: completed, the handler's generator goes on; reporting: in
\* updater.failed, in an except clause.
Live == {"starting", "extracting", "decoding", "handling", "handled", "reporting"}
\* stranded: cancelled before the try, so that no finally unregisters it.
Stages == {"none", "ended", "stranded"} \cup Live
Verdicts == {"completed", "failed"}

GatewayTypeOK ==
  /\ stage \in [Executions -> Stages]
  /\ running \in [TaskIds -> Executions \cup {Nothing}]
  /\ doomed \subseteq Executions
  /\ \A e \in Executions : Len(files[e]) <= MaxFiles /\ TotalSize(files[e]) <= MaxMessage
  /\ poolOpen \in BOOLEAN /\ cut \subseteq Executions
  /\ awaited \subseteq Executions
  /\ stopping \in {"no", "waiting", "done"}
  /\ verdicts \in [Executions -> Seq(Verdicts)]
  /\ latest \in [TaskIds -> Executions \cup {Nothing}]

GatewayInit ==
  /\ stage = [e \in Executions |-> "none"]
  /\ running = [t \in TaskIds |-> Nothing]
  /\ doomed = {}
  /\ files = [e \in Executions |-> <<>>]
  /\ poolOpen = TRUE /\ cut = {}
  /\ awaited = {}
  /\ stopping = "no"
  /\ verdicts = [e \in Executions |-> <<>>]
  /\ latest = [t \in TaskIds |-> Nothing]

Become(e, s) == stage' = [stage EXCEPT ![e] = s]

\* A later execution of the task loses its registration.
EndForgetting(e) ==
  /\ Become(e, "ended")
  /\ running' = [running EXCEPT ![TaskOf[e]] = Nothing]

\* The finally clause: a later execution of the task keeps its registration.
End(e) ==
  /\ Become(e, "ended")
  /\ running' = [running EXCEPT ![TaskOf[e]] = IF @ = e THEN Nothing ELSE @]

Unstopped == UNCHANGED <<doomed, poolOpen, cut, awaited, stopping, latest>>

\* execute: registered in place of any earlier execution of the task.
Execute(e) ==
  /\ stage[e] = "none"
  /\ Become(e, "starting")
  /\ running' = [running EXCEPT ![TaskOf[e]] = e]
  /\ latest' = [latest EXCEPT ![TaskOf[e]] = e]
  /\ UNCHANGED <<doomed, files, poolOpen, cut, awaited, stopping, verdicts>>

\* start_work has returned.
StartWork(e) ==
  /\ stage[e] = "starting" /\ e \notin doomed
  /\ Become(e, "extracting")
  /\ UNCHANGED <<running, files, verdicts>> /\ Unstopped

\* _validate_objective, then the handler is given the message.
Accept(e) ==
  IF ObjectiveFits(MessageOf[e])
  THEN Become(e, "handling") /\ files' = [files EXCEPT ![e] = FilesOf(MessageOf[e])]
  ELSE Become(e, "reporting") /\ UNCHANGED files

\* _extract_async gives the files to the executor, which raises RuntimeError
\* once it is shut down; a message without files is not decoded.
Extract(e) ==
  /\ stage[e] = "extracting" /\ e \notin doomed
  /\ IF ParseParts(MessageOf[e]).files = <<>> THEN Accept(e)
     ELSE Become(e, IF poolOpen THEN "decoding" ELSE "reporting") /\ UNCHANGED files
  /\ UNCHANGED <<running, verdicts>> /\ Unstopped

\* All its files have been decoded, or found invalid; or the executor was shut
\* down before the last of them was submitted.
Decode(e) ==
  /\ stage[e] = "decoding" /\ e \notin doomed \cup cut
  /\ \/ Accept(e)
     \/ ~poolOpen /\ Become(e, "reporting") /\ UNCHANGED files
  /\ UNCHANGED <<running, verdicts>> /\ Unstopped

\* The CancelledError of a future is taken for one of the execution, which
\* nobody cancelled: it reports nothing.
LoseDecoding(e) ==
  /\ stage[e] = "decoding" /\ e \in cut \ doomed
  /\ End(e)
  /\ UNCHANGED <<files, verdicts>> /\ Unstopped

\* A CompletionEvent whose artifacts are within the limits; the events that
\* follow it are ignored.
Complete(e) ==
  /\ stage[e] = "handling" /\ e \notin doomed
  /\ Become(e, "handled")
  /\ verdicts' = [verdicts EXCEPT ![e] = Append(@, "completed")]
  /\ UNCHANGED <<running, files>> /\ Unstopped

\* The handler raises, its time is up, it ends without a CompletionEvent or
\* its artifacts are too many or too large.
GoWrong(e) ==
  /\ stage[e] \in {"handling", "handled"} /\ e \notin doomed
  /\ Become(e, "reporting")
  /\ UNCHANGED <<running, files, verdicts>> /\ Unstopped

\* Nobody looks whether there was a CompletionEvent.
HandlerEndsUnchecked(e) ==
  /\ stage[e] \in {"handling", "handled"} /\ e \notin doomed
  /\ End(e)
  /\ UNCHANGED <<files, verdicts>> /\ Unstopped

\* The handler's generator ends after its CompletionEvent.
HandlerEnds(e) ==
  /\ stage[e] = "handled" /\ e \notin doomed
  /\ End(e)
  /\ UNCHANGED <<files, verdicts>> /\ Unstopped

\* updater.failed: published, or refused after a completed status.
Report(e) ==
  /\ stage[e] = "reporting" /\ e \notin doomed
  /\ End(e)
  /\ verdicts' = [verdicts EXCEPT ![e] = IF @ = <<>> THEN <<"failed">> ELSE @]
  /\ UNCHANGED files /\ Unstopped

\* CancelledError at the await.
Die(e) ==
  /\ stage[e] \in Live /\ e \in doomed
  /\ IF stage[e] = "starting" THEN Become(e, "stranded") /\ UNCHANGED running
                              ELSE End(e)
  /\ UNCHANGED <<files, verdicts>> /\ Unstopped

\* Nothing is cancelled.
DoomNone(E) == UNCHANGED doomed

Doom(E) == doomed' = doomed \cup {e \in E : stage[e] \in Live}

\* cancel: it publishes "canceled" and cancels the registered execution.
CancelTask(t) ==
  /\ Doom({running[t]} \ {Nothing})
  /\ UNCHANGED <<stage, running, files, poolOpen, cut, awaited, stopping, verdicts, latest>>

\* shutdown cancels the decodings that wait for a thread of the executor,
\* whoever waits for them, then what is registered, and waits for that.
Shutdown ==
  /\ stopping = "no"
  /\ poolOpen' = FALSE
  /\ cut' \in SUBSET {e \in Executions : stage[e] = "decoding"}
  /\ awaited' = {running[t] : t \in TaskIds} \ {Nothing}
  /\ Doom(awaited')
  /\ stopping' = "waiting"
  /\ UNCHANGED <<stage, running, files, verdicts, latest>>

ShutdownReturns ==
  /\ stopping = "waiting"
  /\ \A e \in awaited : stage[e] \notin Live
  /\ stopping' = "done"
  /\ UNCHANGED <<stage, running, doomed, files, poolOpen, cut, awaited, verdicts, latest>>

Run(e) ==
  \/ StartWork(e) \/ Extract(e) \/ Decode(e) \/ LoseDecoding(e) \/ Complete(e)
  \/ GoWrong(e) \/ HandlerEnds(e) \/ Report(e) \/ Die(e)

-----------------------------------------------------------------------------
\* cancel and shutdown reach the newest execution of a task for as long as it
\* lives, an older one that ends does not hide it, and nothing that has ended
\* stays registered but one cancelled in start_work.
RegistryIsExact ==
  \A t \in TaskIds :
    running[t] = IF latest[t] # Nothing /\ stage[latest[t]] \in Live \cup {"stranded"}
                 THEN latest[t] ELSE Nothing

\* An execution publishes one terminal status at most, and one that ends
\* without having been cancelled publishes one: a client does not wait for a
\* task whose handler is gone.  The one exception is an execution that another
\* one of its task has replaced, when shutdown cancels the decoding of its
\* files, though not the execution.
OneVerdict ==
  \A e \in Executions :
    /\ Len(verdicts[e]) <= 1
    /\ stage[e] = "ended" /\ e \notin doomed =>
         \/ Len(verdicts[e]) = 1
         \/ e \in cut /\ latest[TaskOf[e]] # e
=============================================================================
