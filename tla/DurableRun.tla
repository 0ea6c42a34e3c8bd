----------------------------- MODULE DurableRun -----------------------------
(***************************************************************************)
(* One durable run executed by GovernedAgentRunner._execute over an        *)
(* execution journal.  Several workers, each one call of run or resume,    *)
(* compete for the run; a worker loads the loop checkpoint, asks the model *)
(* for a turn, checkpoints the requested calls, dispatches them in         *)
(* parallel and checkpoints their results, until the model answers.  A     *)
(* worker may crash or be cancelled between any two transactions; an       *)
(* operator then recovers the ownership and reconciles receipts, and a     *)
(* reviewer decides approval requests.  The thread of a synchronous tool   *)
(* that is cancelled twice outlives the worker's turn and may still act.   *)
(***************************************************************************)
EXTENDS ExecutionStore, FiniteSets

CONSTANTS
  Gated,          \* calls of tools that require an approval
  ProposalOf,     \* the proposal digest of each call
  Threaded,       \* calls of synchronous tools, which run in a thread
  MaxVersion,     \* bound: no resume once the run's version exceeds it
  MaxRequests,    \* bound: no resume once the run has more requests
  StopsWorker,    \* the operator stops a worker before recovering its run
  StoreMayFail,   \* a transaction may raise (disk full, database is locked)
  PolicyTightens  \* the policy may deny a call it allowed earlier

ASSUME RunAssumption ==
  /\ Gated \subseteq Calls /\ Threaded \subseteq Calls
  /\ ProposalOf \in [Calls -> Proposals]
  /\ MaxVersion \in Nat /\ MaxRequests \in Nat
  /\ {StopsWorker, StoreMayFail, PolicyTightens} \subseteq BOOLEAN

VARIABLES
  pc,         \* where the worker is in _execute
  known,      \* its local run: the status and version it last saw
  loop,       \* its local LoopCheckpoint
  task,       \* the progress of each pending call of its turn
  grant,      \* the approval request each task means to consume, 0 if none
  cause,      \* why it is leaving the loop
  stray,      \* threads of each invocation that nobody waits for any more
  ran,        \* history: times the external effect of an invocation happened
  withdrawn,  \* history: receipts an operator withdrew as not executed
  overtaken   \* history: invocations withdrawn while a stray thread had them

session == <<pc, known, loop, task, grant, cause>>
history == <<ran, withdrawn, overtaken>>
vars == <<tables, session, stray, history>>

Phases == {"idle", "prepared", "opened", "enter", "think", "preflight",
           "dispatch", "completing", "failing", "ending", "release"}
Dispatching == {"todo", "asking", "ready", "cleared", "started",
                "returned", "raised", "settled"}
Finished == {"done", "error", "suspended"}
TaskStates == {"none", "unchecked", "requesting", "needs"}
              \cup Dispatching \cup Finished
Causes == {"none", "suspend", "unknown", "interrupt", "unresolved", "failed"}

NoRun == [status |-> "absent", version |-> 0]
NoTasks == [c \in Calls |-> "none"]
NoGrants == [c \in Calls |-> 0]

\* The invocation id of a call in the worker's current turn.
Id(w, c) == <<loop[w].turn, c>>

\* An owner-checked transaction raises once the ownership is lost.
Fault(w) == StoreMayFail \/ ~Owns(w)

-----------------------------------------------------------------------------
(* Moves of a worker that the actions are made of.                         *)

Goto(w, p) == pc' = [pc EXCEPT ![w] = p]

\* A call that was cancelled once waits in run_sync for its thread; cancelled
\* again (by its deadline and a sibling, or a caller that insists) it goes.
LeaveThreads(w) ==
  \E S \in SUBSET {c \in Threaded : task[w][c] = "started"} :
    stray' = [i \in Invocations |->
                IF i[1] = loop[w].turn /\ i[2] \in S THEN stray[i] + 1
                                                    ELSE stray[i]]

\* Leave the loop: the TaskGroup has cancelled and awaited every task.
Leave(w, p, why) ==
  /\ Goto(w, p)
  /\ LeaveThreads(w)
  /\ cause' = [cause EXCEPT ![w] = why]
  /\ task' = [task EXCEPT ![w] = NoTasks]
  /\ grant' = [grant EXCEPT ![w] = NoGrants]
  /\ UNCHANGED <<known, loop>>

Move(w, p) ==
  Goto(w, p) /\ UNCHANGED <<known, loop, task, grant, cause, stray>>

\* The call of run or resume returns or dies: its memory is gone.
Forget(w) ==
  /\ pc' = [pc EXCEPT ![w] = "idle"]
  /\ known' = [known EXCEPT ![w] = NoRun]
  /\ loop' = [loop EXCEPT ![w] = FreshLoop]
  /\ task' = [task EXCEPT ![w] = NoTasks]
  /\ grant' = [grant EXCEPT ![w] = NoGrants]
  /\ cause' = [cause EXCEPT ![w] = "none"]
  /\ UNCHANGED stray

SetTask(w, c, s) ==
  /\ task' = [task EXCEPT ![w][c] = s]
  /\ UNCHANGED <<pc, known, loop, grant, cause, stray>>

\* The assistant's calls become the pending tasks of the turn.
Pending(w, S) ==
  task' = [task EXCEPT ![w] = [c \in Calls |-> IF c \in S THEN "unchecked"
                                                          ELSE "none"]]

-----------------------------------------------------------------------------
(* RunCoordinator.transition on the worker's own copy of the run.          *)

Allowed(from) ==
  CASE from = "pending" -> {"running", "cancelled"}
    [] from = "running" -> {"running", "waiting", "completed", "failed",
                            "cancelled"}
    [] from = "waiting" -> {"running", "failed", "cancelled"}
    [] OTHER -> {}

CanCommit(w, target) ==
  /\ target \in Allowed(known[w].status)
  /\ Updatable(known[w].version)

Commit(w, target) ==
  /\ target \in Allowed(known[w].status)
  /\ CommitTransition(known[w].version, target)

\* `run = await coordinator.transition(...)` completes ...
Learn(w, target) ==
  known' = [known EXCEPT ![w] = [status |-> target,
                                 version |-> known[w].version + 1]]

-----------------------------------------------------------------------------
(* Before the loop: _execute up to run.started or run.resumed.             *)

Start(w) ==
  /\ pc[w] = "idle"
  /\ CreateTransition
  /\ known' = [known EXCEPT ![w] = [status |-> "pending", version |-> 0]]
  /\ Goto(w, "prepared")
  /\ UNCHANGED <<loop, task, grant, cause, stray, history>>

Resume(w) ==
  /\ pc[w] = "idle"
  /\ status \in {"running", "waiting"}
  /\ version <= MaxVersion /\ Len(requests) <= MaxRequests
  /\ known' = [known EXCEPT ![w] = [status |-> status, version |-> version]]
  /\ Goto(w, "prepared")
  /\ UNCHANGED <<tables, loop, task, grant, cause, stray, history>>

\* Invalid arguments or injected state: the call ends before it owns the run.
Refuse(w) ==
  /\ pc[w] = "prepared"
  /\ Forget(w)
  /\ UNCHANGED <<tables, history>>

OpenRefused(w) ==
  /\ owner \in Workers
  /\ Refuse(w)

OpenFresh(w) ==
  /\ pc[w] = "prepared"
  /\ IF known[w].status = "pending" THEN OpenNew(w, FreshLoop)
     ELSE OpenExisting(w)
  /\ loop' = [loop EXCEPT ![w] = FreshLoop]
  /\ Goto(w, "opened")
  /\ UNCHANGED <<known, task, grant, cause, stray, history>>

\* Only a run this worker created is still pending in its own copy.
Open(w) ==
  /\ pc[w] = "prepared"
  /\ \/ /\ known[w].status = "pending"
        /\ OpenNew(w, FreshLoop)
        /\ UNCHANGED loop
     \/ /\ known[w].status # "pending"
        /\ OpenExisting(w)
        /\ loop' = [loop EXCEPT ![w] = snapshot]
  /\ Goto(w, "opened")
  /\ UNCHANGED <<known, task, grant, cause, stray, history>>

\* The recorded schema, model or manifest differs from the present one.
RejectManifest(w) ==
  /\ pc[w] = "opened"
  /\ ReleaseExecution(w)
  /\ Forget(w)
  /\ UNCHANGED history

\* run.started or run.resumed; a cancellation that arrives while the
\* transaction commits is re-raised before the local run is replaced.
Begin(w) ==
  /\ pc[w] = "opened"
  /\ Commit(w, "running")
  /\ \/ /\ Learn(w, "running")
        /\ Goto(w, "enter")
        /\ UNCHANGED <<loop, task, grant, cause, stray>>
     \/ Leave(w, "ending", "interrupt")
  /\ UNCHANGED history

BeginFails(w) ==
  /\ pc[w] = "opened"
  /\ StoreMayFail \/ ~CanCommit(w, "running")
  /\ Leave(w, "failing", "none")
  /\ UNCHANGED <<tables, history>>

-----------------------------------------------------------------------------
(* agent_loop_stream: checkpoints around the model's turns.                *)

\* A checkpointed answer is returned at once; otherwise the loaded loop is
\* saved again and its pending calls, if any, are finished first.
EnterLoop(w) ==
  /\ pc[w] = "enter"
  /\ \/ /\ loop[w].final
        /\ Move(w, "completing")
        /\ UNCHANGED tables
     \/ /\ ~loop[w].final
        /\ SnapshotExecution(w, loop[w])
        /\ Pending(w, loop[w].pending)
        /\ Goto(w, IF loop[w].pending = {} THEN "think" ELSE "preflight")
        /\ UNCHANGED <<known, loop, grant, cause, stray>>
  /\ UNCHANGED history

\* One model turn and the checkpoint that follows it.
Checkpoint(w, next) ==
  /\ SnapshotExecution(w, next)
  /\ loop' = [loop EXCEPT ![w] = next]
  /\ UNCHANGED <<known, grant, cause, stray, history>>

AnswerUnsaved(w) ==
  /\ pc[w] = "think"
  /\ loop[w].turn < MaxTurns
  /\ loop' = [loop EXCEPT ![w] = [turn |-> @.turn + 1, pending |-> {},
                                  final |-> TRUE]]
  /\ Goto(w, "completing")
  /\ UNCHANGED <<tables, known, task, grant, cause, stray, history>>

Answer(w) ==
  /\ pc[w] = "think"
  /\ loop[w].turn < MaxTurns
  /\ Checkpoint(w, [turn |-> loop[w].turn + 1, pending |-> {}, final |-> TRUE])
  /\ Goto(w, "completing")
  /\ UNCHANGED task

RequestCallsUnbounded(w, S) ==
  /\ pc[w] = "think"
  /\ S # {}
  /\ Checkpoint(w, [turn |-> loop[w].turn + 1, pending |-> S, final |-> FALSE])
  /\ Pending(w, S)
  /\ Goto(w, "preflight")

RequestCallsUnsaved(w, S) ==
  /\ pc[w] = "think"
  /\ loop[w].turn < MaxTurns
  /\ S # {}
  /\ SnapshotExecution(w, [loop[w] EXCEPT !.turn = @ + 1])
  /\ loop' = [loop EXCEPT ![w] = [turn |-> @.turn + 1, pending |-> S,
                                  final |-> FALSE]]
  /\ Pending(w, S)
  /\ Goto(w, "preflight")
  /\ UNCHANGED <<known, grant, cause, stray, history>>

RequestCalls(w, S) ==
  /\ pc[w] = "think"
  /\ loop[w].turn < MaxTurns
  /\ S # {}
  /\ Checkpoint(w, [turn |-> loop[w].turn + 1, pending |-> S, final |-> FALSE])
  /\ Pending(w, S)
  /\ Goto(w, "preflight")

FinishTurnSucceeded(w) ==
  /\ pc[w] = "dispatch"
  /\ \A c \in loop[w].pending : task[w][c] = "done"
  /\ Checkpoint(w, [loop[w] EXCEPT !.pending = {}])
  /\ task' = [task EXCEPT ![w] = NoTasks]
  /\ Goto(w, "think")

\* Every pending call has a result: append them and advance the checkpoint.
FinishTurn(w) ==
  /\ pc[w] = "dispatch"
  /\ \A c \in loop[w].pending : task[w][c] \in {"done", "error"}
  /\ Checkpoint(w, [loop[w] EXCEPT !.pending = {}])
  /\ task' = [task EXCEPT ![w] = NoTasks]
  /\ Goto(w, "think")

TurnsExhausted(w) ==
  /\ pc[w] = "think"
  /\ loop[w].turn = MaxTurns
  /\ Leave(w, "failing", "none")
  /\ UNCHANGED <<tables, history>>

\* The provider fails, a checkpoint cannot be saved, or an event sink raises
\* before or after a call of the turn.
LoopFails(w) ==
  /\ \/ pc[w] \in {"enter", "think", "preflight"}
     \/ /\ pc[w] = "dispatch"
        /\ \E c \in loop[w].pending : task[w][c] \in {"todo", "done", "error"}
  /\ Leave(w, "failing", "none")
  /\ UNCHANGED <<tables, history>>

-----------------------------------------------------------------------------
(* _preflight_check_approvals, before any call of the turn is dispatched.  *)

\* The policy is evaluated before the receipt is looked up.
MayDeny(i) == PolicyTightens \/ receipt[i] = "absent"

PreflightUnknown(w, c) ==
  /\ pc[w] = "preflight"
  /\ task[w][c] = "unchecked"
  /\ Owns(w)
  /\ receipt[Id(w, c)] = "started"
  /\ Leave(w, "ending", "unknown")
  /\ UNCHANGED <<tables, history>>

\* Denied, already completed, ungated, or its approval is decided.
PreflightPass(w, c) ==
  /\ pc[w] = "preflight"
  /\ task[w][c] = "unchecked"
  /\ \/ MayDeny(Id(w, c))
     \/ Owns(w) /\ receipt[Id(w, c)] = "completed"
     \/ /\ Owns(w)
        /\ receipt[Id(w, c)] = "absent"
        /\ \/ c \notin Gated
           \/ Found(ProposalOf[c], "approved")
           \/ Found(ProposalOf[c], "rejected")
  /\ SetTask(w, c, "todo")
  /\ UNCHANGED <<tables, history>>

\* A new request is created when there is none, or the last one is used up.
NeedsRequest(c) ==
  ForProposal(ProposalOf[c]) = {} \/ Found(ProposalOf[c], "consumed")

\* A pending request is waited for; otherwise create one, in a second step.
PreflightGate(w, c) ==
  /\ pc[w] = "preflight"
  /\ task[w][c] = "unchecked"
  /\ Owns(w)
  /\ receipt[Id(w, c)] = "absent"
  /\ c \in Gated
  /\ \/ Found(ProposalOf[c], "pending") /\ SetTask(w, c, "needs")
     \/ NeedsRequest(c) /\ SetTask(w, c, "requesting")
  /\ UNCHANGED <<tables, history>>

\* ApprovalStore.create is a transaction of its own, after find.
PreflightRequest(w, c) ==
  /\ pc[w] = "preflight"
  /\ task[w][c] = "requesting"
  /\ CreateRequest(ProposalOf[c])
  /\ SetTask(w, c, "needs")
  /\ UNCHANGED history

PreflightDone(w) ==
  /\ pc[w] = "preflight"
  /\ \A c \in Calls : task[w][c] \notin {"unchecked", "requesting"}
  /\ IF \E c \in Calls : task[w][c] = "needs"
     THEN Leave(w, "ending", "suspend")
     ELSE Move(w, "dispatch")
  /\ UNCHANGED <<tables, history>>

-----------------------------------------------------------------------------
(* _execute_single_tool: the tasks of a turn, interleaved at every await.  *)

At(w, c, s) == pc[w] = "dispatch" /\ task[w][c] = s

\* An exception the tool boundary turns into an error payload for the model.
Reject(w, c) ==
  /\ SetTask(w, c, "error")
  /\ UNCHANGED <<tables, history>>

\* Any other: the TaskGroup cancels the siblings and the turn is left.
Abort(w) ==
  /\ Leave(w, "ending", "unknown")
  /\ UNCHANGED <<tables, history>>

\* _check_governance: policy, then receipt, then approval.
Govern(w, c) ==
  /\ At(w, c, "todo")
  /\ Owns(w)
  /\ \/ receipt[Id(w, c)] = "completed" /\ SetTask(w, c, "done")
     \/ /\ receipt[Id(w, c)] = "absent"
        /\ c \notin Gated
        /\ SetTask(w, c, "ready")
     \/ /\ receipt[Id(w, c)] = "absent"
        /\ c \in Gated
        /\ \/ \E k \in Find(ProposalOf[c]) :
                /\ requests[k].status = "approved"
                /\ task' = [task EXCEPT ![w][c] = "ready"]
                /\ grant' = [grant EXCEPT ![w][c] = k]
                /\ UNCHANGED <<pc, known, loop, cause, stray>>
           \/ Found(ProposalOf[c], "pending") /\ SetTask(w, c, "suspended")
           \/ NeedsRequest(c) /\ SetTask(w, c, "asking")
           \/ Found(ProposalOf[c], "rejected") /\ SetTask(w, c, "error")
  /\ UNCHANGED <<tables, history>>

GovernUnknown(w, c) ==
  /\ At(w, c, "todo")
  /\ Owns(w)
  /\ receipt[Id(w, c)] = "started"
  /\ Abort(w)

\* Unknown tool, invalid arguments, denial by the policy, a raise.
GovernRejects(w, c) ==
  /\ At(w, c, "todo")
  /\ MayDeny(Id(w, c)) \/ Fault(w)
  /\ Reject(w, c)

GovernRequest(w, c) ==
  /\ At(w, c, "asking")
  /\ CreateRequest(ProposalOf[c])
  /\ SetTask(w, c, "suspended")
  /\ UNCHANGED history

ClearUnconsumed(w, c) ==
  /\ At(w, c, "ready")
  /\ SetTask(w, c, "cleared")
  /\ UNCHANGED <<tables, history>>

\* Under the slots: the budget reservation, then the approval is used up.
Clear(w, c) ==
  /\ At(w, c, "ready")
  /\ IF grant[w][c] = 0 THEN UNCHANGED tables
     ELSE DecideRequest(grant[w][c], "consumed")
  /\ SetTask(w, c, "cleared")
  /\ UNCHANGED history

\* A sibling with the same proposal used the approval first.
ClearUsed(w, c) ==
  /\ At(w, c, "ready")
  /\ grant[w][c] # 0 /\ requests[grant[w][c]].status # "approved"
  /\ Reject(w, c)

\* No slot in time, budget exceeded, or the transaction raises.
ClearRejects(w, c) == At(w, c, "ready") /\ Reject(w, c)

BegunUnrecorded(w, c) ==
  /\ At(w, c, "cleared")
  /\ SetTask(w, c, "started")
  /\ UNCHANGED <<tables, history>>

\* The receipt is durable before the tool is called.
Begun(w, c) ==
  /\ At(w, c, "cleared")
  /\ StartAction(w, Id(w, c))
  /\ SetTask(w, c, "started")
  /\ UNCHANGED history

BegunRejects(w, c) ==
  /\ At(w, c, "cleared")
  /\ Fault(w) \/ receipt[Id(w, c)] # "absent"
  /\ Reject(w, c)

\* The tool runs: it returns, or it raises having had its effect or not.
Invoke(w, c) ==
  /\ At(w, c, "started")
  /\ \/ /\ SetTask(w, c, "returned")
        /\ ran' = [ran EXCEPT ![Id(w, c)] = @ + 1]
     \/ /\ SetTask(w, c, "raised")
        /\ ran' = [ran EXCEPT ![Id(w, c)] = @ + 1]
     \/ /\ SetTask(w, c, "raised")
        /\ UNCHANGED ran
  /\ UNCHANGED <<tables, withdrawn, overtaken>>

\* The budget settles in a finally clause, whatever the tool did.
Settle(w, c) ==
  /\ At(w, c, "returned")
  /\ Owns(w)
  /\ SetTask(w, c, "settled")
  /\ UNCHANGED <<tables, history>>

SettleUnknown(w, c) ==
  /\ At(w, c, "raised")
  /\ Owns(w)
  /\ Abort(w)

\* A raise of settle replaces the tool's outcome, OutcomeUnknown included.
SettleRejects(w, c) ==
  /\ At(w, c, "returned") \/ At(w, c, "raised")
  /\ Fault(w)
  /\ Reject(w, c)

Complete(w, c) ==
  /\ At(w, c, "settled")
  /\ CompleteAction(w, Id(w, c))
  /\ SetTask(w, c, "done")
  /\ UNCHANGED history

\* The output is invalid, or its receipt cannot be completed.
CompleteUnknown(w, c) == At(w, c, "settled") /\ Abort(w)

\* A call lacks its approval and every other call of the turn has finished.
Suspend(w) ==
  /\ pc[w] = "dispatch"
  /\ \A c \in loop[w].pending : task[w][c] \in Finished
  /\ \E c \in loop[w].pending : task[w][c] = "suspended"
  /\ Leave(w, "ending", "suspend")
  /\ UNCHANGED <<tables, history>>

Task(w, c) ==
  \/ Govern(w, c) \/ GovernUnknown(w, c) \/ GovernRequest(w, c)
  \/ Clear(w, c) \/ ClearUsed(w, c) \/ Begun(w, c) \/ BegunRejects(w, c)
  \/ Invoke(w, c) \/ Settle(w, c) \/ SettleUnknown(w, c)
  \/ SettleRejects(w, c) \/ Complete(w, c)

-----------------------------------------------------------------------------
(* The end of _execute: completion, its except clauses and its finally.    *)

\* As in Begin, a cancellation may hide the committed completion.
CompleteRun(w) ==
  /\ pc[w] = "completing"
  /\ Commit(w, "completed")
  /\ \/ /\ Learn(w, "completed")
        /\ Goto(w, "release")
        /\ UNCHANGED <<loop, task, grant, cause, stray>>
     \/ Leave(w, "ending", "interrupt")
  /\ UNCHANGED history

CompleteRunFails(w) ==
  /\ pc[w] = "completing"
  /\ StoreMayFail \/ ~CanCommit(w, "completed")
  /\ Leave(w, "failing", "none")
  /\ UNCHANGED <<tables, history>>

\* CancelledError reaches the try block of _execute.
Cancel(w) ==
  /\ pc[w] \in {"opened", "enter", "think", "preflight", "dispatch",
               "completing"}
  /\ Leave(w, "ending", "interrupt")
  /\ UNCHANGED <<tables, history>>

FailOutright(w) ==
  /\ pc[w] = "failing"
  /\ Owns(w)
  /\ Leave(w, "ending", "failed")
  /\ UNCHANGED <<tables, history>>

\* `except Exception`: an unresolved receipt suspends instead of failing.
Fail(w) ==
  /\ pc[w] = "failing"
  /\ Owns(w)
  /\ Leave(w, "ending", IF Unresolved THEN "unresolved" ELSE "failed")
  /\ UNCHANGED <<tables, history>>

Target(why) == IF why = "failed" THEN "failed" ELSE "waiting"

End(w) ==
  /\ pc[w] = "ending"
  /\ Commit(w, Target(cause[w]))
  /\ Goto(w, "release")
  /\ UNCHANGED <<known, loop, task, grant, cause, stray, history>>

\* The transition is not allowed or not current, or the store raises.
EndRefused(w) ==
  /\ pc[w] = "ending"
  /\ StoreMayFail \/ ~CanCommit(w, Target(cause[w]))
  /\ Move(w, "release")
  /\ UNCHANGED <<tables, history>>

\* A cancellation inside an except clause is raised out of it.
CancelHandler(w) ==
  /\ \/ pc[w] = "ending"
     \/ pc[w] = "failing"
  /\ Move(w, "release")
  /\ UNCHANGED <<tables, history>>

\* unresolved_action raises inside the except clause.
FailRefused(w) ==
  /\ pc[w] = "failing"
  /\ Fault(w)
  /\ Move(w, "release")
  /\ UNCHANGED <<tables, history>>

\* release_execution, in the finally clause.
Release(w) ==
  /\ pc[w] = "release"
  /\ ReleaseExecution(w)
  /\ Forget(w)
  /\ UNCHANGED history

ReleaseRefused(w) ==
  /\ pc[w] = "release"
  /\ Fault(w)
  /\ Forget(w)
  /\ UNCHANGED <<tables, history>>

\* The process dies.  A call cancelled while open_execution commits leaves
\* the same trace: the row has an owner that nobody will release.
Crash(w) ==
  /\ pc[w] # "idle"
  /\ Forget(w)
  /\ UNCHANGED <<tables, history>>

-----------------------------------------------------------------------------
(* The operator and the reviewer.                                          *)

Stopped(w) == pc[w] \in {"idle", "prepared"}

Recover ==
  /\ owner \in Workers
  /\ StopsWorker => Stopped(owner)
  /\ RecoverExecution(owner)
  /\ UNCHANGED <<session, stray, history>>

\* Evidence is about the moment it is given: the effect has not happened.
Withdraw(i) ==
  /\ ran[i] = 0
  /\ ReconcileAction(i, TRUE)
  /\ withdrawn' = [withdrawn EXCEPT ![i] = @ + 1]
  /\ overtaken' = IF stray[i] > 0 THEN overtaken \cup {i} ELSE overtaken
  /\ UNCHANGED <<session, stray, ran>>

\* The external system supplies the confirmed result.
Confirm(i) ==
  /\ ran[i] > 0
  /\ ReconcileAction(i, FALSE)
  /\ UNCHANGED <<session, stray, history>>

Decide(k, decision) ==
  /\ DecideRequest(k, decision)
  /\ UNCHANGED <<session, stray, history>>

-----------------------------------------------------------------------------
(* A thread nobody waits for: it acts, or it ends without having acted, by *)
(* itself or with its process.                                             *)

StrayActs(i) ==
  /\ stray[i] > 0
  /\ stray' = [stray EXCEPT ![i] = @ - 1]
  /\ ran' = [ran EXCEPT ![i] = @ + 1]
  /\ UNCHANGED <<tables, session, withdrawn, overtaken>>

StrayEnds(i) ==
  /\ stray[i] > 0
  /\ stray' = [stray EXCEPT ![i] = @ - 1]
  /\ UNCHANGED <<tables, session, history>>

-----------------------------------------------------------------------------
Init ==
  /\ StoreInit
  /\ pc = [w \in Workers |-> "idle"]
  /\ known = [w \in Workers |-> NoRun]
  /\ loop = [w \in Workers |-> FreshLoop]
  /\ task = [w \in Workers |-> NoTasks]
  /\ grant = [w \in Workers |-> NoGrants]
  /\ cause = [w \in Workers |-> "none"]
  /\ stray = [i \in Invocations |-> 0]
  /\ ran = [i \in Invocations |-> 0]
  /\ withdrawn = [i \in Invocations |-> 0]
  /\ overtaken = {}

Preflight(w, c) ==
  \/ PreflightUnknown(w, c) \/ PreflightPass(w, c)
  \/ PreflightGate(w, c) \/ PreflightRequest(w, c)

Enter(w) ==
  Open(w) \/ OpenRefused(w) \/ Begin(w) \/ BeginFails(w) \/ EnterLoop(w)

Turn(w) ==
  \/ Answer(w) \/ \E S \in SUBSET Calls : RequestCalls(w, S)
  \/ FinishTurn(w) \/ TurnsExhausted(w) \/ PreflightDone(w) \/ Suspend(w)
  \/ \E c \in Calls : Preflight(w, c) \/ Task(w, c)

Leaving(w) ==
  \/ CompleteRun(w) \/ CompleteRunFails(w) \/ Fail(w) \/ FailRefused(w)
  \/ End(w) \/ EndRefused(w) \/ Release(w) \/ ReleaseRefused(w)

\* What a call of run or resume does by itself, once it is under way ...
Working(w) == Enter(w) \/ Turn(w) \/ Leaving(w)

\* ... and what may go wrong on its way, or nobody relies on happening.
Mishap(w) ==
  \/ Refuse(w) \/ RejectManifest(w) \/ LoopFails(w)
  \/ \E c \in Calls : \/ GovernRejects(w, c) \/ ClearRejects(w, c)
                       \/ CompleteUnknown(w, c)
  \/ Cancel(w) \/ CancelHandler(w) \/ Crash(w)

Environment ==
  \/ \E w \in Workers : Start(w) \/ Resume(w) \/ Mishap(w)
  \/ \E i \in Invocations : \/ Withdraw(i) \/ Confirm(i)
                            \/ StrayActs(i) \/ StrayEnds(i)
  \/ \E k \in DOMAIN requests, d \in {"approved", "rejected"} : Decide(k, d)

Next == (\E w \in Workers : Working(w)) \/ Recover \/ Environment

Spec == Init /\ [][Next]_vars

\* The event loop runs every ready task, tools and the provider end or time
\* out, and somebody recovers a run whose worker has died.
Fairness == (\A w \in Workers : WF_vars(Working(w))) /\ WF_vars(Recover)

FairSpec == Spec /\ Fairness

-----------------------------------------------------------------------------
SessionTypeOK ==
  /\ pc \in [Workers -> Phases]
  /\ known \in [Workers -> [status : RunStatus, version : Nat]]
  /\ loop \in [Workers -> Loops]
  /\ task \in [Workers -> [Calls -> TaskStates]]
  /\ grant \in [Workers -> [Calls -> Nat]]
  /\ cause \in [Workers -> Causes]
  /\ stray \in [Invocations -> Nat]

HistoryTypeOK ==
  /\ ran \in [Invocations -> Nat]
  /\ withdrawn \in [Invocations -> Nat]
  /\ overtaken \subseteq Invocations

\* Every variable holds a value of the kind its declaration names.
TypeOK == StoreTypeOK /\ SessionTypeOK /\ HistoryTypeOK

-----------------------------------------------------------------------------
(* Safety.                                                                 *)

\* Two calls of run or resume never work on the run at once: whoever is past
\* open_execution is the recorded owner (runner 204-363, sqlite 270-297).
SingleExecution ==
  \A w \in Workers : ~Stopped(w) => Owns(w)

\* An external effect happens at most once per invocation, through any crash,
\* cancellation, resumption and reconciliation (docs/operations/recovery.md),
\* unless its receipt was withdrawn while a thread that run_sync had given up
\* (runtime 121-129) was still on its way to the effect.
AtMostOnce == \A i \in Invocations \ overtaken : ran[i] <= 1

\* Even if the operator recovers a run whose worker still lives, and whatever
\* threads are left behind, an effect is repeated only after a receipt was
\* withdrawn as not executed.
AtMostOncePerReceipt == \A i \in Invocations : ran[i] <= 1 + withdrawn[i]

\* An invocation in doubt is pending in the snapshot a resume loads, so that
\* the resume meets its receipt before the model is asked again
\* (_run_tool_calls: "durable before approval/dispatch").
InDoubtIsPending ==
  \A i \in Invocations :
    receipt[i] = "started" => /\ i[1] = snapshot.turn
                              /\ i[2] \in snapshot.pending

\* A finished run leaves no effect in doubt: whatever ends the loop, an
\* unresolved receipt turns the end into a suspension (runner 331-360).
NothingInDoubtAtEnd == status \in Terminal => ~Unresolved

\* Every effect of a gated proposal used up a human approval of its own, the
\* repeated effects of one invocation included: those of a worker recovered
\* alive and its successor, and those of threads left behind.
GatedFor(p) == {i \in Invocations : i[2] \in Gated /\ ProposalOf[i[2]] = p}
Tally(p, count) == UNION {{i} \X (1 .. count[i]) : i \in GatedFor(p)}
Effects(p) == Tally(p, ran)
Used(p) == {k \in ForProposal(p) : requests[k].status = "consumed"}

EffectsApproved ==
  \A p \in Proposals : Cardinality(Effects(p)) <= Cardinality(Used(p))

\* The final answer is checkpointed before the run is reported complete, so
\* that a resume after a crash returns it instead of asking again.
AnswerIsSaved == status = "completed" => snapshot.final

\* A worker that read the run before another one finished it changes nothing
\* any more: not the run, not its checkpoint, no external effect.  What may
\* still act is a thread that was left behind before the end.
Final ==
  status \in Terminal =>
    /\ UNCHANGED <<status, snapshot>>
    /\ \A i \in Invocations :
         ran'[i] = ran[i] \/ (ran'[i] = ran[i] + 1 /\ stray'[i] = stray[i] - 1)

EndIsFinal == [][Final]_vars

\* The durable checkpoint only moves forward, however many workers load it,
\* crash and save: a later turn, or fewer pending calls in the same turn.
Forward ==
  /\ snapshot'.turn >= snapshot.turn
  /\ snapshot'.turn = snapshot.turn =>
       /\ snapshot'.pending \subseteq snapshot.pending
       /\ snapshot'.final = snapshot.final

CheckpointForward == [][Forward]_vars

\* Effects and receipts behave as the abstract ledger promises.
Ledger == INSTANCE EffectLedger WITH outcome <- receipt, late <- stray,
                                     blind <- overtaken

ImplementsLedger == Ledger!LedgerSpec

-----------------------------------------------------------------------------
(* Liveness.                                                               *)

\* A call of run or resume comes to an end: a turn waits for nobody but its
\* own tasks, and a task for nothing another worker holds.
CallsEnd == \A w \in Workers : (pc[w] # "idle") ~> (pc[w] = "idle")

\* Ownership comes back: released by the worker, or recovered after it died.
OwnershipReturns ==
  \A w \in Workers : (owner = w) ~> (owner # w)

=============================================================================
