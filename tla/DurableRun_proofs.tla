-------------------------- MODULE DurableRun_proofs --------------------------
(***************************************************************************)
(* What holds of a durable run for every set of workers, calls and         *)
(* proposals and every number of turns.                                    *)
(*                                                                         *)
(* Whatever the operator, the store and the policy do: type correctness,   *)
(* which is inductive as it stands, and two balances, of effects against   *)
(* receipts and against approvals.                                         *)
(*                                                                         *)
(* If the operator stops a worker before recovering its run: one execution *)
(* at a time and at most one effect per invocation, but for one withdrawn  *)
(* while a thread left behind still had it.  Neither is inductive: it      *)
(* takes what every task of a turn knows of its receipt, and what every    *)
(* receipt says of the effect, whoever wrote it.                           *)
(*                                                                         *)
(* From that, what the journal shows: the checkpoint only moves forward,   *)
(* an ended run stays as it is, an answer is saved before it is reported,  *)
(* and no effect is left in doubt at the end.  All of it rests on one fact *)
(* that holds only while runs do not overlap: the owner's own loop is the  *)
(* snapshot.                                                               *)
(***************************************************************************)
EXTENDS DurableRun, TLAPS, SequenceTheorems, FiniteSetTheorems

-----------------------------------------------------------------------------
(* Type correctness.                                                       *)

\* The empty checkpoint, and one with fewer pending calls, are checkpoints.
LEMMA LoopTypes ==
  /\ FreshLoop \in Loops
  /\ \A l \in Loops : [l EXCEPT !.pending = {}] \in Loops
  /\ \A l \in Loops, S \in SUBSET Calls, f \in BOOLEAN :
       l.turn < MaxTurns =>
         [turn |-> l.turn + 1, pending |-> S, final |-> f] \in Loops
  BY StoreAssumption DEF FreshLoop, Loops

LEMMA InitType == Init => TypeOK
  <1> SUFFICES ASSUME Init PROVE TypeOK
    OBVIOUS
  <1>1. StoreTypeOK
    BY LoopTypes, StoreAssumption
    DEF Init, StoreInit, StoreTypeOK, RunStatus, ReceiptStatus
  <1>2. SessionTypeOK
    BY LoopTypes DEF Init, SessionTypeOK, Phases, NoRun, RunStatus, NoTasks,
                     TaskStates, NoGrants, Causes
  <1>3. HistoryTypeOK
    BY DEF Init, HistoryTypeOK
  <1> QED
    BY <1>1, <1>2, <1>3 DEF TypeOK

-----------------------------------------------------------------------------
(* The transactions keep the tables well typed.                            *)

LEMMA CommitType ==
  ASSUME StoreTypeOK, NEW expected \in Nat, NEW target \in RunStatus,
         CommitTransition(expected, target)
  PROVE  StoreTypeOK'
  BY DEF StoreTypeOK, CommitTransition

LEMMA SnapshotType ==
  ASSUME StoreTypeOK, NEW w \in Workers, NEW next \in Loops,
         SnapshotExecution(w, next)
  PROVE  StoreTypeOK'
  BY DEF StoreTypeOK, SnapshotExecution

LEMMA OwnerType ==
  ASSUME StoreTypeOK, NEW w \in Workers,
         \/ OpenNew(w, FreshLoop) \/ OpenExisting(w)
         \/ ReleaseExecution(w) \/ RecoverExecution(w)
  PROVE  StoreTypeOK'
  BY LoopTypes
  DEF StoreTypeOK, OpenNew, OpenExisting, ReleaseExecution, RecoverExecution

LEMMA ReceiptType ==
  ASSUME StoreTypeOK, NEW i \in Invocations, NEW s \in ReceiptStatus,
         Receipt(i, s)
  PROVE  StoreTypeOK'
  BY DEF StoreTypeOK, Receipt

LEMMA CreateRequestType ==
  ASSUME StoreTypeOK, NEW p \in Proposals, CreateRequest(p)
  PROVE  StoreTypeOK'
  <1>1. [proposal |-> p, status |-> "pending"] \in Request
    BY DEF Request, ApprovalStatus
  <1>2. requests' \in Seq(Request)
    BY <1>1 DEF StoreTypeOK, CreateRequest
  <1> QED
    BY <1>2 DEF StoreTypeOK, CreateRequest

LEMMA DecideRequestType ==
  ASSUME StoreTypeOK, NEW k, NEW target \in ApprovalStatus,
         DecideRequest(k, target)
  PROVE  StoreTypeOK'
  <1>1. k \in 1 .. Len(requests) /\ requests \in Seq(Request)
    BY DEF StoreTypeOK, DecideRequest
  <1>2. requests[k] \in Request
    BY <1>1
  <1>3. [requests[k] EXCEPT !.status = target] \in Request
    BY <1>2 DEF Request
  <1>4. requests' = [requests EXCEPT ![k] = [requests[k] EXCEPT !.status = target]]
    BY DEF DecideRequest
  <1>5. requests' \in Seq(Request)
    BY <1>1, <1>3, <1>4, ExceptSeq
  <1> QED
    BY <1>5 DEF StoreTypeOK, DecideRequest

-----------------------------------------------------------------------------
(* The moves of a worker keep its state well typed.                        *)

LEMMA LeaveType ==
  ASSUME SessionTypeOK, NEW w \in Workers, NEW p \in Phases, NEW y \in Causes,
         Leave(w, p, y)
  PROVE  SessionTypeOK'
  <1>1. stray' \in [Invocations -> Nat]
    BY DEF Leave, LeaveThreads, SessionTypeOK
  <1> QED
    BY <1>1 DEF SessionTypeOK, Leave, Goto, NoTasks, NoGrants, TaskStates

LEMMA MoveType ==
  ASSUME SessionTypeOK, NEW w \in Workers, NEW p \in Phases, Move(w, p)
  PROVE  SessionTypeOK'
  BY DEF SessionTypeOK, Move, Goto

LEMMA ForgetType ==
  ASSUME SessionTypeOK, NEW w \in Workers, Forget(w)
  PROVE  SessionTypeOK'
  BY LoopTypes DEF SessionTypeOK, Forget, Phases, NoRun, RunStatus, NoTasks,
                   TaskStates, NoGrants, Causes

LEMMA SetTaskType ==
  ASSUME SessionTypeOK, NEW w \in Workers, NEW c \in Calls,
         NEW s \in TaskStates, SetTask(w, c, s)
  PROVE  SessionTypeOK'
  BY DEF SessionTypeOK, SetTask

LEMMA PendingType ==
  ASSUME task \in [Workers -> [Calls -> TaskStates]], NEW w \in Workers, NEW S,
         Pending(w, S)
  PROVE  task' \in [Workers -> [Calls -> TaskStates]]
  BY DEF Pending, TaskStates

-----------------------------------------------------------------------------
(* Every action keeps TypeOK, one group of actions at a time.              *)

LEMMA EnterType ==
  ASSUME TypeOK, NEW w \in Workers, Enter(w) \/ Start(w) \/ Resume(w)
  PROVE  TypeOK'
  <1> USE DEF TypeOK
  <1>1. CASE Start(w)
    <2>1. StoreTypeOK'
      BY <1>1 DEF Start, CreateTransition, StoreTypeOK, RunStatus
    <2>2. SessionTypeOK'
      BY <1>1 DEF Start, SessionTypeOK, Goto, Phases, RunStatus
    <2> QED
      BY <1>1, <2>1, <2>2 DEF Start, HistoryTypeOK, history
  <1>2. CASE Resume(w)
    <2>1. SessionTypeOK'
      BY <1>2 DEF Resume, SessionTypeOK, StoreTypeOK, Goto, Phases
    <2> QED
      BY <1>2, <2>1 DEF Resume, StoreTypeOK, HistoryTypeOK, history, tables
  <1>3. CASE Open(w)
    <2>1. StoreTypeOK'
      BY <1>3, OwnerType DEF Open
    <2>2. loop' \in [Workers -> Loops]
      BY <1>3 DEF Open, SessionTypeOK, StoreTypeOK
    <2>3. SessionTypeOK'
      BY <1>3, <2>2 DEF Open, SessionTypeOK, Goto, Phases
    <2> QED
      BY <1>3, <2>1, <2>3 DEF Open, HistoryTypeOK, history
  <1>4. CASE OpenRefused(w)
    BY <1>4, ForgetType
    DEF OpenRefused, Refuse, StoreTypeOK, HistoryTypeOK, history, tables
  <1>5. CASE Begin(w)
    <2>1. known[w].version \in Nat /\ "running" \in RunStatus
      BY DEF SessionTypeOK, RunStatus
    <2>2. StoreTypeOK'
      BY <1>5, <2>1, CommitType DEF Begin, Commit
    <2>3. SessionTypeOK'
      <3>1. CASE Leave(w, "ending", "interrupt")
        BY <3>1, LeaveType DEF Phases, Causes
      <3>2. CASE Learn(w, "running") /\ Goto(w, "enter")
                 /\ UNCHANGED <<loop, task, grant, cause, stray>>
        <4>1. known' \in [Workers -> [status : RunStatus, version : Nat]]
          BY <2>1, <3>2 DEF Learn, SessionTypeOK
        <4> QED
          BY <3>2, <4>1 DEF Goto, SessionTypeOK, Phases
      <3> QED
        BY <1>5, <3>1, <3>2 DEF Begin
    <2> QED
      BY <1>5, <2>2, <2>3 DEF Begin, HistoryTypeOK, history
  <1>6. CASE BeginFails(w)
    <2>1. SessionTypeOK'
      BY <1>6, LeaveType DEF BeginFails, Phases, Causes
    <2> QED
      BY <1>6, <2>1 DEF BeginFails, StoreTypeOK, HistoryTypeOK, history, tables
  <1>7. CASE EnterLoop(w)
    <2>1. StoreTypeOK'
      <3>1. loop[w] \in Loops
        BY DEF SessionTypeOK
      <3>2. CASE SnapshotExecution(w, loop[w])
        BY <3>1, <3>2, SnapshotType
      <3>3. CASE UNCHANGED tables
        BY <3>3 DEF StoreTypeOK, tables
      <3> QED
        BY <1>7, <3>2, <3>3 DEF EnterLoop
    <2>2. SessionTypeOK'
      <3>1. CASE Move(w, "completing")
        BY <3>1, MoveType DEF Phases
      <3>2. CASE Pending(w, loop[w].pending) /\ UNCHANGED <<known, loop, grant, cause, stray>>
                 /\ Goto(w, IF loop[w].pending = {} THEN "think" ELSE "preflight")
        <4>1. task' \in [Workers -> [Calls -> TaskStates]]
          BY <3>2, PendingType DEF SessionTypeOK
        <4> QED
          BY <3>2, <4>1 DEF SessionTypeOK, Goto, Phases
      <3> QED
        BY <1>7, <3>1, <3>2 DEF EnterLoop
    <2> QED
      BY <1>7, <2>1, <2>2 DEF EnterLoop, HistoryTypeOK, history
  <1> QED
    BY <1>1, <1>2, <1>3, <1>4, <1>5, <1>6, <1>7 DEF Enter

LEMMA CheckpointType ==
  ASSUME TypeOK, NEW w \in Workers, NEW next \in Loops, Checkpoint(w, next)
  PROVE  /\ StoreTypeOK'
         /\ HistoryTypeOK'
         /\ loop' \in [Workers -> Loops]
         /\ UNCHANGED <<known, grant, cause, stray>>
  <1>1. StoreTypeOK'
    BY SnapshotType DEF Checkpoint, TypeOK
  <1> QED
    BY <1>1 DEF Checkpoint, TypeOK, SessionTypeOK, HistoryTypeOK, history

LEMMA TurnType ==
  ASSUME TypeOK, NEW w \in Workers,
         \/ Answer(w) \/ \E S \in SUBSET Calls : RequestCalls(w, S)
         \/ FinishTurn(w) \/ TurnsExhausted(w) \/ LoopFails(w)
         \/ PreflightDone(w) \/ Suspend(w)
  PROVE  TypeOK'
  <1> USE DEF TypeOK
  <1>0. loop[w] \in Loops
    BY DEF SessionTypeOK
  <1>1. CASE Answer(w)
    <2> DEFINE next == [turn |-> loop[w].turn + 1, pending |-> {}, final |-> TRUE]
    <2>1. next \in Loops
      BY <1>0, <1>1, LoopTypes DEF Answer
    <2>2. Checkpoint(w, next)
      BY <1>1 DEF Answer
    <2>3. /\ StoreTypeOK' /\ HistoryTypeOK' /\ loop' \in [Workers -> Loops]
          /\ UNCHANGED <<known, grant, cause, stray>>
      BY <2>1, <2>2, CheckpointType
    <2> QED
      BY <1>1, <2>3 DEF Answer, SessionTypeOK, Goto, Phases
  <1>2. CASE \E S \in SUBSET Calls : RequestCalls(w, S)
    <2>1. PICK S \in SUBSET Calls : RequestCalls(w, S)
      BY <1>2
    <2> DEFINE next == [turn |-> loop[w].turn + 1, pending |-> S, final |-> FALSE]
    <2>2. next \in Loops
      BY <1>0, <2>1, LoopTypes DEF RequestCalls
    <2>3. Checkpoint(w, next)
      BY <2>1 DEF RequestCalls
    <2>4. /\ StoreTypeOK' /\ HistoryTypeOK' /\ loop' \in [Workers -> Loops]
          /\ UNCHANGED <<known, grant, cause, stray>>
      BY <2>2, <2>3, CheckpointType
    <2>5. task' \in [Workers -> [Calls -> TaskStates]]
      BY <2>1, PendingType DEF SessionTypeOK, RequestCalls
    <2> QED
      BY <2>1, <2>4, <2>5 DEF RequestCalls, SessionTypeOK, Goto, Phases
  <1>3. CASE FinishTurn(w)
    <2>1. [loop[w] EXCEPT !.pending = {}] \in Loops
      BY <1>0, LoopTypes
    <2>2. Checkpoint(w, [loop[w] EXCEPT !.pending = {}])
      BY <1>3 DEF FinishTurn
    <2>3. /\ StoreTypeOK' /\ HistoryTypeOK' /\ loop' \in [Workers -> Loops]
          /\ UNCHANGED <<known, grant, cause, stray>>
      BY <2>1, <2>2, CheckpointType
    <2>4. task' \in [Workers -> [Calls -> TaskStates]]
      BY <1>3 DEF FinishTurn, SessionTypeOK, NoTasks, TaskStates
    <2> QED
      BY <1>3, <2>3, <2>4 DEF FinishTurn, SessionTypeOK, Goto, Phases
  <1>4. CASE TurnsExhausted(w) \/ LoopFails(w)
    <2>1. SessionTypeOK'
      BY <1>4, LeaveType DEF TurnsExhausted, LoopFails, Phases, Causes
    <2> QED
      BY <1>4, <2>1
      DEF TurnsExhausted, LoopFails, StoreTypeOK, HistoryTypeOK, history, tables
  <1>5. CASE PreflightDone(w)
    <2>1. SessionTypeOK'
      BY <1>5, LeaveType, MoveType DEF PreflightDone, Phases, Causes
    <2> QED
      BY <1>5, <2>1
      DEF PreflightDone, StoreTypeOK, HistoryTypeOK, history, tables
  <1>6. CASE Suspend(w)
    <2>1. SessionTypeOK'
      BY <1>6, LeaveType DEF Suspend, Phases, Causes
    <2> QED
      BY <1>6, <2>1 DEF Suspend, StoreTypeOK, HistoryTypeOK, history, tables
  <1> QED
    BY <1>1, <1>2, <1>3, <1>4, <1>5, <1>6

\* The moves of a task that touch neither the tables nor the history.
LEMMA QuietTaskType ==
  ASSUME TypeOK, NEW w \in Workers, NEW c \in Calls, UNCHANGED <<tables, history>>,
         \/ \E s \in TaskStates : SetTask(w, c, s)
         \/ Leave(w, "ending", "unknown")
  PROVE  TypeOK'
  <1>1. SessionTypeOK'
    BY SetTaskType, LeaveType DEF TypeOK, Phases, Causes
  <1> QED
    BY <1>1 DEF TypeOK, StoreTypeOK, HistoryTypeOK, tables, history

LEMMA PreflightType ==
  ASSUME TypeOK, NEW w \in Workers, NEW c \in Calls, Preflight(w, c)
  PROVE  TypeOK'
  <1>1. CASE PreflightUnknown(w, c)
    BY <1>1, QuietTaskType DEF PreflightUnknown
  <1>2. CASE PreflightPass(w, c)
    BY <1>2, QuietTaskType DEF PreflightPass, TaskStates, Dispatching
  <1>3. CASE PreflightGate(w, c)
    BY <1>3, QuietTaskType DEF PreflightGate, TaskStates
  <1>4. CASE PreflightRequest(w, c)
    <2>1. ProposalOf[c] \in Proposals
      BY RunAssumption
    <2>2. StoreTypeOK'
      BY <1>4, <2>1, CreateRequestType DEF PreflightRequest, TypeOK
    <2>3. SessionTypeOK'
      BY <1>4, SetTaskType DEF PreflightRequest, TypeOK, TaskStates
    <2> QED
      BY <1>4, <2>2, <2>3 DEF PreflightRequest, TypeOK, HistoryTypeOK, history
  <1> QED
    BY <1>1, <1>2, <1>3, <1>4 DEF Preflight

\* A task's invocation is one of the run's while its turn is in dispatch.
LEMMA IdType ==
  ASSUME TypeOK, NEW w \in Workers, NEW c \in Calls, loop[w].turn # 0
  PROVE  Id(w, c) \in Invocations
  <1>1. loop[w].turn \in 0 .. MaxTurns
    BY DEF TypeOK, SessionTypeOK, Loops
  <1> QED
    BY <1>1, StoreAssumption DEF Id, Invocations, Turns

LEMMA TaskType ==
  ASSUME TypeOK, NEW w \in Workers, NEW c \in Calls,
         \/ Task(w, c) \/ GovernRejects(w, c) \/ ClearRejects(w, c)
         \/ CompleteUnknown(w, c)
  PROVE  TypeOK'
  <1> USE DEF TaskStates, Dispatching, Finished
  <1>1. CASE Govern(w, c)
    <2>1. CASE \E s \in TaskStates : SetTask(w, c, s)
      BY <1>1, <2>1, QuietTaskType DEF Govern
    <2>2. CASE \E k \in Find(ProposalOf[c]) :
                 /\ task' = [task EXCEPT ![w][c] = "ready"]
                 /\ grant' = [grant EXCEPT ![w][c] = k]
                 /\ UNCHANGED <<pc, known, loop, cause, stray>>
      <3>1. Find(ProposalOf[c]) \subseteq Nat
        BY DEF Find, ForProposal, TypeOK, StoreTypeOK
      <3>2. SessionTypeOK'
        BY <2>2, <3>1 DEF TypeOK, SessionTypeOK
      <3> QED
        BY <1>1, <3>2 DEF Govern, TypeOK, StoreTypeOK, HistoryTypeOK, tables, history
    <2> QED
      BY <1>1, <2>1, <2>2 DEF Govern
  <1>2. CASE GovernUnknown(w, c) \/ SettleUnknown(w, c) \/ CompleteUnknown(w, c)
    BY <1>2, QuietTaskType DEF GovernUnknown, SettleUnknown, CompleteUnknown, Abort
  <1>3. CASE \/ GovernRejects(w, c) \/ ClearUsed(w, c) \/ ClearRejects(w, c)
             \/ BegunRejects(w, c) \/ SettleRejects(w, c)
    BY <1>3, QuietTaskType
    DEF GovernRejects, ClearUsed, ClearRejects, BegunRejects, SettleRejects, Reject
  <1>4. CASE GovernRequest(w, c)
    <2>1. ProposalOf[c] \in Proposals
      BY RunAssumption
    <2>2. StoreTypeOK'
      BY <1>4, <2>1, CreateRequestType DEF GovernRequest, TypeOK
    <2>3. SessionTypeOK'
      BY <1>4, SetTaskType DEF GovernRequest, TypeOK
    <2> QED
      BY <1>4, <2>2, <2>3 DEF GovernRequest, TypeOK, HistoryTypeOK, history
  <1>5. CASE Clear(w, c)
    <2>1. StoreTypeOK'
      <3>1. CASE UNCHANGED tables
        BY <3>1 DEF TypeOK, StoreTypeOK, tables
      <3>2. CASE DecideRequest(grant[w][c], "consumed")
        BY <3>2, DecideRequestType DEF TypeOK, ApprovalStatus
      <3> QED
        BY <1>5, <3>1, <3>2 DEF Clear
    <2>2. SessionTypeOK'
      BY <1>5, SetTaskType DEF Clear, TypeOK
    <2> QED
      BY <1>5, <2>1, <2>2 DEF Clear, TypeOK, HistoryTypeOK, history
  <1>6. CASE Begun(w, c) \/ Complete(w, c)
    <2>1. StoreTypeOK'
      BY <1>6
      DEF Begun, Complete, StartAction, CompleteAction, Receipt, TypeOK,
          StoreTypeOK, ReceiptStatus
    <2>2. SessionTypeOK'
      BY <1>6, SetTaskType DEF Begun, Complete, TypeOK
    <2> QED
      BY <1>6, <2>1, <2>2 DEF Begun, Complete, TypeOK, HistoryTypeOK, history
  <1>7. CASE Invoke(w, c)
    <2>1. SessionTypeOK'
      BY <1>7, SetTaskType DEF Invoke, TypeOK
    <2>2. HistoryTypeOK'
      BY <1>7 DEF Invoke, TypeOK, HistoryTypeOK
    <2> QED
      BY <1>7, <2>1, <2>2 DEF Invoke, TypeOK, StoreTypeOK, tables
  <1>8. CASE Settle(w, c)
    BY <1>8, QuietTaskType DEF Settle
  <1> QED
    BY <1>1, <1>2, <1>3, <1>4, <1>5, <1>6, <1>7, <1>8 DEF Task

LEMMA LeavingType ==
  ASSUME TypeOK, NEW w \in Workers,
         \/ Leaving(w) \/ Refuse(w) \/ RejectManifest(w) \/ Cancel(w)
         \/ CancelHandler(w) \/ Crash(w)
  PROVE  TypeOK'
  <1> USE DEF TypeOK
  <1>0. known[w].version \in Nat
    BY DEF SessionTypeOK
  <1>1. CASE CompleteRun(w)
    <2>1. StoreTypeOK'
      BY <1>0, <1>1, CommitType DEF CompleteRun, Commit, RunStatus
    <2>2. SessionTypeOK'
      <3>1. CASE Leave(w, "ending", "interrupt")
        BY <3>1, LeaveType DEF Phases, Causes
      <3>2. CASE Learn(w, "completed") /\ Goto(w, "release")
                 /\ UNCHANGED <<loop, task, grant, cause, stray>>
        <4>1. known' \in [Workers -> [status : RunStatus, version : Nat]]
          BY <1>0, <3>2 DEF Learn, SessionTypeOK, RunStatus
        <4> QED
          BY <3>2, <4>1 DEF Goto, SessionTypeOK, Phases
      <3> QED
        BY <1>1, <3>1, <3>2 DEF CompleteRun
    <2> QED
      BY <1>1, <2>1, <2>2 DEF CompleteRun, HistoryTypeOK, history
  <1>2. CASE CompleteRunFails(w) \/ Cancel(w) \/ Fail(w)
    <2>1. SessionTypeOK'
      BY <1>2, LeaveType DEF CompleteRunFails, Cancel, Fail, Phases, Causes
    <2> QED
      BY <1>2, <2>1 DEF CompleteRunFails, Cancel, Fail, StoreTypeOK,
                        HistoryTypeOK, history, tables
  <1>3. CASE FailRefused(w) \/ EndRefused(w) \/ CancelHandler(w)
    <2>1. SessionTypeOK'
      BY <1>3, MoveType DEF FailRefused, EndRefused, CancelHandler, Phases
    <2> QED
      BY <1>3, <2>1 DEF FailRefused, EndRefused, CancelHandler, StoreTypeOK,
                        HistoryTypeOK, history, tables
  <1>4. CASE End(w)
    <2>1. StoreTypeOK'
      BY <1>0, <1>4, CommitType DEF End, Commit, Target, RunStatus
    <2>2. SessionTypeOK'
      BY <1>4 DEF End, Goto, SessionTypeOK, Phases
    <2> QED
      BY <1>4, <2>1, <2>2 DEF End, HistoryTypeOK, history
  <1>5. CASE Release(w) \/ RejectManifest(w)
    <2>1. StoreTypeOK' /\ SessionTypeOK'
      BY <1>5, OwnerType, ForgetType DEF Release, RejectManifest
    <2> QED
      BY <1>5, <2>1 DEF Release, RejectManifest, HistoryTypeOK, history
  <1>6. CASE ReleaseRefused(w) \/ Refuse(w) \/ Crash(w)
    <2>1. SessionTypeOK'
      BY <1>6, ForgetType DEF ReleaseRefused, Refuse, Crash
    <2> QED
      BY <1>6, <2>1 DEF ReleaseRefused, Refuse, Crash, StoreTypeOK,
                        HistoryTypeOK, history, tables
  <1> QED
    BY <1>1, <1>2, <1>3, <1>4, <1>5, <1>6 DEF Leaving

LEMMA OperatorType ==
  ASSUME TypeOK,
         \/ Recover
         \/ \E i \in Invocations : Withdraw(i) \/ Confirm(i)
         \/ \E i \in Invocations : StrayActs(i) \/ StrayEnds(i)
         \/ \E k \in DOMAIN requests, d \in {"approved", "rejected"} : Decide(k, d)
  PROVE  TypeOK'
  <1> USE DEF TypeOK
  <1>1. CASE Recover
    BY <1>1, OwnerType DEF Recover, SessionTypeOK, HistoryTypeOK, session, history
  <1>2. CASE \E i \in Invocations : Withdraw(i) \/ Confirm(i)
    <2>1. PICK i \in Invocations : Withdraw(i) \/ Confirm(i)
      BY <1>2
    <2>2. StoreTypeOK'
      BY <2>1, ReceiptType DEF Withdraw, Confirm, ReconcileAction, ReceiptStatus
    <2>3. HistoryTypeOK'
      <3>1. CASE Withdraw(i)
        BY <3>1 DEF Withdraw, HistoryTypeOK
      <3>2. CASE Confirm(i)
        BY <3>2 DEF Confirm, HistoryTypeOK, history
      <3> QED
        BY <2>1, <3>1, <3>2
    <2>4. UNCHANGED <<session, stray>>
      BY <2>1 DEF Withdraw, Confirm
    <2>5. SessionTypeOK'
      BY <2>4 DEF SessionTypeOK, session
    <2> QED
      BY <2>2, <2>3, <2>5
  <1>3. CASE \E k \in DOMAIN requests, d \in {"approved", "rejected"} : Decide(k, d)
    <2>1. StoreTypeOK'
      BY <1>3, DecideRequestType DEF Decide, ApprovalStatus
    <2> QED
      BY <1>3, <2>1 DEF Decide, SessionTypeOK, HistoryTypeOK, session, history
  <1>4. CASE \E i \in Invocations : StrayActs(i) \/ StrayEnds(i)
    <2>1. PICK i \in Invocations : StrayActs(i) \/ StrayEnds(i)
      BY <1>4
    <2>2. UNCHANGED <<tables, session>> /\ HistoryTypeOK'
      BY <2>1 DEF StrayActs, StrayEnds, HistoryTypeOK, history
    <2>3. stray' \in [Invocations -> Nat]
      BY <2>1 DEF StrayActs, StrayEnds, SessionTypeOK
    <2> QED
      BY <2>2, <2>3 DEF StoreTypeOK, SessionTypeOK, tables, session
  <1> QED
    BY <1>1, <1>2, <1>3, <1>4

LEMMA NextType == TypeOK /\ [Next]_vars => TypeOK'
  <1> SUFFICES ASSUME TypeOK, [Next]_vars PROVE TypeOK'
    OBVIOUS
  <1>1. CASE \E w \in Workers : Working(w) \/ Start(w) \/ Resume(w) \/ Mishap(w)
    <2>1. PICK w \in Workers : Working(w) \/ Start(w) \/ Resume(w) \/ Mishap(w)
      BY <1>1
    <2>2. CASE Enter(w) \/ Start(w) \/ Resume(w)
      BY <2>2, EnterType
    <2>3. CASE Turn(w) \/ LoopFails(w)
      BY <2>3, TurnType, PreflightType, TaskType DEF Turn
    <2>4. CASE Mishap(w) \/ Leaving(w)
      BY <2>4, TurnType, TaskType, LeavingType DEF Mishap
    <2> QED
      BY <2>1, <2>2, <2>3, <2>4 DEF Working
  <1>2. CASE UNCHANGED vars
    BY <1>2 DEF vars, TypeOK, StoreTypeOK, SessionTypeOK, HistoryTypeOK,
                tables, session, history
  <1> QED
    BY <1>1, <1>2, OperatorType DEF Next, Environment

\* Type correctness, whatever the operator, the store and the policy do.
THEOREM TypeCorrect == Spec => []TypeOK
  BY InitType, NextType, PTL DEF Spec

-----------------------------------------------------------------------------
(* What holds whatever the operator does.                                  *)

(***************************************************************************)
(* Two workers may now execute the run at once, and the same invocation.   *)
(* Both results are balances: a started receipt pays for one task about to *)
(* act, or the thread it leaves behind, until it is withdrawn; a used      *)
(* approval pays for one gated task about to act, for one thread left      *)
(* behind, or for one effect.                                              *)
(***************************************************************************)

\* The workers about to act on an invocation, and the gated tasks cleared to
\* act on a proposal.
Poised(i) == {w \in Workers : task[w][i[2]] = "started" /\ loop[w].turn = i[1]}

Admitted == {"cleared", "started"}

Holders(p) ==
  {h \in Workers \X Calls : /\ h[2] \in Gated /\ ProposalOf[h[2]] = p
                            /\ task[h[1]][h[2]] \in Admitted}

AdmittedInTurn ==
  \A w \in Workers, c \in Calls : task[w][c] \in Admitted => pc[w] = "dispatch"

\* The approval a gated task means to use up is one of its own proposal.
Fits(k, c) == k \in DOMAIN requests /\ requests[k].proposal = ProposalOf[c]

GrantsFit ==
  \A w \in Workers, c \in Gated : task[w][c] = "ready" => Fits(grant[w][c], c)

Ready(i) == IF receipt[i] = "absent" THEN 1 ELSE 0

ReceiptsBalance ==
  \A i \in Invocations :
    /\ IsFiniteSet(Poised(i))
    /\ ran[i] + stray[i] + Cardinality(Poised(i)) + Ready(i) <= 1 + withdrawn[i]

Strays(p) == Tally(p, stray)

ApprovalsBalance ==
  \A p \in Proposals :
    /\ IsFiniteSet(Effects(p)) /\ IsFiniteSet(Strays(p)) /\ IsFiniteSet(Holders(p))
    /\ Cardinality(Effects(p)) + Cardinality(Strays(p)) + Cardinality(Holders(p))
         <= Cardinality(Used(p))

Balanced ==
  TypeOK /\ AdmittedInTurn /\ GrantsFit /\ ReceiptsBalance /\ ApprovalsBalance

LEMMA InitBalanced == Init => Balanced
  <1> SUFFICES ASSUME Init PROVE Balanced
    OBVIOUS
  <1>1. AdmittedInTurn /\ GrantsFit
    BY RunAssumption DEF Init, AdmittedInTurn, GrantsFit, NoTasks, Admitted
  <1>2. ReceiptsBalance
    <2> SUFFICES ASSUME NEW i \in Invocations
                 PROVE  /\ IsFiniteSet(Poised(i))
                        /\ ran[i] + stray[i] + Cardinality(Poised(i)) + Ready(i)
                             <= 1 + withdrawn[i]
      BY DEF ReceiptsBalance
    <2>1. Poised(i) = {}
      BY DEF Init, Poised, NoTasks, Invocations
    <2>2. ran[i] = 0 /\ stray[i] = 0 /\ withdrawn[i] = 0 /\ Ready(i) = 1
      BY DEF Init, StoreInit, Ready
    <2>3. IsFiniteSet(Poised(i)) /\ Cardinality(Poised(i)) = 0
      BY <2>1, FS_EmptySet
    <2> QED
      BY <2>2, <2>3
  <1>3. ApprovalsBalance
    <2>1. ASSUME NEW p \in Proposals
          PROVE  Effects(p) = {} /\ Strays(p) = {} /\ Holders(p) = {} /\ Used(p) = {}
      <3>1. \A i \in GatedFor(p) : 1 .. ran[i] = {} /\ 1 .. stray[i] = {}
        BY DEF Init, GatedFor
      <3>2. Effects(p) = {} /\ Strays(p) = {}
        BY <3>1 DEF Effects, Strays, Tally
      <3> QED
        BY <3>2 DEF Init, StoreInit, Holders, Used, ForProposal, NoTasks, Admitted
    <2> QED
      BY <2>1, FS_EmptySet DEF ApprovalsBalance
  <1> QED
    BY <1>1, <1>2, <1>3, InitType DEF Balanced

-----------------------------------------------------------------------------
(* Most steps admit nobody and use nothing up.                             *)

\* Tasks only leave the admitted states, and a worker's turn stays with them.
NobodyAdmitted ==
  \A w \in Workers, c \in Calls : task'[w][c] \in Admitted =>
    task'[w][c] = task[w][c] /\ pc'[w] = pc[w] /\ loop'[w] = loop[w]

GrantsFound ==
  \A w \in Workers, c \in Gated : task'[w][c] = "ready" => Fits(grant'[w][c], c)

\* Requests are kept, with their proposal, and a used one stays used.
RequestsKept ==
  \A k \in DOMAIN requests :
    /\ k \in DOMAIN requests'
    /\ requests'[k].proposal = requests[k].proposal
    /\ requests[k].status = "consumed" => requests'[k].status = "consumed"

\* One element more, or one less.
LEMMA AddsOne ==
  ASSUME NEW S, NEW T, NEW x, IsFiniteSet(S), x \notin S, T = S \cup {x}
  PROVE  /\ IsFiniteSet(T) /\ Cardinality(T) = Cardinality(S) + 1
         /\ Cardinality(S) \in Nat /\ Cardinality(T) \in Nat
  BY FS_AddElement, FS_CardinalityType

LEMMA TakesOne ==
  ASSUME NEW S, NEW T, NEW x, IsFiniteSet(S), x \in S, T = S \ {x}
  PROVE  /\ IsFiniteSet(T) /\ Cardinality(S) = Cardinality(T) + 1
         /\ Cardinality(S) \in Nat /\ Cardinality(T) \in Nat
  <1>1. IsFiniteSet(T)
    BY FS_RemoveElement
  <1>2. S = T \cup {x} /\ x \notin T
    OBVIOUS
  <1> QED
    BY <1>1, <1>2, AddsOne

\* The approvals used for a proposal are finitely many, and only grow.
LEMMA UsedGrows ==
  ASSUME TypeOK, TypeOK', RequestsKept, NEW p \in Proposals
  PROVE  /\ IsFiniteSet(Used(p)) /\ IsFiniteSet(Used(p)')
         /\ Cardinality(Used(p)) \in Nat /\ Cardinality(Used(p)') \in Nat
         /\ Cardinality(Used(p)) <= Cardinality(Used(p)')
  <1>1. /\ DOMAIN requests = 1 .. Len(requests) /\ Len(requests) \in Nat
        /\ DOMAIN requests' = 1 .. Len(requests') /\ Len(requests') \in Nat
    BY DEF TypeOK, StoreTypeOK
  <1>2. IsFiniteSet(DOMAIN requests')
    BY <1>1, FS_Interval
  <1>3. Used(p)' \in SUBSET (DOMAIN requests') /\ Used(p) \in SUBSET (Used(p)')
    BY DEF Used, ForProposal, RequestsKept
  <1>4. IsFiniteSet(Used(p)')
    BY <1>2, <1>3, FS_Subset
  <1>5. IsFiniteSet(Used(p)) /\ Cardinality(Used(p)) <= Cardinality(Used(p)')
    BY <1>3, <1>4, FS_Subset
  <1> QED
    BY <1>4, <1>5, FS_CardinalityType

-----------------------------------------------------------------------------
(* One mark for each time: counting effects and threads by a set.          *)

LEMMA TallyMarks ==
  ASSUME NEW p, NEW count, NEW m
  PROVE  m \in Tally(p, count) <=>
           \E i \in GatedFor(p) : \E n \in 1 .. count[i] : m = <<i, n>>
  BY DEF Tally

\* One time more for one invocation.
LEMMA TallyAdds ==
  ASSUME NEW p, NEW count \in [Invocations -> Nat], NEW i \in Invocations,
         NEW more \in [Invocations -> Nat], more[i] = count[i] + 1,
         \A j \in Invocations \ {i} : more[j] = count[j], IsFiniteSet(Tally(p, count))
  PROVE  /\ IsFiniteSet(Tally(p, more))
         /\ Cardinality(Tally(p, count)) \in Nat /\ Cardinality(Tally(p, more)) \in Nat
         /\ Cardinality(Tally(p, more)) =
              Cardinality(Tally(p, count)) + IF i \in GatedFor(p) THEN 1 ELSE 0
  <1>1. /\ more[i] = count[i] + 1 /\ count[i] \in Nat
        /\ \A j \in Invocations \ {i} : more[j] = count[j]
    OBVIOUS
  <1>2. GatedFor(p) \subseteq Invocations
    BY DEF GatedFor
  <1>3. CASE i \notin GatedFor(p)
    <2>1. \A j \in GatedFor(p) : more[j] = count[j]
      BY <1>1, <1>2, <1>3
    <2>2. Tally(p, more) = Tally(p, count)
      BY <2>1 DEF Tally
    <2> QED
      BY <1>3, <2>2, FS_CardinalityType
  <1>4. CASE i \in GatedFor(p)
    <2> DEFINE mark == <<i, count[i] + 1>>
    <2>1. mark \notin Tally(p, count)
      BY <1>1, TallyMarks
    <2>2. mark \in Tally(p, more)
      <3>1. count[i] + 1 \in 1 .. more[i]
        BY <1>1
      <3> QED
        BY <1>4, <3>1, TallyMarks
    <2>3. ASSUME NEW m \in Tally(p, more) PROVE m \in Tally(p, count) \cup {mark}
      <3>0. PICK j \in GatedFor(p) : \E n \in 1 .. more[j] : m = <<j, n>>
        BY TallyMarks
      <3>1. PICK n \in 1 .. more[j] : m = <<j, n>>
        BY <3>0
      <3>2. CASE n \in 1 .. count[j]
        BY <3>1, <3>2, TallyMarks
      <3>3. CASE n \notin 1 .. count[j]
        <4>1. j = i
          BY <1>1, <1>2, <3>3
        <4>2. n = count[i] + 1
          BY <1>1, <3>3, <4>1
        <4> QED
          BY <3>1, <4>1, <4>2
      <3> QED
        BY <3>2, <3>3
    <2>4. ASSUME NEW m \in Tally(p, count) PROVE m \in Tally(p, more)
      <3>1. PICK j \in GatedFor(p) : \E n \in 1 .. count[j] : m = <<j, n>>
        BY TallyMarks
      <3>2. 1 .. count[j] \subseteq 1 .. more[j]
        BY <1>1, <1>2
      <3> QED
        BY <3>1, <3>2, TallyMarks
    <2>5. Tally(p, more) = Tally(p, count) \cup {mark}
      BY <2>2, <2>3, <2>4
    <2> HIDE DEF mark
    <2> QED
      BY <1>4, <2>1, <2>5, AddsOne
  <1> QED
    BY <1>3, <1>4

\* One time less.
LEMMA TallyTakes ==
  ASSUME NEW p, NEW count \in [Invocations -> Nat], NEW i \in Invocations,
         NEW less \in [Invocations -> Nat], count[i] = less[i] + 1,
         \A j \in Invocations \ {i} : less[j] = count[j], IsFiniteSet(Tally(p, count))
  PROVE  /\ IsFiniteSet(Tally(p, less))
         /\ Cardinality(Tally(p, count)) \in Nat /\ Cardinality(Tally(p, less)) \in Nat
         /\ Cardinality(Tally(p, count)) =
              Cardinality(Tally(p, less)) + IF i \in GatedFor(p) THEN 1 ELSE 0
  <1>2. GatedFor(p) \subseteq Invocations
    BY DEF GatedFor
  <1>3. \A j \in GatedFor(p) : less[j] <= count[j] /\ less[j] \in Nat /\ count[j] \in Nat
    BY <1>2
  <1>4. Tally(p, less) \in SUBSET Tally(p, count)
    BY <1>3 DEF Tally
  <1>5. IsFiniteSet(Tally(p, less))
    BY <1>4, FS_Subset
  <1> QED
    BY <1>5, TallyAdds

-----------------------------------------------------------------------------
(* A worker that gives its tasks up leaves threads behind.                 *)

GivesUp(w) == LeaveThreads(w) /\ \A c \in Calls : task'[w][c] \notin Admitted

ThreadsKept == UNCHANGED stray \/ \E w \in Workers : GivesUp(w)

\* A thread left behind takes the place of the task that started it.
LEMMA PoisedStep ==
  ASSUME TypeOK, NobodyAdmitted, ThreadsKept, NEW i \in Invocations,
         IsFiniteSet(Poised(i))
  PROVE  /\ IsFiniteSet(Poised(i)')
         /\ Cardinality(Poised(i)') \in Nat /\ Cardinality(Poised(i)) \in Nat
         /\ stray[i] \in Nat /\ stray'[i] \in Nat
         /\ stray'[i] + Cardinality(Poised(i)') <= stray[i] + Cardinality(Poised(i))
  <1>1. Poised(i)' \in SUBSET Poised(i)
    BY DEF Poised, NobodyAdmitted, Admitted, Invocations
  <1>2. /\ IsFiniteSet(Poised(i)')
        /\ Cardinality(Poised(i)') <= Cardinality(Poised(i))
        /\ Cardinality(Poised(i)') \in Nat /\ Cardinality(Poised(i)) \in Nat
    BY <1>1, FS_Subset, FS_CardinalityType
  <1>3. stray[i] \in Nat
    BY DEF TypeOK, SessionTypeOK
  <1>4. CASE stray'[i] = stray[i]
    BY <1>2, <1>3, <1>4
  <1>5. CASE stray'[i] # stray[i]
    <2>1. PICK w \in Workers : GivesUp(w)
      BY <1>5 DEF ThreadsKept
    <2>2. /\ stray'[i] = stray[i] + 1 /\ i[1] = loop[w].turn /\ task[w][i[2]] = "started"
      BY <1>5, <2>1 DEF GivesUp, LeaveThreads
    <2>3. w \in Poised(i) /\ w \notin Poised(i)'
      BY <2>1, <2>2 DEF Poised, GivesUp, Admitted, Invocations
    <2>4. Poised(i)' \in SUBSET (Poised(i) \ {w})
      BY <1>1, <2>3
    <2>5. /\ IsFiniteSet(Poised(i) \ {w})
          /\ Cardinality(Poised(i)) = Cardinality(Poised(i) \ {w}) + 1
          /\ Cardinality(Poised(i) \ {w}) \in Nat
      BY <2>3, TakesOne
    <2>6. Cardinality(Poised(i)') <= Cardinality(Poised(i) \ {w})
      BY <2>4, <2>5, FS_Subset
    <2> QED
      BY <1>2, <1>3, <2>2, <2>5, <2>6
  <1> QED
    BY <1>4, <1>5

\* Likewise what they hold: an approval passes from a task to its thread.
LEMMA HeldStep ==
  ASSUME TypeOK, NobodyAdmitted, ThreadsKept, NEW p \in Proposals,
         IsFiniteSet(Strays(p)), IsFiniteSet(Holders(p))
  PROVE  /\ IsFiniteSet(Strays(p)') /\ IsFiniteSet(Holders(p)')
         /\ Cardinality(Strays(p)) \in Nat /\ Cardinality(Strays(p)') \in Nat
         /\ Cardinality(Holders(p)) \in Nat /\ Cardinality(Holders(p)') \in Nat
         /\ Cardinality(Strays(p)') + Cardinality(Holders(p)')
              <= Cardinality(Strays(p)) + Cardinality(Holders(p))
  <1>1. Holders(p)' \in SUBSET Holders(p)
    BY DEF Holders, NobodyAdmitted
  <1>2. /\ IsFiniteSet(Holders(p)')
        /\ Cardinality(Holders(p)') <= Cardinality(Holders(p))
        /\ Cardinality(Holders(p)') \in Nat /\ Cardinality(Holders(p)) \in Nat
        /\ Cardinality(Strays(p)) \in Nat
    BY <1>1, FS_Subset, FS_CardinalityType
  <1>3. CASE UNCHANGED stray
    <2>1. Strays(p)' = Strays(p)
      BY <1>3 DEF Strays, Tally
    <2> QED
      BY <1>2, <2>1
  <1>4. ASSUME NEW w \in Workers, GivesUp(w)
        PROVE  /\ IsFiniteSet(Strays(p)') /\ Cardinality(Strays(p)') \in Nat
               /\ Cardinality(Strays(p)') + Cardinality(Holders(p)')
                    <= Cardinality(Strays(p)) + Cardinality(Holders(p))
    <2>1. PICK S \in SUBSET {c \in Threaded : task[w][c] = "started"} :
            stray' = [i \in Invocations |->
                        IF i[1] = loop[w].turn /\ i[2] \in S THEN stray[i] + 1
                                                            ELSE stray[i]]
      BY <1>4 DEF GivesUp, LeaveThreads
    <2>2. stray \in [Invocations -> Nat]
      BY DEF TypeOK, SessionTypeOK
    <2> DEFINE Left == {i \in GatedFor(p) : i[1] = loop[w].turn /\ i[2] \in S}
               Gain == {<<i, stray[i] + 1>> : i \in Left}
               Held == {<<w, i[2]>> : i \in Left}
               f == [m \in Gain |-> <<w, m[1][2]>>]
    <2>3. GatedFor(p) \subseteq Invocations
      BY DEF GatedFor
    <2>4. Held \in SUBSET Holders(p)
      BY <2>1, RunAssumption DEF Holders, GatedFor, Admitted
    <2>5. Held \cap Holders(p)' = {}
      BY <1>4 DEF Holders, GivesUp
    <2>6. f \in Injection(Gain, Held)
      <3>1. f \in [Gain -> Held]
        OBVIOUS
      <3>2. ASSUME NEW m \in Gain, NEW n \in Gain, f[m] = f[n] PROVE m = n
        <4>1. PICK i \in Left : m = <<i, stray[i] + 1>>
          OBVIOUS
        <4>2. PICK j \in Left : n = <<j, stray[j] + 1>>
          OBVIOUS
        <4>3. i[2] = j[2] /\ i[1] = j[1]
          BY <3>2, <4>1, <4>2
        <4>4. i = <<i[1], i[2]>> /\ j = <<j[1], j[2]>>
          BY <2>3 DEF Invocations
        <4> QED
          BY <4>1, <4>2, <4>3, <4>4
      <3> QED
        BY <3>1, <3>2 DEF Injection, IsInjective
    <2>7. IsFiniteSet(Held) /\ Cardinality(Held) \in Nat
      BY <2>4, FS_Subset, FS_CardinalityType
    <2>8. IsFiniteSet(Gain) /\ Cardinality(Gain) <= Cardinality(Held)
      BY <2>6, <2>7, FS_Injection
    <2>9. Cardinality(Held) + Cardinality(Holders(p)') <= Cardinality(Holders(p))
      <3>1. Held \cup Holders(p)' \in SUBSET Holders(p)
        BY <1>1, <2>4
      <3>2. Cardinality(Held \cup Holders(p)') <= Cardinality(Holders(p))
        BY <3>1, FS_Subset
      <3>3. Cardinality(Held \cup Holders(p)') =
              Cardinality(Held) + Cardinality(Holders(p)') - Cardinality({})
        BY <1>2, <2>5, <2>7, FS_Union
      <3> QED
        BY <1>2, <2>7, <3>2, <3>3, FS_EmptySet
    <2>10. Strays(p)' = Strays(p) \cup Gain
      <3>1. ASSUME NEW i \in GatedFor(p)
            PROVE  {i} \X (1 .. stray'[i]) =
                     ({i} \X (1 .. stray[i])) \cup
                        (IF i \in Left THEN {<<i, stray[i] + 1>>} ELSE {})
        <4>1. i \in Invocations /\ stray[i] \in Nat
          BY <2>2, <2>3
        <4>2. stray'[i] = IF i \in Left THEN stray[i] + 1 ELSE stray[i]
          BY <2>1, <4>1
        <4>3. 1 .. stray'[i] =
                (1 .. stray[i]) \cup (IF i \in Left THEN {stray[i] + 1} ELSE {})
          BY <4>1, <4>2
        <4> HIDE DEF Left
        <4> QED
          BY <4>3
      <3>2. \A m : m \in Strays(p)' <=> \E i \in GatedFor(p) : m \in {i} \X (1 .. stray'[i])
        BY DEF Strays, Tally, GatedFor
      <3>3. \A m : m \in Strays(p) <=> \E i \in GatedFor(p) : m \in {i} \X (1 .. stray[i])
        BY DEF Strays, Tally
      <3>4. \A m : m \in Gain <=> \E i \in GatedFor(p) :
              m \in (IF i \in Left THEN {<<i, stray[i] + 1>>} ELSE {})
        OBVIOUS
      <3> HIDE DEF Left, Gain
      <3> QED
        <4>1. \A m : m \in Strays(p)' <=> m \in Strays(p) \/ m \in Gain
          BY <3>1, <3>2, <3>3, <3>4
        <4> QED
          BY <4>1
    <2>11. Strays(p) \cap Gain = {}
      <3>1. ASSUME NEW m \in Gain PROVE m \notin Strays(p)
        <4>1. PICK i \in Left : m = <<i, stray[i] + 1>> /\ stray[i] \in Nat
          BY <2>2, <2>3
        <4>2. stray[i] + 1 \notin 1 .. stray[i]
          BY <4>1
        <4> QED
          BY <4>1, <4>2 DEF Strays, Tally
      <3> QED
        BY <3>1
    <2> HIDE DEF Gain, Held
    <2>12. Cardinality(Strays(p) \cup Gain) = Cardinality(Strays(p)) + Cardinality(Gain)
      <3>1. /\ Cardinality(Gain) \in Nat /\ Cardinality(Strays(p)) \in Nat
            /\ Cardinality({}) = 0
        BY <1>2, <2>8, FS_EmptySet, FS_CardinalityType
      <3>2. Cardinality(Strays(p) \cup Gain) =
              Cardinality(Strays(p)) + Cardinality(Gain) - Cardinality({})
        BY <2>8, <2>11, FS_Union
      <3> QED
        BY <3>1, <3>2
    <2>13. IsFiniteSet(Strays(p)') /\ Cardinality(Strays(p)') \in Nat
      BY <2>8, <2>10, FS_Union, FS_CardinalityType
    <2>14. Cardinality(Gain) \in Nat
      BY <2>8, FS_CardinalityType
    <2> QED
      BY <1>2, <2>7, <2>8, <2>9, <2>10, <2>12, <2>13, <2>14
  <1> QED
    BY <1>2, <1>3, <1>4 DEF ThreadsKept

-----------------------------------------------------------------------------
(* Steps that admit nobody keep the balances.                              *)

Uneventful ==
  /\ NobodyAdmitted /\ GrantsFound /\ RequestsKept /\ ThreadsKept
  /\ UNCHANGED <<ran, withdrawn, receipt>>

LEMMA AdmittedStep ==
  ASSUME Balanced, TypeOK', NobodyAdmitted, GrantsFound, RequestsKept, ThreadsKept,
         UNCHANGED ran
  PROVE  /\ AdmittedInTurn' /\ GrantsFit' /\ ApprovalsBalance'
         /\ \A i \in Invocations :
              /\ IsFiniteSet(Poised(i)')
              /\ ran'[i] + stray'[i] + Cardinality(Poised(i)') + Ready(i)
                   <= 1 + withdrawn[i]
              /\ Cardinality(Poised(i)') \in Nat
  <1>0. TypeOK
    BY DEF Balanced
  <1>1. AdmittedInTurn'
    BY DEF Balanced, AdmittedInTurn, NobodyAdmitted
  <1>2. GrantsFit'
    BY DEF GrantsFit, GrantsFound, RequestsKept, Fits
  <1>3. ASSUME NEW i \in Invocations
        PROVE  /\ IsFiniteSet(Poised(i)')
               /\ ran'[i] + stray'[i] + Cardinality(Poised(i)') + Ready(i)
                    <= 1 + withdrawn[i]
               /\ Cardinality(Poised(i)') \in Nat
    <2>1. /\ IsFiniteSet(Poised(i))
          /\ ran[i] + stray[i] + Cardinality(Poised(i)) + Ready(i) <= 1 + withdrawn[i]
      BY DEF Balanced, ReceiptsBalance
    <2>2. /\ IsFiniteSet(Poised(i)')
          /\ Cardinality(Poised(i)') \in Nat /\ Cardinality(Poised(i)) \in Nat
          /\ stray[i] \in Nat /\ stray'[i] \in Nat
          /\ stray'[i] + Cardinality(Poised(i)') <= stray[i] + Cardinality(Poised(i))
      BY <1>0, <2>1, PoisedStep
    <2>3. /\ ran[i] \in Nat /\ withdrawn[i] \in Nat /\ Ready(i) \in Nat
          /\ ran'[i] = ran[i]
      BY <1>0 DEF TypeOK, HistoryTypeOK, Ready
    <2> QED
      BY <2>1, <2>2, <2>3
  <1>4. ApprovalsBalance'
    <2> SUFFICES ASSUME NEW p \in Proposals
                 PROVE  /\ IsFiniteSet(Effects(p)') /\ IsFiniteSet(Strays(p)')
                        /\ IsFiniteSet(Holders(p)')
                        /\ Cardinality(Effects(p)') + Cardinality(Strays(p)')
                              + Cardinality(Holders(p)') <= Cardinality(Used(p)')
      BY DEF ApprovalsBalance
    <2>1. Effects(p)' = Effects(p)
      BY DEF Effects, Tally, GatedFor
    <2>2. /\ IsFiniteSet(Effects(p)) /\ IsFiniteSet(Strays(p)) /\ IsFiniteSet(Holders(p))
          /\ Cardinality(Effects(p)) + Cardinality(Strays(p)) + Cardinality(Holders(p))
               <= Cardinality(Used(p))
      BY DEF Balanced, ApprovalsBalance
    <2>3. /\ IsFiniteSet(Strays(p)') /\ IsFiniteSet(Holders(p)')
          /\ Cardinality(Strays(p)) \in Nat /\ Cardinality(Strays(p)') \in Nat
          /\ Cardinality(Holders(p)) \in Nat /\ Cardinality(Holders(p)') \in Nat
          /\ Cardinality(Strays(p)') + Cardinality(Holders(p)')
               <= Cardinality(Strays(p)) + Cardinality(Holders(p))
      BY <1>0, <2>2, HeldStep
    <2>4. /\ Cardinality(Used(p)) <= Cardinality(Used(p)')
          /\ Cardinality(Used(p)) \in Nat /\ Cardinality(Used(p)') \in Nat
      BY <1>0, UsedGrows
    <2>5. Cardinality(Effects(p)) \in Nat
      BY <2>2, FS_CardinalityType
    <2> HIDE DEF Effects, Strays, Holders, Used
    <2> QED
      BY <2>1, <2>2, <2>3, <2>4, <2>5
  <1> QED
    BY <1>1, <1>2, <1>3, <1>4

LEMMA UneventfulStep ==
  ASSUME Balanced, TypeOK', Uneventful
  PROVE  Balanced'
  <1>1. NobodyAdmitted /\ GrantsFound /\ RequestsKept /\ ThreadsKept /\ UNCHANGED ran
    BY DEF Uneventful
  <1>2. \A i \in Invocations : Ready(i)' = Ready(i)
    BY DEF Ready, Uneventful
  <1>3. ReceiptsBalance'
    BY <1>1, <1>2, AdmittedStep DEF ReceiptsBalance, Uneventful
  <1> QED
    BY <1>1, <1>3, AdmittedStep DEF Balanced

\* A receipt is settled, or withdrawn on the record.
LEMMA ReceiptBalanced ==
  ASSUME Balanced, TypeOK', NobodyAdmitted, GrantsFound, RequestsKept,
         UNCHANGED <<ran, stray>>, NEW j, receipt[j] = "started", NEW r \in {"absent", "completed"},
         receipt' = [receipt EXCEPT ![j] = r],
         withdrawn' = IF r = "absent" THEN [withdrawn EXCEPT ![j] = @ + 1] ELSE withdrawn
  PROVE  Balanced'
  <1>1. /\ receipt \in [Invocations -> ReceiptStatus]
        /\ withdrawn \in [Invocations -> Nat] /\ ran' \in [Invocations -> Nat]
        /\ stray' \in [Invocations -> Nat] /\ ThreadsKept
    BY DEF Balanced, TypeOK, StoreTypeOK, SessionTypeOK, HistoryTypeOK, ThreadsKept
  <1>2. ASSUME NEW i \in Invocations
        PROVE  /\ Ready(i)' - withdrawn'[i] <= Ready(i) - withdrawn[i]
               /\ Ready(i)' \in Nat /\ Ready(i) \in Nat
               /\ withdrawn[i] \in Nat /\ withdrawn'[i] \in Nat
    <2>1. CASE i = j
      BY <1>1, <2>1 DEF Ready
    <2>2. CASE i # j
      BY <1>1, <2>2 DEF Ready
    <2> QED
      BY <2>1, <2>2
  <1>3. ReceiptsBalance'
    <2> SUFFICES ASSUME NEW i \in Invocations
                 PROVE  /\ IsFiniteSet(Poised(i)')
                        /\ ran'[i] + stray'[i] + Cardinality(Poised(i)') + Ready(i)'
                             <= 1 + withdrawn'[i]
      BY DEF ReceiptsBalance
    <2>1. /\ IsFiniteSet(Poised(i)')
          /\ ran'[i] + stray'[i] + Cardinality(Poised(i)') + Ready(i) <= 1 + withdrawn[i]
          /\ Cardinality(Poised(i)') \in Nat /\ ran'[i] \in Nat /\ stray'[i] \in Nat
      BY <1>1, AdmittedStep
    <2> QED
      BY <1>2, <2>1
  <1> QED
    BY <1>1, <1>3, AdmittedStep DEF Balanced

\* A worker leaves its tasks, or has none to admit.
LEMMA LeaveUneventful ==
  ASSUME Balanced, NEW w \in Workers,
         \A c \in Calls : task'[w][c] \notin Admitted \cup {"ready"},
         \A v \in Workers \ {w} : /\ task'[v] = task[v] /\ pc'[v] = pc[v]
                                /\ loop'[v] = loop[v] /\ grant'[v] = grant[v],
         UNCHANGED stray \/ LeaveThreads(w),
         RequestsKept, UNCHANGED <<ran, withdrawn, receipt>>
  PROVE  Uneventful
  <1>1. NobodyAdmitted
    BY DEF NobodyAdmitted
  <1>2. GrantsFound
    BY RunAssumption DEF GrantsFound, Balanced, GrantsFit
  <1>3. ThreadsKept
    BY DEF ThreadsKept, GivesUp
  <1> QED
    BY <1>1, <1>2, <1>3 DEF Uneventful

\* One task moves where it is not admitted.
LEMMA TaskUneventful ==
  ASSUME Balanced, NEW w \in Workers, NEW c \in Calls, NEW s \in TaskStates,
         s \notin Admitted, s # "ready" \/ c \notin Gated,
         task' = [task EXCEPT ![w][c] = s],
         RequestsKept, UNCHANGED <<pc, loop, grant, stray, ran, withdrawn, receipt>>
  PROVE  Uneventful
  <1>1. task \in [Workers -> [Calls -> TaskStates]]
    BY DEF Balanced, TypeOK, SessionTypeOK
  <1>2. NobodyAdmitted
    BY <1>1 DEF NobodyAdmitted
  <1>3. GrantsFound
    BY <1>1, RunAssumption DEF GrantsFound, Balanced, GrantsFit
  <1> QED
    BY <1>2, <1>3 DEF Uneventful, ThreadsKept

\* Nothing of the tasks moves.
LEMMA ElsewhereUneventful ==
  ASSUME Balanced, UNCHANGED <<task, grant, stray, ran, withdrawn, receipt>>, RequestsKept,
         \A v \in Workers : pc[v] = "dispatch" =>
           pc'[v] = pc[v] /\ loop'[v] = loop[v]
  PROVE  Uneventful
  <1>1. NobodyAdmitted
    BY DEF NobodyAdmitted, Balanced, AdmittedInTurn
  <1>2. GrantsFound
    BY DEF GrantsFound, Balanced, GrantsFit
  <1> QED
    BY <1>1, <1>2 DEF Uneventful, ThreadsKept

LEMMA RequestsStay ==
  ASSUME UNCHANGED requests
  PROVE  RequestsKept
  BY DEF RequestsKept

LEMMA RequestsMove ==
  ASSUME TypeOK,
         \/ \E p \in Proposals : CreateRequest(p)
         \/ \E k \in Nat, d \in {"approved", "rejected", "consumed"} : DecideRequest(k, d)
  PROVE  RequestsKept
  <1>1. requests \in Seq(Request)
    BY DEF TypeOK, StoreTypeOK
  <1>2. ASSUME NEW p \in Proposals, CreateRequest(p)
        PROVE  RequestsKept
    BY <1>1, <1>2 DEF CreateRequest, RequestsKept
  <1>3. ASSUME NEW k \in Nat, NEW d \in {"approved", "rejected", "consumed"}, DecideRequest(k, d)
        PROVE  RequestsKept
    BY <1>1, <1>3 DEF DecideRequest, RequestsKept, Expected, Request
  <1> QED
    BY <1>2, <1>3

LEMMA EnterUneventful ==
  ASSUME Balanced, NEW w \in Workers, Enter(w) \/ Start(w) \/ Resume(w)
  PROVE  Uneventful
  <1> USE DEF tables, history
  <1>1. /\ pc \in [Workers -> Phases] /\ loop \in [Workers -> Loops]
        /\ task \in [Workers -> [Calls -> TaskStates]]
        /\ grant \in [Workers -> [Calls -> Nat]]
    BY DEF Balanced, TypeOK, SessionTypeOK
  <1>2. CASE Start(w) \/ Resume(w)
    BY <1>1, <1>2, ElsewhereUneventful, RequestsStay
    DEF Start, Resume, CreateTransition, Goto
  <1>3. CASE Open(w)
    <2>1. /\ pc[w] = "prepared" /\ UNCHANGED requests
          /\ \A v \in Workers \ {w} : pc'[v] = pc[v] /\ loop'[v] = loop[v]
          /\ UNCHANGED <<task, grant, stray, ran, withdrawn, receipt>>
      BY <1>1, <1>3 DEF Open, OpenNew, OpenExisting, Goto
    <2> QED
      BY <2>1, ElsewhereUneventful, RequestsStay
  <1>4. CASE OpenRefused(w) \/ BeginFails(w)
    BY <1>1, <1>4, LeaveUneventful, RequestsStay
    DEF OpenRefused, Refuse, Forget, BeginFails, Leave, Goto, NoTasks, Admitted
  <1>5. CASE Begin(w)
    <2>1. UNCHANGED <<requests, ran, withdrawn, receipt>> /\ pc[w] = "opened"
      BY <1>5 DEF Begin, Commit, CommitTransition
    <2>2. CASE Leave(w, "ending", "interrupt")
      BY <1>1, <2>1, <2>2, LeaveUneventful, RequestsStay
      DEF Leave, Goto, NoTasks, Admitted
    <2>3. CASE Goto(w, "enter") /\ UNCHANGED <<loop, task, grant, stray>>
      BY <1>1, <2>1, <2>3, ElsewhereUneventful, RequestsStay DEF Goto
    <2> QED
      BY <1>5, <2>2, <2>3 DEF Begin
  <1>6. CASE EnterLoop(w)
    <2>1. CASE Move(w, "completing") /\ UNCHANGED tables
      BY <1>1, <1>6, <2>1, ElsewhereUneventful, RequestsStay DEF EnterLoop, Move, Goto
    <2>2. CASE /\ SnapshotExecution(w, loop[w])
               /\ Pending(w, loop[w].pending)
               /\ Goto(w, IF loop[w].pending = {} THEN "think" ELSE "preflight")
               /\ UNCHANGED <<known, loop, grant, cause, stray>>
      BY <1>1, <1>6, <2>2, LeaveUneventful, RequestsStay
      DEF EnterLoop, SnapshotExecution, Pending, Goto, Admitted
    <2> QED
      BY <1>6, <2>1, <2>2 DEF EnterLoop
  <1> QED
    BY <1>2, <1>3, <1>4, <1>5, <1>6 DEF Enter

LEMMA TurnUneventful ==
  ASSUME Balanced, NEW w \in Workers,
         \/ Answer(w) \/ \E S \in SUBSET Calls : RequestCalls(w, S)
         \/ FinishTurn(w) \/ TurnsExhausted(w) \/ LoopFails(w)
         \/ PreflightDone(w) \/ Suspend(w)
  PROVE  Uneventful
  <1> USE DEF tables, history
  <1>1. /\ pc \in [Workers -> Phases] /\ loop \in [Workers -> Loops]
        /\ task \in [Workers -> [Calls -> TaskStates]]
        /\ grant \in [Workers -> [Calls -> Nat]]
    BY DEF Balanced, TypeOK, SessionTypeOK
  <1>2. CASE Answer(w)
    BY <1>1, <1>2, ElsewhereUneventful, RequestsStay
    DEF Answer, Checkpoint, SnapshotExecution, Goto
  <1>3. ASSUME NEW S \in SUBSET Calls, RequestCalls(w, S)
        PROVE  Uneventful
    BY <1>1, <1>3, LeaveUneventful, RequestsStay
    DEF RequestCalls, Checkpoint, SnapshotExecution, Goto, Pending, Admitted
  <1>4. CASE FinishTurn(w)
    BY <1>1, <1>4, LeaveUneventful, RequestsStay
    DEF FinishTurn, Checkpoint, SnapshotExecution, Goto, NoTasks, Admitted
  <1>5. CASE TurnsExhausted(w) \/ LoopFails(w) \/ Suspend(w)
    BY <1>1, <1>5, LeaveUneventful, RequestsStay
    DEF TurnsExhausted, LoopFails, Suspend, Leave, Goto, NoTasks, Admitted
  <1>6. CASE PreflightDone(w)
    <2>1. CASE Leave(w, "ending", "suspend")
      BY <1>1, <1>6, <2>1, LeaveUneventful, RequestsStay
      DEF PreflightDone, Leave, Goto, NoTasks, Admitted
    <2>2. CASE Move(w, "dispatch")
      BY <1>1, <1>6, <2>2, ElsewhereUneventful, RequestsStay
      DEF PreflightDone, Move, Goto
    <2> QED
      BY <1>6, <2>1, <2>2 DEF PreflightDone
  <1> QED
    BY <1>2, <1>3, <1>4, <1>5, <1>6

LEMMA LeavingUneventful ==
  ASSUME Balanced, NEW w \in Workers,
         \/ Leaving(w) \/ Refuse(w) \/ RejectManifest(w) \/ Cancel(w)
         \/ CancelHandler(w) \/ Crash(w)
  PROVE  Uneventful
  <1> USE DEF tables, history
  <1>1. /\ pc \in [Workers -> Phases] /\ loop \in [Workers -> Loops]
        /\ task \in [Workers -> [Calls -> TaskStates]]
        /\ grant \in [Workers -> [Calls -> Nat]]
    BY DEF Balanced, TypeOK, SessionTypeOK
  <1>2. CASE CompleteRun(w)
    <2>1. UNCHANGED <<requests, ran, withdrawn, receipt>> /\ pc[w] = "completing"
      BY <1>2 DEF CompleteRun, Commit, CommitTransition
    <2>2. CASE Leave(w, "ending", "interrupt")
      BY <1>1, <2>1, <2>2, LeaveUneventful, RequestsStay
      DEF Leave, Goto, NoTasks, Admitted
    <2>3. CASE Goto(w, "release") /\ UNCHANGED <<loop, task, grant, stray>>
      BY <1>1, <2>1, <2>3, ElsewhereUneventful, RequestsStay DEF Goto
    <2> QED
      BY <1>2, <2>2, <2>3 DEF CompleteRun
  <1>3. CASE CompleteRunFails(w) \/ Fail(w) \/ Cancel(w)
    BY <1>1, <1>3, LeaveUneventful, RequestsStay
    DEF CompleteRunFails, Fail, Cancel, Leave, Goto, NoTasks, Admitted
  <1>4. CASE FailRefused(w) \/ EndRefused(w) \/ CancelHandler(w) \/ End(w)
    BY <1>1, <1>4, ElsewhereUneventful, RequestsStay
    DEF FailRefused, EndRefused, CancelHandler, End, Commit, CommitTransition,
        Move, Goto
  <1>5. CASE \/ Release(w) \/ RejectManifest(w) \/ ReleaseRefused(w)
             \/ Refuse(w) \/ Crash(w)
    BY <1>1, <1>5, LeaveUneventful, RequestsStay
    DEF Release, RejectManifest, ReleaseExecution, ReleaseRefused, Refuse, Crash,
        Forget, NoTasks, Admitted
  <1> QED
    BY <1>2, <1>3, <1>4, <1>5 DEF Leaving

LEMMA TaskLeaveUneventful ==
  ASSUME Balanced, NEW w \in Workers, NEW p, NEW why, Leave(w, p, why),
         UNCHANGED <<requests, ran, withdrawn, receipt>>
  PROVE  Uneventful
  BY LeaveUneventful, RequestsStay
  DEF Leave, Goto, NoTasks, Admitted, Balanced, TypeOK, SessionTypeOK

\* The steps of a task that neither clear it nor touch a receipt or an effect.
LEMMA TaskStepUneventful ==
  ASSUME Balanced, NEW w \in Workers, NEW c \in Calls,
         \/ Preflight(w, c) \/ Govern(w, c) \/ GovernUnknown(w, c)
         \/ GovernRequest(w, c) \/ GovernRejects(w, c) \/ ClearUsed(w, c)
         \/ ClearRejects(w, c) \/ BegunRejects(w, c) \/ Settle(w, c)
         \/ SettleUnknown(w, c) \/ SettleRejects(w, c) \/ CompleteUnknown(w, c)
  PROVE  Uneventful
  <1> USE DEF TaskStates, Dispatching, Finished, tables, history
  <1>1. ProposalOf[c] \in Proposals
    BY RunAssumption
  <1>2. TypeOK
    BY DEF Balanced
  <1>3. CASE \/ PreflightUnknown(w, c) \/ GovernUnknown(w, c)
             \/ SettleUnknown(w, c) \/ CompleteUnknown(w, c)
    BY <1>3, TaskLeaveUneventful
    DEF PreflightUnknown, GovernUnknown, SettleUnknown, CompleteUnknown, Abort
  <1>4. CASE PreflightPass(w, c) \/ PreflightGate(w, c)
    BY <1>4, TaskUneventful, RequestsStay
    DEF PreflightPass, PreflightGate, SetTask, Admitted
  <1>5. CASE PreflightRequest(w, c) \/ GovernRequest(w, c)
    <2>1. RequestsKept
      BY <1>1, <1>2, <1>5, RequestsMove DEF PreflightRequest, GovernRequest
    <2> QED
      BY <1>5, <2>1, TaskUneventful
      DEF PreflightRequest, GovernRequest, SetTask, CreateRequest, Admitted
  <1>6. CASE \/ GovernRejects(w, c) \/ ClearUsed(w, c) \/ ClearRejects(w, c)
             \/ BegunRejects(w, c) \/ Settle(w, c) \/ SettleRejects(w, c)
    BY <1>6, TaskUneventful, RequestsStay
    DEF GovernRejects, ClearUsed, ClearRejects, BegunRejects, Settle,
        SettleRejects, Reject, SetTask, Admitted
  <1>7. CASE Govern(w, c)
    <2>1. CASE \E k \in Find(ProposalOf[c]) :
                 /\ c \in Gated
                 /\ task' = [task EXCEPT ![w][c] = "ready"]
                 /\ grant' = [grant EXCEPT ![w][c] = k]
                 /\ UNCHANGED <<pc, known, loop, cause, stray>>
      <3>1. PICK k \in Find(ProposalOf[c]) :
                 /\ task' = [task EXCEPT ![w][c] = "ready"]
                 /\ grant' = [grant EXCEPT ![w][c] = k]
                 /\ UNCHANGED <<pc, known, loop, cause, stray>>
        BY <2>1
      <3>2. /\ task \in [Workers -> [Calls -> TaskStates]]
            /\ grant \in [Workers -> [Calls -> Nat]]
        BY <1>2 DEF TypeOK, SessionTypeOK
      <3>3. Fits(k, c)
        BY DEF Fits, Find, ForProposal
      <3>4. NobodyAdmitted
        BY <3>1, <3>2 DEF NobodyAdmitted, Admitted
      <3>5. GrantsFound
        BY <3>1, <3>2, <3>3, RunAssumption DEF GrantsFound, Balanced, GrantsFit
      <3> QED
        BY <1>7, <3>1, <3>4, <3>5, RequestsStay DEF Govern, Uneventful, ThreadsKept
    <2>2. ASSUME NEW s \in {"done", "ready", "suspended", "asking", "error"},
                 SetTask(w, c, s), s = "ready" => c \notin Gated
          PROVE  Uneventful
      BY <1>7, <2>2, TaskUneventful, RequestsStay DEF Govern, SetTask, Admitted
    <2>3. \/ \E s \in {"done", "ready", "suspended", "asking", "error"} :
               SetTask(w, c, s) /\ (s = "ready" => c \notin Gated)
          \/ c \in Gated /\ \E k \in Find(ProposalOf[c]) :
               /\ task' = [task EXCEPT ![w][c] = "ready"]
               /\ grant' = [grant EXCEPT ![w][c] = k]
               /\ UNCHANGED <<pc, known, loop, cause, stray>>
      <3> HIDE DEF TaskStates, Dispatching, Finished
      <3> QED
        BY <1>7 DEF Govern
    <2> QED
      BY <2>1, <2>2, <2>3
  <1> QED
    BY <1>3, <1>4, <1>5, <1>6, <1>7 DEF Preflight

-----------------------------------------------------------------------------
(* The steps that count.                                                   *)

\* A cleared call of a gated tool has used up an approval of its own.
LEMMA ClearBalanced ==
  ASSUME Balanced, TypeOK', NEW w \in Workers, NEW c \in Calls, Clear(w, c)
  PROVE  Balanced'
  <1>1. /\ task \in [Workers -> [Calls -> TaskStates]]
        /\ grant[w][c] \in Nat /\ TypeOK /\ requests \in Seq(Request)
    BY DEF Balanced, TypeOK, SessionTypeOK, StoreTypeOK
  <1>2. /\ pc[w] = "dispatch" /\ task[w][c] = "ready"
        /\ task' = [task EXCEPT ![w][c] = "cleared"]
        /\ UNCHANGED <<pc, loop, grant, stray, ran, withdrawn, receipt>>
    BY DEF Clear, At, SetTask, DecideRequest, tables, history
  <1>3. RequestsKept
    BY <1>1, RequestsStay, RequestsMove DEF Clear, tables
  <1>4. AdmittedInTurn'
    BY <1>1, <1>2 DEF Balanced, AdmittedInTurn
  <1>5. GrantsFit'
    BY <1>1, <1>2, <1>3, RunAssumption DEF Balanced, GrantsFit, Fits, RequestsKept
  <1>6. ReceiptsBalance'
    <2>1. ASSUME NEW i \in Invocations PROVE Poised(i)' = Poised(i) /\ Ready(i)' = Ready(i)
      BY <1>1, <1>2 DEF Poised, Ready
    <2> QED
      BY <1>2, <2>1 DEF Balanced, ReceiptsBalance
  <1>7. ApprovalsBalance'
    <2> SUFFICES ASSUME NEW p \in Proposals
                 PROVE  /\ IsFiniteSet(Effects(p)') /\ IsFiniteSet(Strays(p)')
                        /\ IsFiniteSet(Holders(p)')
                        /\ Cardinality(Effects(p)') + Cardinality(Strays(p)')
                              + Cardinality(Holders(p)') <= Cardinality(Used(p)')
      BY DEF ApprovalsBalance
    <2>1. /\ IsFiniteSet(Effects(p)) /\ IsFiniteSet(Strays(p)) /\ IsFiniteSet(Holders(p))
          /\ Cardinality(Effects(p)) + Cardinality(Strays(p)) + Cardinality(Holders(p))
               <= Cardinality(Used(p))
          /\ Cardinality(Effects(p)) \in Nat /\ Cardinality(Strays(p)) \in Nat
          /\ Cardinality(Holders(p)) \in Nat
      BY FS_CardinalityType DEF Balanced, ApprovalsBalance
    <2>2. Effects(p)' = Effects(p) /\ Strays(p)' = Strays(p)
      BY <1>2 DEF Effects, Strays, Tally, GatedFor
    <2>3. /\ IsFiniteSet(Used(p)) /\ IsFiniteSet(Used(p)')
          /\ Cardinality(Used(p)) \in Nat /\ Cardinality(Used(p)') \in Nat
          /\ Cardinality(Used(p)) <= Cardinality(Used(p)')
      BY <1>1, <1>3, UsedGrows
    <2>4. CASE c \in Gated /\ ProposalOf[c] = p
      <3> DEFINE k == grant[w][c]
      <3>1. k \in DOMAIN requests /\ requests[k].proposal = p /\ k # 0
        BY <1>1, <1>2, <2>4 DEF Balanced, GrantsFit, Fits
      <3>2. /\ requests[k].status = "approved"
            /\ requests' = [requests EXCEPT ![k].status = "consumed"]
        BY <3>1 DEF Clear, DecideRequest, Expected
      <3>3. k \notin Used(p) /\ Used(p)' = Used(p) \cup {k}
        <4>1. /\ DOMAIN requests' = DOMAIN requests
              /\ \A j \in DOMAIN requests : requests[j] \in Request
          BY <1>1, <3>2
        <4>2. requests'[k].status = "consumed" /\ requests'[k].proposal = p
          BY <3>1, <3>2, <4>1 DEF Request
        <4>3. \A j \in DOMAIN requests \ {k} : requests'[j] = requests[j]
          BY <3>2
        <4> QED
          BY <3>1, <3>2, <4>1, <4>2, <4>3 DEF Used, ForProposal
      <3>4. Cardinality(Used(p)') = Cardinality(Used(p)) + 1
        BY <2>3, <3>3, AddsOne
      <3>5. <<w, c>> \notin Holders(p) /\ Holders(p)' = Holders(p) \cup {<<w, c>>}
        <4>1. /\ task[w][c] \notin Admitted /\ task'[w][c] \in Admitted
              /\ <<w, c>> \in Workers \X Calls
          BY <1>1, <1>2 DEF Admitted
        <4>2. \A h \in Workers \X Calls : h # <<w, c>> =>
                task'[h[1]][h[2]] = task[h[1]][h[2]]
          BY <1>1, <1>2
        <4>3. <<w, c>> \notin Holders(p) /\ <<w, c>> \in Holders(p)'
          BY <2>4, <4>1 DEF Holders
        <4>4. \A h \in Workers \X Calls : h # <<w, c>> =>
                (h \in Holders(p)' <=> h \in Holders(p))
          BY <4>2 DEF Holders
        <4>5. Holders(p) \subseteq Workers \X Calls /\ Holders(p)' \subseteq Workers \X Calls
          BY DEF Holders
        <4> QED
          BY <4>1, <4>3, <4>4, <4>5
      <3>6. /\ IsFiniteSet(Holders(p)')
            /\ Cardinality(Holders(p)') = Cardinality(Holders(p)) + 1
        BY <2>1, <3>5, AddsOne
      <3> QED
        BY <2>1, <2>2, <2>3, <3>4, <3>6
    <2>5. CASE ~(c \in Gated /\ ProposalOf[c] = p)
      <3>1. Holders(p)' = Holders(p)
        BY <1>1, <1>2, <2>5 DEF Holders
      <3> QED
        BY <2>1, <2>2, <2>3, <3>1
    <2> QED
      BY <2>4, <2>5
  <1> QED
    BY <1>4, <1>5, <1>6, <1>7 DEF Balanced

\* A started receipt pays for the task about to act.
LEMMA BegunBalanced ==
  ASSUME Balanced, TypeOK', NEW w \in Workers, NEW c \in Calls, Begun(w, c)
  PROVE  Balanced'
  <1>1. /\ task \in [Workers -> [Calls -> TaskStates]] /\ loop \in [Workers -> Loops]
        /\ receipt \in [Invocations -> ReceiptStatus]
    BY DEF Balanced, TypeOK, SessionTypeOK, StoreTypeOK
  <1>2. /\ pc[w] = "dispatch" /\ task[w][c] = "cleared"
        /\ task' = [task EXCEPT ![w][c] = "started"]
        /\ receipt[Id(w, c)] = "absent"
        /\ receipt' = [receipt EXCEPT ![Id(w, c)] = "started"]
        /\ UNCHANGED <<pc, loop, grant, requests, stray, ran, withdrawn>>
    BY DEF Begun, At, SetTask, StartAction, Receipt, history
  <1>3. AdmittedInTurn' /\ GrantsFit'
    BY <1>1, <1>2, RunAssumption DEF Balanced, AdmittedInTurn, GrantsFit, Fits
  <1>4. ApprovalsBalance'
    <2>1. ASSUME NEW p \in Proposals
          PROVE  /\ Holders(p)' = Holders(p) /\ Effects(p)' = Effects(p)
                 /\ Strays(p)' = Strays(p) /\ Used(p)' = Used(p)
      <3>1. \A h \in Workers \X Calls :
              task'[h[1]][h[2]] \in Admitted <=> task[h[1]][h[2]] \in Admitted
        BY <1>1, <1>2 DEF Admitted
      <3> QED
        BY <1>2, <3>1 DEF Holders, Effects, Strays, Tally, GatedFor, Used, ForProposal
    <2> QED
      BY <2>1 DEF Balanced, ApprovalsBalance
  <1>5. ReceiptsBalance'
    <2> SUFFICES ASSUME NEW i \in Invocations
                 PROVE  /\ IsFiniteSet(Poised(i)')
                        /\ ran'[i] + stray'[i] + Cardinality(Poised(i)') + Ready(i)'
                             <= 1 + withdrawn'[i]
      BY DEF ReceiptsBalance
    <2>1. /\ IsFiniteSet(Poised(i)) /\ Cardinality(Poised(i)) \in Nat
          /\ ran[i] + stray[i] + Cardinality(Poised(i)) + Ready(i) <= 1 + withdrawn[i]
          /\ ran[i] \in Nat /\ stray[i] \in Nat /\ withdrawn[i] \in Nat
      BY FS_CardinalityType
      DEF Balanced, ReceiptsBalance, TypeOK, SessionTypeOK, HistoryTypeOK
    <2>2. i = <<i[1], i[2]>> /\ i[1] \in Turns /\ i[2] \in Calls
      BY DEF Invocations
    <2>3. CASE i = Id(w, c)
      <3>1. w \notin Poised(i) /\ Poised(i)' = Poised(i) \cup {w}
        <4>1. i[2] = c /\ i[1] = loop[w].turn
          BY <2>3 DEF Id
        <4>2. /\ task[w][c] # "started" /\ task'[w][c] = "started"
              /\ \A v \in Workers \ {w} : task'[v][c] = task[v][c]
          BY <1>1, <1>2
        <4> QED
          BY <1>2, <4>1, <4>2 DEF Poised
      <3>2. Ready(i) = 1 /\ Ready(i)' = 0
        BY <1>1, <1>2, <2>3 DEF Ready
      <3>3. /\ IsFiniteSet(Poised(i)')
            /\ Cardinality(Poised(i)') = Cardinality(Poised(i)) + 1
        BY <2>1, <3>1, AddsOne
      <3> QED
        BY <1>2, <2>1, <3>2, <3>3
    <2>4. CASE i # Id(w, c)
      <3>1. Poised(i)' = Poised(i)
        BY <1>1, <1>2, <2>2, <2>4 DEF Poised, Id
      <3>2. Ready(i)' = Ready(i)
        BY <1>2, <2>4 DEF Ready
      <3> QED
        BY <1>2, <2>1, <3>1, <3>2
    <2> QED
      BY <2>3, <2>4
  <1> QED
    BY <1>3, <1>4, <1>5 DEF Balanced

\* The task acts, or fails without having acted: what paid for it pays for
\* the effect, if there is one.
LEMMA InvokeBalanced ==
  ASSUME Balanced, TypeOK', NEW w \in Workers, NEW c \in Calls, Invoke(w, c)
  PROVE  Balanced'
  <1>1. /\ task \in [Workers -> [Calls -> TaskStates]] /\ loop \in [Workers -> Loops]
        /\ ran \in [Invocations -> Nat]
    BY DEF Balanced, TypeOK, SessionTypeOK, HistoryTypeOK
  <1>2. PICK s \in {"returned", "raised"} :
        /\ pc[w] = "dispatch" /\ task[w][c] = "started"
        /\ task' = [task EXCEPT ![w][c] = s]
        /\ ran' \in {ran, [ran EXCEPT ![Id(w, c)] = @ + 1]}
        /\ UNCHANGED <<pc, loop, grant, receipt, requests, stray, withdrawn>>
    BY DEF Invoke, At, SetTask, tables
  <1>3. AdmittedInTurn' /\ GrantsFit'
    BY <1>1, <1>2, RunAssumption
    DEF Balanced, AdmittedInTurn, GrantsFit, Fits, Admitted
  <1>4. ReceiptsBalance'
    <2> SUFFICES ASSUME NEW i \in Invocations
                 PROVE  /\ IsFiniteSet(Poised(i)')
                        /\ ran'[i] + stray'[i] + Cardinality(Poised(i)') + Ready(i)'
                             <= 1 + withdrawn'[i]
      BY DEF ReceiptsBalance
    <2>1. /\ IsFiniteSet(Poised(i)) /\ Cardinality(Poised(i)) \in Nat
          /\ ran[i] + stray[i] + Cardinality(Poised(i)) + Ready(i) <= 1 + withdrawn[i]
          /\ ran[i] \in Nat /\ stray[i] \in Nat /\ withdrawn[i] \in Nat
          /\ Ready(i) \in Nat
      BY FS_CardinalityType
      DEF Balanced, ReceiptsBalance, TypeOK, SessionTypeOK, HistoryTypeOK, Ready
    <2>2. i = <<i[1], i[2]>> /\ i[1] \in Turns /\ i[2] \in Calls
      BY DEF Invocations
    <2>3. Ready(i)' = Ready(i)
      BY <1>2 DEF Ready
    <2>4. CASE i = Id(w, c)
      <3>1. w \in Poised(i) /\ Poised(i)' = Poised(i) \ {w}
        <4>1. i[2] = c /\ i[1] = loop[w].turn
          BY <2>4 DEF Id
        <4>2. /\ task[w][c] = "started" /\ task'[w][c] # "started"
              /\ \A v \in Workers \ {w} : task'[v][c] = task[v][c]
          BY <1>1, <1>2
        <4> QED
          BY <1>2, <4>1, <4>2 DEF Poised
      <3>2. /\ IsFiniteSet(Poised(i)') /\ Cardinality(Poised(i)') \in Nat
            /\ Cardinality(Poised(i)) = Cardinality(Poised(i)') + 1
        BY <2>1, <3>1, TakesOne
      <3>3. ran'[i] \in {ran[i], ran[i] + 1}
        BY <1>1, <1>2
      <3> QED
        BY <1>2, <2>1, <2>3, <3>2, <3>3
    <2>5. CASE i # Id(w, c)
      <3>1. Poised(i)' = Poised(i)
        BY <1>1, <1>2, <2>2, <2>5 DEF Poised, Id
      <3>2. ran'[i] = ran[i]
        BY <1>1, <1>2, <2>5
      <3> QED
        BY <1>2, <2>1, <2>3, <3>1, <3>2
    <2> QED
      BY <2>4, <2>5
  <1>5. ApprovalsBalance'
    <2> SUFFICES ASSUME NEW p \in Proposals
                 PROVE  /\ IsFiniteSet(Effects(p)') /\ IsFiniteSet(Strays(p)')
                        /\ IsFiniteSet(Holders(p)')
                        /\ Cardinality(Effects(p)') + Cardinality(Strays(p)')
                              + Cardinality(Holders(p)') <= Cardinality(Used(p)')
      BY DEF ApprovalsBalance
    <2>1. /\ IsFiniteSet(Effects(p)) /\ IsFiniteSet(Strays(p)) /\ IsFiniteSet(Holders(p))
          /\ Cardinality(Effects(p)) + Cardinality(Strays(p)) + Cardinality(Holders(p))
               <= Cardinality(Used(p))
          /\ Cardinality(Effects(p)) \in Nat /\ Cardinality(Strays(p)) \in Nat
          /\ Cardinality(Holders(p)) \in Nat
      BY FS_CardinalityType DEF Balanced, ApprovalsBalance
    <2>0. \/ ran' = ran
          \/ /\ Id(w, c) \in Invocations /\ ran' \in [Invocations -> Nat]
             /\ ran'[Id(w, c)] = ran[Id(w, c)] + 1
             /\ \A j \in Invocations \ {Id(w, c)} : ran'[j] = ran[j]
      BY <1>1, <1>2
    <2>2. /\ Used(p)' = Used(p) /\ Cardinality(Used(p)) \in Nat
          /\ Strays(p)' = Strays(p)
      <3>0. Strays(p)' = Strays(p)
        BY <1>2 DEF Strays, Tally, GatedFor
      <3>1. Used(p)' = Used(p)
        BY <1>2 DEF Used, ForProposal
      <3> QED
        BY <3>0, <3>1, UsedGrows, <1>2, RequestsStay DEF Balanced
    <2>3. CASE c \in Gated /\ ProposalOf[c] = p
      <3>1. <<w, c>> \in Holders(p) /\ Holders(p)' = Holders(p) \ {<<w, c>>}
        <4>1. /\ task[w][c] \in Admitted /\ task'[w][c] \notin Admitted
              /\ <<w, c>> \in Workers \X Calls
          BY <1>1, <1>2 DEF Admitted
        <4>2. \A h \in Workers \X Calls : h # <<w, c>> =>
                task'[h[1]][h[2]] = task[h[1]][h[2]]
          BY <1>1, <1>2
        <4>3. <<w, c>> \in Holders(p) /\ <<w, c>> \notin Holders(p)'
          BY <2>3, <4>1 DEF Holders
        <4>4. \A h \in Workers \X Calls : h # <<w, c>> =>
                (h \in Holders(p)' <=> h \in Holders(p))
          BY <4>2 DEF Holders
        <4>5. Holders(p) \subseteq Workers \X Calls /\ Holders(p)' \subseteq Workers \X Calls
          BY DEF Holders
        <4> QED
          BY <4>1, <4>3, <4>4, <4>5
      <3>2. /\ IsFiniteSet(Holders(p)') /\ Cardinality(Holders(p)') \in Nat
            /\ Cardinality(Holders(p)) = Cardinality(Holders(p)') + 1
        BY <2>1, <3>1, TakesOne
      <3>3. /\ IsFiniteSet(Effects(p)') /\ Cardinality(Effects(p)') \in Nat
            /\ Cardinality(Effects(p)') <= Cardinality(Effects(p)) + 1
        <4>1. CASE ran' = ran
          BY <2>1, <4>1 DEF Effects, Tally
        <4>2. CASE ran' # ran
          BY <1>1, <2>1, <2>0, <4>2, TallyAdds DEF Effects
        <4> QED
          BY <4>1, <4>2
      <3> QED
        BY <2>1, <2>2, <3>2, <3>3
    <2>4. CASE ~(c \in Gated /\ ProposalOf[c] = p)
      <3>1. Holders(p)' = Holders(p)
        BY <1>1, <1>2, <2>4 DEF Holders
      <3>2. Effects(p)' = Effects(p)
        <4>1. \A i \in Invocations : i[2] # c => ran'[i] = ran[i]
          BY <1>1, <1>2 DEF Id
        <4> QED
          BY <2>4, <4>1 DEF Effects, Tally, GatedFor
      <3> QED
        BY <2>1, <2>2, <3>1, <3>2
    <2> QED
      BY <2>3, <2>4
  <1> QED
    BY <1>3, <1>4, <1>5 DEF Balanced

LEMMA CompleteBalanced ==
  ASSUME Balanced, TypeOK', NEW w \in Workers, NEW c \in Calls, Complete(w, c)
  PROVE  Balanced'
  <1>1. /\ task \in [Workers -> [Calls -> TaskStates]] /\ receipt[Id(w, c)] = "started"
        /\ task' = [task EXCEPT ![w][c] = "done"]
        /\ receipt' = [receipt EXCEPT ![Id(w, c)] = "completed"]
        /\ UNCHANGED <<pc, loop, grant, requests, stray, ran, withdrawn>>
    BY DEF Complete, SetTask, CompleteAction, Receipt, history, Balanced, TypeOK,
           SessionTypeOK
  <1>2. NobodyAdmitted
    BY <1>1 DEF NobodyAdmitted, Admitted
  <1>3. GrantsFound
    BY <1>1, RunAssumption DEF GrantsFound, Balanced, GrantsFit
  <1> QED
    BY <1>1, <1>2, <1>3, ReceiptBalanced, RequestsStay

LEMMA OperatorBalanced ==
  ASSUME Balanced, TypeOK',
         \/ Recover
         \/ \E i \in Invocations : Withdraw(i) \/ Confirm(i)
         \/ \E k \in DOMAIN requests, d \in {"approved", "rejected"} : Decide(k, d)
  PROVE  Balanced'
  <1>1. UNCHANGED <<pc, loop, task, grant, stray, ran>>
    BY DEF Recover, Withdraw, Confirm, Decide, session, history
  <1>2. NobodyAdmitted /\ GrantsFound
    BY <1>1 DEF NobodyAdmitted, GrantsFound, Balanced, GrantsFit
  <1>3. ASSUME NEW i \in Invocations, Withdraw(i)
        PROVE  Balanced'
    BY <1>1, <1>2, <1>3, ReceiptBalanced, RequestsStay
    DEF Withdraw, ReconcileAction, Receipt
  <1>4. ASSUME NEW i \in Invocations, Confirm(i)
        PROVE  Balanced'
    BY <1>1, <1>2, <1>4, ReceiptBalanced, RequestsStay
    DEF Confirm, ReconcileAction, Receipt, history
  <1>5. CASE Recover
    BY <1>2, <1>5, UneventfulStep, RequestsStay
    DEF Recover, RecoverExecution, Uneventful, ThreadsKept, history
  <1>6. ASSUME NEW k \in DOMAIN requests, NEW d \in {"approved", "rejected"},
               Decide(k, d)
        PROVE  Balanced'
    <2>1. k \in Nat /\ TypeOK
      BY DEF Balanced, TypeOK, StoreTypeOK
    <2>2. RequestsKept
      BY <1>6, <2>1, RequestsMove DEF Decide
    <2> QED
      BY <1>2, <1>6, <2>2, UneventfulStep
      DEF Decide, DecideRequest, Uneventful, ThreadsKept, history
  <1> QED
    BY <1>3, <1>4, <1>5, <1>6

\* A thread left behind acts, or ends without having acted.
LEMMA StrayBalanced ==
  ASSUME Balanced, TypeOK', NEW i \in Invocations, StrayActs(i) \/ StrayEnds(i)
  PROVE  Balanced'
  <1>1. /\ ran \in [Invocations -> Nat] /\ ran' \in [Invocations -> Nat]
        /\ stray \in [Invocations -> Nat] /\ stray' \in [Invocations -> Nat]
        /\ withdrawn \in [Invocations -> Nat]
    BY DEF Balanced, TypeOK, SessionTypeOK, HistoryTypeOK
  <1>2. UNCHANGED <<pc, loop, task, grant, requests, receipt, withdrawn>>
    BY DEF StrayActs, StrayEnds, tables, session, history
  <1>3. /\ stray[i] = stray'[i] + 1
        /\ \A j \in Invocations \ {i} : stray'[j] = stray[j] /\ ran'[j] = ran[j]
        /\ ran'[i] \in {ran[i], ran[i] + 1}
    BY <1>1 DEF StrayActs, StrayEnds, history
  <1>4. AdmittedInTurn' /\ GrantsFit'
    BY <1>2 DEF Balanced, AdmittedInTurn, GrantsFit, Fits
  <1>5. ReceiptsBalance'
    <2> SUFFICES ASSUME NEW j \in Invocations
                 PROVE  /\ IsFiniteSet(Poised(j)')
                        /\ ran'[j] + stray'[j] + Cardinality(Poised(j)') + Ready(j)'
                             <= 1 + withdrawn'[j]
      BY DEF ReceiptsBalance
    <2>1. Poised(j)' = Poised(j) /\ Ready(j)' = Ready(j)
      BY <1>2 DEF Poised, Ready
    <2>2. /\ IsFiniteSet(Poised(j)) /\ Cardinality(Poised(j)) \in Nat
          /\ ran[j] + stray[j] + Cardinality(Poised(j)) + Ready(j) <= 1 + withdrawn[j]
          /\ Ready(j) \in Nat
      BY FS_CardinalityType DEF Balanced, ReceiptsBalance, Ready
    <2>3. ran'[j] + stray'[j] <= ran[j] + stray[j]
      BY <1>1, <1>3
    <2> HIDE DEF Poised, Ready
    <2> QED
      BY <1>1, <1>2, <2>1, <2>2, <2>3
  <1>6. ApprovalsBalance'
    <2> SUFFICES ASSUME NEW p \in Proposals
                 PROVE  /\ IsFiniteSet(Effects(p)') /\ IsFiniteSet(Strays(p)')
                        /\ IsFiniteSet(Holders(p)')
                        /\ Cardinality(Effects(p)') + Cardinality(Strays(p)')
                              + Cardinality(Holders(p)') <= Cardinality(Used(p)')
      BY DEF ApprovalsBalance
    <2>1. /\ IsFiniteSet(Effects(p)) /\ IsFiniteSet(Strays(p)) /\ IsFiniteSet(Holders(p))
          /\ Cardinality(Effects(p)) + Cardinality(Strays(p)) + Cardinality(Holders(p))
               <= Cardinality(Used(p))
          /\ Cardinality(Effects(p)) \in Nat /\ Cardinality(Holders(p)) \in Nat
      BY FS_CardinalityType DEF Balanced, ApprovalsBalance
    <2>2. Used(p)' = Used(p) /\ Holders(p)' = Holders(p)
      BY <1>2 DEF Used, ForProposal, Holders
    <2>3. Cardinality(Used(p)) \in Nat
      BY <1>2, <2>2, UsedGrows, RequestsStay DEF Balanced
    <2>4. /\ IsFiniteSet(Strays(p)') /\ Cardinality(Strays(p)') \in Nat
          /\ Cardinality(Strays(p)) \in Nat
          /\ Cardinality(Strays(p)) =
               Cardinality(Strays(p)') + IF i \in GatedFor(p) THEN 1 ELSE 0
      <3>1. IsFiniteSet(Tally(p, stray)) /\ Strays(p)' = Tally(p, stray')
        BY <2>1 DEF Strays, Tally, GatedFor
      <3> QED
        BY <1>1, <1>3, <3>1, TallyTakes DEF Strays
    <2>5. /\ IsFiniteSet(Effects(p)') /\ Cardinality(Effects(p)') \in Nat
          /\ Cardinality(Effects(p)') <=
               Cardinality(Effects(p)) + IF i \in GatedFor(p) THEN 1 ELSE 0
      <3>1. IsFiniteSet(Tally(p, ran)) /\ Effects(p)' = Tally(p, ran')
        BY <2>1 DEF Effects, Tally, GatedFor
      <3>2. CASE ran'[i] = ran[i]
        <4>1. ran' = ran
          BY <1>1, <1>3, <3>2
        <4> QED
          BY <2>1, <4>1 DEF Effects, Tally
      <3>3. CASE ran'[i] = ran[i] + 1
        BY <1>1, <1>3, <2>1, <3>1, <3>3, TallyAdds DEF Effects
      <3> QED
        BY <1>3, <3>2, <3>3
    <2> HIDE DEF Effects, Strays, Holders, Used
    <2> QED
      BY <2>1, <2>2, <2>3, <2>4, <2>5
  <1> QED
    BY <1>4, <1>5, <1>6 DEF Balanced

LEMMA NextBalanced == Balanced /\ [Next]_vars => Balanced'
  <1> SUFFICES ASSUME Balanced, [Next]_vars PROVE Balanced'
    OBVIOUS
  <1>0. TypeOK'
    BY NextType DEF Balanced
  <1>1. ASSUME NEW w \in Workers, NEW c \in Calls,
               \/ Preflight(w, c) \/ Task(w, c) \/ GovernRejects(w, c)
               \/ ClearRejects(w, c) \/ CompleteUnknown(w, c)
        PROVE  Balanced'
    BY <1>0, <1>1, TaskStepUneventful, UneventfulStep, ClearBalanced,
       BegunBalanced, InvokeBalanced, CompleteBalanced
    DEF Task
  <1>2. CASE \E w \in Workers : Working(w) \/ Start(w) \/ Resume(w) \/ Mishap(w)
    <2>1. PICK w \in Workers : Working(w) \/ Start(w) \/ Resume(w) \/ Mishap(w)
      BY <1>2
    <2>2. CASE Enter(w) \/ Start(w) \/ Resume(w)
      BY <1>0, <2>2, EnterUneventful, UneventfulStep
    <2>3. CASE Turn(w) \/ LoopFails(w)
      BY <1>0, <1>1, <2>3, TurnUneventful, UneventfulStep DEF Turn
    <2>4. CASE Mishap(w) \/ Leaving(w)
      BY <1>0, <1>1, <2>4, TurnUneventful, LeavingUneventful, UneventfulStep DEF Mishap
    <2> QED
      BY <2>1, <2>2, <2>3, <2>4 DEF Working
  <1>3. CASE UNCHANGED vars
    BY <1>0, <1>3, ElsewhereUneventful, UneventfulStep, RequestsStay
    DEF vars, tables, session, history
  <1> QED
    BY <1>0, <1>2, <1>3, OperatorBalanced, StrayBalanced DEF Next, Environment

\* Whatever the operator, the store and the policy do, and whatever threads
\* are left behind, an effect is repeated only after its receipt was withdrawn
\* as not executed.
THEOREM EffectsPerReceipt == Spec => []AtMostOncePerReceipt
  <1>1. Init => Balanced
    BY InitBalanced
  <1>2. Balanced /\ [Next]_vars => Balanced'
    BY NextBalanced
  <1>3. Balanced => AtMostOncePerReceipt
    <2> SUFFICES ASSUME Balanced, NEW i \in Invocations
                 PROVE  ran[i] <= 1 + withdrawn[i]
      BY DEF AtMostOncePerReceipt
    <2>1. /\ ran[i] + stray[i] + Cardinality(Poised(i)) + Ready(i) <= 1 + withdrawn[i]
          /\ ran[i] \in Nat /\ stray[i] \in Nat /\ withdrawn[i] \in Nat
          /\ Ready(i) \in Nat /\ Cardinality(Poised(i)) \in Nat
      BY FS_CardinalityType
      DEF Balanced, ReceiptsBalance, TypeOK, SessionTypeOK, HistoryTypeOK, Ready
    <2> QED
      BY <2>1
  <1> QED
    BY <1>1, <1>2, <1>3, PTL DEF Spec

\* Whatever they do, the effects of a gated proposal, repetitions included,
\* are never more than the approvals used up for it.
THEOREM EffectsAreApproved == Spec => []EffectsApproved
  <1>1. Init => Balanced
    BY InitBalanced
  <1>2. Balanced /\ [Next]_vars => Balanced'
    BY NextBalanced
  <1>3. Balanced => EffectsApproved
    <2> SUFFICES ASSUME Balanced, NEW p \in Proposals
                 PROVE  Cardinality(Effects(p)) <= Cardinality(Used(p))
      BY DEF EffectsApproved
    <2>1. /\ Cardinality(Effects(p)) + Cardinality(Strays(p)) + Cardinality(Holders(p))
               <= Cardinality(Used(p))
          /\ Cardinality(Effects(p)) \in Nat /\ Cardinality(Strays(p)) \in Nat
          /\ Cardinality(Holders(p)) \in Nat
      BY FS_CardinalityType DEF Balanced, ApprovalsBalance
    <2>2. IsFiniteSet(Used(p)) /\ Cardinality(Used(p)) \in Nat
      <3>1. IsFiniteSet(DOMAIN requests)
        BY FS_Interval DEF Balanced, TypeOK, StoreTypeOK
      <3>2. Used(p) \in SUBSET (DOMAIN requests)
        BY DEF Used, ForProposal
      <3> QED
        BY <3>1, <3>2, FS_Subset, FS_CardinalityType
    <2> QED
      BY <2>1, <2>2
  <1> QED
    BY <1>1, <1>2, <1>3, PTL DEF Spec

-----------------------------------------------------------------------------
(* The inductive invariant behind one execution and one effect.            *)

\* Calls are pending, checked or dispatched only in a turn of the model.
LoopsStarted ==
  /\ snapshot.pending # {} => snapshot.turn # 0
  /\ \A w \in Workers :
       (loop[w].pending # {} \/ pc[w] \in {"preflight", "dispatch"})
         => loop[w].turn # 0

\* From its receipt to the recorded result, the only places of a task where
\* the effect may happen or has happened unrecorded.
InFlight == {"started", "returned", "raised", "settled"}

InFlightFacts(w, c) ==
  /\ pc[w] = "dispatch"
  /\ receipt[Id(w, c)] = "started"
  /\ Id(w, c) \in overtaken \/ stray[Id(w, c)] = 0
  /\ task[w][c] = "started" => Id(w, c) \in overtaken \/ ran[Id(w, c)] = 0
  /\ task[w][c] \in {"returned", "settled"} => ran[Id(w, c)] > 0

TaskEffects ==
  \A w \in Workers, c \in Calls :
    task[w][c] \in InFlight => InFlightFacts(w, c)

\* What a receipt says of the effect, whoever wrote it: of an invocation that
\* was not withdrawn under a thread, the effect has happened, or one thread
\* left behind may still bring it about, or neither.
Accounted(i) ==
  /\ ran[i] + stray[i] <= 1
  /\ receipt[i] = "absent" => ran[i] = 0 /\ stray[i] = 0

EffectsRecorded ==
  \A i \in Invocations :
    /\ i \in overtaken \/ Accounted(i)
    /\ receipt[i] = "completed" => ran[i] > 0

Inductive ==
  TypeOK /\ SingleExecution /\ LoopsStarted /\ TaskEffects /\ EffectsRecorded

-----------------------------------------------------------------------------
(* The moves of a worker that touch neither a receipt nor an effect.       *)

LEMMA InitInductive == Init => Inductive
  <1> SUFFICES ASSUME Init PROVE Inductive
    OBVIOUS
  <1>1. TypeOK
    BY InitType
  <1>2. SingleExecution
    BY DEF Init, SingleExecution, Stopped
  <1>3. LoopsStarted
    BY DEF Init, StoreInit, LoopsStarted, FreshLoop
  <1>4. TaskEffects
    BY DEF Init, TaskEffects, NoTasks, InFlight
  <1>5. EffectsRecorded
    BY DEF Init, StoreInit, EffectsRecorded, Accounted
  <1> QED
    BY <1>1, <1>2, <1>3, <1>4, <1>5 DEF Inductive

\* One task of a worker moves where no effect is in flight.
LEMMA SetTaskStep ==
  ASSUME Inductive, TypeOK', NEW w \in Workers, NEW c \in Calls,
         NEW s \in TaskStates, s \notin InFlight,
         task' = [task EXCEPT ![w][c] = s],
         UNCHANGED <<pc, loop, owner, snapshot, receipt, ran, stray, overtaken>>
  PROVE  Inductive'
  <1>1. SingleExecution'
    BY DEF Inductive, SingleExecution, Stopped, Owns
  <1>2. LoopsStarted'
    BY DEF Inductive, LoopsStarted
  <1>3. TaskEffects'
    BY DEF Inductive, TaskEffects, InFlightFacts, TypeOK, SessionTypeOK, Id
  <1>4. EffectsRecorded'
    BY DEF Inductive, EffectsRecorded, Accounted
  <1> QED
    BY <1>1, <1>2, <1>3, <1>4 DEF Inductive

\* Nobody but the owner has a task in flight.
LEMMA OneInFlight ==
  ASSUME Inductive, NEW w \in Workers, Owns(w), NEW v \in Workers, v # w,
         NEW c \in Calls
  PROVE  task[v][c] \notin InFlight
  BY DEF Inductive, SingleExecution, TaskEffects, InFlightFacts, Owns, Stopped

\* A task whose thread is left behind was on its way to its first effect.
LEMMA LeaveAccounted ==
  ASSUME Inductive, TypeOK', NEW w \in Workers, LeaveThreads(w),
         UNCHANGED <<receipt, ran, overtaken>>
  PROVE  EffectsRecorded'
  <1>1. PICK S \in SUBSET {c \in Threaded : task[w][c] = "started"} :
          stray' = [i \in Invocations |->
                      IF i[1] = loop[w].turn /\ i[2] \in S THEN stray[i] + 1
                                                          ELSE stray[i]]
    BY DEF LeaveThreads
  <1> SUFFICES ASSUME NEW i \in Invocations
               PROVE  /\ i \in overtaken' \/ Accounted(i)'
                      /\ receipt'[i] = "completed" => ran'[i] > 0
    BY DEF EffectsRecorded
  <1>2. /\ i \in overtaken \/ Accounted(i)
        /\ receipt[i] = "completed" => ran[i] > 0
    BY DEF Inductive, EffectsRecorded, Accounted
  <1>3. CASE i[1] = loop[w].turn /\ i[2] \in S
    <2>1. i[2] \in Calls /\ task[w][i[2]] \in InFlight /\ task[w][i[2]] = "started"
      BY <1>3, RunAssumption DEF InFlight
    <2>2. i = Id(w, i[2])
      BY <1>3 DEF Id, Invocations
    <2>3. /\ receipt[i] = "started"
          /\ i \in overtaken \/ (stray[i] = 0 /\ ran[i] = 0)
      BY <2>1, <2>2 DEF Inductive, TaskEffects, InFlightFacts
    <2>4. stray'[i] = stray[i] + 1
      BY <1>1, <1>3
    <2> QED
      BY <1>2, <2>3, <2>4 DEF Accounted
  <1>4. CASE ~(i[1] = loop[w].turn /\ i[2] \in S)
    <2>1. stray'[i] = stray[i]
      BY <1>1, <1>4
    <2> QED
      BY <1>2, <2>1 DEF Accounted
  <1> QED
    BY <1>3, <1>4

\* A worker leaves the loop: its tasks are gone.
LEMMA LeaveStep ==
  ASSUME Inductive, TypeOK', NEW w \in Workers, ~Stopped(w),
         NEW p \in {"failing", "ending"}, NEW y, Leave(w, p, y),
         UNCHANGED <<owner, snapshot, receipt, ran, overtaken>>
  PROVE  Inductive'
  <1> USE DEF TypeOK, SessionTypeOK, HistoryTypeOK, Leave, Goto
  <1>1. SingleExecution'
    BY DEF Inductive, SingleExecution, Stopped, Owns
  <1>2. LoopsStarted'
    BY DEF Inductive, LoopsStarted
  <1>3. \A v \in Workers, c \in Calls : task'[v][c] \notin InFlight
    <2> SUFFICES ASSUME NEW v \in Workers, NEW c \in Calls
                 PROVE  task'[v][c] \notin InFlight
      OBVIOUS
    <2>1. CASE v = w
      BY <2>1 DEF Inductive, InFlight, NoTasks
    <2>2. CASE v # w
      <3>1. Owns(w)
        BY DEF Inductive, SingleExecution
      <3>2. task'[v][c] = task[v][c]
        BY <2>2 DEF Inductive
      <3> QED
        BY <2>2, <3>1, <3>2, OneInFlight
    <2> QED
      BY <2>1, <2>2
  <1>4. TaskEffects'
    BY <1>3 DEF TaskEffects
  <1>5. EffectsRecorded'
    BY LeaveAccounted DEF Inductive, Leave
  <1> QED
    BY <1>1, <1>2, <1>4, <1>5 DEF Inductive

\* A call ends or dies: the ownership stays behind or is given back.
LEMMA ForgetStep ==
  ASSUME Inductive, TypeOK', NEW w \in Workers, Forget(w),
         owner' = owner \/ Owns(w),
         UNCHANGED <<snapshot, receipt, ran, overtaken>>
  PROVE  Inductive'
  <1> USE DEF TypeOK, SessionTypeOK, Forget
  <1>1. SingleExecution'
    BY DEF Inductive, SingleExecution, Stopped, Owns
  <1>2. LoopsStarted'
    BY DEF Inductive, LoopsStarted, FreshLoop
  <1>3. TaskEffects'
    BY DEF Inductive, TaskEffects, InFlightFacts, Id, InFlight, NoTasks
  <1>4. EffectsRecorded'
    BY DEF Inductive, EffectsRecorded, Accounted
  <1> QED
    BY <1>1, <1>2, <1>3, <1>4 DEF Inductive

\* A worker outside a dispatch goes on.
LEMMA GotoStep ==
  ASSUME Inductive, TypeOK', NEW w \in Workers, NEW p \in Phases, Goto(w, p),
         UNCHANGED <<task, loop, owner, snapshot, receipt, ran, stray, overtaken>>,
         pc[w] # "dispatch",
         Stopped(w) => p \in {"idle", "prepared"},
         p \in {"preflight", "dispatch"} => pc[w] = "preflight"
  PROVE  Inductive'
  <1> USE DEF TypeOK, SessionTypeOK, Goto
  <1>1. SingleExecution'
    BY DEF Inductive, SingleExecution, Stopped, Owns
  <1>2. LoopsStarted'
    BY DEF Inductive, LoopsStarted
  <1>3. TaskEffects'
    BY DEF Inductive, TaskEffects, InFlightFacts, Id
  <1>4. EffectsRecorded'
    BY DEF Inductive, EffectsRecorded, Accounted
  <1> QED
    BY <1>1, <1>2, <1>3, <1>4 DEF Inductive

\* Nothing the invariant speaks of changes.
LEMMA QuietStep ==
  ASSUME Inductive, TypeOK',
         UNCHANGED <<pc, loop, task, owner, snapshot, receipt, ran, stray, overtaken>>
  PROVE  Inductive'
  BY DEF Inductive, SingleExecution, Stopped, Owns, LoopsStarted, TaskEffects,
         InFlightFacts, Id, EffectsRecorded, Accounted

-----------------------------------------------------------------------------
(* Every action keeps the invariant.                                       *)

LEMMA EnterStep ==
  ASSUME Inductive, TypeOK', NEW w \in Workers, Enter(w) \/ Start(w) \/ Resume(w)
  PROVE  Inductive'
  <1>1. CASE Start(w) \/ Resume(w)
    BY <1>1, GotoStep
    DEF Start, Resume, CreateTransition, Stopped, Phases, history, tables
  <1>2. CASE Open(w)
    <2> USE DEF TypeOK, SessionTypeOK
    <2>1. /\ pc[w] = "prepared" /\ pc' = [pc EXCEPT ![w] = "opened"]
          /\ owner \notin Workers /\ owner' = w
          /\ UNCHANGED <<task, receipt, ran, stray, overtaken>>
      BY <1>2, StoreAssumption
      DEF Open, OpenNew, OpenExisting, Goto, history
    <2>2. /\ snapshot' \in {snapshot, FreshLoop}
          /\ loop' \in {loop, [loop EXCEPT ![w] = snapshot]}
      BY <1>2 DEF Open, OpenNew, OpenExisting
    <2>3. SingleExecution'
      BY <2>1 DEF Inductive, SingleExecution, Stopped, Owns
    <2>4. LoopsStarted'
      BY <2>1, <2>2 DEF Inductive, LoopsStarted, FreshLoop
    <2>5. TaskEffects'
      <3>1. \A v \in Workers, c \in Calls : task[v][c] \notin InFlight
        BY <2>1 DEF Inductive, TaskEffects, InFlightFacts, SingleExecution, Stopped, Owns
      <3> QED
        BY <2>1, <3>1 DEF TaskEffects
    <2>6. EffectsRecorded'
      BY <2>1 DEF Inductive, EffectsRecorded, Accounted
    <2> QED
      BY <2>3, <2>4, <2>5, <2>6 DEF Inductive
  <1>3. CASE OpenRefused(w)
    BY <1>3, ForgetStep DEF OpenRefused, Refuse, tables, history
  <1>4. CASE Begin(w)
    <2>1. pc[w] = "opened" /\ UNCHANGED <<owner, snapshot, receipt, ran, overtaken>>
      BY <1>4 DEF Begin, Commit, CommitTransition, history
    <2>2. CASE Leave(w, "ending", "interrupt")
      BY <2>1, <2>2, LeaveStep DEF Stopped
    <2>3. CASE Goto(w, "enter") /\ UNCHANGED <<loop, task, stray>>
      BY <2>1, <2>3, GotoStep DEF Stopped, Phases
    <2> QED
      BY <1>4, <2>2, <2>3 DEF Begin
  <1>5. CASE BeginFails(w)
    BY <1>5, LeaveStep DEF BeginFails, Stopped, tables, history
  <1>6. CASE EnterLoop(w)
    <2>1. CASE Move(w, "completing") /\ UNCHANGED tables
      BY <1>6, <2>1, GotoStep
      DEF EnterLoop, Move, Stopped, Phases, tables, history
    <2>2. CASE /\ SnapshotExecution(w, loop[w])
               /\ Pending(w, loop[w].pending)
               /\ Goto(w, IF loop[w].pending = {} THEN "think" ELSE "preflight")
               /\ UNCHANGED <<loop, stray>>
      <3> USE DEF TypeOK, SessionTypeOK
      <3>1. /\ pc[w] = "enter" /\ UNCHANGED <<owner, receipt, ran, stray, overtaken>>
            /\ snapshot' = loop[w]
        BY <1>6, <2>2 DEF EnterLoop, SnapshotExecution, history
      <3>2. SingleExecution'
        BY <2>2, <3>1 DEF Inductive, SingleExecution, Stopped, Owns, Goto
      <3>3. LoopsStarted'
        BY <2>2, <3>1 DEF Inductive, LoopsStarted, Goto
      <3>4. TaskEffects'
        BY <2>2, <3>1 DEF Inductive, TaskEffects, InFlightFacts, Pending, Goto, Id, InFlight
      <3>5. EffectsRecorded'
        BY <3>1 DEF Inductive, EffectsRecorded, Accounted
      <3> QED
        BY <3>2, <3>3, <3>4, <3>5 DEF Inductive
    <2> QED
      BY <1>6, <2>1, <2>2 DEF EnterLoop
  <1> QED
    BY <1>1, <1>2, <1>3, <1>4, <1>5, <1>6 DEF Enter

LEMMA TurnStep ==
  ASSUME Inductive, TypeOK', NEW w \in Workers,
         \/ Answer(w) \/ \E S \in SUBSET Calls : RequestCalls(w, S)
         \/ FinishTurn(w) \/ TurnsExhausted(w) \/ LoopFails(w)
         \/ PreflightDone(w) \/ Suspend(w)
  PROVE  Inductive'
  <1>1. CASE Answer(w) \/ \E S \in SUBSET Calls : RequestCalls(w, S)
    <2> USE DEF TypeOK, SessionTypeOK
    <2>1. PICK S \in SUBSET Calls, f \in BOOLEAN :
            /\ pc[w] = "think"
            /\ Checkpoint(w, [turn |-> loop[w].turn + 1, pending |-> S,
                              final |-> f])
            /\ pc' \in {[pc EXCEPT ![w] = "completing"],
                        [pc EXCEPT ![w] = "preflight"]}
            /\ UNCHANGED task \/ Pending(w, S)
      BY <1>1 DEF Answer, RequestCalls, Goto
    <2>2. UNCHANGED <<owner, receipt, ran, stray, overtaken>>
      BY <2>1 DEF Checkpoint, SnapshotExecution, history
    <2>3. SingleExecution'
      BY <2>1, <2>2 DEF Inductive, SingleExecution, Stopped, Owns
    <2>4. LoopsStarted'
      <3>1. loop[w].turn \in Nat
        BY DEF Inductive, Loops
      <3>2. loop[w].turn + 1 # 0
        BY <3>1
      <3>3. /\ snapshot'.turn = loop[w].turn + 1
            /\ loop'[w].turn = loop[w].turn + 1
            /\ \A v \in Workers \ {w} : loop'[v] = loop[v] /\ pc'[v] = pc[v]
        BY <2>1 DEF Inductive, Checkpoint, SnapshotExecution
      <3> QED
        BY <3>2, <3>3 DEF Inductive, LoopsStarted
    <2>5. TaskEffects'
      <3>1. \A c \in Calls : task'[w][c] \notin InFlight
        <4>1. CASE UNCHANGED task
          BY <2>1, <4>1 DEF Inductive, TaskEffects, InFlightFacts
        <4>2. CASE Pending(w, S)
          BY <4>2 DEF Inductive, Pending, InFlight
        <4> QED
          BY <2>1, <4>1, <4>2
      <3>2. \A v \in Workers \ {w} : /\ task'[v] = task[v] /\ pc'[v] = pc[v]
                                    /\ loop'[v] = loop[v]
        <4>1. \A v \in Workers \ {w} : task'[v] = task[v]
          BY <2>1 DEF Inductive, Pending
        <4>2. \A v \in Workers \ {w} : pc'[v] = pc[v]
          BY <2>1 DEF Inductive
        <4>3. \A v \in Workers \ {w} : loop'[v] = loop[v]
          BY <2>1 DEF Inductive, Checkpoint
        <4> QED
          BY <4>1, <4>2, <4>3
      <3> SUFFICES ASSUME NEW v \in Workers, NEW c \in Calls,
                          task'[v][c] \in InFlight
                   PROVE  InFlightFacts(v, c)'
        BY DEF TaskEffects
      <3>3. v # w
        BY <3>1
      <3>4. task'[v] = task[v] /\ pc'[v] = pc[v] /\ Id(v, c)' = Id(v, c)
        BY <3>2, <3>3 DEF Id
      <3> QED
        BY <2>2, <3>4 DEF Inductive, TaskEffects, InFlightFacts
    <2>6. EffectsRecorded'
      BY <2>2 DEF Inductive, EffectsRecorded, Accounted
    <2> QED
      BY <2>3, <2>4, <2>5, <2>6 DEF Inductive
  <1>2. CASE FinishTurn(w)
    <2> USE DEF TypeOK, SessionTypeOK
    <2>1. /\ pc[w] = "dispatch" /\ pc' = [pc EXCEPT ![w] = "think"]
          /\ task' = [task EXCEPT ![w] = NoTasks]
          /\ snapshot' = [loop[w] EXCEPT !.pending = {}]
          /\ loop' = [loop EXCEPT ![w] = [loop[w] EXCEPT !.pending = {}]]
          /\ UNCHANGED <<owner, receipt, ran, stray, overtaken>>
      BY <1>2 DEF FinishTurn, Goto, Checkpoint, SnapshotExecution, history
    <2>2. SingleExecution'
      BY <2>1 DEF Inductive, SingleExecution, Stopped, Owns
    <2>3. LoopsStarted'
      BY <2>1 DEF Inductive, LoopsStarted, Loops
    <2>4. TaskEffects'
      BY <2>1 DEF Inductive, TaskEffects, InFlightFacts, InFlight, NoTasks, Id
    <2>5. EffectsRecorded'
      BY <2>1 DEF Inductive, EffectsRecorded, Accounted
    <2> QED
      BY <2>2, <2>3, <2>4, <2>5 DEF Inductive
  <1>3. CASE TurnsExhausted(w) \/ LoopFails(w) \/ Suspend(w)
    BY <1>3, LeaveStep
    DEF TurnsExhausted, LoopFails, Suspend, Stopped, tables, history
  <1>4. CASE PreflightDone(w)
    BY <1>4, LeaveStep, GotoStep
    DEF PreflightDone, Move, Stopped, Phases, tables, history
  <1> QED
    BY <1>1, <1>2, <1>3, <1>4

LEMMA LeavingStep ==
  ASSUME Inductive, TypeOK', NEW w \in Workers,
         \/ Leaving(w) \/ Refuse(w) \/ RejectManifest(w) \/ Cancel(w)
         \/ CancelHandler(w) \/ Crash(w)
  PROVE  Inductive'
  <1>1. CASE CompleteRun(w)
    <2>1. pc[w] = "completing" /\ UNCHANGED <<owner, snapshot, receipt, ran, overtaken>>
      BY <1>1 DEF CompleteRun, Commit, CommitTransition, history
    <2>2. CASE Leave(w, "ending", "interrupt")
      BY <2>1, <2>2, LeaveStep DEF Stopped
    <2>3. CASE Goto(w, "release") /\ UNCHANGED <<loop, task, stray>>
      BY <2>1, <2>3, GotoStep DEF Stopped, Phases
    <2> QED
      BY <1>1, <2>2, <2>3 DEF CompleteRun
  <1>2. CASE CompleteRunFails(w) \/ Fail(w) \/ Cancel(w)
    BY <1>2, LeaveStep
    DEF CompleteRunFails, Fail, Cancel, Stopped, tables, history
  <1>3. CASE FailRefused(w) \/ EndRefused(w) \/ CancelHandler(w)
    BY <1>3, GotoStep
    DEF FailRefused, EndRefused, CancelHandler, Move, Stopped, Phases, tables,
        history
  <1>4. CASE End(w)
    BY <1>4, GotoStep
    DEF End, Commit, CommitTransition, Stopped, Phases, history
  <1>5. CASE Release(w) \/ RejectManifest(w)
    BY <1>5, ForgetStep DEF Release, RejectManifest, ReleaseExecution, history
  <1>6. CASE ReleaseRefused(w) \/ Refuse(w) \/ Crash(w)
    BY <1>6, ForgetStep DEF ReleaseRefused, Refuse, Crash, tables, history
  <1> QED
    BY <1>1, <1>2, <1>3, <1>4, <1>5, <1>6 DEF Leaving

\* A task of the owner moves together with its own receipt and effect.
LEMMA EffectStep ==
  ASSUME Inductive, TypeOK', NEW w \in Workers, NEW c \in Calls,
         At(w, c, task[w][c]), Owns(w),
         NEW s \in TaskStates, NEW r \in {"started", "completed"}, NEW n \in Nat,
         task' = [task EXCEPT ![w][c] = s],
         receipt' = [receipt EXCEPT ![Id(w, c)] = r],
         ran' = [ran EXCEPT ![Id(w, c)] = n],
         UNCHANGED <<pc, loop, owner, snapshot, stray, overtaken>>,
         r = "completed" => n > 0,
         Id(w, c) \in overtaken \/ (n <= 1 /\ stray[Id(w, c)] = 0),
         s \in InFlight => r = "started",
         s = "started" => Id(w, c) \in overtaken \/ n = 0,
         s \in {"returned", "settled"} => n > 0
  PROVE  Inductive'
  <1> USE DEF TypeOK, SessionTypeOK, HistoryTypeOK, StoreTypeOK
  <1>1. pc[w] = "dispatch" /\ Id(w, c) \in Invocations
    BY IdType DEF Inductive, LoopsStarted, At
  <1>2. SingleExecution'
    BY DEF Inductive, SingleExecution, Stopped, Owns
  <1>3. LoopsStarted'
    BY DEF Inductive, LoopsStarted
  <1>4. EffectsRecorded'
    <2> SUFFICES ASSUME NEW i \in Invocations
                 PROVE  /\ i \in overtaken \/ Accounted(i)'
                        /\ receipt'[i] = "completed" => ran'[i] > 0
      BY DEF EffectsRecorded
    <2>1. CASE i = Id(w, c)
      <3>1. receipt'[i] = r /\ ran'[i] = n /\ stray'[i] = stray[i]
        BY <2>1 DEF Inductive
      <3> QED
        BY <2>1, <3>1 DEF Accounted
    <2>2. CASE i # Id(w, c)
      <3>1. receipt'[i] = receipt[i] /\ ran'[i] = ran[i] /\ stray'[i] = stray[i]
        BY <2>2 DEF Inductive
      <3> QED
        BY <3>1 DEF Inductive, EffectsRecorded, Accounted
    <2> QED
      BY <2>1, <2>2
  <1>5. TaskEffects'
    <2> SUFFICES ASSUME NEW v \in Workers, NEW d \in Calls,
                        task'[v][d] \in InFlight
                 PROVE  InFlightFacts(v, d)'
      BY DEF TaskEffects
    <2>1. Id(v, d)' = Id(v, d) /\ pc'[v] = pc[v]
      BY DEF Id
    <2>2. v = w
      <3> SUFFICES ASSUME v # w PROVE FALSE
        OBVIOUS
      <3>1. task'[v] = task[v]
        BY DEF Inductive
      <3> QED
        BY <3>1, OneInFlight
    <2>3. CASE d = c
      <3>1. /\ task'[w][c] = s /\ receipt'[Id(w, c)] = r
            /\ ran'[Id(w, c)] = n /\ stray'[Id(w, c)] = stray[Id(w, c)]
        BY <1>1 DEF Inductive
      <3> QED
        BY <1>1, <2>1, <2>2, <2>3, <3>1 DEF InFlightFacts
    <2>4. CASE d # c
      <3>1. task'[w][d] = task[w][d]
        BY <2>4 DEF Inductive
      <3>2. Id(w, d) # Id(w, c)
        BY <2>4 DEF Id
      <3>3. /\ receipt'[Id(w, d)] = receipt[Id(w, d)]
            /\ ran'[Id(w, d)] = ran[Id(w, d)]
        <4>1. Id(w, d) \in Invocations
          BY <1>1, IdType DEF Inductive, LoopsStarted
        <4> QED
          BY <3>2, <4>1 DEF Inductive
      <3>4. InFlightFacts(w, d)
        BY <2>2, <3>1 DEF Inductive, TaskEffects
      <3> QED
        BY <2>1, <2>2, <3>1, <3>3, <3>4 DEF InFlightFacts
    <2> QED
      BY <2>3, <2>4
  <1> QED
    BY <1>2, <1>3, <1>4, <1>5 DEF Inductive

LEMMA TaskStep ==
  ASSUME Inductive, TypeOK', NEW w \in Workers, NEW c \in Calls,
         \/ Preflight(w, c) \/ Task(w, c) \/ GovernRejects(w, c)
         \/ ClearRejects(w, c) \/ CompleteUnknown(w, c)
  PROVE  Inductive'
  <1> USE DEF TaskStates, Dispatching, Finished
  <1>1. CASE Preflight(w, c)
    <2>1. CASE PreflightUnknown(w, c)
      BY <2>1, LeaveStep DEF PreflightUnknown, Stopped, tables, history
    <2>2. CASE PreflightPass(w, c) \/ PreflightGate(w, c) \/ PreflightRequest(w, c)
      BY <2>2, SetTaskStep
      DEF PreflightPass, PreflightGate, PreflightRequest, SetTask, InFlight,
          CreateRequest, tables, history
    <2> QED
      BY <1>1, <2>1, <2>2 DEF Preflight
  <1>2. CASE \/ GovernUnknown(w, c) \/ SettleUnknown(w, c) \/ CompleteUnknown(w, c)
    BY <1>2, LeaveStep
    DEF GovernUnknown, SettleUnknown, CompleteUnknown, Abort, At, Stopped,
        tables, history
  <1>3. CASE \/ GovernRejects(w, c) \/ ClearUsed(w, c) \/ ClearRejects(w, c)
             \/ BegunRejects(w, c) \/ SettleRejects(w, c)
    BY <1>3, SetTaskStep
    DEF GovernRejects, ClearUsed, ClearRejects, BegunRejects, SettleRejects,
        Reject, SetTask, InFlight, tables, history
  <1>4. CASE Govern(w, c)
    BY <1>4, SetTaskStep DEF Govern, SetTask, InFlight, tables, history
  <1>5. CASE GovernRequest(w, c) \/ Clear(w, c)
    BY <1>5, SetTaskStep
    DEF GovernRequest, Clear, CreateRequest, DecideRequest, SetTask, InFlight,
        tables, history
  <1>6. ASSUME At(w, c, task[w][c])
        PROVE  /\ Id(w, c) \in Invocations /\ Owns(w)
               /\ receipt = [receipt EXCEPT ![Id(w, c)] = receipt[Id(w, c)]]
               /\ ran = [ran EXCEPT ![Id(w, c)] = ran[Id(w, c)]]
    <2>1. Id(w, c) \in Invocations /\ Owns(w)
      BY <1>6, IdType
      DEF Inductive, LoopsStarted, SingleExecution, Stopped, At
    <2> QED
      BY <2>1 DEF Inductive, TypeOK, StoreTypeOK, HistoryTypeOK
  <1>7. CASE Begun(w, c)
    <2>1. At(w, c, task[w][c]) /\ receipt[Id(w, c)] = "absent"
      BY <1>7 DEF Begun, At, StartAction
    <2>2. /\ ran[Id(w, c)] \in Nat
          /\ Id(w, c) \in overtaken \/ (ran[Id(w, c)] = 0 /\ stray[Id(w, c)] = 0)
      BY <1>6, <2>1
      DEF Inductive, EffectsRecorded, Accounted, TypeOK, HistoryTypeOK
    <2>3. /\ task' = [task EXCEPT ![w][c] = "started"]
          /\ receipt' = [receipt EXCEPT ![Id(w, c)] = "started"]
          /\ ran' = [ran EXCEPT ![Id(w, c)] = ran[Id(w, c)]]
          /\ UNCHANGED <<pc, loop, owner, snapshot, stray, overtaken>>
      BY <1>6, <1>7, <2>1
      DEF Begun, StartAction, Receipt, SetTask, history
    <2>4. /\ Id(w, c) \in overtaken \/ (ran[Id(w, c)] <= 1 /\ stray[Id(w, c)] = 0)
          /\ Id(w, c) \in overtaken \/ ran[Id(w, c)] = 0
          /\ ran[Id(w, c)] \in Nat
      BY <2>2
    <2>5. PICK s \in TaskStates, n \in Nat :
            /\ s = "started" /\ ran' = [ran EXCEPT ![Id(w, c)] = n]
            /\ task' = [task EXCEPT ![w][c] = s]
            /\ Id(w, c) \in overtaken \/ (n <= 1 /\ stray[Id(w, c)] = 0)
            /\ Id(w, c) \in overtaken \/ n = 0
      BY <2>3, <2>4
    <2>6. /\ receipt' = [receipt EXCEPT ![Id(w, c)] = "started"]
          /\ UNCHANGED <<pc, loop, owner, snapshot, stray, overtaken>>
      BY <2>3
    <2>7. s \notin {"returned", "settled"}
      BY <2>5
    <2> QED
      BY <1>6, <2>1, <2>5, <2>6, <2>7, EffectStep
  <1>8. CASE Invoke(w, c)
    <2>1. At(w, c, task[w][c]) /\ task[w][c] = "started"
      BY <1>8 DEF Invoke, At
    <2>2. /\ receipt[Id(w, c)] = "started" /\ ran[Id(w, c)] \in Nat
          /\ Id(w, c) \in overtaken \/ (ran[Id(w, c)] = 0 /\ stray[Id(w, c)] = 0)
      BY <1>6, <2>1
      DEF Inductive, TaskEffects, InFlightFacts, InFlight, TypeOK, HistoryTypeOK
    <2>3. PICK s \in {"returned", "raised"}, n \in Nat :
            /\ n \in {ran[Id(w, c)], ran[Id(w, c)] + 1}
            /\ s = "returned" => n > 0
            /\ task' = [task EXCEPT ![w][c] = s]
            /\ ran' = [ran EXCEPT ![Id(w, c)] = n]
      <3>1. CASE SetTask(w, c, "raised") /\ UNCHANGED ran
        BY <1>6, <2>1, <2>2, <3>1 DEF SetTask
      <3>2. ASSUME NEW s \in {"returned", "raised"}, SetTask(w, c, s),
                   ran' = [ran EXCEPT ![Id(w, c)] = @ + 1]
            PROVE  \E n \in Nat : /\ n = ran[Id(w, c)] + 1 /\ n > 0
                                  /\ task' = [task EXCEPT ![w][c] = s]
                                  /\ ran' = [ran EXCEPT ![Id(w, c)] = n]
        <4>1. /\ ran[Id(w, c)] + 1 \in Nat /\ ran[Id(w, c)] + 1 > 0
              /\ task' = [task EXCEPT ![w][c] = s]
              /\ ran' = [ran EXCEPT ![Id(w, c)] = ran[Id(w, c)] + 1]
          BY <2>2, <3>2 DEF SetTask
        <4> QED
          BY <4>1
      <3> QED
        BY <1>8, <3>1, <3>2 DEF Invoke
    <2>4. /\ receipt' = [receipt EXCEPT ![Id(w, c)] = "started"]
          /\ UNCHANGED <<pc, loop, owner, snapshot, stray, overtaken>>
      BY <1>6, <1>8, <2>1, <2>2 DEF Invoke, SetTask, tables
    <2>5. /\ Id(w, c) \in overtaken \/ (n <= 1 /\ stray[Id(w, c)] = 0)
          /\ s # "started" /\ s # "settled"
      BY <2>2, <2>3
    <2> QED
      BY <1>6, <2>1, <2>3, <2>4, <2>5, EffectStep
  <1>9. CASE Settle(w, c)
    <2>1. At(w, c, task[w][c]) /\ task[w][c] = "returned"
      BY <1>9 DEF Settle, At
    <2>2. InFlightFacts(w, c)
      BY <2>1 DEF Inductive, TaskEffects, InFlight
    <2>3. /\ task' = [task EXCEPT ![w][c] = "settled"]
          /\ receipt' = [receipt EXCEPT ![Id(w, c)] = "started"]
          /\ ran' = [ran EXCEPT ![Id(w, c)] = ran[Id(w, c)]]
          /\ UNCHANGED <<pc, loop, owner, snapshot, stray, overtaken>>
      BY <1>6, <1>9, <2>1, <2>2
      DEF Settle, SetTask, tables, history, InFlightFacts
    <2>4. /\ ran[Id(w, c)] \in Nat /\ ran[Id(w, c)] > 0
          /\ Id(w, c) \in overtaken \/ (ran[Id(w, c)] <= 1 /\ stray[Id(w, c)] = 0)
      BY <1>6, <2>1, <2>2
      DEF Inductive, EffectsRecorded, Accounted, InFlightFacts, TypeOK,
          SessionTypeOK, HistoryTypeOK
    <2> QED
      BY <1>6, <2>1, <2>3, <2>4, EffectStep
  <1>10. CASE Complete(w, c)
    <2>1. At(w, c, task[w][c]) /\ task[w][c] = "settled"
      BY <1>10 DEF Complete, At
    <2>2. InFlightFacts(w, c)
      BY <2>1 DEF Inductive, TaskEffects, InFlight
    <2>3. /\ task' = [task EXCEPT ![w][c] = "done"]
          /\ receipt' = [receipt EXCEPT ![Id(w, c)] = "completed"]
          /\ ran' = [ran EXCEPT ![Id(w, c)] = ran[Id(w, c)]]
          /\ UNCHANGED <<pc, loop, owner, snapshot, stray, overtaken>>
      BY <1>6, <1>10, <2>1
      DEF Complete, CompleteAction, Receipt, SetTask, history
    <2>4. /\ ran[Id(w, c)] \in Nat /\ ran[Id(w, c)] > 0
          /\ Id(w, c) \in overtaken \/ (ran[Id(w, c)] <= 1 /\ stray[Id(w, c)] = 0)
      BY <1>6, <2>1, <2>2
      DEF Inductive, EffectsRecorded, Accounted, InFlightFacts, TypeOK,
          SessionTypeOK, HistoryTypeOK
    <2> QED
      BY <1>6, <2>1, <2>3, <2>4, EffectStep DEF InFlight
  <1> QED
    BY <1>1, <1>2, <1>3, <1>4, <1>5, <1>7, <1>8, <1>9, <1>10 DEF Task

\* The operator acts only on a run that nobody executes.
LEMMA OperatorStep ==
  ASSUME Inductive, TypeOK', StopsWorker,
         \/ Recover
         \/ \E i \in Invocations : Withdraw(i) \/ Confirm(i)
         \/ \E k \in DOMAIN requests, d \in {"approved", "rejected"} : Decide(k, d)
  PROVE  Inductive'
  <1>1. CASE Recover
    <2>1. /\ owner \in Workers /\ Stopped(owner) /\ owner' = Free
          /\ UNCHANGED <<pc, loop, task, snapshot, receipt, ran, stray, overtaken>>
      BY <1>1 DEF Recover, RecoverExecution, session, history
    <2>2. SingleExecution'
      BY <2>1 DEF Inductive, SingleExecution, Stopped, Owns
    <2> QED
      BY <2>1, <2>2
      DEF Inductive, LoopsStarted, TaskEffects, InFlightFacts, Id,
          EffectsRecorded, Accounted
  <1>2. CASE \E i \in Invocations : Withdraw(i) \/ Confirm(i)
    <2>1. PICK i \in Invocations : Withdraw(i) \/ Confirm(i)
      BY <1>2
    <2>2. owner = Free /\ UNCHANGED <<pc, loop, task, owner, snapshot, ran, stray>>
      <3>1. CASE Withdraw(i)
        BY <3>1 DEF Withdraw, ReconcileAction, Receipt, session, history
      <3>2. CASE Confirm(i)
        BY <3>2 DEF Confirm, ReconcileAction, Receipt, session, history
      <3> QED
        BY <2>1, <3>1, <3>2
    <2>3. EffectsRecorded'
      <3> SUFFICES ASSUME NEW j \in Invocations
                   PROVE  /\ j \in overtaken' \/ Accounted(j)'
                          /\ receipt'[j] = "completed" => ran'[j] > 0
        BY DEF EffectsRecorded
      <3>1. /\ j \in overtaken \/ Accounted(j)
            /\ receipt[j] = "completed" => ran[j] > 0
        BY DEF Inductive, EffectsRecorded
      <3>2. CASE j # i
        <4>1. receipt'[j] = receipt[j] /\ (j \in overtaken => j \in overtaken')
          <5>1. CASE Withdraw(i)
            BY <3>2, <5>1 DEF Withdraw, ReconcileAction, Receipt
          <5>2. CASE Confirm(i)
            BY <3>2, <5>2 DEF Confirm, ReconcileAction, Receipt, history
          <5> QED
            BY <2>1, <5>1, <5>2
        <4> QED
          BY <2>2, <3>1, <4>1 DEF Accounted
      <3>3. CASE j = i /\ Withdraw(i)
        <4>1. /\ receipt'[i] = "absent" /\ ran[i] = 0 /\ stray[i] \in Nat
              /\ overtaken' = IF stray[i] > 0 THEN overtaken \cup {i} ELSE overtaken
          BY <3>3
          DEF Withdraw, ReconcileAction, Receipt, Inductive, TypeOK, StoreTypeOK,
              SessionTypeOK
        <4> QED
          BY <2>2, <3>3, <4>1 DEF Accounted
      <3>4. CASE j = i /\ Confirm(i)
        <4>1. receipt'[i] = "completed" /\ ran[i] > 0 /\ UNCHANGED overtaken
          BY <3>4
          DEF Confirm, ReconcileAction, Receipt, history, Inductive, TypeOK,
              StoreTypeOK
        <4> QED
          BY <2>2, <3>1, <3>4, <4>1 DEF Accounted
      <3> QED
        BY <2>1, <3>2, <3>3, <3>4
    <2>4. \A w \in Workers, c \in Calls : task[w][c] \notin InFlight
      BY <2>2, StoreAssumption
      DEF Inductive, TaskEffects, InFlightFacts, SingleExecution, Stopped, Owns
    <2>5. TaskEffects'
      BY <2>2, <2>4 DEF TaskEffects
    <2> QED
      BY <2>2, <2>3, <2>5
      DEF Inductive, SingleExecution, Stopped, Owns, LoopsStarted
  <1>3. CASE \E k \in DOMAIN requests, d \in {"approved", "rejected"} : Decide(k, d)
    BY <1>3, QuietStep DEF Decide, DecideRequest, session, history
  <1> QED
    BY <1>1, <1>2, <1>3

\* A thread left behind acts, or ends without having acted.
LEMMA StrayStep ==
  ASSUME Inductive, TypeOK', NEW i \in Invocations, StrayActs(i) \/ StrayEnds(i)
  PROVE  Inductive'
  <1> USE DEF TypeOK, SessionTypeOK, HistoryTypeOK
  <1>1. /\ stray[i] > 0 /\ stray'[i] = stray[i] - 1
        /\ ran'[i] \in {ran[i], ran[i] + 1} /\ ran[i] \in Nat /\ stray[i] \in Nat
        /\ \A j \in Invocations \ {i} : stray'[j] = stray[j] /\ ran'[j] = ran[j]
        /\ UNCHANGED <<pc, loop, task, owner, snapshot, receipt, overtaken>>
    BY DEF StrayActs, StrayEnds, tables, session, history, Inductive
  <1>2. EffectsRecorded'
    <2> SUFFICES ASSUME NEW j \in Invocations
                 PROVE  /\ j \in overtaken' \/ Accounted(j)'
                        /\ receipt'[j] = "completed" => ran'[j] > 0
      BY DEF EffectsRecorded
    <2>1. /\ j \in overtaken \/ Accounted(j)
          /\ receipt[j] = "completed" => ran[j] > 0
      BY DEF Inductive, EffectsRecorded
    <2> QED
      BY <1>1, <2>1 DEF Accounted
  <1>3. TaskEffects'
    <2> SUFFICES ASSUME NEW w \in Workers, NEW c \in Calls,
                        task'[w][c] \in InFlight
                 PROVE  InFlightFacts(w, c)'
      BY DEF TaskEffects
    <2>1. InFlightFacts(w, c) /\ Id(w, c)' = Id(w, c)
      BY <1>1 DEF Inductive, TaskEffects, Id
    <2>2. Id(w, c) \in Invocations
      BY <2>1, IdType DEF InFlightFacts, Inductive, LoopsStarted
    <2>3. CASE Id(w, c) # i
      BY <1>1, <2>1, <2>2, <2>3 DEF InFlightFacts
    <2>4. CASE Id(w, c) = i
      <3>1. i \in overtaken
        BY <1>1, <2>1, <2>4 DEF InFlightFacts
      <3> QED
        BY <1>1, <2>1, <2>4, <3>1 DEF InFlightFacts
    <2> QED
      BY <2>3, <2>4
  <1> QED
    BY <1>1, <1>2, <1>3
    DEF Inductive, SingleExecution, Stopped, Owns, LoopsStarted

LEMMA NextInductive == StopsWorker /\ Inductive /\ [Next]_vars => Inductive'
  <1> SUFFICES ASSUME StopsWorker, Inductive, [Next]_vars PROVE Inductive'
    OBVIOUS
  <1>0. TypeOK'
    BY NextType DEF Inductive
  <1>1. CASE \E w \in Workers : Working(w) \/ Start(w) \/ Resume(w) \/ Mishap(w)
    <2>1. PICK w \in Workers : Working(w) \/ Start(w) \/ Resume(w) \/ Mishap(w)
      BY <1>1
    <2>2. CASE Enter(w) \/ Start(w) \/ Resume(w)
      BY <1>0, <2>2, EnterStep
    <2>3. CASE Turn(w) \/ LoopFails(w)
      BY <1>0, <2>3, TurnStep, TaskStep DEF Turn
    <2>4. CASE Mishap(w) \/ Leaving(w)
      BY <1>0, <2>4, TurnStep, TaskStep, LeavingStep DEF Mishap
    <2> QED
      BY <2>1, <2>2, <2>3, <2>4 DEF Working
  <1>2. CASE UNCHANGED vars
    BY <1>0, <1>2, QuietStep DEF vars, tables, session, history
  <1> QED
    BY <1>0, <1>1, <1>2, OperatorStep, StrayStep DEF Next, Environment

-----------------------------------------------------------------------------
(* What follows from the invariant.                                        *)

\* Provided the operator stops a worker before it recovers the run, whoever
\* is past open_execution is the recorded owner: runs never overlap.
THEOREM OneExecution == ASSUME StopsWorker PROVE Spec => []SingleExecution
  <1>1. Init => Inductive
    BY InitInductive
  <1>2. Inductive /\ [Next]_vars => Inductive'
    BY NextInductive
  <1>3. Inductive => SingleExecution
    BY DEF Inductive
  <1> QED
    BY <1>1, <1>2, <1>3, PTL DEF Spec

\* Under the same assumption no effect happens twice, even when any
\* transaction may raise and the policy changes between two executions, and
\* whatever threads a second cancellation leaves behind; the one exception is
\* an invocation that was withdrawn while such a thread had it.
THEOREM EffectsOnce == ASSUME StopsWorker PROVE Spec => []AtMostOnce
  <1>1. Init => Inductive
    BY InitInductive
  <1>2. Inductive /\ [Next]_vars => Inductive'
    BY NextInductive
  <1>3. Inductive => AtMostOnce
    BY DEF Inductive, EffectsRecorded, Accounted, AtMostOnce, TypeOK,
           SessionTypeOK, HistoryTypeOK
  <1> QED
    BY <1>1, <1>2, <1>3, PTL DEF Spec

-----------------------------------------------------------------------------
(* The run implements the abstract ledger of effects.                      *)

\* A step beside the ledger: at most a thread is left behind.
Aside(w) ==
  /\ UNCHANGED <<receipt, ran, overtaken>>
  /\ UNCHANGED stray \/ LeaveThreads(w)

\* The steps of a worker outside a dispatch leave receipts and effects alone.
LEMMA LedgerIdle ==
  ASSUME NEW w \in Workers,
         \/ Enter(w) \/ Start(w) \/ Resume(w) \/ Leaving(w)
         \/ Answer(w) \/ \E S \in SUBSET Calls : RequestCalls(w, S)
         \/ FinishTurn(w) \/ TurnsExhausted(w) \/ LoopFails(w)
         \/ PreflightDone(w) \/ Suspend(w) \/ \E c \in Calls : Preflight(w, c)
         \/ Refuse(w) \/ RejectManifest(w) \/ Cancel(w)
         \/ CancelHandler(w) \/ Crash(w)
  PROVE  Aside(w)
  <1> USE DEF tables, history, Aside, Move, Forget
  <1>1. CASE Enter(w) \/ Start(w) \/ Resume(w)
    BY <1>1
    DEF Enter, Start, Resume, Open, OpenRefused, Refuse, Begin, BeginFails,
        EnterLoop, Leave, CreateTransition, OpenNew, OpenExisting, Commit,
        CommitTransition, SnapshotExecution
  <1>2. CASE Leaving(w)
    BY <1>2
    DEF Leaving, Leave, CompleteRun, CompleteRunFails, Fail, FailRefused, End,
        EndRefused, Release, ReleaseRefused, Commit, CommitTransition,
        ReleaseExecution
  <1>3. CASE \/ Answer(w) \/ \E S \in SUBSET Calls : RequestCalls(w, S)
             \/ FinishTurn(w)
    BY <1>3 DEF Answer, RequestCalls, FinishTurn, Checkpoint, SnapshotExecution
  <1>4. CASE \/ TurnsExhausted(w) \/ LoopFails(w) \/ PreflightDone(w)
             \/ Suspend(w) \/ \E c \in Calls : Preflight(w, c)
    BY <1>4
    DEF TurnsExhausted, LoopFails, Leave, SetTask, PreflightDone, Suspend, Preflight,
        PreflightUnknown, PreflightPass, PreflightGate, PreflightRequest,
        CreateRequest
  <1>5. CASE \/ Refuse(w) \/ RejectManifest(w) \/ Cancel(w)
             \/ CancelHandler(w) \/ Crash(w)
    BY <1>5
    DEF Refuse, RejectManifest, Cancel, Leave, CancelHandler, Crash,
        ReleaseExecution
  <1> QED
    BY <1>1, <1>2, <1>3, <1>4, <1>5

LEMMA LedgerTask ==
  ASSUME Inductive, NEW w \in Workers, NEW c \in Calls,
         \/ Task(w, c) \/ GovernRejects(w, c) \/ ClearRejects(w, c)
         \/ CompleteUnknown(w, c)
  PROVE  Ledger!LedgerNext \/ Aside(w)
  <1> USE DEF tables, history
  <1>1. CASE \/ GovernUnknown(w, c) \/ SettleUnknown(w, c) \/ CompleteUnknown(w, c)
    BY <1>1 DEF GovernUnknown, SettleUnknown, CompleteUnknown, Abort, Leave, Aside
  <1>2. CASE \/ Govern(w, c) \/ GovernRequest(w, c) \/ Clear(w, c)
             \/ ClearUsed(w, c) \/ BegunRejects(w, c) \/ Settle(w, c)
             \/ SettleRejects(w, c) \/ GovernRejects(w, c) \/ ClearRejects(w, c)
    BY <1>2
    DEF Govern, GovernRequest, Clear, ClearUsed, BegunRejects, Settle,
        SettleRejects, GovernRejects, ClearRejects, Reject, SetTask,
        CreateRequest, DecideRequest, Aside
  <1>3. ASSUME At(w, c, task[w][c]) PROVE Id(w, c) \in Invocations
    BY <1>3, IdType DEF Inductive, LoopsStarted, At
  <1>4. CASE Begun(w, c)
    <2>1. Id(w, c) \in Invocations /\ receipt[Id(w, c)] = "absent"
      BY <1>3, <1>4 DEF Begun, At, StartAction
    <2>2. Id(w, c) \in overtaken \/ Ledger!Untouched(Id(w, c))
      BY <2>1 DEF Inductive, EffectsRecorded, Accounted, Ledger!Untouched
    <2>3. Ledger!Announce(Id(w, c))
      BY <1>4, <2>1, <2>2
      DEF Begun, StartAction, Receipt, SetTask, Ledger!Announce
    <2> QED
      BY <2>1, <2>3 DEF Ledger!LedgerNext
  <1>5. CASE Invoke(w, c)
    <2>1. /\ Id(w, c) \in Invocations /\ receipt[Id(w, c)] = "started"
          /\ Id(w, c) \in overtaken \/ Ledger!Untouched(Id(w, c))
      BY <1>3, <1>5
      DEF Invoke, At, Inductive, TaskEffects, InFlightFacts, InFlight,
          Ledger!Untouched
    <2>2. UNCHANGED <<receipt, stray, overtaken>>
      BY <1>5 DEF Invoke, SetTask
    <2>3. ran' = [ran EXCEPT ![Id(w, c)] = @ + 1] \/ UNCHANGED ran
      BY <1>5 DEF Invoke
    <2>4. Ledger!Happen(Id(w, c)) \/ UNCHANGED ran
      BY <2>1, <2>2, <2>3 DEF Ledger!Happen
    <2> QED
      BY <2>1, <2>2, <2>4 DEF Ledger!LedgerNext, Aside
  <1>6. CASE Complete(w, c)
    <2>1. /\ Id(w, c) \in Invocations
          /\ receipt[Id(w, c)] = "started" /\ ran[Id(w, c)] > 0
      BY <1>3, <1>6
      DEF Complete, At, Inductive, TaskEffects, InFlightFacts, InFlight
    <2>2. Ledger!Record(Id(w, c))
      BY <1>6, <2>1 DEF Complete, CompleteAction, Receipt, SetTask, Ledger!Record
    <2> QED
      BY <2>1, <2>2 DEF Ledger!LedgerNext
  <1> QED
    BY <1>1, <1>2, <1>4, <1>5, <1>6 DEF Task

\* Whoever leaves threads behind had announced what they are on their way to.
LEMMA LedgerAside ==
  ASSUME Inductive, NEW w \in Workers, Aside(w)
  PROVE  Ledger!LedgerNext \/ UNCHANGED <<receipt, ran, stray, overtaken>>
  <1>1. CASE LeaveThreads(w)
    <2>1. PICK S \in SUBSET {c \in Threaded : task[w][c] = "started"} :
            stray' = [i \in Invocations |->
                        IF i[1] = loop[w].turn /\ i[2] \in S THEN stray[i] + 1
                                                            ELSE stray[i]]
      BY <1>1 DEF LeaveThreads
    <2> DEFINE T == {i \in Invocations : i[1] = loop[w].turn /\ i[2] \in S}
    <2>2. \A i \in T : /\ receipt[i] = "started"
                       /\ i \in overtaken \/ Ledger!Untouched(i)
      <3> SUFFICES ASSUME NEW i \in T
                   PROVE  /\ receipt[i] = "started"
                          /\ i \in overtaken \/ Ledger!Untouched(i)
        OBVIOUS
      <3>1. i[2] \in Calls /\ task[w][i[2]] \in InFlight /\ task[w][i[2]] = "started"
        BY <2>1, RunAssumption DEF InFlight
      <3>2. i = Id(w, i[2])
        BY DEF Id, Invocations
      <3> QED
        BY <3>1, <3>2
        DEF Inductive, TaskEffects, InFlightFacts, Ledger!Untouched
    <2>3. stray' = [i \in Invocations |-> IF i \in T THEN stray[i] + 1
                                                     ELSE stray[i]]
      BY <2>1
    <2>4. T \in SUBSET Invocations
      OBVIOUS
    <2> HIDE DEF T
    <2>5. Ledger!Abandon(T)
      BY <2>2, <2>3 DEF Ledger!Abandon, Aside
    <2> QED
      BY <2>4, <2>5 DEF Ledger!LedgerNext
  <1>2. CASE UNCHANGED stray
    BY <1>2 DEF Aside
  <1> QED
    BY <1>1, <1>2 DEF Aside

LEMMA LedgerOperator ==
  ASSUME Inductive,
         \/ Recover
         \/ \E i \in Invocations : \/ Withdraw(i) \/ Confirm(i)
                                  \/ StrayActs(i) \/ StrayEnds(i)
         \/ \E k \in DOMAIN requests, d \in {"approved", "rejected"} : Decide(k, d)
  PROVE  Ledger!LedgerNext \/ UNCHANGED <<receipt, ran, stray, overtaken>>
  <1> USE DEF history, tables
  <1>1. CASE Recover
    BY <1>1 DEF Recover, RecoverExecution
  <1>2. ASSUME NEW i \in Invocations, Withdraw(i)
        PROVE  Ledger!LedgerNext
    <2>1. Ledger!Withdraw(i)
      BY <1>2 DEF Withdraw, ReconcileAction, Receipt, Ledger!Withdraw
    <2> QED
      BY <2>1 DEF Ledger!LedgerNext
  <1>3. ASSUME NEW i \in Invocations, Confirm(i)
        PROVE  Ledger!LedgerNext
    <2>1. Ledger!Record(i)
      BY <1>3 DEF Confirm, ReconcileAction, Receipt, Ledger!Record
    <2> QED
      BY <2>1 DEF Ledger!LedgerNext
  <1>4. ASSUME NEW i \in Invocations, StrayActs(i)
        PROVE  Ledger!LedgerNext
    <2>1. Ledger!HappenLate(i)
      BY <1>4 DEF StrayActs, Ledger!HappenLate
    <2> QED
      BY <2>1 DEF Ledger!LedgerNext
  <1>5. ASSUME NEW i \in Invocations, StrayEnds(i)
        PROVE  Ledger!LedgerNext
    <2>1. Ledger!GiveUp(i)
      BY <1>5 DEF StrayEnds, Ledger!GiveUp
    <2> QED
      BY <2>1 DEF Ledger!LedgerNext
  <1>6. CASE \E k \in DOMAIN requests, d \in {"approved", "rejected"} : Decide(k, d)
    BY <1>6 DEF Decide, DecideRequest
  <1> QED
    BY <1>1, <1>2, <1>3, <1>4, <1>5, <1>6

\* Receipts and effects behave as the ledger promises: announced first, at
\* most once, recorded for good, withdrawn only while nothing has happened;
\* what a thread left behind does late, or does again after a withdrawal it
\* outlived, is accounted for.
THEOREM LedgerImplemented == ASSUME StopsWorker PROVE Spec => ImplementsLedger
  <1>1. Init => Inductive
    BY InitInductive
  <1>2. Inductive /\ [Next]_vars => Inductive'
    BY NextInductive
  <1>3. Init => Ledger!LedgerInit
    BY DEF Init, StoreInit, Ledger!LedgerInit
  <1>4. Inductive /\ [Next]_vars
          => [Ledger!LedgerNext]_<<receipt, ran, stray, overtaken>>
    <2> SUFFICES ASSUME Inductive, [Next]_vars
                 PROVE  Ledger!LedgerNext
                        \/ UNCHANGED <<receipt, ran, stray, overtaken>>
      OBVIOUS
    <2>1. CASE \E w \in Workers : Working(w) \/ Start(w) \/ Resume(w) \/ Mishap(w)
      <3>1. PICK w \in Workers : Working(w) \/ Start(w) \/ Resume(w) \/ Mishap(w)
        BY <2>1
      <3>2. CASE Working(w)
        BY <3>2, LedgerIdle, LedgerTask, LedgerAside DEF Working, Turn
      <3>3. CASE Start(w) \/ Resume(w) \/ Mishap(w)
        BY <3>3, LedgerIdle, LedgerTask, LedgerAside DEF Mishap
      <3> QED
        BY <3>1, <3>2, <3>3
    <2>2. CASE UNCHANGED vars
      BY <2>2 DEF vars, tables, history
    <2> QED
      BY <2>1, <2>2, LedgerOperator DEF Next, Environment
  <1> QED
    BY <1>1, <1>2, <1>3, <1>4, PTL DEF Spec, ImplementsLedger, Ledger!LedgerSpec

-----------------------------------------------------------------------------
(* What the owner knows of the store, without reading it again.            *)

\* A worker that has opened the run works on the very checkpoint the store
\* holds; one that has not is as it was when it was created.
LoopIsSnapshot ==
  \A w \in Workers : loop[w] = IF Stopped(w) THEN FreshLoop ELSE snapshot

\* Inside the loop the run is running, and the worker's copy is current.
InLoop == {"enter", "think", "preflight", "dispatch", "completing"}

RunIsCurrent ==
  \A w \in Workers : pc[w] \in InLoop =>
    /\ status = "running"
    /\ known[w] = [status |-> status, version |-> version]

\* A run nobody has opened has not begun; an answer has no pending calls; a
\* run is completed only from a saved answer.
StoreIsCoherent ==
  /\ owner = NoRow => status \in {"absent", "pending"} /\ snapshot = FreshLoop
  /\ snapshot.final => snapshot.pending = {}
  /\ \A w \in Workers : pc[w] = "completing" => snapshot.final

Journal ==
  Inductive /\ LoopIsSnapshot /\ RunIsCurrent /\ StoreIsCoherent /\ AnswerIsSaved

\* Only one worker is past open_execution.
LEMMA OthersStopped ==
  ASSUME Inductive, NEW w \in Workers, ~Stopped(w), NEW v \in Workers, v # w
  PROVE  Stopped(v)
  BY DEF Inductive, SingleExecution, Owns

LEMMA InitJournal == Init => Journal
  BY InitInductive, StoreAssumption
  DEF Init, StoreInit, Journal, LoopIsSnapshot, RunIsCurrent, StoreIsCoherent,
      AnswerIsSaved, Stopped, FreshLoop, InLoop

-----------------------------------------------------------------------------
(* Every step keeps it.                                                    *)

\* A worker that has opened the run goes somewhere without writing.
LEMMA JournalMove ==
  ASSUME Journal, Inductive', NEW w \in Workers, ~Stopped(w), NEW p \in Phases,
         Goto(w, p), UNCHANGED <<tables, loop, known>>,
         p \notin {"idle", "prepared"},
         p \in InLoop => pc[w] \in InLoop,
         p = "completing" => snapshot.final
  PROVE  Journal'
  BY DEF Journal, LoopIsSnapshot, RunIsCurrent, StoreIsCoherent, AnswerIsSaved,
         Stopped, Goto, tables, TypeOK, SessionTypeOK, Inductive

LEMMA JournalForget ==
  ASSUME Journal, Inductive', NEW w \in Workers, Forget(w),
         owner' \in {owner, Free},
         UNCHANGED <<status, version, snapshot>>
  PROVE  Journal'
  BY StoreAssumption
  DEF Journal, LoopIsSnapshot, RunIsCurrent, StoreIsCoherent, AnswerIsSaved,
      Stopped, Forget, tables, TypeOK, SessionTypeOK, Inductive, InLoop

\* The worker's own loop, approvals and the like: nothing the journal is about.
LEMMA JournalQuiet ==
  ASSUME Journal, Inductive',
         UNCHANGED <<pc, loop, known, status, version, snapshot>>,
         owner' \in {owner, Free}
  PROVE  Journal'
  BY StoreAssumption
  DEF Journal, LoopIsSnapshot, RunIsCurrent, StoreIsCoherent, AnswerIsSaved,
      Stopped

\* The transition of a run by the worker that has opened it.
LEMMA JournalCommit ==
  ASSUME Journal, Inductive', NEW w \in Workers, ~Stopped(w),
         NEW target \in {"running", "waiting", "failed", "completed"},
         Commit(w, target), target = "completed" => snapshot.final,
         NEW p \in {"enter", "ending", "release"}, Goto(w, p),
         p = "enter" => target = "running" /\ Learn(w, target),
         UNCHANGED loop
  PROVE  Journal'
  <1> USE DEF Journal
  <1>1. /\ status' = target /\ version' = known[w].version + 1
        /\ owner = w
        /\ UNCHANGED <<owner, snapshot>>
    BY DEF Commit, CommitTransition, Inductive, SingleExecution, Owns
  <1>2. \A v \in Workers \ {w} : Stopped(v) /\ Stopped(v)'
    BY OthersStopped DEF Goto, Stopped, Inductive, TypeOK, SessionTypeOK
  <1>3. LoopIsSnapshot'
    BY <1>1, <1>2 DEF LoopIsSnapshot, Goto, Stopped, Inductive, TypeOK, SessionTypeOK
  <1>4. RunIsCurrent'
    BY <1>1, <1>2 DEF RunIsCurrent, Goto, Learn, Stopped, Inductive, TypeOK, SessionTypeOK, InLoop
  <1>5. StoreIsCoherent'
    BY <1>1, <1>2, StoreAssumption DEF StoreIsCoherent, Goto, Stopped, Inductive, TypeOK, SessionTypeOK
  <1>6. AnswerIsSaved'
    BY <1>1 DEF AnswerIsSaved
  <1> QED
    BY <1>3, <1>4, <1>5, <1>6

\* The owner saves the checkpoint it goes on with.
LEMMA JournalSave ==
  ASSUME Journal, Inductive', NEW w \in Workers, pc[w] \in InLoop,
         NEW next \in Loops, SnapshotExecution(w, next),
         next.final => next.pending = {},
         loop' = [loop EXCEPT ![w] = next],
         NEW p \in InLoop, Goto(w, p), p = "completing" => next.final,
         UNCHANGED known
  PROVE  Journal'
  <1> USE DEF Journal
  <1>1. ~Stopped(w) /\ snapshot' = next /\ owner = w
    BY DEF SnapshotExecution, Owns, InLoop, Stopped
  <1>2. UNCHANGED <<status, version, owner>> /\ status = "running"
    BY DEF SnapshotExecution, RunIsCurrent
  <1>3. \A v \in Workers \ {w} : Stopped(v) /\ Stopped(v)'
    BY <1>1, OthersStopped DEF Goto, Stopped, Inductive, TypeOK, SessionTypeOK
  <1>4. LoopIsSnapshot'
    BY <1>1, <1>3 DEF LoopIsSnapshot, Goto, Stopped, Inductive, TypeOK, SessionTypeOK, InLoop
  <1>5. RunIsCurrent'
    BY <1>2, <1>3 DEF RunIsCurrent, Goto, Stopped, Inductive, TypeOK, SessionTypeOK, InLoop
  <1>6. StoreIsCoherent'
    BY <1>1, <1>2, <1>3, StoreAssumption DEF StoreIsCoherent, Goto, Stopped, Inductive, TypeOK, SessionTypeOK
  <1>7. AnswerIsSaved'
    BY <1>2 DEF AnswerIsSaved
  <1> QED
    BY <1>4, <1>5, <1>6, <1>7

-----------------------------------------------------------------------------
(* Every action keeps it.                                                  *)

LEMMA EnterJournal ==
  ASSUME Journal, Inductive', NEW w \in Workers, Enter(w) \/ Start(w) \/ Resume(w)
  PROVE  Journal'
  <1> USE DEF Phases, InLoop, Stopped
  <1>1. CASE Start(w) \/ Resume(w)
    <2>1. /\ pc[w] = "idle" /\ Goto(w, "prepared")
          /\ known' = [known EXCEPT ![w] = known'[w]]
          /\ UNCHANGED <<owner, loop, snapshot>>
      BY <1>1
      DEF Start, Resume, CreateTransition, tables, Journal, Inductive, TypeOK, SessionTypeOK
    <2>2. /\ status' \in {status, "pending"}
          /\ status' = status => version' = version
          /\ status' # status => status = "absent"
      BY <1>1 DEF Start, Resume, CreateTransition, tables
    <2> QED
      BY <2>1, <2>2
      DEF Journal, LoopIsSnapshot, RunIsCurrent, StoreIsCoherent, AnswerIsSaved,
          Goto, Inductive, TypeOK, SessionTypeOK
  <1>2. CASE Open(w)
    <2>1. /\ pc[w] = "prepared" /\ Goto(w, "opened")
          /\ owner' = w /\ owner \notin Workers
          /\ UNCHANGED <<status, version, known>>
      BY <1>2, StoreAssumption DEF Open, OpenNew, OpenExisting
    <2>2. \A v \in Workers : Stopped(v) /\ loop[v] = FreshLoop
      BY <2>1 DEF Journal, LoopIsSnapshot, Inductive, SingleExecution, Owns
    <2>3. /\ snapshot' = snapshot
          /\ loop' = [loop EXCEPT ![w] = snapshot]
      BY <1>2, <2>2
      DEF Open, OpenNew, OpenExisting, Journal, StoreIsCoherent, Inductive, TypeOK,
          SessionTypeOK
    <2> QED
      BY <2>1, <2>2, <2>3, StoreAssumption
      DEF Journal, LoopIsSnapshot, RunIsCurrent, StoreIsCoherent, AnswerIsSaved,
          Goto, Inductive, TypeOK, SessionTypeOK
  <1>3. CASE OpenRefused(w)
    BY <1>3, JournalForget DEF OpenRefused, Refuse, tables
  <1>4. CASE Begin(w)
    <2>1. /\ pc[w] = "opened" /\ Commit(w, "running") /\ UNCHANGED loop
          /\ \/ Goto(w, "enter") /\ Learn(w, "running")
             \/ Goto(w, "ending")
      BY <1>4 DEF Begin, Leave
    <2> QED
      BY <2>1, JournalCommit
  <1>5. CASE BeginFails(w)
    BY <1>5, JournalMove DEF BeginFails, Leave
  <1>6. CASE EnterLoop(w)
    <2>1. CASE Move(w, "completing") /\ loop[w].final /\ UNCHANGED tables
      BY <1>6, <2>1, JournalMove DEF EnterLoop, Move, Journal, LoopIsSnapshot
    <2>2. CASE /\ SnapshotExecution(w, loop[w])
               /\ Goto(w, IF loop[w].pending = {} THEN "think" ELSE "preflight")
               /\ UNCHANGED <<known, loop>>
      <3>1. /\ pc[w] = "enter" /\ loop[w] = snapshot
            /\ loop' = [loop EXCEPT ![w] = loop[w]]
        BY <1>6, <2>2
        DEF EnterLoop, Journal, LoopIsSnapshot, Inductive, TypeOK, SessionTypeOK
      <3>2. loop[w] \in Loops /\ (loop[w].final => loop[w].pending = {})
        BY <3>1
        DEF Journal, Inductive, TypeOK, SessionTypeOK, StoreIsCoherent
      <3> QED
        BY <2>2, <3>1, <3>2, JournalSave
    <2> QED
      BY <1>6, <2>1, <2>2 DEF EnterLoop
  <1> QED
    BY <1>1, <1>2, <1>3, <1>4, <1>5, <1>6 DEF Enter

LEMMA TurnJournal ==
  ASSUME Journal, Inductive', NEW w \in Workers,
         \/ Answer(w) \/ \E S \in SUBSET Calls : RequestCalls(w, S)
         \/ FinishTurn(w) \/ TurnsExhausted(w) \/ LoopFails(w)
         \/ PreflightDone(w) \/ Suspend(w)
  PROVE  Journal'
  <1> USE DEF Phases, InLoop, Stopped
  <1>1. loop[w] \in Loops
    BY DEF Journal, Inductive, TypeOK, SessionTypeOK
  <1>2. CASE Answer(w) \/ \E S \in SUBSET Calls : RequestCalls(w, S)
    <2>1. PICK S \in SUBSET Calls, f \in BOOLEAN, p \in {"completing", "preflight"} :
            /\ pc[w] = "think" /\ loop[w].turn < MaxTurns
            /\ Checkpoint(w, [turn |-> loop[w].turn + 1, pending |-> S,
                              final |-> f])
            /\ Goto(w, p)
            /\ f => S = {}
            /\ p = "completing" => f
      BY <1>2 DEF Answer, RequestCalls
    <2>2. [turn |-> loop[w].turn + 1, pending |-> S, final |-> f] \in Loops
      BY <1>1, <2>1, LoopTypes
    <2> QED
      BY <2>1, <2>2, JournalSave DEF Checkpoint
  <1>3. CASE FinishTurn(w)
    <2>1. [loop[w] EXCEPT !.pending = {}] \in Loops
      BY <1>1, LoopTypes
    <2>2. [loop[w] EXCEPT !.pending = {}].pending = {}
      BY <1>1 DEF Loops
    <2> QED
      BY <1>3, <2>1, <2>2, JournalSave DEF FinishTurn, Checkpoint
  <1>4. CASE \/ TurnsExhausted(w) \/ LoopFails(w) \/ PreflightDone(w)
             \/ Suspend(w)
    BY <1>4, JournalMove
    DEF TurnsExhausted, LoopFails, PreflightDone, Suspend, Leave, Move
  <1> QED
    BY <1>2, <1>3, <1>4

LEMMA LeavingJournal ==
  ASSUME Journal, Inductive', NEW w \in Workers,
         \/ Leaving(w) \/ Refuse(w) \/ RejectManifest(w) \/ Cancel(w)
         \/ CancelHandler(w) \/ Crash(w)
  PROVE  Journal'
  <1> USE DEF Phases, InLoop, Stopped
  <1>1. CASE CompleteRun(w)
    <2>1. /\ pc[w] = "completing" /\ Commit(w, "completed") /\ UNCHANGED loop
          /\ Goto(w, "release") \/ Goto(w, "ending")
      BY <1>1 DEF CompleteRun, Leave
    <2>2. snapshot.final
      BY <2>1 DEF Journal, StoreIsCoherent
    <2> QED
      BY <2>1, <2>2, JournalCommit
  <1>2. CASE End(w)
    <2>1. /\ pc[w] = "ending" /\ Commit(w, Target(cause[w])) /\ UNCHANGED loop
          /\ Goto(w, "release") /\ Target(cause[w]) \in {"waiting", "failed"}
      BY <1>2 DEF End, Target
    <2> QED
      BY <2>1, JournalCommit
  <1>3. CASE \/ CompleteRunFails(w) \/ Fail(w) \/ Cancel(w) \/ FailRefused(w)
             \/ EndRefused(w) \/ CancelHandler(w)
    BY <1>3, JournalMove
    DEF CompleteRunFails, Fail, Cancel, FailRefused, EndRefused, CancelHandler,
        Leave, Move
  <1>4. CASE \/ Release(w) \/ RejectManifest(w) \/ ReleaseRefused(w)
             \/ Refuse(w) \/ Crash(w)
    BY <1>4, JournalForget
    DEF Release, RejectManifest, ReleaseExecution, ReleaseRefused, Refuse, Crash,
        tables
  <1> QED
    BY <1>1, <1>2, <1>3, <1>4 DEF Leaving

\* The tasks of a turn write receipts and approvals, never the run.
LEMMA TaskJournal ==
  ASSUME Journal, Inductive', NEW w \in Workers, NEW c \in Calls,
         \/ Preflight(w, c) \/ Task(w, c) \/ GovernRejects(w, c)
         \/ ClearRejects(w, c) \/ CompleteUnknown(w, c)
  PROVE  Journal'
  <1> USE DEF Phases, InLoop, Stopped, tables
  <1>1. CASE \/ PreflightUnknown(w, c) \/ GovernUnknown(w, c)
             \/ SettleUnknown(w, c) \/ CompleteUnknown(w, c)
    BY <1>1, JournalMove
    DEF PreflightUnknown, GovernUnknown, SettleUnknown, CompleteUnknown, Abort,
        At, Leave
  <1>2. CASE \/ PreflightPass(w, c) \/ PreflightGate(w, c)
             \/ PreflightRequest(w, c) \/ Govern(w, c) \/ GovernRequest(w, c)
             \/ GovernRejects(w, c)
    BY <1>2, JournalQuiet
    DEF PreflightPass, PreflightGate, PreflightRequest, Govern, GovernRequest,
        GovernRejects, Reject, SetTask, CreateRequest
  <1>3. CASE \/ Clear(w, c) \/ ClearUsed(w, c) \/ ClearRejects(w, c)
             \/ Begun(w, c) \/ BegunRejects(w, c) \/ Invoke(w, c)
    BY <1>3, JournalQuiet
    DEF Clear, ClearUsed, ClearRejects, Begun, BegunRejects, Invoke, Reject,
        SetTask, DecideRequest, StartAction, Receipt
  <1>4. CASE \/ Settle(w, c) \/ SettleRejects(w, c) \/ Complete(w, c)
    BY <1>4, JournalQuiet
    DEF Settle, SettleRejects, Complete, Reject, SetTask, CompleteAction, Receipt
  <1> QED
    BY <1>1, <1>2, <1>3, <1>4 DEF Preflight, Task

LEMMA OperatorJournal ==
  ASSUME Journal, Inductive',
         \/ Recover
         \/ \E i \in Invocations : \/ Withdraw(i) \/ Confirm(i)
                                  \/ StrayActs(i) \/ StrayEnds(i)
         \/ \E k \in DOMAIN requests, d \in {"approved", "rejected"} : Decide(k, d)
  PROVE  Journal'
  BY JournalQuiet
  DEF Recover, RecoverExecution, Withdraw, Confirm, ReconcileAction, Receipt,
      StrayActs, StrayEnds, Decide, DecideRequest, tables, session, history

LEMMA NextJournal == StopsWorker /\ Journal /\ [Next]_vars => Journal'
  <1> SUFFICES ASSUME StopsWorker, Journal, [Next]_vars PROVE Journal'
    OBVIOUS
  <1>0. Inductive'
    BY NextInductive DEF Journal
  <1>1. CASE \E w \in Workers : Working(w) \/ Start(w) \/ Resume(w) \/ Mishap(w)
    <2>1. PICK w \in Workers : Working(w) \/ Start(w) \/ Resume(w) \/ Mishap(w)
      BY <1>1
    <2>2. CASE Enter(w) \/ Start(w) \/ Resume(w)
      BY <1>0, <2>2, EnterJournal
    <2>3. CASE Turn(w) \/ LoopFails(w)
      BY <1>0, <2>3, TurnJournal, TaskJournal DEF Turn
    <2>4. CASE Mishap(w) \/ Leaving(w)
      BY <1>0, <2>4, TurnJournal, TaskJournal, LeavingJournal DEF Mishap
    <2> QED
      BY <2>1, <2>2, <2>3, <2>4 DEF Working
  <1>2. CASE UNCHANGED vars
    BY <1>0, <1>2, JournalQuiet DEF vars, tables, session
  <1> QED
    BY <1>0, <1>1, <1>2, OperatorJournal DEF Next, Environment

-----------------------------------------------------------------------------
(* An ended run stays as it is, and the checkpoint moves forward.          *)

\* Neither the run, its checkpoint nor an effect.
LEMMA StillIsFinalAndForward ==
  ASSUME Journal, UNCHANGED <<status, snapshot, ran>>
  PROVE  Final /\ Forward
  BY DEF Journal, Inductive, TypeOK, StoreTypeOK, Loops, Final, Forward

\* The run alone, which is not ended yet.
LEMMA CommitIsFinalAndForward ==
  ASSUME Journal, status \notin Terminal, UNCHANGED snapshot
  PROVE  Final /\ Forward
  BY DEF Journal, Inductive, TypeOK, StoreTypeOK, Loops, Final, Forward

\* The owner saves a later turn, or the same one with nothing pending.
LEMMA SaveIsFinalAndForward ==
  ASSUME Journal, NEW w \in Workers, pc[w] \in InLoop, NEW next \in Loops,
         SnapshotExecution(w, next),
         \/ next.turn = loop[w].turn + 1
         \/ next = loop[w]
         \/ next = [loop[w] EXCEPT !.pending = {}]
  PROVE  Final /\ Forward
  <1>1. loop[w] = snapshot /\ snapshot' = next /\ status \notin Terminal
    BY DEF Journal, LoopIsSnapshot, RunIsCurrent, SnapshotExecution, InLoop,
           Stopped, Terminal
  <1>2. snapshot \in Loops
    BY DEF Journal, Inductive, TypeOK, StoreTypeOK
  <1> QED
    BY <1>1, <1>2 DEF Loops, Final, Forward

LEMMA EnterIsFinalAndForward ==
  ASSUME Journal, NEW w \in Workers, Enter(w) \/ Start(w) \/ Resume(w)
  PROVE  Final /\ Forward
  <1>1. CASE Start(w)
    BY <1>1, CommitIsFinalAndForward DEF Start, CreateTransition, Terminal
  <1>2. CASE Resume(w) \/ OpenRefused(w) \/ BeginFails(w)
    BY <1>2, StillIsFinalAndForward
    DEF Resume, OpenRefused, Refuse, BeginFails, tables, history
  <1>3. CASE Open(w)
    <2>1. UNCHANGED <<status, snapshot, ran>>
      BY <1>3 DEF Open, OpenNew, OpenExisting, history, Journal, StoreIsCoherent
    <2> QED
      BY <2>1, StillIsFinalAndForward
  <1>4. CASE Begin(w)
    BY <1>4, CommitIsFinalAndForward
    DEF Begin, Commit, CommitTransition, Updatable
  <1>5. CASE EnterLoop(w)
    <2>1. pc[w] \in InLoop /\ loop[w] \in Loops
      BY <1>5
      DEF EnterLoop, InLoop, Journal, Inductive, TypeOK, SessionTypeOK
    <2> QED
      BY <1>5, <2>1, StillIsFinalAndForward, SaveIsFinalAndForward
      DEF EnterLoop, tables, history
  <1> QED
    BY <1>1, <1>2, <1>3, <1>4, <1>5 DEF Enter

LEMMA TurnIsFinalAndForward ==
  ASSUME Journal, NEW w \in Workers, Turn(w) \/ LoopFails(w)
  PROVE  Final /\ Forward
  <1>1. loop[w] \in Loops
    BY DEF Journal, Inductive, TypeOK, SessionTypeOK
  <1>2. CASE Answer(w) \/ \E S \in SUBSET Calls : RequestCalls(w, S)
    <2>1. PICK S \in SUBSET Calls, f \in BOOLEAN :
            /\ pc[w] = "think" /\ loop[w].turn < MaxTurns
            /\ SnapshotExecution(w, [turn |-> loop[w].turn + 1, pending |-> S,
                                     final |-> f])
      BY <1>2 DEF Answer, RequestCalls, Checkpoint
    <2>2. [turn |-> loop[w].turn + 1, pending |-> S, final |-> f] \in Loops
      BY <1>1, <2>1, LoopTypes
    <2> QED
      BY <2>1, <2>2, SaveIsFinalAndForward DEF InLoop
  <1>3. CASE FinishTurn(w)
    <2>1. [loop[w] EXCEPT !.pending = {}] \in Loops
      BY <1>1, LoopTypes
    <2> QED
      BY <1>3, <2>1, SaveIsFinalAndForward DEF FinishTurn, Checkpoint, InLoop
  <1>4. CASE \/ TurnsExhausted(w) \/ LoopFails(w) \/ PreflightDone(w)
             \/ Suspend(w)
    BY <1>4, StillIsFinalAndForward
    DEF TurnsExhausted, LoopFails, PreflightDone, Suspend, tables, history
  <1>5. ASSUME NEW c \in Calls, Preflight(w, c) \/ Task(w, c)
        PROVE  Final /\ Forward
    <2>1. CASE Invoke(w, c)
      <3>1. status \notin Terminal /\ UNCHANGED snapshot
        BY <2>1
        DEF Invoke, At, Journal, RunIsCurrent, InLoop, Terminal, tables
      <3> QED
        BY <3>1, CommitIsFinalAndForward
    <2>2. CASE Preflight(w, c)
      BY <2>2, StillIsFinalAndForward
      DEF Preflight, PreflightUnknown, PreflightPass, PreflightGate,
          PreflightRequest, CreateRequest, tables, history
    <2>3. CASE \/ Govern(w, c) \/ GovernUnknown(w, c) \/ GovernRequest(w, c)
               \/ Clear(w, c) \/ ClearUsed(w, c) \/ Begun(w, c)
               \/ BegunRejects(w, c)
      BY <2>3, StillIsFinalAndForward
      DEF Govern, GovernUnknown, GovernRequest, Clear, ClearUsed, Begun,
          BegunRejects, Abort, Reject, CreateRequest, DecideRequest,
          StartAction, Receipt, tables, history
    <2>4. CASE \/ Settle(w, c) \/ SettleUnknown(w, c) \/ SettleRejects(w, c)
               \/ Complete(w, c)
      BY <2>4, StillIsFinalAndForward
      DEF Settle, SettleUnknown, SettleRejects, Complete, Abort, Reject,
          CompleteAction, Receipt, tables, history
    <2> QED
      BY <1>5, <2>1, <2>2, <2>3, <2>4 DEF Task
  <1> QED
    BY <1>2, <1>3, <1>4, <1>5 DEF Turn

LEMMA LeavingIsFinalAndForward ==
  ASSUME Journal, NEW w \in Workers, Leaving(w) \/ Mishap(w)
  PROVE  Final /\ Forward
  <1>1. CASE CompleteRun(w) \/ End(w)
    BY <1>1, CommitIsFinalAndForward
    DEF CompleteRun, End, Commit, CommitTransition, Updatable
  <1>2. CASE \/ CompleteRunFails(w) \/ Fail(w) \/ FailRefused(w)
             \/ EndRefused(w) \/ Release(w) \/ ReleaseRefused(w)
    BY <1>2, StillIsFinalAndForward
    DEF CompleteRunFails, Fail, FailRefused, EndRefused, Release,
        ReleaseRefused, ReleaseExecution, tables, history
  <1>3. CASE Mishap(w)
    BY <1>3, StillIsFinalAndForward, TurnIsFinalAndForward
    DEF Mishap, Refuse, RejectManifest, ReleaseExecution, GovernRejects,
        ClearRejects, CompleteUnknown, Reject, Abort, Cancel, CancelHandler,
        Crash, tables, history
  <1> QED
    BY <1>1, <1>2, <1>3 DEF Leaving

\* A thread left behind before the end may still act.
LEMMA StrayIsFinalAndForward ==
  ASSUME Journal, NEW i \in Invocations, StrayActs(i) \/ StrayEnds(i)
  PROVE  Final /\ Forward
  <1>1. UNCHANGED <<status, snapshot>>
    BY DEF StrayActs, StrayEnds, tables
  <1>2. \A j \in Invocations :
          ran'[j] = ran[j] \/ (ran'[j] = ran[j] + 1 /\ stray'[j] = stray[j] - 1)
    BY DEF StrayActs, StrayEnds, history, Journal, Inductive, TypeOK,
           SessionTypeOK, HistoryTypeOK
  <1> QED
    BY <1>1, <1>2
    DEF Final, Forward, Journal, Inductive, TypeOK, StoreTypeOK, Loops

LEMMA NextIsFinalAndForward == Journal /\ [Next]_vars => Final /\ Forward
  <1> SUFFICES ASSUME Journal, [Next]_vars PROVE Final /\ Forward
    OBVIOUS
  <1>1. CASE \E w \in Workers : Working(w) \/ Start(w) \/ Resume(w) \/ Mishap(w)
    BY <1>1, EnterIsFinalAndForward, TurnIsFinalAndForward,
       LeavingIsFinalAndForward
    DEF Working
  <1>2. CASE Recover \/ \E i \in Invocations : Withdraw(i) \/ Confirm(i)
    BY <1>2, StillIsFinalAndForward
    DEF Recover, RecoverExecution, Withdraw, Confirm, ReconcileAction, Receipt,
        session, history
  <1>3. CASE \E k \in DOMAIN requests, d \in {"approved", "rejected"} : Decide(k, d)
    BY <1>3, StillIsFinalAndForward DEF Decide, DecideRequest, session, history
  <1>4. CASE UNCHANGED vars
    BY <1>4, StillIsFinalAndForward DEF vars, tables, history
  <1> QED
    BY <1>1, <1>2, <1>3, <1>4, StrayIsFinalAndForward DEF Next, Environment

-----------------------------------------------------------------------------
(* What follows while the operator stops a worker before recovering a run. *)

\* A run is completed only from an answer the store already holds, so that a
\* resume returns it and never asks the model again.
THEOREM AnswersAreSaved == ASSUME StopsWorker PROVE Spec => []AnswerIsSaved
  <1>1. Init => Journal
    BY InitJournal
  <1>2. Journal /\ [Next]_vars => Journal'
    BY NextJournal
  <1>3. Journal => AnswerIsSaved
    BY DEF Journal
  <1> QED
    BY <1>1, <1>2, <1>3, PTL DEF Spec

\* Once a run has ended, no worker that read it earlier changes its status or
\* its checkpoint, or has an external effect; what a thread left behind before
\* the end still does is all that happens.
THEOREM EndedIsFinal == ASSUME StopsWorker PROVE Spec => EndIsFinal
  <1>1. Init => Journal
    BY InitJournal
  <1>2. Journal /\ [Next]_vars => Journal'
    BY NextJournal
  <1>3. Journal /\ [Next]_vars => [Final]_vars
    BY NextIsFinalAndForward
  <1> QED
    BY <1>1, <1>2, <1>3, PTL DEF Spec, EndIsFinal

\* No save takes the durable checkpoint back, whoever loaded it before.
THEOREM CheckpointsAdvance == ASSUME StopsWorker PROVE Spec => CheckpointForward
  <1>1. Init => Journal
    BY InitJournal
  <1>2. Journal /\ [Next]_vars => Journal'
    BY NextJournal
  <1>3. Journal /\ [Next]_vars => [Forward]_vars
    BY NextIsFinalAndForward
  <1> QED
    BY <1>1, <1>2, <1>3, PTL DEF Spec, CheckpointForward

-----------------------------------------------------------------------------
(* No effect is left in doubt.                                             *)

(***************************************************************************)
(* This needs two assumptions more: a store that raises on the way makes a *)
(* task reject its call over a started receipt, and so does a policy that  *)
(* denies on resume what it allowed before (DurableRun_denied_on_resume).  *)
(***************************************************************************)
Undisturbed == StopsWorker /\ ~StoreMayFail /\ ~PolicyTightens

\* Every task belongs to a pending call of the turn, and what it has come to
\* says what its receipt is.
TaskReceipts ==
  \A w \in Workers, c \in Calls : task[w][c] # "none" =>
    /\ pc[w] \in {"preflight", "dispatch"}
    /\ c \in loop[w].pending
    /\ task[w][c] \in {"ready", "cleared"} => receipt[Id(w, c)] = "absent"
    /\ task[w][c] = "error" => receipt[Id(w, c)] # "started"
    /\ task[w][c] = "done" => receipt[Id(w, c)] = "completed"

\* The model is asked again only when every call has been finished.
NothingPending ==
  \A w \in Workers : pc[w] = "think" => loop[w].pending = {}

\* A run is about to fail only when no receipt is open.
FailureIsSettled ==
  \A w \in Workers : pc[w] = "ending" /\ cause[w] = "failed" => ~Unresolved

Resolved ==
  /\ Journal /\ TaskReceipts /\ NothingPending /\ FailureIsSettled
  /\ InDoubtIsPending /\ NothingInDoubtAtEnd

LEMMA InitResolved == Init => Resolved
  BY InitJournal
  DEF Init, StoreInit, Resolved, TaskReceipts, NothingPending, FailureIsSettled,
      InDoubtIsPending, NothingInDoubtAtEnd, NoTasks, Unresolved

\* Receipts stay, and no task comes to anything.
LEMMA ResolvedQuiet ==
  ASSUME Resolved, Journal', UNCHANGED <<pc, loop, task, cause, snapshot, receipt>>,
         status' \in Terminal => status' = status
  PROVE  Resolved'
  BY DEF Resolved, TaskReceipts, NothingPending, FailureIsSettled, Id,
         InDoubtIsPending, NothingInDoubtAtEnd, Unresolved

\* A worker outside its tasks goes on: nothing of the store changes, or the
\* run is not ended by it, or nothing is in doubt.
LEMMA ResolvedGoto ==
  ASSUME Resolved, Journal', NEW w \in Workers, NEW p \in Phases, Goto(w, p),
         p # "ending", p = "think" => loop[w].pending = {},
         pc[w] \in {"preflight", "dispatch"} => p \in {"preflight", "dispatch"},
         UNCHANGED <<loop, task, cause, snapshot, receipt>>,
         status' \in Terminal => status' = status \/ ~Unresolved
  PROVE  Resolved'
  <1>0. pc' = [pc EXCEPT ![w] = p] /\ pc \in [Workers -> Phases]
    BY DEF Goto, Resolved, Journal, Inductive, TypeOK, SessionTypeOK
  <1>1. TaskReceipts'
    BY <1>0 DEF Resolved, TaskReceipts, Id
  <1>2. NothingPending' /\ FailureIsSettled'
    BY <1>0 DEF Resolved, NothingPending, FailureIsSettled, Unresolved
  <1>3. InDoubtIsPending' /\ NothingInDoubtAtEnd'
    BY DEF Resolved, InDoubtIsPending, NothingInDoubtAtEnd, Unresolved
  <1> QED
    BY <1>1, <1>2, <1>3 DEF Resolved

\* The turn is left with its tasks, the receipts stay.
LEMMA ResolvedLeave ==
  ASSUME Resolved, Journal', NEW w \in Workers, NEW p \in {"failing", "ending"},
         NEW why, Leave(w, p, why), p = "ending" /\ why = "failed" => ~Unresolved,
         UNCHANGED <<snapshot, receipt>>,
         status' \in Terminal => status' = status \/ ~Unresolved
  PROVE  Resolved'
  <1> USE DEF Journal, Inductive, TypeOK, SessionTypeOK
  <1>1. TaskReceipts'
    BY DEF Resolved, TaskReceipts, Id, Leave, Goto, NoTasks
  <1>2. NothingPending' /\ FailureIsSettled'
    BY DEF Resolved, NothingPending, FailureIsSettled, Leave, Goto, Unresolved
  <1>3. InDoubtIsPending' /\ NothingInDoubtAtEnd'
    BY DEF Resolved, InDoubtIsPending, NothingInDoubtAtEnd, Unresolved
  <1> QED
    BY <1>1, <1>2, <1>3 DEF Resolved

LEMMA ResolvedForget ==
  ASSUME Resolved, Journal', NEW w \in Workers, Forget(w),
         UNCHANGED <<status, snapshot, receipt>>
  PROVE  Resolved'
  <1> USE DEF Journal, Inductive, TypeOK, SessionTypeOK
  <1>1. TaskReceipts'
    BY DEF Resolved, TaskReceipts, Id, Forget, NoTasks
  <1>2. NothingPending' /\ FailureIsSettled'
    BY DEF Resolved, NothingPending, FailureIsSettled, Forget, Unresolved
  <1>3. InDoubtIsPending' /\ NothingInDoubtAtEnd'
    BY DEF Resolved, InDoubtIsPending, NothingInDoubtAtEnd, Unresolved
  <1> QED
    BY <1>1, <1>2, <1>3 DEF Resolved

\* A task moves, and its receipt with it or not.
LEMMA ResolvedTask ==
  ASSUME Resolved, Journal', NEW w \in Workers, NEW c \in Calls,
         task[w][c] # "none", NEW s \in TaskStates, NEW r \in ReceiptStatus,
         task' = [task EXCEPT ![w][c] = s],
         receipt' = [receipt EXCEPT ![Id(w, c)] = r],
         UNCHANGED <<pc, loop, cause, status, snapshot>>,
         s \in {"ready", "cleared"} => r = "absent",
         s = "error" => r # "started",
         s = "done" => r = "completed",
         r = "started" => pc[w] = "dispatch"
  PROVE  Resolved'
  <1>0. /\ pc \in [Workers -> Phases] /\ task \in [Workers -> [Calls -> TaskStates]]
        /\ receipt \in [Invocations -> ReceiptStatus]
    BY DEF Resolved, Journal, Inductive, TypeOK, SessionTypeOK, StoreTypeOK
  <1>1. /\ pc[w] \in {"preflight", "dispatch"} /\ ~Stopped(w)
        /\ c \in loop[w].pending /\ loop[w] = snapshot
    BY DEF Resolved, TaskReceipts, Stopped, Journal, LoopIsSnapshot
  <1>2. Id(w, c) \in Invocations
    BY <1>1, IdType DEF Resolved, Journal, Inductive, LoopsStarted
  <1>3. \A v \in Workers \ {w} : Stopped(v) /\ \A d \in Calls : task[v][d] = "none"
    BY <1>1, OthersStopped DEF Resolved, Journal, TaskReceipts, Stopped
  <1>4. \A d \in Calls \ {c} : Id(w, d) # Id(w, c)
    BY DEF Id
  <1>5. TaskReceipts'
    <2>1. task'[w][c] = s /\ receipt'[Id(w, c)] = r
      BY <1>0, <1>2
    <2>2. \A d \in Calls \ {c} : /\ task'[w][d] = task[w][d]
                                 /\ receipt'[Id(w, d)] = receipt[Id(w, d)]
      BY <1>0, <1>2, <1>4
    <2>3. \A v \in Workers \ {w}, d \in Calls : task'[v][d] = "none"
      BY <1>0, <1>3
    <2>4. \A v \in Workers, d \in Calls : Id(v, d)' = Id(v, d)
      BY DEF Id
    <2> QED
      BY <1>1, <2>1, <2>2, <2>3, <2>4 DEF Resolved, TaskReceipts
  <1>6. NothingPending'
    BY DEF Resolved, NothingPending
  <1>7. FailureIsSettled'
    BY <1>1, <1>3 DEF FailureIsSettled, Stopped
  <1>8. InDoubtIsPending'
    BY <1>0, <1>1, <1>2 DEF Resolved, InDoubtIsPending, Id
  <1>9. NothingInDoubtAtEnd'
    BY <1>1 DEF Resolved, Journal, RunIsCurrent, InLoop, NothingInDoubtAtEnd, Terminal
  <1> QED
    BY <1>5, <1>6, <1>7, <1>8, <1>9 DEF Resolved

\* The owner saves the checkpoint it goes on with, and whatever is in doubt is
\* pending in it; its calls, if any, are yet to be checked.
LEMMA ResolvedSave ==
  ASSUME Resolved, Journal', NEW w \in Workers, pc[w] \in InLoop,
         NEW next \in Loops, SnapshotExecution(w, next),
         loop' = [loop EXCEPT ![w] = next],
         NEW S \in SUBSET next.pending,
         task' = [task EXCEPT ![w] = [c \in Calls |-> IF c \in S THEN "unchecked"
                                                               ELSE "none"]],
         NEW p \in InLoop, Goto(w, p), S # {} => p = "preflight",
         p = "think" => next.pending = {},
         \A i \in Invocations : receipt[i] = "started" =>
           i[1] = next.turn /\ i[2] \in next.pending
  PROVE  Resolved'
  <1>0. /\ pc \in [Workers -> Phases] /\ task \in [Workers -> [Calls -> TaskStates]]
        /\ loop \in [Workers -> Loops]
    BY DEF Resolved, Journal, Inductive, TypeOK, SessionTypeOK
  <1>1. /\ pc'[w] = p /\ loop'[w] = next /\ snapshot' = next
        /\ task'[w] = [c \in Calls |-> IF c \in S THEN "unchecked" ELSE "none"]
        /\ \A v \in Workers \ {w} : /\ pc'[v] = pc[v] /\ loop'[v] = loop[v]
                                   /\ task'[v] = task[v]
        /\ UNCHANGED <<status, receipt>>
    BY <1>0 DEF Goto, SnapshotExecution
  <1>2. \A v \in Workers \ {w} : Stopped(v) /\ Stopped(v)'
    BY <1>1, OthersStopped DEF Resolved, Journal, Stopped, InLoop
  <1>3. TaskReceipts'
    <2>1. \A v \in Workers \ {w}, c \in Calls : task'[v][c] = "none"
      BY <1>1, <1>2 DEF Resolved, TaskReceipts, Stopped
    <2>2. \A c \in Calls : task'[w][c] # "none" =>
            c \in S /\ task'[w][c] = "unchecked"
      BY <1>1
    <2> QED
      BY <1>1, <2>1, <2>2 DEF TaskReceipts
  <1>4. NothingPending'
    BY <1>1, <1>2 DEF NothingPending, Stopped
  <1>5. FailureIsSettled'
    BY <1>1, <1>2 DEF FailureIsSettled, Stopped, InLoop
  <1>6. InDoubtIsPending'
    BY <1>1 DEF InDoubtIsPending
  <1>7. NothingInDoubtAtEnd'
    BY <1>1 DEF Resolved, NothingInDoubtAtEnd, Unresolved
  <1> QED
    BY <1>3, <1>4, <1>5, <1>6, <1>7 DEF Resolved

LEMMA EnterResolved ==
  ASSUME Resolved, Journal', NEW w \in Workers, Enter(w) \/ Start(w) \/ Resume(w)
  PROVE  Resolved'
  <1> USE DEF Phases
  <1>1. CASE Start(w) \/ Resume(w)
    BY <1>1, ResolvedGoto DEF Start, Resume, CreateTransition, Terminal, tables
  <1>2. CASE Open(w)
    <2>1. /\ pc[w] = "prepared" /\ pc' = [pc EXCEPT ![w] = "opened"]
          /\ owner \notin Workers
          /\ UNCHANGED <<status, task, cause, receipt>>
      BY <1>2, StoreAssumption DEF Open, OpenNew, OpenExisting, Goto
    <2>2. UNCHANGED snapshot
      BY <1>2 DEF Open, OpenNew, OpenExisting, Resolved, Journal, StoreIsCoherent
    <2>3. \A v \in Workers : Stopped(v)
      BY <2>1 DEF Resolved, Journal, Inductive, SingleExecution, Owns
    <2>4. \A v \in Workers : Stopped(v)' \/ pc'[v] = "opened"
      BY <2>1, <2>3
      DEF Stopped, Resolved, Journal, Inductive, TypeOK, SessionTypeOK
    <2>5. TaskReceipts'
      BY <2>1, <2>3 DEF Resolved, TaskReceipts, Stopped
    <2>6. NothingPending' /\ FailureIsSettled'
      BY <2>4 DEF NothingPending, FailureIsSettled, Stopped
    <2>7. InDoubtIsPending' /\ NothingInDoubtAtEnd'
      BY <2>1, <2>2
      DEF Resolved, InDoubtIsPending, NothingInDoubtAtEnd, Unresolved
    <2> QED
      BY <2>5, <2>6, <2>7 DEF Resolved
  <1>3. CASE OpenRefused(w)
    BY <1>3, ResolvedForget DEF OpenRefused, Refuse, tables
  <1>4. CASE Begin(w)
    BY <1>4, ResolvedGoto, ResolvedLeave
    DEF Begin, Commit, CommitTransition, Terminal
  <1>5. CASE BeginFails(w)
    BY <1>5, ResolvedLeave DEF BeginFails, tables
  <1>6. CASE EnterLoop(w)
    <2>1. CASE Move(w, "completing") /\ UNCHANGED tables
      BY <1>6, <2>1, ResolvedGoto DEF EnterLoop, Move, tables
    <2>2. CASE /\ SnapshotExecution(w, loop[w])
               /\ Pending(w, loop[w].pending)
               /\ Goto(w, IF loop[w].pending = {} THEN "think" ELSE "preflight")
               /\ UNCHANGED loop
      <3>1. pc[w] = "enter" /\ loop[w] \in Loops /\ loop[w] = snapshot
        BY <1>6
        DEF EnterLoop, Resolved, Journal, LoopIsSnapshot, Stopped, Inductive, TypeOK, SessionTypeOK
      <3>2. loop' = [loop EXCEPT ![w] = loop[w]]
        BY <2>2 DEF Resolved, Journal, Inductive, TypeOK, SessionTypeOK
      <3>3. \A i \in Invocations : receipt[i] = "started" =>
              i[1] = loop[w].turn /\ i[2] \in loop[w].pending
        BY <3>1 DEF Resolved, InDoubtIsPending
      <3> QED
        BY <2>2, <3>1, <3>2, <3>3, ResolvedSave DEF InLoop, Pending
    <2> QED
      BY <1>6, <2>1, <2>2 DEF EnterLoop
  <1> QED
    BY <1>1, <1>2, <1>3, <1>4, <1>5, <1>6 DEF Enter

LEMMA TurnResolved ==
  ASSUME Resolved, Journal', NEW w \in Workers,
         \/ Answer(w) \/ \E S \in SUBSET Calls : RequestCalls(w, S)
         \/ FinishTurn(w) \/ TurnsExhausted(w) \/ LoopFails(w)
         \/ PreflightDone(w) \/ Suspend(w)
  PROVE  Resolved'
  <1> USE DEF Phases
  <1>1. loop[w] \in Loops /\ task \in [Workers -> [Calls -> TaskStates]]
    BY DEF Resolved, Journal, Inductive, TypeOK, SessionTypeOK
  <1>2. ASSUME pc[w] = "think"
        PROVE  ~Unresolved /\ \A c \in Calls : task[w][c] = "none"
    BY <1>2
    DEF Resolved, NothingPending, InDoubtIsPending, Journal, LoopIsSnapshot,
        Stopped, Unresolved, TaskReceipts
  <1>3. CASE Answer(w)
    <2> DEFINE next == [turn |-> loop[w].turn + 1, pending |-> {}, final |-> TRUE]
    <2>1. /\ pc[w] = "think" /\ next \in Loops /\ SnapshotExecution(w, next)
          /\ loop' = [loop EXCEPT ![w] = next] /\ Goto(w, "completing")
      BY <1>1, <1>3, LoopTypes DEF Answer, Checkpoint
    <2>2. task' = [task EXCEPT ![w] = [c \in Calls |-> IF c \in {} THEN "unchecked"
                                                               ELSE "none"]]
      BY <1>1, <1>2, <1>3 DEF Answer
    <2> QED
      BY <1>2, <2>1, <2>2, ResolvedSave DEF InLoop, Unresolved
  <1>4. ASSUME NEW S \in SUBSET Calls, RequestCalls(w, S)
        PROVE  Resolved'
    <2> DEFINE next == [turn |-> loop[w].turn + 1, pending |-> S, final |-> FALSE]
    <2>1. /\ pc[w] = "think" /\ next \in Loops /\ SnapshotExecution(w, next)
          /\ loop' = [loop EXCEPT ![w] = next] /\ Goto(w, "preflight")
          /\ S \in SUBSET next.pending
      BY <1>1, <1>4, LoopTypes DEF RequestCalls, Checkpoint
    <2>2. task' = [task EXCEPT ![w] = [c \in Calls |-> IF c \in S THEN "unchecked"
                                                               ELSE "none"]]
      BY <1>4 DEF RequestCalls, Pending
    <2> QED
      BY <1>2, <2>1, <2>2, ResolvedSave DEF InLoop, Unresolved
  <1>5. CASE FinishTurn(w)
    <2> DEFINE next == [loop[w] EXCEPT !.pending = {}]
    <2>1. /\ pc[w] = "dispatch" /\ next \in Loops /\ SnapshotExecution(w, next)
          /\ loop' = [loop EXCEPT ![w] = next] /\ Goto(w, "think")
          /\ next.pending = {}
      BY <1>1, <1>5, LoopTypes DEF FinishTurn, Checkpoint, Loops
    <2>2. task' = [task EXCEPT ![w] = [c \in Calls |-> IF c \in {} THEN "unchecked"
                                                               ELSE "none"]]
      BY <1>5 DEF FinishTurn, NoTasks
    <2>3. ~Unresolved
      <3>1. loop[w] = snapshot
        BY <2>1 DEF Resolved, Journal, LoopIsSnapshot, Stopped
      <3>2. \A c \in loop[w].pending : receipt[Id(w, c)] # "started"
        BY <1>1, <1>5 DEF FinishTurn, Resolved, TaskReceipts, Loops
      <3>3. \A i \in Invocations : i = <<i[1], i[2]>>
        BY DEF Invocations
      <3> QED
        BY <3>1, <3>2, <3>3 DEF Unresolved, Resolved, InDoubtIsPending, Id
    <2> QED
      BY <2>1, <2>2, <2>3, ResolvedSave DEF InLoop, Unresolved
  <1>6. CASE TurnsExhausted(w) \/ LoopFails(w) \/ Suspend(w)
    BY <1>6, ResolvedLeave DEF TurnsExhausted, LoopFails, Suspend, tables
  <1>7. CASE PreflightDone(w)
    BY <1>7, ResolvedLeave, ResolvedGoto DEF PreflightDone, Move, tables
  <1> QED
    BY <1>3, <1>4, <1>5, <1>6, <1>7

LEMMA LeavingResolved ==
  ASSUME Resolved, Journal', NEW w \in Workers,
         \/ Leaving(w) \/ Refuse(w) \/ RejectManifest(w) \/ Cancel(w)
         \/ CancelHandler(w) \/ Crash(w)
  PROVE  Resolved'
  <1> USE DEF Phases
  <1>1. CASE CompleteRun(w)
    <2>1. pc[w] = "completing"
      BY <1>1 DEF CompleteRun
    <2>2. ~Unresolved
      BY <2>1
      DEF Resolved, Journal, StoreIsCoherent, InDoubtIsPending, Unresolved
    <2> QED
      BY <1>1, <2>1, <2>2, ResolvedGoto, ResolvedLeave
      DEF CompleteRun, Commit, CommitTransition
  <1>2. CASE End(w)
    <2>1. Target(cause[w]) \in Terminal => ~Unresolved
      BY <1>2 DEF End, Target, Terminal, Resolved, FailureIsSettled
    <2> QED
      BY <1>2, <2>1, ResolvedGoto DEF End, Commit, CommitTransition
  <1>3. CASE CompleteRunFails(w) \/ Fail(w) \/ Cancel(w)
    BY <1>3, ResolvedLeave DEF CompleteRunFails, Fail, Cancel, tables
  <1>4. CASE FailRefused(w) \/ EndRefused(w) \/ CancelHandler(w)
    BY <1>4, ResolvedGoto DEF FailRefused, EndRefused, CancelHandler, Move, tables
  <1>5. CASE \/ Release(w) \/ RejectManifest(w) \/ ReleaseRefused(w)
             \/ Refuse(w) \/ Crash(w)
    BY <1>5, ResolvedForget
    DEF Release, RejectManifest, ReleaseExecution, ReleaseRefused, Refuse, Crash,
        tables
  <1> QED
    BY <1>1, <1>2, <1>3, <1>4, <1>5 DEF Leaving

\* A task moves, its receipt stays.
LEMMA ResolvedTaskAlone ==
  ASSUME Resolved, Journal', NEW w \in Workers, NEW c \in Calls,
         task[w][c] # "none", NEW s \in TaskStates,
         task' = [task EXCEPT ![w][c] = s],
         UNCHANGED <<pc, loop, cause, status, snapshot, receipt>>,
         s \in {"ready", "cleared"} => receipt[Id(w, c)] = "absent",
         s = "error" => receipt[Id(w, c)] # "started",
         s = "done" => receipt[Id(w, c)] = "completed"
  PROVE  Resolved'
  <1>1. /\ pc \in [Workers -> Phases] /\ task \in [Workers -> [Calls -> TaskStates]]
        /\ \A v \in Workers, d \in Calls : Id(v, d)' = Id(v, d)
    BY DEF Resolved, Journal, Inductive, TypeOK, SessionTypeOK, Id
  <1>2. TaskReceipts'
    BY <1>1 DEF Resolved, TaskReceipts
  <1>3. NothingPending' /\ FailureIsSettled'
    BY DEF Resolved, NothingPending, FailureIsSettled, Unresolved
  <1>4. InDoubtIsPending' /\ NothingInDoubtAtEnd'
    BY DEF Resolved, InDoubtIsPending, NothingInDoubtAtEnd, Unresolved
  <1> QED
    BY <1>2, <1>3, <1>4 DEF Resolved

LEMMA TaskResolved ==
  ASSUME Undisturbed, Resolved, Journal', NEW w \in Workers, NEW c \in Calls,
         \/ Preflight(w, c) \/ Task(w, c) \/ GovernRejects(w, c)
         \/ ClearRejects(w, c) \/ CompleteUnknown(w, c)
  PROVE  Resolved'
  <1> USE DEF TaskStates, Dispatching, Finished
  <1>1. ASSUME task[w][c] # "none"
        PROVE  /\ Owns(w) /\ ~Fault(w)
               /\ MayDeny(Id(w, c)) => receipt[Id(w, c)] = "absent"
               /\ task[w][c] \in {"ready", "cleared"} => receipt[Id(w, c)] = "absent"
    BY <1>1
    DEF Undisturbed, Resolved, TaskReceipts, Journal, Inductive, SingleExecution,
        Stopped, Fault, MayDeny
  <1>2. CASE \/ PreflightUnknown(w, c) \/ GovernUnknown(w, c)
             \/ SettleUnknown(w, c) \/ CompleteUnknown(w, c)
    BY <1>2, ResolvedLeave
    DEF PreflightUnknown, GovernUnknown, SettleUnknown, CompleteUnknown, Abort,
        tables
  <1>3. CASE \/ PreflightPass(w, c) \/ PreflightGate(w, c)
             \/ PreflightRequest(w, c)
    BY <1>3, ResolvedTaskAlone
    DEF PreflightPass, PreflightGate, PreflightRequest, SetTask, CreateRequest,
        tables
  <1>4. CASE Govern(w, c)
    <2>1. task[w][c] # "none" /\ UNCHANGED <<pc, loop, cause, status, snapshot, receipt>>
      BY <1>4 DEF Govern, At, SetTask, tables
    <2>2. PICK s \in TaskStates :
            /\ task' = [task EXCEPT ![w][c] = s]
            /\ s # "cleared"
            /\ s = "ready" => receipt[Id(w, c)] = "absent"
            /\ s = "error" => receipt[Id(w, c)] # "started"
            /\ s = "done" => receipt[Id(w, c)] = "completed"
      BY <1>4 DEF Govern, SetTask
    <2> QED
      BY <2>1, <2>2, ResolvedTaskAlone
  <1>5. CASE GovernRejects(w, c)
    BY <1>1, <1>5, ResolvedTaskAlone
    DEF GovernRejects, At, Reject, SetTask, tables
  <1>6. CASE GovernRequest(w, c) \/ Clear(w, c)
    BY <1>1, <1>6, ResolvedTaskAlone
    DEF GovernRequest, Clear, At, SetTask, CreateRequest, DecideRequest, tables
  <1>7. CASE ClearUsed(w, c) \/ ClearRejects(w, c)
    BY <1>1, <1>7, ResolvedTaskAlone
    DEF ClearUsed, ClearRejects, At, Reject, SetTask, tables
  <1>8. CASE Begun(w, c)
    BY <1>8, ResolvedTask
    DEF Begun, At, SetTask, StartAction, Receipt, ReceiptStatus
  <1>9. CASE BegunRejects(w, c) \/ SettleRejects(w, c)
    BY <1>1, <1>9 DEF BegunRejects, SettleRejects, At
  <1>10. CASE Invoke(w, c) \/ Settle(w, c)
    BY <1>10, ResolvedTaskAlone DEF Invoke, Settle, At, SetTask, tables
  <1>11. CASE Complete(w, c)
    BY <1>11, ResolvedTask
    DEF Complete, At, SetTask, CompleteAction, Receipt, ReceiptStatus
  <1> QED
    BY <1>2, <1>3, <1>4, <1>5, <1>6, <1>7, <1>8, <1>9, <1>10, <1>11
    DEF Preflight, Task

\* An operator settles receipts only while nobody owns the run.
LEMMA OperatorResolved ==
  ASSUME Resolved, Journal',
         \/ Recover
         \/ \E i \in Invocations : \/ Withdraw(i) \/ Confirm(i)
                                  \/ StrayActs(i) \/ StrayEnds(i)
         \/ \E k \in DOMAIN requests, d \in {"approved", "rejected"} : Decide(k, d)
  PROVE  Resolved'
  <1>1. CASE \E i \in Invocations : Withdraw(i) \/ Confirm(i)
    <2>1. PICK i \in Invocations, r \in {"absent", "completed"} :
            /\ owner = Free
            /\ receipt' = [receipt EXCEPT ![i] = r]
            /\ UNCHANGED <<pc, loop, task, cause, status, snapshot>>
      BY <1>1 DEF Withdraw, Confirm, ReconcileAction, Receipt, session
    <2>2. \A w \in Workers : Stopped(w)
      BY <2>1, StoreAssumption
      DEF Resolved, Journal, Inductive, SingleExecution, Owns
    <2>3. \A j \in Invocations : receipt'[j] = "started" => receipt[j] = "started"
      <3>1. receipt \in [Invocations -> ReceiptStatus]
        BY DEF Resolved, Journal, Inductive, TypeOK, StoreTypeOK
      <3> QED
        BY <2>1, <3>1
    <2>4. TaskReceipts'
      BY <2>1, <2>2 DEF Resolved, TaskReceipts, Stopped
    <2>5. NothingPending' /\ FailureIsSettled'
      BY <2>1, <2>2 DEF NothingPending, FailureIsSettled, Stopped
    <2>6. InDoubtIsPending' /\ NothingInDoubtAtEnd'
      BY <2>1, <2>3
      DEF Resolved, InDoubtIsPending, NothingInDoubtAtEnd, Unresolved
    <2> QED
      BY <2>4, <2>5, <2>6 DEF Resolved
  <1>2. CASE \/ Recover
             \/ \E i \in Invocations : StrayActs(i) \/ StrayEnds(i)
             \/ \E k \in DOMAIN requests, d \in {"approved", "rejected"} : Decide(k, d)
    BY <1>2, ResolvedQuiet
    DEF Recover, RecoverExecution, StrayActs, StrayEnds, Decide, DecideRequest,
        tables, session
  <1> QED
    BY <1>1, <1>2

LEMMA NextResolved == Undisturbed /\ Resolved /\ [Next]_vars => Resolved'
  <1> SUFFICES ASSUME Undisturbed, Resolved, [Next]_vars PROVE Resolved'
    OBVIOUS
  <1>0. Journal'
    BY NextJournal DEF Resolved, Undisturbed
  <1>1. CASE \E w \in Workers : Working(w) \/ Start(w) \/ Resume(w) \/ Mishap(w)
    <2>1. PICK w \in Workers : Working(w) \/ Start(w) \/ Resume(w) \/ Mishap(w)
      BY <1>1
    <2>2. CASE Enter(w) \/ Start(w) \/ Resume(w)
      BY <1>0, <2>2, EnterResolved
    <2>3. CASE Turn(w) \/ LoopFails(w)
      BY <1>0, <2>3, TurnResolved, TaskResolved DEF Turn
    <2>4. CASE Mishap(w) \/ Leaving(w)
      BY <1>0, <2>4, TurnResolved, TaskResolved, LeavingResolved DEF Mishap
    <2> QED
      BY <2>1, <2>2, <2>3, <2>4 DEF Working
  <1>2. CASE UNCHANGED vars
    BY <1>0, <1>2, ResolvedQuiet DEF vars, tables, session
  <1> QED
    BY <1>0, <1>1, <1>2, OperatorResolved DEF Next, Environment

\* Whatever is in doubt is pending in the snapshot a resume loads, so that the
\* resume meets its receipt before the model is asked again.
THEOREM DoubtIsPending == ASSUME Undisturbed PROVE Spec => []InDoubtIsPending
  <1>1. Init => Resolved
    BY InitResolved
  <1>2. Resolved /\ [Next]_vars => Resolved'
    BY NextResolved
  <1>3. Resolved => InDoubtIsPending
    BY DEF Resolved
  <1> QED
    BY <1>1, <1>2, <1>3, PTL DEF Spec

\* A run that has ended leaves no effect in doubt.
THEOREM EndLeavesNoDoubt == ASSUME Undisturbed PROVE Spec => []NothingInDoubtAtEnd
  <1>1. Init => Resolved
    BY InitResolved
  <1>2. Resolved /\ [Next]_vars => Resolved'
    BY NextResolved
  <1>3. Resolved => NothingInDoubtAtEnd
    BY DEF Resolved
  <1> QED
    BY <1>1, <1>2, <1>3, PTL DEF Spec
=============================================================================
