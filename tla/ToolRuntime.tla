---------------------------- MODULE ToolRuntime -----------------------------
(***************************************************************************)
(* The process-local runtime that tool calls share (infra/runtime.py): a   *)
(* bounded number of slots, the writer-preferring gate of exclusive tools, *)
(* one lock per resource and a bounded thread pool, taken in this order by *)
(* _dispatch_tool_with_locks.  Everything runs on one event loop, and no   *)
(* section under the gate's lock awaits anything but the condition, so a   *)
(* section is one action.  A call may time out or be cancelled wherever it *)
(* awaits; a thread goes on until its function returns.                    *)
(***************************************************************************)
EXTENDS Integers, FiniteSets

CONSTANTS
  Tasks,            \* tool calls that may be under way at once
  Exclusive,        \* those of GLOBAL_EXCLUSIVE tools
  Sync,             \* those of synchronous functions, run in a thread
  Keys,             \* resource keys
  KeyOf,            \* the key of a serial call, NoKey of the others
  NoKey,
  MaxTools,         \* RuntimeConfig.max_global_tools
  MaxWorkers        \* RuntimeConfig.max_sync_workers

ASSUME RuntimeAssumption ==
  /\ IsFiniteSet(Tasks)
  /\ Exclusive \subseteq Tasks /\ Sync \subseteq Tasks
  /\ NoKey \notin Keys \cup Tasks
  /\ KeyOf \in [Tasks -> Keys \cup {NoKey}]
  /\ \A t \in Exclusive : KeyOf[t] = NoKey
  /\ MaxTools \in Nat \ {0} /\ MaxWorkers \in Nat \ {0}

VARIABLES
  step,       \* where a call is in _dispatch_tool_with_locks
  thread,     \* whether the thread of a call is still running
  abandoned,  \* history: it runs on because the call was cancelled twice
  slots,      \* _semaphore: free slots
  workers,    \* _sync_capacity: free workers
  active,     \* _active: calls of other tools inside the gate
  writers,    \* _writers: exclusive calls that wait
  exclusive,  \* _exclusive: an exclusive call is inside
  locks,      \* _resource_locks: the lock entry of each key, or NoEntry
  entry       \* the entry each call took from the table, or NoEntry

gate == <<active, writers, exclusive>>
table == <<locks, entry>>
vars == <<step, thread, abandoned, slots, workers, gate, table>>

\* Past the gate; holding its resource, too; acting or about to.
Inside == {"ready", "hiring", "running", "stopping", "ending"}
Gated == Inside \cup {"locking"}
Steps == Gated \cup {"idle", "queued", "waiting", "woken"}

\* A lock entry is named for the call that made it.
NoEntry == NoKey
Entries == Tasks \cup {NoEntry}

Goto(t, s) == step' = [step EXCEPT ![t] = s]

-----------------------------------------------------------------------------
(* The gate.  A condition wakes everybody; who wakes looks again.          *)

\* What wait_for waits for; a reader that forgets the waiting writers.
MayForgetful(t) == ~exclusive /\ (t \in Exclusive => active = 0)

May(t) ==
  /\ ~exclusive
  /\ IF t \in Exclusive THEN active = 0 ELSE writers = 0

\* notify_all, as t moves on to s.
NotifyAll(t, s) ==
  step' = [u \in Tasks |-> IF u = t THEN s
                           ELSE IF step[u] = "waiting" THEN "woken"
                           ELSE step[u]]

\* resource_slot registers the call with the entry of its key.
Register(t) ==
  LET k == KeyOf[t]
  IN  IF k = NoKey THEN UNCHANGED table
      ELSE /\ locks' = [locks EXCEPT ![k] = IF @ = NoEntry THEN t ELSE @]
           /\ entry' = [entry EXCEPT ![t] = locks'[k]]

UnregisterAlways(t) ==
  /\ entry' = [entry EXCEPT ![t] = NoEntry]
  /\ locks' = IF KeyOf[t] = NoKey THEN locks
              ELSE [locks EXCEPT ![KeyOf[t]] = NoEntry]

\* ... and the last one that is interested drops it.
Unregister(t) ==
  /\ entry' = [entry EXCEPT ![t] = NoEntry]
  /\ locks' = IF KeyOf[t] # NoKey /\ \A u \in Tasks \ {t} : entry[u] # entry[t]
              THEN [locks EXCEPT ![KeyOf[t]] = NoEntry]
              ELSE locks

\* The condition holds: t is inside, and on to its resource.
Pass(t) ==
  IF t \in Exclusive
  THEN /\ exclusive' = TRUE
       /\ NotifyAll(t, "ready")
       /\ UNCHANGED <<active, table>>
  ELSE /\ active' = active + 1
       /\ Goto(t, IF KeyOf[t] = NoKey THEN "ready" ELSE "locking")
       /\ Register(t)
       /\ UNCHANGED exclusive

One(b) == IF b THEN 1 ELSE 0

\* Every context is left at once, in the reverse order.
LeaveAll(t) ==
  /\ NotifyAll(t, "idle")
  /\ Unregister(t)
  /\ IF t \in Exclusive THEN exclusive' = FALSE /\ UNCHANGED active
                        ELSE active' = active - 1 /\ UNCHANGED exclusive
  /\ slots' = slots + 1
  /\ UNCHANGED <<thread, abandoned, workers, writers>>

-----------------------------------------------------------------------------
(* One call.  An operator whose name says what it gets wrong (Forgetful,    *)
(* Always, Silent, Counted, Releasing, AtOnce) is a plausible mistake in    *)
(* the definition after it, kept to show that the properties notice.        *)

\* A name is used again once its thread has ended.
Request(t) ==
  /\ step[t] = "idle" /\ ~thread[t]
  /\ Goto(t, "queued")
  /\ UNCHANGED <<thread, abandoned, slots, workers, gate, table>>

Enter(t) ==
  /\ step[t] = "queued" /\ slots > 0
  /\ slots' = slots - 1
  /\ \/ May(t) /\ Pass(t) /\ UNCHANGED writers
     \/ /\ ~May(t)
        /\ Goto(t, "waiting")
        /\ writers' = writers + One(t \in Exclusive)
        /\ UNCHANGED <<active, exclusive, table>>
  /\ UNCHANGED <<thread, abandoned, workers>>

Wake(t) ==
  /\ step[t] = "woken"
  /\ \/ May(t) /\ Pass(t) /\ writers' = writers - One(t \in Exclusive)
     \/ ~May(t) /\ Goto(t, "waiting") /\ UNCHANGED <<gate, table>>
  /\ UNCHANGED <<thread, abandoned, slots, workers>>

\* `async with entry.lock`.
TakeLock(t) ==
  /\ step[t] = "locking"
  /\ \A u \in Tasks : step[u] \in Inside => entry[u] # entry[t]
  /\ Goto(t, "ready")
  /\ UNCHANGED <<thread, abandoned, slots, workers, gate, table>>

\* The budget, the approval and the receipt are there; or one of them, or the
\* thread pool, raises, or the call is cancelled.
Invoke(t) ==
  /\ step[t] = "ready"
  /\ Goto(t, IF t \in Sync THEN "hiring" ELSE "running")
  /\ UNCHANGED <<thread, abandoned, slots, workers, gate, table>>

Fail(t) ==
  /\ step[t] \in {"ready", "hiring"}
  /\ Goto(t, "ending")
  /\ UNCHANGED <<thread, abandoned, slots, workers, gate, table>>

Hire(t) ==
  /\ step[t] = "hiring" /\ workers > 0
  /\ workers' = workers - 1
  /\ thread' = [thread EXCEPT ![t] = TRUE]
  /\ Goto(t, "running")
  /\ UNCHANGED <<abandoned, slots, gate, table>>

\* The future is done: its callback gives the worker back, and who still
\* waits for it goes on.
ThreadEnds(t) ==
  /\ thread[t]
  /\ thread' = [thread EXCEPT ![t] = FALSE]
  /\ abandoned' = [abandoned EXCEPT ![t] = FALSE]
  /\ workers' = workers + 1
  /\ IF step[t] \in {"running", "stopping"} THEN Goto(t, "ending")
                                            ELSE UNCHANGED step
  /\ UNCHANGED <<slots, gate, table>>

Finish(t) ==
  /\ step[t] = "running" /\ t \notin Sync
  /\ Goto(t, "ending")
  /\ UNCHANGED <<thread, abandoned, slots, workers, gate, table>>

\* After the budget is settled.
Leave(t) == step[t] = "ending" /\ LeaveAll(t)

-----------------------------------------------------------------------------
(* Cancellation, a timeout of the queue or of the call.                    *)

CancelQueued(t) ==
  /\ step[t] = "queued"
  /\ Goto(t, "idle")
  /\ UNCHANGED <<thread, abandoned, slots, workers, gate, table>>

CancelWaitingSilent(t) ==
  /\ step[t] \in {"waiting", "woken"}
  /\ Goto(t, "idle")
  /\ writers' = writers - One(t \in Exclusive)
  /\ slots' = slots + 1
  /\ UNCHANGED <<thread, abandoned, workers, active, exclusive, table>>

CancelWaitingCounted(t) ==
  /\ step[t] \in {"waiting", "woken"}
  /\ IF t \in Exclusive THEN NotifyAll(t, "idle") ELSE Goto(t, "idle")
  /\ slots' = slots + 1
  /\ UNCHANGED <<thread, abandoned, workers, gate, table>>

\* An exclusive call that gives up lets the others look again.
CancelWaiting(t) ==
  /\ step[t] \in {"waiting", "woken"}
  /\ IF t \in Exclusive THEN NotifyAll(t, "idle") ELSE Goto(t, "idle")
  /\ writers' = writers - One(t \in Exclusive)
  /\ slots' = slots + 1
  /\ UNCHANGED <<thread, abandoned, workers, active, exclusive, table>>

CancelLocking(t) == step[t] = "locking" /\ LeaveAll(t)

CancelRunningReleasing(t) ==
  /\ step[t] = "running"
  /\ Goto(t, IF t \in Sync THEN "stopping" ELSE "ending")
  /\ workers' = workers + One(t \in Sync)
  /\ UNCHANGED <<thread, abandoned, slots, gate, table>>

CancelRunningAtOnce(t) ==
  /\ step[t] = "running"
  /\ Goto(t, "ending")
  /\ UNCHANGED <<thread, abandoned, slots, workers, gate, table>>

\* A coroutine stops; a thread is waited for.
CancelRunning(t) ==
  /\ step[t] = "running"
  /\ Goto(t, IF t \in Sync THEN "stopping" ELSE "ending")
  /\ UNCHANGED <<thread, abandoned, slots, workers, gate, table>>

\* suppress(Exception) does not hold back another CancelledError.
CancelAgain(t) ==
  /\ step[t] = "stopping"
  /\ Goto(t, "ending")
  /\ abandoned' = [abandoned EXCEPT ![t] = TRUE]
  /\ UNCHANGED <<thread, slots, workers, gate, table>>

-----------------------------------------------------------------------------
Init ==
  /\ step = [t \in Tasks |-> "idle"]
  /\ thread = [t \in Tasks |-> FALSE]
  /\ abandoned = [t \in Tasks |-> FALSE]
  /\ slots = MaxTools /\ workers = MaxWorkers
  /\ active = 0 /\ writers = 0 /\ exclusive = FALSE
  /\ locks = [k \in Keys |-> NoEntry]
  /\ entry = [t \in Tasks |-> NoEntry]

Proceed(t) ==
  \/ Enter(t) \/ Wake(t) \/ TakeLock(t) \/ Invoke(t) \/ Hire(t)
  \/ ThreadEnds(t) \/ Finish(t) \/ Leave(t)

Cancel(t) ==
  \/ CancelQueued(t) \/ CancelWaiting(t) \/ CancelLocking(t)
  \/ CancelRunning(t) \/ CancelAgain(t)

Next == \E t \in Tasks : Proceed(t) \/ Request(t) \/ Fail(t) \/ Cancel(t)

Spec == Init /\ [][Next]_vars

\* The event loop runs what is ready, and tools end.
Fairness == \A t \in Tasks : WF_vars(Proceed(t))

FairSpec == Spec /\ Fairness

-----------------------------------------------------------------------------
\* Every variable holds a value of the kind its declaration names.
TypeOK ==
  /\ step \in [Tasks -> Steps]
  /\ thread \in [Tasks -> BOOLEAN]
  /\ abandoned \in [Tasks -> BOOLEAN]
  /\ slots \in 0 .. MaxTools
  /\ workers \in 0 .. MaxWorkers
  /\ active \in Nat /\ writers \in Nat /\ exclusive \in BOOLEAN
  /\ locks \in [Keys -> Entries]
  /\ entry \in [Tasks -> Entries]

\* The function of a call is executing.  A thread that was abandoned, by a
\* call cancelled twice, does not count: it runs on beside whoever comes next.
Acting(t) == IF t \in Sync THEN thread[t] /\ ~abandoned[t]
                           ELSE step[t] = "running"

\* While an exclusive tool acts nothing else does, not even a thread whose call
\* has timed out or was cancelled (execution_slot, run_sync 125-126).
ExclusiveAlone ==
  \A t \in Exclusive, u \in Tasks : t # u => ~(Acting(t) /\ Acting(u))

\* Calls of one resource act one after the other, however often the entry of
\* its key was dropped and made again (_LockEntry, 19-29).
SerialByKey ==
  \A t, u \in Tasks :
    t # u /\ KeyOf[t] # NoKey /\ KeyOf[t] = KeyOf[u]
      => ~(Acting(t) /\ Acting(u))

\* Nobody sleeps at the gate although it would let him in: every change that
\* opens it, a writer that gives up included, wakes those who wait.
NoLostWakeup == \A t \in Tasks : step[t] = "waiting" => ~May(t)

\* However the calls ended, nothing of the gate, the slots, the workers or the
\* table of locks is left behind when none is under way.
NothingLeaks ==
  (\A t \in Tasks : step[t] = "idle" /\ ~thread[t]) =>
    /\ active = 0 /\ writers = 0 /\ ~exclusive
    /\ slots = MaxTools /\ workers = MaxWorkers
    /\ \A k \in Keys : locks[k] = NoEntry

\* While exclusive tools wait, one of them gets in (or gives up), however many
\* others keep coming.
ExclusiveGetsIn == (writers > 0) ~> (exclusive \/ writers = 0)

=============================================================================
