# lughus: a verification project

TLA+ models of the parts of lughus whose correctness depends on the order of steps: durable runs that survive crashes,
external effects that must not happen twice, approvals and receipts, the run's budget, the locks that tool calls share,
the stream of a run's events, the A2A server in front of it and the MCP connection behind it. TLC checks the models on
small instances; TLAPS proves the safety properties of six of them for every value of the constants.

- [1. Inventory](#1-inventory): the parts of the system and what each has to get right
- [2. The modules](#2-the-modules): what is modelled and how state and actions correspond to the code
- [3. What the runs check](#3-what-the-runs-check): instances, bounds, fairness
- [4. What is proved](#4-what-is-proved)
- [5. Findings](#5-findings)
- [6. What is not modelled, and why](#6-what-is-not-modelled-and-why)
- [7. Plan](#7-plan)

To check: `tlc -config DurableRun_safety.cfg MCDurableRun` (likewise for the other `.cfg` files; the module of a
configuration is `MC` and its prefix), and `tlapm` on each module with theorems: `DurableRun_proofs.tla`,
`RunBudget_proofs.tla`, `ToolRuntime_proofs.tla`, `ToolCalls_proofs.tla`, `A2AServer_proofs.tla`, `McpAdapter_proofs.tla`,
`Lists_proofs.tla` and `AgentStream_proofs.tla`.

## 1. Inventory

Paths are relative to `lughus/`. "Hard" names the behaviours that tests hardly reach.

| Component | State | Operations | Interacts by | Hard | Must hold |
|---|---|---|---|---|---|
| Durable store, `persistence/sqlite.py` | rows of runs, executions (owner, snapshot, budget), actions, approvals, events | one `BEGIN IMMEDIATE` transaction per method | called by coordinator, journal, runner, operator | crash between two transactions; a cancellation that commits and is then raised; two processes on one file | one owner; terminal runs do not change; receipts tell the truth |
| Coordinator, `persistence/coordinator.py` | next event sequence per run | `start`, `transition` | optimistic version check in the store | sequences allocated in memory, checked on disk; a stale worker | transitions stay within `_ALLOWED`; no sequence is written twice |
| Journal, `persistence/execution.py` | owner token, run id | `lookup`, `start`, `complete`; `JournalBudget` | store | effect between receipt and result | an effect happens at most once; what is in doubt stays known |
| Runner, `agent/runner.py` | local `Run`, snapshot, stream queue | `run`, `resume`, the except clauses, `recover` | coordinator, loop, journal | cancellation at any await; errors inside error handling | every call ends with a status and gives ownership back |
| Loop, `loop/_loop.py` | `LoopCheckpoint`, history | one turn: model, checkpoint, tools, checkpoint | model client, tool boundary | crash between model answer, checkpoint and tools | resumed work continues where it was, never from an older checkpoint |
| Tool boundary, `loop/_execute.py` | per call: approval to consume, reservation, receipt | preflight, governance, dispatch, post-processing, task group | policy, approvals, journal, budget, runtime gate | parallel calls of one turn; partial failure; stale policy and approvals | effects approved, once each; doubt is reported, not swallowed |
| Budget, `governance/budget.py`, `budgeted_llm.py` | consumed, reserved, durable floor | reserve, settle, release, persist | model client, tool boundary, store | a crash with calls under way | no execution gives back what an earlier one spent |
| Approvals in memory, `governance/approval.py` | requests by id, in order | create, find, decide, consume, evict | tool boundary, reviewer | eviction at capacity beside live requests | a live request is kept and found; an approval covers one start |
| Idempotency, `governance/idempotency.py` | attempts by key, with their age | claim, save, get, expire, purge, evict | tool boundary | a claim that outlives its lifetime while its call runs, and the late `expire` that takes the next one's receipt; eviction at capacity | an effect repeats only if its receipt was lost; claims come back |
| Execution runtime, `infra/runtime.py`, `infra/_threading.py` | counters and waiters of the gate, slots, resource locks | `execution_slot`, `tool_slot`, `resource_slot`, `run_sync` | tool boundary | cancellation or a timeout wherever a call waits; threads that outlive it; starvation | exclusive tools run alone; a resource serves one call at a time; nobody sleeps at an open gate; everything comes back |
| Event sinks, `core/event_stream.py` | ring buffer, sequence tracker, waiters | append, subscribe | runner, gateway | eviction of the tracker or of buffered events | no event of a run is refused; a subscriber gets what is kept |
| Stream, `agent/runner.py` | a bounded queue, the emit lock | emit, put, get, close | producer task, consumer, tools | a full queue nobody reads; a cancellation in a put that holds the lock | the stream is the record, in order; everything comes to rest |
| Gateway, `interfaces/gateway.py` | running asyncio task per A2A task | execute, cancel, shut down | SDK, runner | executions of one task that replace each other; cancel against completion | the newest execution is the one found; one verdict each |
| HTTP guard and task store, `interfaces/server.py` | pending count, slots, tasks with their age | admit, reject, save, get, evict | HTTP, SDK | a busy answer to a slow client holds the counter's lock | counts and slots balance on every exit; every request ends |
| MCP client and adapter, `interfaces/mcp.py` | pending futures, connection, snapshot of the tools | connect, request, answer, refresh, invoke, close | MCP server | late, double and missing answers; a change announced during a listing, or before a call is written | an answer reaches its own request; changed descriptors block calls |
| Model client, `engine/llm.py`, `infra/retry.py` | retry budget of the loop | generate, stream | provider | two deadlines of one length; the shared budget | sleeps stay within the budget |
| Code interpreter, `engine/interpreter.py` | a container per execution | execute, remove | tool boundary | cancellation while the container is removed | no container outlives its execution unnoticed |
| Message history, `loop/_messages.py` | messages, token counts by address | append, prune | loop | boundaries of groups; an address that is used again | calls and their results stay together; what is sent fits |
| Delegation, `engine/delegation.py` | shared ledger | delegate | budget, A2A | nesting | depth stays within its limit |

The remaining parts (artifacts, tool registry and schemas, configuration, telemetry, command line, browser UI, test support) are sequential data handling or presentation; `PROJECT.json` lists
them with the reason.

How a durable run works: `run` creates the run row, opens an execution (a fresh owner token in the executions row) and
commits PENDING -> RUNNING; `resume` does the same for a WAITING or RUNNING run whose execution row has no owner. The
loop asks the model, writes the requested calls to the snapshot, checks each against policy and approvals, then
dispatches all of them in one task group. Before a tool is called its approval is consumed and a *started* receipt is
written; afterwards the result completes the receipt. A call with a started receipt and no result is *in doubt*: the run
goes to WAITING, an operator recovers the ownership if the worker died, and withdraws (`not_executed`) or confirms the
receipt, and a resume meets the receipt before anything else happens.

## 2. The modules

### ExecutionStore.tla: the tables of one run

One operator per transaction of `SQLiteStore`. Its conjuncts that do not mention a primed variable are what the
transaction checks (when one is false the code raises and rolls back), the others are its `UPDATE`s; every operator
names all six variables.

| Variable | Code |
|---|---|
| `status`, `version` | the run row: the status inside `data`, and `version` |
| `owner` | the executions row's `owner`: `NoRow`, `Free` (NULL) or a worker's token |
| `snapshot` | the `loop` part of the snapshot: turn number, pending calls, whether the final answer is saved |
| `receipt` | `actions.status` by invocation (turn, call) |
| `requests` | the approvals of the run in rowid order, each with proposal digest and status |

Messages, arguments, fingerprints and results are abstracted away; an invocation's fingerprint is a function of its id
here, so the mismatch error of `lookup` cannot occur.

### DurableRun.tla: workers, operator and reviewer on those tables

A worker is one call of `run` or `resume`. `pc` follows `AgentRunner._execute`:

| `pc` | Where the code is |
|---|---|
| `idle` | no call is under way |
| `prepared`, `opened` | before and after `open_execution` (runner 204) |
| `enter` | run.started or run.resumed is committed |
| `think` | top of a turn in `agent_loop_stream` |
| `preflight` | `_run_tool_calls` looks every pending call up and finds what needs approval |
| `dispatch` | the task group; `task[w][c]` is the progress of each call |
| `completing`, `failing`, `ending` | the transition after the loop, the `except Exception` clause, the clauses that end in WAITING or FAILED |
| `release` | the `finally` clause |

In `dispatch` a task moves `todo` -> `asking`/`ready` (policy and approval, `Govern`) -> `cleared` (approval consumed,
`Clear`) -> `started` (receipt written, `Begun`) -> `returned` or `raised` (the effect, `Invoke`) -> `settled` (budget
settled, `Settle`) -> `done` (result recorded, `Complete`); every transaction is a step of its own, so that tasks of one
worker, two workers, the operator (`Recover`, `Withdraw`, `Confirm`) and the reviewer (`Decide`) interleave between any
two. `Leave` is the task group being cancelled and awaited. `Crash` loses the memory of a worker at any point; since
`_call` shields a transaction from cancellation, a cancellation that arrives while `open_execution` commits leaves the
same trace.

The effect of a synchronous tool (`Threaded`) is brought about by a thread. A call that is cancelled waits for it in
`run_sync`, but one that is cancelled again goes (`runtime.py:121-129`), and the task group does not know: `LeaveThreads`
in `Leave` may turn any started synchronous call into a `stray` thread, which acts later or never (`StrayActs`,
`StrayEnds`), whatever has become of the run.

`known` is the runner's local `Run` (the status and version it last saw), `loop` its local checkpoint, `cause` why it is
leaving the loop. `ran`, `withdrawn` and `overtaken` are history variables: how often an external effect happened, how
often an operator withdrew the receipt, and which invocations were withdrawn while a stray thread had them.

Three Boolean constants are the assumptions an instance may make or drop: `StopsWorker` (the operator makes sure that a
worker is dead before recovering its run, as `docs/operations/recovery.md` asks), `StoreMayFail` (a transaction may
raise) and `PolicyTightens` (a policy may deny on resume what it allowed).

### EffectLedger.tla: what the journal promises

An invocation is announced, its effect happens, its outcome is recorded or the announcement withdrawn, each legal only in
one state. An invocation may also be abandoned to a thread, which acts late or gives up; withdrawn meanwhile, it is `blind`
and may happen again. `DurableRun` implements it with `outcome <- receipt`, `late <- stray`, `blind <- overtaken`.

### RunBudget.tla: the budget of a durable run

`consumed` and the reservations (attempts whose `step` is outstanding) are the ledger in memory, `floor` is
`executions.budget`. An attempt reserves, persists consumed plus reserved, calls, settles, persists. `_persist` holds
the ledger's lock while the transaction commits, therefore it is one action. `Raise` is any exception of an attempt: the
tool boundary turns a tool's into a message for the model, the model's own ends the loop. `Stop` is the end of the
execution for any reason, at any await; `Resume` starts a new ledger from the floor. `kind` tells `generate`, `astream`
and tools apart because they differ in what a failure costs. Calls of the model do not overlap with tools (`Turn`).
A retry inside the model client belongs to the same call. `delegation_depth` is not touched by these paths.
A worker of an execution that was recovered while it still lives is not in this module: its next transaction fails the
owner check, so it makes at most the calls the floor already covers.

### ToolRuntime.tla: what tool calls share

A call passes, in this order, a slot (`slots`, `_semaphore`), the writer-preferring gate (`active`, `writers`,
`exclusive`), the lock of its resource and, if its function is synchronous, a worker (`workers`, `_sync_capacity`).
`step` says where it is:

| `step` | Where the code is |
|---|---|
| `queued` | `tool_slot` waits for the semaphore |
| `waiting`, `woken` | `execution_slot` sleeps in `wait_for`; it was notified and will look at its condition again |
| `locking` | `resource_slot` is registered with its lock entry and waits for the lock |
| `ready`, `hiring`, `running` | budget, approval and receipt; `run_sync` waits for a worker; the function runs |
| `stopping` | `run_sync` was cancelled and waits for its thread |
| `ending` | the `finally` clause that settles the budget, then the contexts are left |

No section under the gate's `asyncio.Lock` awaits anything but the condition, so that the lock is never contended and
such a section is one action. A lock entry is named for the call that made it: `locks` is the table, `entry` the object a
call still holds, so that two calls of one key could hold different entries if one were dropped too early. `thread`
outlives its call when that was cancelled twice; `abandoned` remembers it. The semaphores of asyncio serve in order
of arrival; here any waiting call may be next, which is more than the code does. `close`, the executor's creation and
the check of the event loop are left out here; `AgentStream` has the closing of the runtime that a loop owns.

### ToolCalls.tla with IdempotencyStore.tla and ApprovalStore.tla: a turn without a journal

`IdempotencyStore` and `ApprovalStore` are the two in-memory stores, each method one operator: they hold their lock from
end to end. Both are sequences in the order of the code's dictionaries, because eviction and `find` depend on that order.
`ToolCalls` is `_execute_tools` on top of them: a *batch* is one execution of the turn (`phase`: preflight, task group, the
group being cancelled), `step` the progress of each of its calls, `grant` the approval it found and means to consume.
The same turn may be executed again after an approval, after a cancellation, or while an earlier execution still works.
Between the policy and the wait for a slot, and between the slot and the function, nothing suspends with these stores, so
that each stretch is one action. `Decisions` composes `LeastPrivilegePolicy` with a policy of the application that may
change its mind. Time is `now`. `expire` pops whatever is under the key (`idempotency.py:211-213`), and so does `Expire`: an
execution that gives up after its claim has lapsed removes the claim or even the result of another one. Histories keep
the accounts: per key, `unused` is a claim no start has used yet, `forgotten` counts the receipts lost to a lifetime or to the
capacity, `lapsed` those of them that were unused claims, `taken` the receipts of a start that an execution removed when it
gave up, `unclaimed` the starts whose claim was gone. `RepeatOnlyIfForgotten` puts every repeat down to one of these, and
says that there are never more repeats than receipts lost to a lifetime or to the capacity, and that no receipt is taken where
none was lost before.

### A2AServer.tla: the server

It composes three modules over disjoint variables. `RequestGuard` is the middleware: `place` says where a request waits
(the lock, a slot, its client, the application), `holder` who holds `_pending_lock` while it sends a busy answer. `Gateway`
is `execute`, `cancel` and `shutdown`: `running` is `_running_tasks`, by task, and an execution that starts replaces the
entry of an older one of its task; a cancellation that was requested (`doomed`) is delivered at the next await. `shutdown`
also cancels decodings that wait in the executor (`cut`), those of a replaced execution too, which then takes the future's
`CancelledError` for its own.
`TaskStore` is the bounded store. `A2AMessage` has what the gateway reads from a message, as operators over sequences of
parts. The SDK between them is external: an execution outlives its request, statuses are stored as they are published,
a request may be any method, and the updater refuses a second terminal status of one execution.

### McpTransport.tla and McpAdapter.tla: the MCP connection

`McpTransport` is `_RPCClient` with both transports: `at` says where a caller waits, `asked` is its entry in `_pending` with
its future, `received` what the server may still answer, late or twice. A request is registered when it is made and written
in a later action (`Write`): the stdio client waits for its write lock and the pipe, the SSE client for its POST.
`McpAdapter` adds `refresh`, the check and `_invoke`: `version`
numbers the states of the server's list, `snapshot` is the set of versions the approved listing was made from (pages may
come from different ones), `approvals` the snapshots that tools were made from. `overtaken` are the callers whose call had
been let through, and had not left, when a change was announced.

### AgentStream.tla with EventSink, MessageHistory, ModelClient and Sandbox: one run and its stream

`AgentStream` follows one run from its first event to its last: plain (no runtime), governed (in memory) or durable,
through `run` or `stream`. The four modules it extends hold disjoint variables of the parts the run is made of:

| Module | Code | State |
|---|---|---|
| `EventSink` | `core/event_stream.py` | `buffer` with absolute offsets, `tracked`, and one subscriber's cursor |
| `MessageHistory` | `loop/_messages.py` | messages as role, size, number of calls and address; `kept` is the checkpoint, `cache` the token counts |
| `ModelClient` | `engine/llm.py`, `infra/retry.py` | phase, attempt, sleeps used, the deadline around the request |
| `Sandbox` | `engine/interpreter.py` | `box` (where `execute` is), the container, the removal task |

`pc` is where the producer's task is; an action ends at an await. `Emit` is `emit` up to its only long await: the put
into the full queue, during which the caller keeps the lock (`lock`, `held`). `nextSeq` is the coordinator's next sequence,
`stored` and `committed` what the event table and the last checkpoint say; a resumed run's coordinator numbers on from
both. The tools of a turn run in the producer's task (one) or in a task group (several): a second cancellation of the
group is swallowed while it waits, a single call gets it. The two calls stand for the two kinds of tools: `code` runs in a
container, `other` is a synchronous function in a `thread` of the runtime; a call that is cancelled, by its deadline or
otherwise, awaits its thread, and a second cancellation leaves it `loose`. A plain run owns its runtime and closes it
(`Leave`, `CloseRuntime`), which awaits the loose threads; `outcome` is where the run goes on then. `Crash` is the death of
a durable run's worker; everything in memory goes with it.

A turn is left for two reasons. An approval that is missing is found before the dispatch, or by a call (`Gate`), whose
group goes on until all are over (`Suspend`). An outcome in doubt (`Doubt`: the journal or a call that had started raises)
makes the task group cancel the others at once, wherever they are; the run waits for those that are still acting
(`doubting`). One of them may be inside `emit` (`CutOff`): waiting for room with the lock, or in `event_store.append`,
which the store finishes. Its event has a sequence and a row, and never comes to the queue, while the handler's own event
does: the reader gets n + 1 after n - 1. `lost` is that n. Receipts, owners and the checks of a resume are `DurableRun`'s.

`InterruptRun` and `InterruptTools` say what a cancellation does at each await. One of them may meet the commit that starts
or completes the run, or what a resumed run reads before it (`CutCommit`): the commit lands (`SQLiteStore._call` does not
abandon it), but the assignment of the new run object does not happen, and the handler asks the old one. Its ending is then
refused, by the table of transitions or by the version (`RunIsBehind`). `cut` says so. `CountsBack` is the version of
Python: before 3.13 a task group that failed leaves the cancellation it sent to its own task counted (`counted`), and what
`produce` asks before it puts the end marker is that count.

`recorded`, `lastRead` and `lost` are history variables: the last event recorded, the last one the consumer got, or before its
first the last recorded when its stream began, and the one cut off. An event goes with a change of status or leaves it as it
is (`"same"`).

Three things are taken for one another. A cancellation from outside that cuts a plain append is like one inside the put:
the reader gets neither event, only the sink would differ. A second cancellation during one transaction is left out. One
that comes while a failed group waits is swallowed before 3.13, and comes to the handler's first await from then on.

### EventStream.tla: what a run promises its reader

Five actions on five variables: an event happens, with the change of status it reports and only while the run has not
ended; the last event recorded is lost to the reader, after which nothing but the suspension of the run happens; the reader
is given the next one that is not lost, never before it is recorded; the reader is told the end, once, with nothing left
to give; a suspended or interrupted run goes on with a stream of its own. `AgentStream` implements it with
`given <- lastRead` and the table of the transitions (`Allowed`): loop, tools, locks, queue and sink are inside.

### Lists.tla: two recursive functions

`Left`, what stays of a list when entries are deleted, and `Total`, a sum: the stores of `ToolCalls`, the sink and the
history are written with them. Both are functions, not RECURSIVE operators, so that they can be reasoned about.

### Operators that no action uses

A few operators stand directly before the definition they imitate and are named for their fault (`OpenExistingShared`,
`FailOutright`, `PersistConsumed`, `CancelWaitingSilent`, ...). They are plausible mistakes: put in place of the right definition, each breaks
the property `PROJECT.json` pairs it with, which shows that the property is sensitive to that code.

## 3. What the runs check

| Run | Question | Instance | Distinct states |
|---|---|---|---|
| `DurableRun_safety` | Everything together: one execution at a time; no effect twice; what is in doubt is pending and met again; nothing is in doubt at the end; answer saved before completion; end final; checkpoints only forward; receipts implement the ledger | 2 workers, 2 calls (one gated, the other in a thread), 2 turns, version <= 2, 2 requests | 1 641 270 |
| `DurableRun_faults` | Transactions fail, the policy tightens, the operator recovers a run whose worker lives, and both calls of a turn propose the same gated action: is an effect repeated without its receipt having been withdrawn, does one approval cover two effects, of two calls or of one? | both calls gated, one of them in a thread, one proposal, 1 turn, version <= 1, `StopsWorker = FALSE` | 605 926 |
| `DurableRun_liveness` | Does every call end, does ownership return? | `FairSpec`, no symmetry | 131 150 |
| `RunBudget_safety` | Can a crash, a failure or parallelism make the run spend more than its limits? | 3 attempts, limits 3 model calls, 2 tool calls, 3 tokens | 35 000 |
| `ToolRuntime_safety` | Do timeouts and cancellations ever let a tool act beside an exclusive one or beside another of its resource, leave a waiter asleep, or leave something counted? Does an exclusive tool get in? | 5 calls: 2 exclusive, 2 of one key, 1 ordinary; 3 in threads; 4 slots, 1 worker | 20 595 |
| `ToolCalls_safety` | Do overlapping executions of a turn, full stores and ended lifetimes repeat an effect whose receipt is known, lose a claim, use an approval twice, or hide a live request? | 2 batches at once, 3 executions, 3 calls (one malformed, one of high risk), 1 receipt, 2 approvals, lifetimes 0 | 1 531 060 |
| `A2AServer_safety` | Do counts and slots balance, is the newest execution found, is there one verdict each, does everything end? | 3 requests, 1 slot, backlog 1, 2 executions of one task, 1 task kept | 476 013 |
| `McpAdapter_safety` | Does an answer reach its own request, does nobody wait on a dead connection, do changed descriptors block calls? | 3 callers, 4 requests, 2 outstanding, 2 versions, 2 pages | 764 828 |
| `AgentStream_safety` | Does the run give its reader what the abstract stream promises, is the stream the record, do prompts fit, are containers and threads cared for, and does everything come to rest? | 8 scopes, see below | 607 138 |
| `DurableRun_denied_on_resume`, `McpAdapter_drift`, `AgentStream_timeout` | statements of the documentation that the code does not keep; see [Findings](#5-findings) | | |

`NothingInDoubtAtEnd` is part of `DurableRun_safety` and, deliberately, of a run that finds it violated: it holds
as long as transactions do not raise and the policy does not tighten, and fails when either happens.
`AtMostOnce` needs `StopsWorker`, and with it survives failing transactions and tightening policies too (theorem
`EffectsOnce`); it excepts exactly the invocations in `overtaken`, since with `StopsWorker` alone a withdrawal may still be
ahead of a stray thread. Without `StopsWorker` the weaker `AtMostOncePerReceipt` holds: an effect is repeated only after
somebody declared, of a worker or a thread that was in fact alive, that it had not happened. `EffectsApproved` counts every
effect, those of one invocation included, and is checked where it is hardest to keep, in `DurableRun_faults`: there two workers may live and both calls compete for one approval. The type invariants of `ToolCalls`,
`A2AServer` and `McpAdapter` hold on the same instances; the listed runs spend their time on the other properties.

**Bounds.** `MaxTurns` is the loop's own `max_iterations`, set to 1 or 2: two turns are enough for a checkpoint to be
older than another and for one turn's receipt to survive into the next. `MaxVersion` only stops `Resume` from being taken
for ever (each resume costs two versions): with 1 (`DurableRun_faults`, `DurableRun_denied_on_resume`) a run is resumed after a
crash, its requests decided meanwhile; with 2 (`DurableRun_safety`, `DurableRun_liveness`) also after a suspension, and a
second worker resumes beside or after the first. `MaxRequests` bounds how many approval requests may exist before a resume, so that a rejected or
used-up request is followed by a new one. Two workers are enough for every race of the store, because a transaction
names one owner; two calls are enough for a task to be cancelled by its sibling, to fail beside it, and to share its
proposal. All bounds are in the guard of `Resume`; nothing that is under way is ever cut off. In `RunBudget` the limits are below
what three attempts could use, so that reservations compete; the limits themselves bound the state space. `MaxUsage`, the tokens of one call,
is 2 so that the overshoot is not the trivial one. In `ToolRuntime` there is one slot less and one worker instead of three
threads, so that calls queue for both; a call comes back as often as it likes, no bound cuts anything off.
In `ToolCalls` stores that hold one receipt and two requests are full at once, a lifetime of 0 ends with the first tick,
and three executions allow two that overlap and one that comes after. In `A2AServer` one slot and a backlog of one make the
third request busy; the message of one execution has a file too large by its encoding and the other an objective too
long. In `McpAdapter` two outstanding requests make the third caller meet the limit of 128.

`AgentStream` checks eight *scopes* in one run, because a full product would not end: plain with text and two cancellations,
plain by `run()` beside another run's events, governed and live with a pair of parallel calls and two cancellations,
governed by `run()` over three turns, and four durable runs: streamed with a pair of parallel calls, of which one may cut
the other off, with a cancellation and with a crash and a resumption; streamed without calls, and by `run()` with a single
one, with a cancellation, a crash and a resumption. A streamed pair with all three (936 564 states by itself) was checked
once, and showed nothing more.
`AgentStream_safety` has `CountsBack = TRUE`; with `FALSE` its safety properties hold as well (482 348 states), and
`StreamEnds` does not, for the reason `AgentStream_unheard.cfg` shows.
The queue holds one event, so that every second emission may block with the lock (the invariant the proofs use was also
checked with a queue of two); the sink holds two and tracks one run, so
that both bounds evict; six tokens let a group of results push an older one out of the third prompt; one retry, a
deadline of one tick and a sleep budget of one reach every branch of `_with_retry`. `Subscribe` takes what is there in one
step, which changes nothing but the subscriber's cursor.

**Symmetry.** Workers are interchangeable, and so are attempts, batches and callers; the runs with a liveness property use none.

**Deadlock.** A durable run really ends (a terminal status and no call under way), and the bounds stop resumption, so
the `DurableRun` configurations switch the check off. A turn, a server, a connection and a run end too: so do those of `ToolCalls`,
`A2AServer`, `McpAdapter` and `AgentStream`. `RunBudget` and `ToolRuntime` never stop, and their deadlock
check is on.

**Fairness.** `FairSpec` gives weak fairness to `Working(w)`, what a call does by itself once it is under way, and to
`Recover`. The first is justified by the event loop, which runs every ready task, by the timeouts around tools and the
provider, and by `SQLITE_BUSY` being bounded by the connection's timeout; the second by the operations guide, which makes
recovery the operator's duty. In `ToolRuntime` `Proceed(t)` is weakly
fair: the event loop runs what it has woken, and a tool's function returns in the end; no arrival, failure or
cancellation is. In `A2AServer` a request's own progress is weakly fair (clients take their answers or go away, and the application ends:
every handler has a timeout), a cancelled execution dies, and `shutdown` returns once what it awaits is gone. In
`AgentStream` the loop, the tools, the put into the queue, the removal of a container, the consumer (who reads until it
closes), and the subscriber are weakly fair: the event loop runs what is ready; requests, tools and the removal have
deadlines, and functions in threads return. Cancellations, crashes, resumptions and the other runs are not.
In `DurableRun` nothing that may go wrong (`Mishap`: crash, cancellation, refusals), no new call
of `run` or `resume`, no decision of a reviewer and no reconciliation is fair, so no liveness property depends on it.

## 4. What is proved

| Theorem | Module | Statement | Assumes |
|---|---|---|---|
| `TypeCorrect` | `DurableRun_proofs` | `Spec => []TypeOK` | - |
| `EffectsPerReceipt` | `DurableRun_proofs` | `Spec => []AtMostOncePerReceipt` | - |
| `EffectsAreApproved` | `DurableRun_proofs` | `Spec => []EffectsApproved` | - |
| `OneExecution` | `DurableRun_proofs` | `Spec => []SingleExecution` | `StopsWorker` |
| `EffectsOnce` | `DurableRun_proofs` | `Spec => []AtMostOnce` | `StopsWorker` |
| `LedgerImplemented` | `DurableRun_proofs` | `Spec => ImplementsLedger` | `StopsWorker` |
| `AnswersAreSaved` | `DurableRun_proofs` | `Spec => []AnswerIsSaved` | `StopsWorker` |
| `EndedIsFinal` | `DurableRun_proofs` | `Spec => EndIsFinal` | `StopsWorker` |
| `CheckpointsAdvance` | `DurableRun_proofs` | `Spec => CheckpointForward` | `StopsWorker` |
| `DoubtIsPending` | `DurableRun_proofs` | `Spec => []InDoubtIsPending` | `Undisturbed` |
| `EndLeavesNoDoubt` | `DurableRun_proofs` | `Spec => []NothingInDoubtAtEnd` | `Undisturbed` |
| `CallsAreCovered` | `RunBudget_proofs` | `Spec => []CallsCovered` | - |
| `CallsAreLimited` | `RunBudget_proofs` | `Spec => []CallsWithinLimit` | - |
| `TokensAreBounded` | `RunBudget_proofs` | `Spec => []TokensOvershoot` | - |
| `TypeIsCorrect` | `ToolRuntime_proofs` | `Spec => []TypeOK` | - |
| `ExclusiveIsAlone` | `ToolRuntime_proofs` | `Spec => []ExclusiveAlone` | - |
| `SerialIsSerial` | `ToolRuntime_proofs` | `Spec => []SerialByKey` | - |
| `NobodyOversleeps` | `ToolRuntime_proofs` | `Spec => []NoLostWakeup` | - |
| `NothingIsLeaked` | `ToolRuntime_proofs` | `Spec => []NothingLeaks` | - |
| `RepeatsAreForgotten` | `ToolCalls_proofs` | `Spec => []RepeatOnlyIfForgotten` | - |
| `ClaimsAreAlwaysHeld` | `ToolCalls_proofs` | `Spec => []ClaimsAreHeld` | - |
| `ApprovalsAlwaysCover` | `ToolCalls_proofs` | `Spec => []ApprovalsCover` | - |
| `LiveRequestIsKept` | `ToolCalls_proofs` | `Spec => []LiveRequestIsFound` | - |
| `CountsAreBalanced` | `A2AServer_proofs` | `Spec => []CountsBalance` | - |
| `RegistryStaysExact` | `A2AServer_proofs` | `Spec => []RegistryIsExact` | - |
| `OneVerdictEach` | `A2AServer_proofs` | `Spec => []OneVerdict` | - |
| `TypeIsKept` | `McpAdapter_proofs` | `Spec => []TypeOK` | - |
| `AnswersFit` | `McpAdapter_proofs` | `Spec => []AnswersMatch` | - |
| `DeadLinkIsLeft` | `McpAdapter_proofs` | `Spec => []NothingWaitsOnDeadLink` | - |
| `DriftIsBlocked` | `McpAdapter_proofs` | `Spec => DriftBlocksOutsideRace` | - |
| `StreamTypeOK` | `AgentStream_proofs` | `Spec => []TypeOK` | - |
| `StreamRecorded` | `AgentStream_proofs` | `Spec => []StreamIsRecord` | - |
| `StreamImplemented` | `AgentStream_proofs` | `Spec => ImplementsStream` | - |
| `PromptsFit` | `AgentStream_proofs` | `Spec => []PromptFits` | - |
| `ContainerRemoved` | `AgentStream_proofs` | `Spec => []ContainerGone` | - |
| `ThreadsAwaited` | `AgentStream_proofs` | `Spec => []ThreadsAreAwaited` | - |

All hold for any number of workers, calls, turns, proposals, attempts, slots, keys, executions, requests, pages, events and
messages, for queues, buffers and prompts of any size, with failing transactions and a changing policy included unless the last column says otherwise. The named assumptions of the
modules (`StoreAssumption`, `RunAssumption`, `BudgetAssumption`, `RuntimeAssumption`, `TurnAssumption`,
`IdempotencyAssumption`, `StreamAssumption`, `SinkAssumption`, ...) say what kind of values the constants have; `TurnAssumption` also says that calls of one
proposal, which are the same tool with the same arguments, need the same approvals. `StopsWorker` is the duty the
operations guide gives the operator. `Undisturbed` is `StopsWorker` with a store that does not raise and a policy that
does not tighten between a call and its resume: without the last two `NothingInDoubtAtEnd` is false, as
`DurableRun_denied_on_resume` shows.

**Durable run, always.** When the operator recovers a run whose worker lives, no worker can rely on what it knows, and
the only thing left is bookkeeping. `Balanced` therefore keeps two balances. For each invocation: effects so far, stray
threads, workers about to act on it (`Poised`: their task is *started*), and one more if its receipt could still be written,
are together at most one more than the withdrawals (`ReceiptsBalance`). For each gated proposal: effects so far, counted by
`Tally`, stray threads and tasks cleared to act are together at most the approvals used up (`ApprovalsBalance`). Each step
moves one unit from one side to the other (`TakesOne`): writing a receipt turns the one into a poised worker, a second
cancellation turns the worker into a stray thread, worker or thread turn into an effect, a withdrawal pays for the receipt
it takes away. Every other step is `Uneventful`.

**Effects.** `AtMostOnce` is not inductive: whether a second effect is possible depends on what a task knows of its
receipt. `Inductive` is `TypeOK`, `SingleExecution`, `LoopsStarted` (calls exist only in a turn), `TaskEffects` (a task
between its receipt and its recorded result finds the receipt *started* and no stray thread, and the effect not yet or already
happened, according to where it is) and `EffectsRecorded` (effect and stray thread are together one at most, and none without
a receipt; a completed receipt: an effect), both but for the invocations in `overtaken`. `SingleExecution`
is needed because two workers with the same turn would share an invocation: each could be past the check of the other's
receipt. This is where `StopsWorker` enters, and the only place. `OneInFlight` then says that only the task itself moves
its receipt while it is in flight, except for the operator, who withdraws only what has not happened. The same invariant
gives the refinement: each step writes one receipt or one effect, or abandons what is announced (`LedgerAside`), in the state
the ledger allows.

**Checkpoints.** With one execution at a time, the owner's loop *is* the snapshot (`LoopIsSnapshot`) and the run row is
what the owner last saw (`RunIsCurrent`): nobody else writes them, and the code writes memory and store together. That is
`Journal`, which adds what the store says by itself (a row without an execution has not begun; a saved answer has no pending
calls; a run completes from a saved answer). From it, a save is a step forward because the loop only goes forward, and a
run that has ended has no worker in its loop who could change it. `Resolved` adds what a task's progress says about its
receipt (`TaskReceipts`), that the model is asked only when no call is pending, and that a run about to fail has no open
receipt. This last one is what a failing transaction or a tightened policy destroys.

**Budget.** `CallsWithinLimit` follows from `CallsCovered` only if the floor stays below the limit; and the floor is
overwritten by whoever persists next, so the invariant must say what memory holds while an execution is up
(`LedgerInv`): consumed plus reserved is within the limit, consumed plus the persisted reservations is within the floor,
calls made are within consumed plus the calls under way. When an execution stops, memory is gone and only
`made <= floor <= Limit` (`FloorInv`) is left; a resume rebuilds `LedgerInv` from it. `TokensInv` needs `AloneInv`: a
model call has no company between its reservation and its settlement. `CountMove` is the one fact about cardinalities:
when one attempt moves, each count changes by that attempt alone.

**Runtime.** No counter of the gate says by itself who is inside, so `RuntimeInv` first says what each one counts
(`CountInv`: readers inside, writers waiting, holders of a slot, running threads). With that, `active = 0` is "no reader is
inside", and `GateInv` (one exclusive call inside, or only others) survives a writer's entrance. `ThreadInv` ties a thread to
the step of its call or to `abandoned`; `LockInv` says that the calls inside share the table's entry of their key, that
every entry in the table has a call that holds it and belongs to its key, and that only one of a key is past its lock: it
is what makes dropping an entry safe. `NoLostWakeup` is inductive once `TypeOK` says that the counters are not negative.
All lemmas go by what one step moves (`Moved`, `MoveCounts`): the call itself, and the waiters it wakes.

**A turn without a journal.** The invariant is `Boundary`: types, and three balances. For each key, starts so far and
executions on their way to a start (`Queued`) are at most the receipts forgotten plus the one the store holds
(`ReceiptsBalance`): an execution that takes another's receipt leaves the queue in the same step, so that no repeat is
gained by it. Again for each key, `Causes` balances the starts, and one more while the key has no receipt of a start
(`Free`), against what made them possible; it also says that a receipt that is no unused claim belongs to a call that was started, from
which it follows that a receipt can be taken only after one was forgotten. For each proposal, starts and an approval not yet
used are at most the approvals given. `ClaimsAreHeld` and the uniqueness of keys are part of the first, because a claim may
be made only over a receipt that is gone. The last needs `DeskInv`: ids tell requests apart, and **a live request is the last of its proposal**,
which is why `find`, walking backwards, returns it, and why eviction (which spares live requests) cannot bring an older
one to light. `NextIs` shows that every step of the module is one of five kinds as the balances see it: a call
is claimed, gives its claim back, begins, settles, or no call on its way is touched (`Calm`); each kind is then treated
once. The lemmas on `Left`, `Without`, `Purged` and `EvictOldest` say what a cleaned table keeps: some of
the entries, under no key twice (`Shrinks`).

**Lists.** `Left` and `Total` are recursive functions, and the induction theorems of the library take an operator as a
parameter, which the provers here cannot instantiate. The lemmas of `Lists_proofs` therefore argue by the least element of
the set of counterexamples (`LeastOf`); so does `Recursion`, by which a function with the equation of the definition exists,
so that the definition denotes one. What they establish serves the stores, the sink and the history alike: what is left of a list are the entries
at the places that stay, in their order (`SomeLeft`); a sum is a natural number, grows with one of its numbers, and is
that of the list without its zeros (`TotalIsSum`, `TotalGrows`, `TotalOfCut`: the code sets the counts of the messages it
drops to nothing, and sends the others).

**Server.** `GuardInv` ties the lock to the one busy request and says that a leaked count belongs to a request that is
gone; each step of the guard then changes count, slots and lock by what its request holds before and after
(`Moves`, `Weighs`). `GatewayInv` says that what is registered for a task is an execution of that task, and how far an
execution has come says what it has published: an execution registers as the latest of its task and removes nobody's
registration but its own. An execution in `cut` was registered and is `doomed`, or had been replaced before: that is the
exception of `OneVerdict`.

**MCP.** Ids are the numbers of requests (`Numbered`): `requestId` only grows, so an answer can
fit only the request it was made for. `Wire` says who may hold the lock and that a connection that failed has told
everyone. `Current` is the invariant behind the adapter: as long as no announcement met a listing, everything listed
since, the pages already collected as well as the answers not yet taken, is the server's present list. The race that
`McpAdapter_drift` shows is exactly where it breaks. `Checked` carries it from the check of a call to the moment its request
is written: between the two the descriptors can only become old by an announcement, which puts the caller in `overtaken`.

**One run and its stream.** `RunInv` is built in layers, and each is preserved with the help of those below it. The sandbox
and the client need nobody: a removal exists only once the command is dead, so that a container which is still there has its
removal under way, or was hurried away from. `ControlInv` is where the loop is; `LockInv` says that whoever waits with the
lock is at the await of the put, and that nobody else emits meanwhile. `CancelInv` says where a cancelled execution is:
in a handler or behind it, where it records events but puts none into the queue, not even the marker of the end; a group
whose call is of unknown outcome is the exception, as it may swallow the cancellation and come to its suspension.

`LedgerInv` and `SinkInv` are about numbers: the coordinator's next sequence follows what the store has, a status that is
final was recorded by the last event, and the sink remembers nothing newer of the run than what is recorded; therefore neither store nor sink
refuses, except where a commit was cut: `StartIsCut` and `EndingIsRefused` are the only steps that leave the numbers without
a new event or with a refusal. For the sink this needs what its two bounds do to the table of runs.

`LostInv` says where an event may be lost: in a durable, streamed run that is on its way to its suspension, and only the last
recorded, until the suspension itself is. `Nth` numbers what the reader is to get around it, and `QueueInv` joins both ends:
the queue is the events after the last one read, in that numbering; the event that waits for room is the next one; while
nothing is cancelled, or the run is about to be suspended, these are all that is recorded; the marker follows the last.
A handful of facts about `Nth` (the next, the one before, after one is read, after one is lost) is all that the lemmas on
the queue need. From it `StreamSteps` maps each step of the run to a step of `EventStream` or to a stutter;
`StepsOfChannel` lists the steps that touch the channel at all, so that loop, tools and client are one case.

`HistoryInv` does not ask what pruning computes but what it keeps. `Formed` gives each message an address of its own;
`Shaped` says that a request for calls has all its results behind it, but for the one whose calls are pending; `Right` that
the cache has the size of each message under its address, although addresses are used again. The cut of a pruning
falls between groups, so that what stays is shaped again, and `TotalOfCut` makes the sum that the code counts down the sum
of what the model is asked with. The checkpoint holds messages of the same form: therefore a resumed run's prompts fit too.

**Only model-checked.** The liveness properties `CallsEnd`, `OwnershipReturns`, `ExclusiveGetsIn`, `EverythingEnds` and
`StreamEnds`: liveness under fairness and ENABLED are out of the prover's reach. What the folds of `A2AMessage` compute for every input
stays with TLC as well; the theorems about the server hold whatever they return. Every safety and action property of a
passing run has a theorem; the three that a run finds violated have none, except `NothingInDoubtAtEnd` where it holds.

## 5. Findings

Each of these has a run that shows it, the last one a configuration beside those `PROJECT.json` lists.

1. **A policy that denies on resume hides an outcome in doubt** (`DurableRun_denied_on_resume`). The policy is evaluated
   before the receipt is looked up, so the call becomes an ordinary error and the run completes.
2. **A change announced during a listing is forgotten** (`McpAdapter_drift`). `refresh` and `_invoke` declare the cache
   valid after they awaited the listing; calls then leave with descriptors the server has replaced.
   `DriftBlocksOutsideRace`, which holds, says that this race is the only way for a call that was let through after the
   announcement. One that was let through before it and still waits to be written leaves all the same, as nothing looks at
   the cache again (`mcp.py:303`, `mcp.py:408`).
3. **A time-out is not retried** (`AgentStream_timeout`). The loop's deadline around the whole request has the length of
   the deadline around one attempt, so that what `reliability.md` calls transient and per attempt ends the request.
4. **A reader is not told that the run has stopped** (`AgentStream_unheard.cfg`, which finds `ReaderIsTold` violated). On Python 3.11 and 3.12 a task group that
   failed leaves one cancellation counted on the producer's task (`_execute.py:877`). `produce` takes it for the consumer's
   (`runner.py:95`) and leaves the end marker out, although somebody reads on: with two calls of which one is of unknown
   outcome, `stream()` waits for ever instead of raising `OutcomeUnknown`. With the same versions, a consumer that leaves
   while the failed group waits is not noticed by the handler, whose event may wait in a full queue that nobody reads.

The models met other disagreements with the documentation; they are not runs of their own:

- `recovery.md:89`, "Consumer cancellation pauses a durable run (WAITING)": one that comes before run.started is being
  committed leaves the run PENDING, which nothing resumes; one during that commit leaves it RUNNING without an ending, as
  the handler's run object is still PENDING and PENDING -> WAITING is refused (`runner.py:341`); one during the commit of
  run.completed leaves it completed, its handler refused by the version (`StreamIsRecord` allows just these).
- An event may be recorded and never given: one call's `OutcomeUnknown` cuts a sibling off inside `emit`, and the handler
  gives run.reconciliation_required all the same (`_execute.py:877`, `runner.py:331`). The stream then has a gap before its
  last event (`lost`), which a consumer that checks sequences takes for a lost message.
- `recovery.md:50`: when settling the budget raises in the `finally` clause (`_execute.py:620`), that exception replaces
  `OutcomeUnknown` and the run completes with a started receipt.
- `governed-execution.md:37`: a second cancellation leaves the locks while the thread runs (`runtime.py:127`).
  `ExclusiveAlone` and `SerialByKey` do not count such threads; `ThreadsAreAwaited` says that a loop which owns its runtime
  waits for them at its end. For a durable run it means that `recovery.md`'s "confirmed_not_executed", given while such a
  thread lives, lets the effect happen twice, and that an effect may come after the end of its run (`stray`, `overtaken`).
- `budget.md:56`: an empty stream is charged one call (`budgeted_llm.py:68`). `budgets.md:45`: exhaustion on a tool call
  becomes a tool error and the loop goes on (`_execute.py:810`).
- `reliability.md:29`, at most four attempts: the fallback without usage starts `_with_retry` again. `llm.md:38`, a retry
  budget shared by the loop: on Python 3.11 `wait_for` runs a governed or generated request in a copy of the context.
- `gateway.py:261`, "Cancel all currently running A2A tasks": an execution that a later one of its task replaced is neither
  cancelled nor awaited by `shutdown`, and when the decoding of its files is cancelled (`gateway.py:262`) it ends without any
  status (`OneVerdict` allows just that).
- `mcp.md:18`: closing while the child is being started leaves it orphaned (`orphaned`).
- `event_stream.py:28`: a run that fell out of the tracker is said to have no buffered events; with the default bounds
  (625 runs, 10 000 events) it may, and its subscriber waits for the next.
- A request cancelled while it waits for the counter's lock leaks its count (`leaked`, `CountsBalance` allows just that).
  A cancellation in `start_work` leaves a registration behind (`stranded`). A file that is skipped leaves its name
  to the next one (`TakePart`). A container stays when the run is cancelled while it starts, or again
  in the clean-up before its removal is started (`hurried`). An ungoverned run may record run.cancelled after run.completed.

By design, tokens are in memory only between settling and persisting: a crash there forgets the tokens of that call
(never the call itself), which is why `TokensOvershoot` speaks of what the ledger has seen.

## 6. What is not modelled, and why

- Expiry of approvals: `expires_at` is set by no code under `lughus/`.
- In the runtime: the check that one event loop uses it, and `run_sync_in_thread`, the unbounded helper for file reads.
- The ledger that runs without a journal share, and `delegation_depth`; a durable run's ledger is in `RunBudget`.
- The guard's unlimited mode, `cache_tools=False` of the MCP adapter, time-outs and budgets that are switched off: each
  removes the steps the models are about.
- The SDK, the provider, the MCP server and the container engine: external, as the code meets them.
- The capacities of `InMemoryRunStore`, which only raise.
- Contents of messages, arguments, results and artifacts: data no property tells apart.
- Schema inference, tool registration, truncation of results, configuration, telemetry, command line, browser UI, test
  support: pure functions, input/output or presentation.

## 7. Plan

Done: `ExecutionStore`, `EffectLedger`, `DurableRun` (which composes the two), `RunBudget`, `ToolRuntime`, `ToolCalls` over
its two stores, `A2AServer` over its four parts, `McpAdapter` over `McpTransport`, and `AgentStream` over its four parts with
`EventStream` above it, all with the proofs of the safety properties and action properties their runs check.

Next: the shared ledger with delegation (two runs, limits over both), an abstract approval that the durable and the
in-memory store both implement, and liveness of a durable run when crashes are finitely many and the operator
reconciles.
