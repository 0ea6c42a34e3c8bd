----------------------------- MODULE AgentStream -----------------------------
(***************************************************************************)
(* One run of AgentRunner (agent/runner.py) from its first event to its    *)
(* last: the producer's task that runs the agent loop (loop/_loop.py) and  *)
(* emits events under a lock, the bounded queue to the consumer of         *)
(* stream(), the tool calls of a turn, cancellations, and for a durable    *)
(* run its worker's death and its resumptions, each by a new coordinator   *)
(* (persistence/coordinator.py).  The same sink gets the events of others. *)
(***************************************************************************)
EXTENDS EventSink, MessageHistory, ModelClient, Sandbox

CONSTANTS
  Main,            \* the run that is followed
  Done,            \* the end marker in the queue
  Scopes,          \* what may be asked for, each with its bounds
  Sizes,           \* tokens of a result, by call
  StreamBuffer,    \* stream_buffer
  MaxIterations,   \* max_iterations
  CountsBack       \* a TaskGroup that failed takes back the cancellation it sent to
                   \* its own task, as from Python 3.13 on

Calls == {"code", "other"}

\* A run of a kind, by stream() or run(), with its mode, the calls the model may
\* ask for by iteration, and the bounds: parts of text in an answer, events of
\* the other runs, cancellations of an execution, resumptions.
Scope ==
  [kind : {"plain", "governed", "durable"}, streaming : BOOLEAN, live : BOOLEAN,
   proposals : [1 .. MaxIterations -> SUBSET SUBSET Calls],
   texts : Nat, others : Nat, cancels : Nat, resumes : Nat]

ASSUME StreamAssumption ==
  /\ Main \in Runs /\ Done \notin Nat /\ Sizes \in [Calls -> Nat]
  /\ StreamBuffer \in Nat \ {0} /\ MaxIterations \in Nat \ {0}
  /\ CountsBack \in BOOLEAN
  /\ \A s \in Scopes : s \in Scope /\ (s.live => s.streaming)

VARIABLES
  scope,       \* what was asked for
  status,      \* run.status
  nextSeq,     \* the coordinator's (or a plain run's) next sequence
  stored,      \* the last sequence in the event store
  committed,   \* the sequence of the last checkpoint
  recorded,    \* history: the sequence of the last event emitted
  refused,     \* history: an event of this execution was refused, by the store, the
               \* coordinator or the sink
  pc,          \* where the producer's task is
  cancels,     \* the cancellations it got
  counted,     \* cancelling() counts one more, sent by its own task group
  cut,         \* a cancellation met a commit that is to start or to complete the run:
               \* "before" it, "after" it (the run object is behind the store) or "no"
  lock,        \* who waits in deliver with the lock, or "free"
  held,        \* the event it delivers
  queue,       \* the stream's queue
  consumer,    \* "reading", "closing" or "done"
  lastRead,    \* the last event the consumer got, or before its first the last recorded
  whole,       \* the consumer got the end marker
  lost,        \* history: an event recorded whose call was cut off in emit, or -1
  iteration, pending, answered,   \* LoopCheckpoint
  texts,       \* parts of text to be yielded
  task,        \* the tool calls of the turn
  outcome,     \* while the loop closes its runtime: where the run goes on
  thread,      \* of "other", a sync tool: "none", "awaited" or "dying"
  loose,       \* a tool's thread runs that no call awaits any more
  others,      \* the next sequence of the other runs
  resumes      \* resumptions so far

ledger  == <<status, nextSeq, stored, committed, recorded, refused>>
channel == <<queue, consumer, lastRead, whole>>
marks   == <<counted, cut, lost>>
state   == <<iteration, pending, answered, texts>>
loop    == <<state, outcome>>
threads == <<thread, loose>>
tools   == <<task, threads>>
vars == <<scope, marks, ledger, channel, loop, pc, cancels, lock, held, tools, others,
          resumes, sink, history, client, sandbox>>

kind == scope.kind            \* "plain": no runtime; "governed": no journal
streaming == scope.streaming  \* stream(), not run()
live == scope.live            \* streaming_mode
Proposals == scope.proposals[iteration + 1]

\* A single call runs in the producer's own task, several in a TaskGroup.
Single == Cardinality(pending) = 1

\* agent_loop drains the same loop over _GenerateAsStream.
ByGenerate == ~streaming
Wrapped == ByGenerate \/ kind # "plain"

\* start: run.created is stored with the run, and not emitted.
CreateTransition == nextSeq = 1 /\ stored = 0 /\ committed = 0

Init ==
  /\ scope \in Scopes
  /\ status = IF kind = "plain" THEN "running" ELSE "pending"
  /\ IF kind = "plain" THEN nextSeq = 0 /\ stored = -1 /\ committed = -1
     ELSE CreateTransition
  /\ recorded = nextSeq - 1
  /\ refused = FALSE
  /\ pc = "starting" /\ cancels = 0 /\ lock = "free" /\ held = 0
  /\ counted = FALSE /\ cut = "no" /\ lost = -1
  /\ queue = <<>> /\ consumer = IF streaming THEN "reading" ELSE "done"
  /\ lastRead = recorded /\ whole = FALSE
  /\ iteration = 0 /\ pending = {} /\ answered = FALSE /\ texts = 0
  /\ task = [c \in Calls |-> "off"] /\ others = 0 /\ resumes = 0
  /\ outcome = "none" /\ thread = "none" /\ loose = FALSE
  /\ SinkInit /\ HistoryInit /\ ClientInit /\ SandboxInit

-----------------------------------------------------------------------------
(* Emission.                                                                *)

Allowed ==   \* _ALLOWED
  [pending   |-> {"running", "cancelled"},
   running   |-> {"running", "waiting", "completed", "failed", "cancelled"},
   waiting   |-> {"running", "failed", "cancelled"},
   completed |-> {}, failed |-> {}, cancelled |-> {}]

Terminal == {"completed", "failed", "cancelled"}

\* The store refuses a sequence that is not after the last of its run, and
\* every change of a run that is over; "same" is no change.
StoreRefuses(to) == nextSeq <= stored \/ (to # "same" /\ status \in Terminal)

\* append, or commit_transition: the status, the event and the checkpoint.
StoreEvent(to) ==
  /\ stored' = nextSeq
  /\ IF to = "same" THEN UNCHANGED <<status, committed>>
     ELSE status' = to /\ committed' = nextSeq

\* next_sequence and transition: a run that is over loses its sequence.  What
\* is refused raises in emit; it is noted, and the invariant forbids it.
Number(to) ==
  /\ recorded' = nextSeq
  /\ IF kind = "plain"
     THEN /\ nextSeq' = nextSeq + 1
          /\ refused' = (refused \/ Refused(Main, nextSeq))
          /\ UNCHANGED <<status, stored, committed>>
     ELSE /\ StoreEvent(to)
          /\ nextSeq' = IF to \in Terminal THEN 0 ELSE nextSeq + 1
          /\ refused' = \/ refused \/ Refused(Main, nextSeq) \/ StoreRefuses(to)
                        \/ to \notin Allowed[status] \cup {"same"}

\* An event goes to the queue, or waits in put until there is room.
EmitUnlocked(who, to) ==
  /\ Number(to) /\ Record(Main, nextSeq)
  /\ IF ~streaming THEN UNCHANGED <<queue, lock, held>>
     ELSE IF Len(queue) < StreamBuffer
     THEN queue' = Append(queue, nextSeq) /\ UNCHANGED <<lock, held>>
     ELSE lock' = who /\ held' = nextSeq /\ UNCHANGED queue

\* emit, when nobody has the lock: who waits in put has it.
Emit(who, to) == lock = "free" /\ EmitUnlocked(who, to)

\* deliver is None: nothing waits on an abandoned queue.
EmitUndelivered(to) ==
  /\ lock = "free"
  /\ Number(to) /\ Record(Main, nextSeq)
  /\ UNCHANGED <<queue, lock, held>>

\* put goes on, and the lock is released.
Deliver ==
  /\ lock # "free" /\ Len(queue) < StreamBuffer
  /\ queue' = Append(queue, held)
  /\ lock' = "free" /\ held' = 0
  /\ UNCHANGED <<scope, marks, ledger, consumer, lastRead, whole, loop, pc, cancels, tools,
                 others, resumes, sink, history, client, sandbox>>

\* Most steps leave these alone.
Still == UNCHANGED <<scope, marks, consumer, lastRead, whole, others, resumes>>
Quiet == UNCHANGED <<scope, marks, ledger, channel, lock, held, others, resumes, sink>>

At(p) == pc = p /\ lock # "run"

\* _resolve_tool_config: no runtime was given to the loop.
OwnsRuntime == kind = "plain"

\* The loop is left: one that owns its runtime closes it first.
Leave(to) == IF OwnsRuntime THEN pc' = "closing" /\ outcome' = to
             ELSE pc' = to /\ UNCHANGED outcome

-----------------------------------------------------------------------------
(* The agent loop.                                                          *)

Start ==
  /\ At("starting")
  /\ Emit("run", "running")
  /\ pc' = "loading"
  /\ Still /\ UNCHANGED <<loop, cancels, tools, history, client, sandbox>>

\* _prepare_loop; a recorded result is given again, pending calls come first.
Load ==
  /\ At("loading")
  /\ LoadHistory
  /\ pc' = IF answered THEN "completing" ELSE IF pending # {} THEN "dispatching" ELSE "turn"
  /\ Quiet /\ UNCHANGED <<loop, cancels, tools, client, sandbox>>

\* The next iteration, when its messages fit.
Turn ==
  /\ At("turn") /\ iteration < MaxIterations /\ ~Overflows
  /\ Prune /\ Ask
  /\ texts' = 0 /\ pc' = "asking"
  /\ Quiet /\ UNCHANGED <<kept, iteration, pending, answered, outcome, cancels, tools, sandbox>>

\* LoopLimitError, ContextBudgetExceeded.
TurnFails ==
  /\ At("turn") /\ (iteration = MaxIterations \/ Overflows)
  /\ Leave("failing")
  /\ Quiet /\ UNCHANGED <<state, cancels, tools, history, client, sandbox>>

Wait ==
  /\ pc = "asking"
  /\ Tick(Wrapped) \/ Retry(Wrapped) \/ Wakes(Wrapped) \/ AskWithoutUsage(streaming)
  /\ Quiet /\ UNCHANGED <<loop, pc, cancels, tools, history, sandbox>>

ModelAnswers ==
  /\ pc = "asking" /\ Responds(Wrapped)
  /\ pc' = "streaming"
  /\ Quiet /\ UNCHANGED <<loop, cancels, tools, history, sandbox>>

ModelFails ==
  /\ \/ pc = "asking" /\ (GivesUp(Wrapped) \/ Refuses \/ DeadlinePasses(Wrapped))
     \/ At("streaming") /\ Breaks
  /\ Leave("failing")
  /\ Quiet /\ UNCHANGED <<state, cancels, tools, history, sandbox>>

\* A chunk with text: yielded at once in live mode.
Chunk ==
  /\ At("streaming") /\ streaming /\ texts < scope.texts
  /\ texts' = texts + 1
  /\ IF live THEN Emit("run", "same") ELSE UNCHANGED <<ledger, queue, lock, held, sink>>
  /\ Still /\ UNCHANGED <<iteration, pending, answered, outcome, pc, cancels, tools,
                          history, client, sandbox>>

\* No calls: the text that was held back is yielded, the result is saved.
Answer ==
  /\ At("streaming") /\ {} \in Proposals
  /\ pc' = "answering"
  /\ Quiet /\ UNCHANGED <<loop, cancels, tools, history, client, sandbox>>

Text ==
  /\ At("answering") /\ ~live /\ texts > 0
  /\ texts' = texts - 1
  /\ Emit("run", "same")
  /\ Still /\ UNCHANGED <<iteration, pending, answered, outcome, pc, cancels, tools,
                          history, client, sandbox>>

SaveResult ==
  /\ At("answering") /\ (live \/ texts = 0)
  /\ iteration' = iteration + 1 /\ answered' = TRUE /\ texts' = 0
  /\ kept' = messages
  /\ Leave("completing")
  /\ Quiet /\ UNCHANGED <<messages, cache, pending, cancels, tools, client, sandbox>>

\* _run_tool_calls: the calls are saved before anything is dispatched.
Propose ==
  /\ At("streaming")
  /\ \E calls \in Proposals \ {{}} :
       /\ pending' = calls
       /\ messages' = Extend(messages, "call", Cardinality(calls), 1)
  /\ kept' = messages'
  /\ iteration' = iteration + 1 /\ texts' = 0
  /\ pc' = "dispatching"
  /\ Quiet /\ UNCHANGED <<cache, answered, outcome, cancels, tools, client, sandbox>>

\* close(wait=False)
CloseRuntimeAtOnce ==
  /\ pc = "closing"
  /\ pc' = outcome /\ outcome' = "none"
  /\ Quiet /\ UNCHANGED <<state, cancels, tools, history, client, sandbox>>

\* _loop_session: close awaits the threads of the pool, in a thread of its own.
CloseRuntime ==
  /\ pc = "closing" /\ ~loose
  /\ pc' = outcome /\ outcome' = "none"
  /\ Quiet /\ UNCHANGED <<state, cancels, tools, history, client, sandbox>>

Complete ==
  /\ At("completing")
  /\ Emit("run", "completed")
  /\ pc' = "finishing"
  /\ Still /\ UNCHANGED <<loop, cancels, tools, history, client, sandbox>>

Finish ==
  /\ At("finishing")
  /\ pc' = "ending"
  /\ Quiet /\ UNCHANGED <<loop, cancels, tools, history, client, sandbox>>

-----------------------------------------------------------------------------
(* The calls of a turn.                                                     *)

Governed == kind # "plain"   \* on_tool_event

\* Everything but the calls stays.
OnlyTools == Quiet /\ UNCHANGED <<loop, cancels, history, client>>

Dispatch ==
  /\ At("dispatching")
  /\ task' = [c \in Calls |-> IF c \notin pending THEN "off"
                              ELSE IF Governed THEN "calling" ELSE "called"]
  /\ pc' = "tools"
  /\ Quiet /\ UNCHANGED <<loop, threads, cancels, history, client, sandbox>>

Returned == lock = "free" /\ \A c \in pending : task[c] = "done"

\* A call turns out to need an approval; the others of its group go on.
Gate(c) ==
  /\ pc = "tools" /\ task[c] = "called" /\ lock # c
  /\ task' = [task EXCEPT ![c] = "gated"]
  /\ OnlyTools /\ UNCHANGED <<pc, threads, sandbox>>

AllEnded == lock = "free" /\ \A c \in pending : task[c] \in {"done", "gated"}

\* ApprovalRequiredGroup: found before the dispatch, or when all calls are over.
Suspend ==
  /\ \/ At("dispatching")
     \/ pc = "tools" /\ AllEnded /\ ~Returned
  /\ Leave("waiting")
  /\ task' = [c \in Calls |-> "off"]
  /\ Quiet /\ UNCHANGED <<state, threads, cancels, history, client, sandbox>>

\* tool_start
Call(c) ==
  /\ pc = "tools" /\ task[c] = "calling"
  /\ Emit(c, "same")
  /\ task' = [task EXCEPT ![c] = "called"]
  /\ Still /\ UNCHANGED <<loop, pc, cancels, threads, history, client, sandbox>>

\* "other" is a sync function, which the runtime runs in a thread.
Begin(c) ==
  /\ pc = "tools" /\ task[c] = "called" /\ lock # c
  /\ task' = [task EXCEPT ![c] = "acting"]
  /\ IF c = "code" THEN BoxStarts /\ UNCHANGED threads
     ELSE thread' = "awaited" /\ UNCHANGED <<loose, sandbox>>
  /\ OnlyTools /\ UNCHANGED pc

Result == IF Governed THEN "resulting" ELSE "done"

\* The call returns; the last of cancelled ones ends the loop, with the
\* cancellation or with the exception that had the group cancelled.
Return(c) ==
  /\ task' = [task EXCEPT ![c] = IF pc = "tools" THEN Result ELSE "off"]
  /\ IF pc # "tools" /\ \A d \in Calls \ {c} : task[d] = "off"
     THEN Leave(IF pc = "aborting" THEN "cancelled" ELSE "waiting")
     ELSE UNCHANGED <<pc, outcome>>
  /\ Quiet /\ UNCHANGED <<state, cancels, history, client>>

\* With a journal, a call that its deadline ended has no outcome to return.
TimedOut(c) == kind = "durable" /\ pc = "tools"
               /\ IF c = "code" THEN ends = "timeout" ELSE thread = "dying"

\* The thread ends, and with it the call, which awaited it though cancelled.
Act ==
  /\ task["other"] = "acting" /\ ~TimedOut("other")
  /\ Return("other") /\ thread' = "none"
  /\ UNCHANGED <<loose, sandbox>>

\* The tool's deadline cancels a call, which awaits its thread all the same.
ThreadTimeout ==
  /\ pc = "tools" /\ thread = "awaited"
  /\ thread' = "dying"
  /\ OnlyTools /\ UNCHANGED <<pc, task, loose, sandbox>>

LooseEnds ==
  /\ loose /\ loose' = FALSE
  /\ OnlyTools /\ UNCHANGED <<pc, task, thread, sandbox>>

\* execute goes on; the tool's deadline cancels it, once.
Execute ==
  /\ pc \in {"tools", "aborting", "doubting"} /\ task["code"] = "acting"
  /\ \/ BoxRuns \/ BoxFinishes \/ BoxCleans \/ BoxLeaves
     \/ ends = "return" /\ BoxCancelled("timeout")
  /\ OnlyTools /\ UNCHANGED <<pc, tools>>

Removal == Removes /\ OnlyTools /\ UNCHANGED <<pc, tools>>

\* execute has returned, raised or been cancelled.
Executed ==
  /\ task["code"] = "acting" /\ box = "left" /\ ~TimedOut("code")
  /\ Return("code")
  /\ IF removal = "going" THEN UNCHANGED sandbox ELSE SandboxLost
  /\ UNCHANGED threads

\* tool_result
GiveResult(c) ==
  /\ pc = "tools" /\ task[c] = "resulting"
  /\ Emit(c, "same")
  /\ task' = [task EXCEPT ![c] = "done"]
  /\ Still /\ UNCHANGED <<loop, pc, cancels, threads, history, client, sandbox>>

\* The results are appended in the order of the calls, and saved.
Results(ms) ==
  LET code == IF "code" \in pending THEN Extend(ms, "tool", 0, Sizes["code"]) ELSE ms
  IN IF "other" \in pending THEN Extend(code, "tool", 0, Sizes["other"]) ELSE code

FinishPending ==
  /\ pc = "tools" /\ Returned
  /\ messages' = Results(messages) /\ kept' = messages'
  /\ pending' = {} /\ task' = [c \in Calls |-> "off"]
  /\ pc' = "turn"
  /\ Quiet /\ UNCHANGED <<cache, iteration, answered, texts, outcome, threads, cancels, client,
                          sandbox>>

-----------------------------------------------------------------------------
(* The end.                                                                 *)

Suspended ==
  /\ At("waiting")
  /\ Emit("run", "waiting")
  /\ pc' = "ending"
  /\ Still /\ UNCHANGED <<loop, cancels, tools, history, client, sandbox>>

\* A durable run that fails with an action in doubt waits instead.
Fail ==
  /\ At("failing")
  /\ \/ Emit("run", "failed")
     \/ kind = "durable" /\ Emit("run", "waiting")
  /\ pc' = "ending"
  /\ Still /\ UNCHANGED <<loop, cancels, tools, history, client, sandbox>>

\* What the handler of a cancellation asks for, and is refused for a run object
\* that is not running yet or whose version is no longer the stored one.
Ending == IF kind = "durable" THEN "waiting" ELSE "cancelled"
RunIsBehind == kind # "plain" /\ (cut = "after" \/ Ending \notin Allowed[status])

Abandon ==
  /\ At("cancelled")
  /\ IF kind # "plain" /\ status \in Terminal /\ cut # "after"
     THEN UNCHANGED <<ledger, sink, queue, lock, held>>
     ELSE IF RunIsBehind
     THEN /\ refused' = TRUE
          /\ UNCHANGED <<status, nextSeq, stored, committed, recorded, sink, queue, lock, held>>
     ELSE EmitUndelivered(Ending)
  /\ pc' = "ending"
  /\ Still /\ UNCHANGED <<loop, cancels, tools, history, client, sandbox>>

\* The marker is put although nobody is left to make room for it.
PutAlways ==
  /\ At("ending")
  /\ IF streaming
     THEN Len(queue) < StreamBuffer /\ queue' = Append(queue, Done)
     ELSE UNCHANGED queue
  /\ pc' = "over"
  /\ UNCHANGED <<scope, marks, ledger, consumer, lastRead, whole, loop, cancels, lock, held,
                 tools, others, resumes, sink, history, client, sandbox>>

\* produce: the end marker, unless the task was cancelled.
PutNone ==
  /\ At("ending")
  /\ IF streaming /\ cancels = 0 /\ ~counted
     THEN Len(queue) < StreamBuffer /\ queue' = Append(queue, Done)
     ELSE UNCHANGED queue
  /\ pc' = "over"
  /\ UNCHANGED <<scope, marks, ledger, consumer, lastRead, whole, loop, cancels, lock, held,
                 tools, others, resumes, sink, history, client, sandbox>>

-----------------------------------------------------------------------------
(* Cancellation.                                                            *)

\* The lock goes with the task that has it.
Released == IF lock = "run" \/ lock \in pending THEN lock' = "free" /\ held' = 0
            ELSE UNCHANGED <<lock, held>>

\* The await the task is at raises CancelledError: before _execute's try, in
\* the loop, after it, in one of the handlers, or at the end.
InLoop == {"loading", "turn", "asking", "streaming", "answering", "dispatching"}
Handlers == {"waiting", "failing", "cancelled"}

\* In the commit that starts or completes the run, which lands all the same
\* (SQLiteStore._call), or in what a resumed run reads before it.
CutCommit ==
  /\ kind # "plain" /\ pc \in {"starting", "completing"}
  /\ \/ Number(IF pc = "starting" THEN "running" ELSE "completed") /\ cut' = "after"
     \/ pc = "starting" /\ resumes > 0 /\ cut' = "before" /\ UNCHANGED ledger
  /\ pc' = "cancelled" /\ UNCHANGED outcome

InterruptRun ==
  /\ \/ pc \in InLoop /\ Leave("cancelled") /\ UNCHANGED <<ledger, cut>>
     \/ /\ pc \in {"starting", "closing", "completing", "finishing", "ending"} \cup Handlers
        /\ pc' = CASE pc = "starting" -> "over"
                   [] pc \in Handlers -> "ending"
                   [] pc = "ending" -> IF lock = "run" THEN "ending" ELSE "over"
                   [] OTHER -> "cancelled"
        /\ outcome' = "none"
        /\ UNCHANGED <<ledger, cut>>
     \/ CutCommit
  /\ Released
  /\ ClientStops
  /\ UNCHANGED <<tools, sandbox>>

\* The calls.  Code that runs is stopped first and a thread is awaited, but by
\* a call that its deadline or another cancellation has cancelled already; the
\* others stop at once.  A group swallows the next cancellation, a single call
\* gets it.
Stays(c) == task[c] = "acting" /\ IF c = "code" THEN box # "left" ELSE thread = "awaited"

InterruptTools ==
  /\ \/ pc = "tools"
     \/ pc = "aborting" /\ Single
  /\ task' = [c \in Calls |-> IF Stays(c) THEN "acting" ELSE "off"]
  /\ IF \E c \in Calls : Stays(c)
     THEN pc' = "aborting" /\ UNCHANGED outcome
     ELSE Leave("cancelled")
  /\ IF Stays("code") THEN BoxCancelled("cancel") ELSE UNCHANGED sandbox
  /\ thread' = IF thread = "awaited" THEN "dying" ELSE "none"
  /\ loose' = (loose \/ thread = "dying")
  /\ Released
  /\ UNCHANGED <<ledger, cut, client>>

\* One that would come while a failed group waits comes to its handler instead,
\* where the group counts back.
Swallowed ==
  /\ \/ pc = "aborting" /\ ~Single
     \/ pc = "doubting" /\ ~CountsBack
  /\ UNCHANGED <<ledger, cut, pc, outcome, lock, held, tools, sandbox, client>>

\* Where the others of a group are cut off: in deliver, with the lock, or in
\* append, which the store finishes; the sequence is used, the event not given.
CutOff(c) ==
  \/ lock = "free" /\ UNCHANGED <<ledger, lost, lock, held>>
  \/ lock \notin {"free", c} /\ Released /\ lost' = held /\ UNCHANGED ledger
  \/ /\ lock = "free" /\ \E d \in pending \ {c} : task[d] \in {"calling", "resulting"}
     /\ Number("same") /\ lost' = IF streaming THEN nextSeq ELSE lost
     /\ UNCHANGED <<lock, held>>

\* OutcomeUnknown: the journal or a call that had started raises, and the group
\* cancels the others at once.
Doubt(c) ==
  /\ pc = "tools" /\ kind = "durable"
  /\ \/ task[c] = "called"
     \/ task[c] = "acting" /\ (c = "code" => box = "left")
  /\ task' = [d \in Calls |-> IF d # c /\ Stays(d) THEN "acting" ELSE "off"]
  /\ IF \E d \in Calls \ {c} : Stays(d)
     THEN pc' = "doubting" /\ UNCHANGED outcome
     ELSE Leave("waiting")
  /\ IF c # "code" /\ Stays("code") THEN BoxCancelled("cancel") ELSE UNCHANGED sandbox
  /\ thread' = IF c # "other" /\ thread = "awaited" THEN "dying" ELSE "none"
  /\ loose' = (loose \/ (c # "other" /\ thread = "dying"))
  /\ counted' = (~Single /\ ~CountsBack)
  /\ CutOff(c)
  /\ UNCHANGED <<scope, cut, channel, state, cancels, others, resumes, sink, history, client>>

\* The consumer closes the stream, or the caller of run() is cancelled.
Cancel ==
  /\ cancels < scope.cancels /\ pc # "over" /\ (streaming => consumer # "done")
  /\ consumer' = IF streaming THEN "closing" ELSE consumer
  /\ InterruptRun \/ InterruptTools \/ Swallowed
  /\ cancels' = cancels + 1
  /\ UNCHANGED <<scope, counted, lost, queue, lastRead, whole, state, others, resumes, sink,
                 history>>

-----------------------------------------------------------------------------
(* The consumer of the stream, the subscriber and the other runs.           *)

Read ==
  /\ consumer = "reading" /\ queue # <<>>
  /\ queue' = Tail(queue)
  /\ IF Head(queue) = Done
     THEN consumer' = "closing" /\ whole' = TRUE /\ UNCHANGED lastRead
     ELSE lastRead' = Head(queue) /\ UNCHANGED <<consumer, whole>>
  /\ UNCHANGED <<scope, marks, ledger, loop, pc, cancels, lock, held, tools, others, resumes,
                 sink, history, client, sandbox>>

Close ==
  /\ consumer = "closing" /\ pc = "over"
  /\ consumer' = "done"
  /\ UNCHANGED <<scope, marks, ledger, queue, lastRead, whole, loop, pc, cancels, lock, held,
                 tools, others, resumes, sink, history, client, sandbox>>

OtherAppends ==
  /\ others < scope.others /\ others' = others + 1
  /\ \E r \in Runs \ {Main} : Record(r, others)
  /\ UNCHANGED <<scope, marks, ledger, channel, loop, pc, cancels, lock, held, tools, resumes,
                 history, client, sandbox>>

Subscribe ==
  /\ Wake
  /\ UNCHANGED <<scope, marks, ledger, channel, loop, pc, cancels, lock, held, tools, others,
                 resumes, history, client, sandbox>>

-----------------------------------------------------------------------------
(* The worker of a durable run.                                             *)

Crash ==
  /\ kind = "durable" /\ pc # "over" /\ resumes < scope.resumes
  /\ pc' = "over" /\ lock' = "free" /\ held' = 0
  /\ queue' = <<>> /\ consumer' = "done"
  /\ task' = [c \in Calls |-> "off"] /\ thread' = "none" /\ loose' = FALSE
  /\ SinkLost /\ ClientResets /\ SandboxLost
  /\ UNCHANGED <<scope, marks, ledger, lastRead, whole, loop, cancels, others, resumes, history>>

\* A new coordinator numbers on from the last checkpoint.
SequenceOfCheckpoint == committed + 1

\* latest and read, of the store.
LatestCheckpoint == committed
LastEvent == stored

\* transition, on a coordinator that does not know the run.
SequenceOfStore == Max({LatestCheckpoint + 1, LastEvent + 1})

Resume ==
  /\ kind = "durable" /\ pc = "over" /\ consumer = "done"
  /\ status \in {"running", "waiting"} /\ resumes < scope.resumes
  /\ nextSeq' = SequenceOfStore
  /\ pc' = "starting" /\ cancels' = 0 /\ resumes' = resumes + 1
  /\ queue' = <<>> /\ consumer' = IF streaming THEN "reading" ELSE "done"
  /\ lastRead' = recorded /\ whole' = FALSE
  /\ counted' = FALSE /\ cut' = "no" /\ lost' = -1 /\ refused' = FALSE
  /\ ClientResets
  /\ UNCHANGED <<scope, status, stored, committed, recorded, lock, held, loop,
                 tools, others, sink, history, sandbox>>

-----------------------------------------------------------------------------
Loop == \/ Start \/ Load \/ Turn \/ TurnFails \/ Wait \/ ModelAnswers \/ ModelFails
        \/ Chunk \/ Answer \/ Text \/ SaveResult \/ Propose \/ CloseRuntime \/ Complete \/ Finish
        \/ Dispatch \/ Suspend \/ FinishPending \/ Suspended \/ Fail \/ Abandon \/ PutNone

Tools == \/ Act \/ ThreadTimeout \/ LooseEnds \/ Execute \/ Executed
         \/ \E c \in Calls : Call(c) \/ Gate(c) \/ Begin(c) \/ GiveResult(c) \/ Doubt(c)

Next ==
  \/ Loop \/ Tools \/ Deliver \/ Removal
  \/ Cancel \/ Read \/ Close \/ OtherAppends \/ Subscribe \/ Crash \/ Resume

\* The event loop runs what is ready, requests and tools have deadlines, the
\* removal has one, the consumer reads until it closes and the subscriber reads.
Fairness ==
  /\ WF_vars(Loop) /\ WF_vars(Tools) /\ WF_vars(Deliver) /\ WF_vars(Removal)
  /\ WF_vars(Read) /\ WF_vars(Close) /\ WF_vars(Subscribe)

Spec == Init /\ [][Next]_vars /\ Fairness

-----------------------------------------------------------------------------
\* Type correctness of the run and of the parts it is composed of; the sleeps
\* of all the requests of a loop together stay within the retry budget.
TypeOK ==
  /\ SinkTypeOK /\ HistoryTypeOK /\ ClientTypeOK /\ SandboxTypeOK
  /\ status \in DOMAIN Allowed
  /\ Len(queue) <= StreamBuffer /\ consumer \in {"reading", "closing", "done"}
  /\ lock \in {"free", "run"} \cup Calls
  /\ iteration \in 0 .. MaxIterations /\ pending \subseteq Calls
  /\ task \in [Calls -> {"off", "calling", "called", "gated", "acting", "resulting", "done"}]
  /\ thread \in {"none", "awaited", "dying"} /\ loose \in BOOLEAN

\* The n-th event after the one last read, but for the one that was lost.
Following(n) ==
  LET m == lastRead + n IN IF lastRead < lost /\ lost <= m THEN m + 1 ELSE m

\* The events of a run are its record (RunEvent, coordinator.py): across turns,
\* concurrent calls, crashes and resumptions none is refused for its sequence
\* or its transition, but the ending of a run that was cancelled while its start
\* or its completion was committed; the stream gives them one after the other
\* without a gap, but for an event whose call was cut off by another of unknown
\* outcome, one that is read to its end has given the last of them, and a
\* governed run records nothing once its end is recorded.
StreamIsRecord ==
  /\ refused => cut # "no"
  /\ \A i \in DOMAIN queue : queue[i] # Done =>
       queue[i] = Following(i) /\ \A j \in 1 .. i - 1 : queue[j] # Done
  /\ whole => lastRead = recorded
  /\ (kind # "plain" /\ status \in Terminal) => recorded = committed

\* A run keeps to its transitions, with an event for each, and its reader gets
\* the events one by one as the abstract stream gives them: nothing is lost or
\* given twice by the lock, the queue, a cancellation or a crash (emit and
\* stream, runner.py), but for one event, directly before the one that suspends
\* the run, when the outcome of a call is unknown.
Stream == INSTANCE EventStream WITH Transitions <- Allowed, given <- lastRead

ImplementsStream == Stream!StreamSpec

\* What the model is asked with fits its context and keeps every call with its
\* results; no token count is that of an earlier message at the same address.
PromptFits == CacheIsRight /\ (pc = "asking" => Fits)

\* Once execute is over and the removal it started has ended, its container is
\* gone, or its removal has failed and been reported; the exception is a
\* cancellation where the removal has not been started.
ContainerGone ==
  box = "left" /\ removal # "going" =>
    container # "up" \/ removal = "failed" \/ hurried

\* A run that made its own runtime is over only when no thread of its tools
\* runs, however it ends, or it was cancelled again while it waited for one;
\* in a runtime that others share the thread of a call cancelled twice runs on.
ThreadsAreAwaited ==
  (OwnsRuntime /\ loose) => pc \in {"aborting", "closing"} \/ cancels > 1

\* runner.py: the end marker is left out on the consumer's cancellation, when
\* nobody remains to drain a full queue; who still reads is told the end.  It
\* holds where CountsBack does.
ReaderIsTold == pc = "over" /\ consumer = "reading" => Done \in ToSet(queue)

\* docs/guides/reliability.md: a request that exceeds its timeout is retried
\* until its retries or the budget are spent.
TimeoutsAreRetried ==
  failure = "timeout" =>
    attempt = MaxRetries \/ used + BaseDelay * 2 ^ attempt > RetryBudget

\* Every execution comes to rest, whatever is cancelled and whenever the reader
\* leaves: the producer, the consumer, the calls and the removal are over,
\* nobody waits in the queue with the lock, and the subscriber has what is
\* there for it.  It needs CountsBack, for the reader to be told the end.
Settled ==
  /\ pc = "over" /\ consumer = "done" /\ lock = "free"
  /\ \A c \in Calls : task[c] \in {"off", "done"}
  /\ removal # "going" /\ ~loose /\ CaughtUp

StreamEnds == <>[]Settled
=============================================================================
