------------------------- MODULE AgentStream_proofs -------------------------
(***************************************************************************)
(* The safety of one run of the agent, for every scope, bound, size and    *)
(* number of messages.  The parts that the run is composed of are proved   *)
(* one after the other: the sandbox and the client by themselves, then     *)
(* where the tasks are and who has the lock, then the record of events,    *)
(* which the sink, the store, the queue and the reader each have a piece   *)
(* of, and last the messages.                                              *)
(***************************************************************************)
EXTENDS AgentStream, Lists_proofs

-----------------------------------------------------------------------------
(* The inductive invariant.                                                *)

\* A removal is started once the command is dead, and not before.
SandboxInv ==
  /\ SandboxTypeOK
  /\ box \in {"none", "starting", "running", "cleaning"} => removal = "none"
  /\ box = "removing" => removal # "none"
  /\ removal = "done" => container = "gone"
  /\ box = "left" => removal # "none" \/ hurried

\* Nobody sleeps after the last attempt.
ClientInv == ClientTypeOK /\ (phase = "sleeping" => attempt < MaxRetries)

Pcs == {"starting", "loading", "turn", "asking", "streaming", "answering", "dispatching",
        "tools", "aborting", "doubting", "closing", "completing", "finishing", "waiting",
        "failing", "cancelled", "ending", "over"}
Outcomes == {"failing", "completing", "waiting", "cancelled"}
TaskStates == {"off", "calling", "called", "gated", "acting", "resulting", "done"}

\* Where the tasks are: a request is made within the iterations, a turn has no
\* calls left, and only a loop with a runtime of its own closes it.
ControlInv ==
  /\ scope \in Scopes /\ pc \in Pcs /\ cancels \in Nat
  /\ iteration \in 0 .. MaxIterations /\ pending \subseteq Calls
  /\ pc \in {"asking", "streaming", "answering"} => iteration < MaxIterations
  /\ pc \in {"turn", "asking", "streaming", "answering"} => pending = {}
  /\ IF pc = "closing" THEN kind = "plain" /\ outcome \in Outcomes ELSE outcome = "none"

\* Where an execution is that was cancelled.
Stopped == {"aborting", "doubting", "waiting", "closing", "cancelled", "ending", "over"}

\* Who was cancelled, and what runs on because of it; a group whose calls failed
\* may swallow it and come to its suspension all the same.
CancelInv ==
  /\ cancels > 0 => pc \in Stopped /\ (pc = "closing" => outcome = "cancelled")
  /\ "cancelled" \in {pc, outcome} \/ pc = "aborting" => cancels > 0
  /\ pc = "doubting" => kind = "durable"
  /\ OwnsRuntime /\ loose => cancels > 0
  /\ ThreadsAreAwaited

\* Who waits in deliver with the lock is where an event was emitted; a call
\* that is under way is one of the turn.
LockInv ==
  /\ task \in [Calls -> TaskStates]
  /\ thread \in {"none", "awaited", "dying"} /\ loose \in BOOLEAN
  /\ lock \in {"free", "run"} \cup Calls
  /\ lock = "run" => pc \in {"loading", "streaming", "answering", "finishing", "ending"}
  /\ lock \in Calls => pc = "tools" /\ lock \in pending /\ task[lock] \in {"called", "done"}
  /\ \A c \in Calls :
       task[c] # "off" => c \in pending /\ pc \in {"tools", "aborting", "doubting"}
  /\ lock # "free" => streaming

\* The numbers of the coordinator follow those of the store, and the status is
\* the one the loop takes it for, but after a commit that was cut.
LedgerInv ==
  /\ status \in DOMAIN Allowed /\ refused \in BOOLEAN /\ cut \in {"no", "before", "after"}
  /\ refused => cut # "no"
  /\ cut # "no" => kind # "plain" /\ pc \in {"cancelled", "ending", "over"}
  /\ recorded \in Nat \cup {-1}
  /\ IF kind = "plain" THEN status = "running" /\ nextSeq = recorded + 1
     ELSE /\ stored = recorded /\ recorded \in Nat
          /\ committed \in 0 .. recorded
          /\ pc # "over" /\ status \notin Terminal => nextSeq = stored + 1
          /\ status \in Terminal => recorded = committed
          /\ pc = "starting" => status \in {"pending", "running", "waiting"}
          /\ pc = "finishing" => status = "completed"
          /\ pc = "cancelled" /\ cut = "no" => status \in {"running", "completed"}
          /\ pc \notin {"starting", "finishing", "cancelled", "ending", "over"} =>
               status = "running"

Events == [offset : Nat, run : Runs, seq : Nat]
Lasts == [run : Runs, seq : Nat]

\* A buffer before the offset n: its offsets go on without a gap.
BufferOK(b, n) ==
  /\ b \in Seq(Events) /\ Len(b) <= MaxEvents
  /\ \A i \in 1 .. Len(b) : b[i].offset = n - Len(b) + i - 1

\* A table of the last events.
TableOK(t) ==
  /\ t \in Seq(Lasts) /\ Len(t) <= MaxTracked
  /\ \A i, j \in 1 .. Len(t) : t[i].run = t[j].run => i = j

\* The sink knows no event of the run that is not recorded.
SinkInv ==
  /\ BufferOK(buffer, offset) /\ TableOK(tracked)
  /\ offset \in Nat /\ others \in Nat /\ topic \in Topics /\ cursor \in Nat \cup {-1}
  /\ \A i \in 1 .. Len(tracked) : tracked[i].run = Main => tracked[i].seq <= recorded

\* The n-th event after read, when l was lost.
Nth(read, l, n) == LET m == read + n IN IF read < l /\ l <= m THEN m + 1 ELSE m

\* The events of a queue go on from what was read; nothing follows the end
\* marker.
InOrder(q, read, l) ==
  /\ q \in Seq(Nat \cup {Done})
  /\ \A i \in 1 .. Len(q) : q[i] # Done => q[i] = Nth(read, l, i)
  /\ \A i \in 1 .. Len(q) : \A j \in 1 .. i - 1 : q[j] # Done

Marked(q) == \E i \in 1 .. Len(q) : q[i] = Done

\* Where a run goes whose call was of unknown outcome.
Doubtful == {"doubting", "waiting"}

\* What is lost is lost with a group of calls, and is the last event before the
\* suspension.
LostInv ==
  /\ lost \in Nat \cup {-1} /\ lost <= recorded
  /\ lost # -1 => kind = "durable" /\ streaming /\ pc \in Doubtful \cup {"ending", "over"}
  /\ lost # -1 /\ lost = recorded => pc \in Doubtful \cup {"over"} \/ cancels > 0
  /\ lost # -1 /\ pc \in Doubtful => lost = recorded

\* What the reader has, what is in the queue and what waits for room are, in
\* this order, the record but for what was lost, until the run is cancelled; the
\* end marker follows the last of it.
QueueInv ==
  /\ Len(queue) <= StreamBuffer
  /\ consumer \in {"reading", "closing", "done"} /\ whole \in BOOLEAN
  /\ lastRead \in Nat \cup {-1} /\ InOrder(queue, lastRead, lost)
  /\ IF Marked(queue) THEN pc = "over" /\ Nth(lastRead, lost, Len(queue) - 1) = recorded
     ELSE Nth(lastRead, lost, Len(queue) + 1) <= recorded + 1
  /\ lock # "free" => held = recorded /\ Nth(lastRead, lost, Len(queue) + 1) = recorded
  /\ streaming /\ (cancels = 0 \/ pc \in Doubtful) /\ pc # "over" /\ lock = "free" =>
       Nth(lastRead, lost, Len(queue) + 1) = recorded + 1
  /\ whole => consumer # "reading" /\ lastRead = recorded /\ pc = "over"

Messages == [at : Nat, role : {"system", "user", "call", "tool"}, calls : Nat, size : Nat]

\* Messages that begin with the prefix, each at an address of its own.
Formed(ms) ==
  /\ ms \in Seq(Messages) /\ Len(ms) >= PrefixLen
  /\ \A i \in 1 .. PrefixLen : ms[i] = Prefix[i]
  /\ \A i, j \in 1 .. Len(ms) : ms[i].at = ms[j].at => i = j

\* Up to N every call has all its results, and every result its call.
Paired(ms, N) ==
  \A i \in PrefixLen + 1 .. N :
    IF ms[i].role = "call"
    THEN \A k \in 1 .. ms[i].calls : i + k <= N /\ ms[i + k].role = "tool"
    ELSE \E j \in PrefixLen + 1 .. i - 1 : ms[j].role = "call" /\ i - j <= ms[j].calls

\* The calls that are pending are the last message; without, all are paired.
Shaped(ms, calls) ==
  IF calls = {} THEN Paired(ms, Len(ms))
  ELSE /\ Len(ms) > PrefixLen /\ Paired(ms, Len(ms) - 1)
       /\ ms[Len(ms)].role = "call" /\ ms[Len(ms)].calls = Cardinality(calls)

\* The counts of c are those of the messages of ms.
Right(c, ms) == \A i \in 1 .. Len(ms) : ms[i].at \in DOMAIN c => c[ms[i].at] = ms[i].size

WithinContext(ms) ==
  Len(ms) > PrefixLen => Total([i \in DOMAIN ms |-> ms[i].size], Len(ms)) <= MaxTokens

\* The messages and those of the checkpoint end in the calls that are pending.
HistoryInv ==
  /\ Formed(messages) /\ Shaped(messages, pending)
  /\ IF kept = <<>> THEN pending = {} ELSE Formed(kept) /\ Shaped(kept, pending)
  /\ Right(cache, messages) /\ DOMAIN cache \subseteq AddressesOf(messages)
  /\ pc = "asking" => WithinContext(messages)

-----------------------------------------------------------------------------
(* The sandbox.                                                            *)

\* What a step of the run may do with it.
SandboxMoves ==
  \/ BoxStarts \/ BoxRuns \/ BoxFinishes \/ BoxCleans \/ Removes \/ BoxLeaves
  \/ BoxCancelled("timeout") \/ BoxCancelled("cancel") \/ SandboxLost
  \/ UNCHANGED sandbox

LEMMA StepsOfSandbox ==
  ASSUME [Next]_vars
  PROVE  SandboxMoves
PROOF
  <1>1. CASE UNCHANGED vars
    BY <1>1 DEF vars, SandboxMoves
  <1>2. CASE Loop
    BY <1>2 DEF Loop, Start, Load, Turn, TurnFails, Wait, ModelAnswers, ModelFails, Chunk, Answer,
         Text, SaveResult, Propose, CloseRuntime, Complete, Finish, Dispatch, Suspend,
         FinishPending, Suspended, Fail, Abandon, PutNone, SandboxMoves
  <1>3. CASE Tools
    BY <1>3 DEF Tools, Act, ThreadTimeout, LooseEnds, Execute, Executed, Call, Gate, Begin,
         GiveResult, Doubt, SandboxMoves
  <1>4. CASE Cancel
    BY <1>4 DEF Cancel, InterruptRun, InterruptTools, Swallowed, SandboxMoves
  <1>5. CASE Deliver \/ Removal \/ Read \/ Close \/ OtherAppends \/ Subscribe
             \/ Crash \/ Resume
    BY <1>5 DEF Deliver, Removal, Read, Close, OtherAppends, Subscribe, Crash, Resume,
         SandboxMoves
  <1> QED
    BY <1>1, <1>2, <1>3, <1>4, <1>5 DEF Next

LEMMA SandboxStays ==
  ASSUME SandboxInv, [Next]_vars
  PROVE  SandboxInv'
PROOF
  <1>1. SandboxMoves
    BY StepsOfSandbox
  <1> QED
    BY <1>1 DEF SandboxMoves, SandboxInv, SandboxTypeOK, sandbox, BoxStarts, BoxRuns, BoxFinishes,
         BoxCleans, Removes, BoxLeaves, BoxCancelled, SandboxLost

\* A container outlives its execution only where its removal failed, or where
\* the execution was cancelled before there was a removal to shield.
THEOREM ContainerRemoved == Spec => []ContainerGone
PROOF
  <1>1. Init => SandboxInv
    BY DEF Init, SandboxInit, SandboxInv, SandboxTypeOK
  <1>2. SandboxInv /\ [Next]_vars => SandboxInv'
    BY SandboxStays
  <1>3. SandboxInv => ContainerGone
    BY DEF SandboxInv, SandboxTypeOK, ContainerGone
  <1> QED
    BY <1>1, <1>2, <1>3, PTL DEF Spec

-----------------------------------------------------------------------------
(* The client.                                                             *)

ClientMoves ==
  \/ Ask \/ Refuses \/ Breaks \/ ClientStops \/ ClientResets
  \/ \E w : Tick(w) \/ Retry(w) \/ Wakes(w) \/ AskWithoutUsage(w) \/ Responds(w)
            \/ GivesUp(w) \/ DeadlinePasses(w)
  \/ UNCHANGED client

LEMMA StepsOfClient ==
  ASSUME [Next]_vars
  PROVE  ClientMoves
PROOF
  <1>1. CASE UNCHANGED vars
    BY <1>1 DEF vars, ClientMoves
  <1>2. CASE Turn \/ Wait \/ ModelAnswers \/ ModelFails
    BY <1>2 DEF Turn, Wait, ModelAnswers, ModelFails, ClientMoves
  <1>3. CASE Loop /\ ~(Turn \/ Wait \/ ModelAnswers \/ ModelFails)
    BY <1>3 DEF Loop, Start, Load, TurnFails, Chunk, Answer, Text, SaveResult, Propose,
         CloseRuntime, Complete, Finish, Dispatch, Suspend, FinishPending, Suspended, Fail,
         Abandon, PutNone, ClientMoves
  <1>4. CASE Tools
    BY <1>4 DEF Tools, Act, ThreadTimeout, LooseEnds, Execute, Executed, Call, Gate, Begin,
         GiveResult, Doubt, Return, OnlyTools, ClientMoves
  <1>5. CASE Cancel
    BY <1>5 DEF Cancel, InterruptRun, InterruptTools, Swallowed, ClientMoves
  <1>6. CASE Deliver \/ Removal \/ Read \/ Close \/ OtherAppends \/ Subscribe
             \/ Crash \/ Resume
    BY <1>6 DEF Deliver, Removal, OnlyTools, Read, Close, OtherAppends, Subscribe,
         Crash, Resume, ClientMoves
  <1> QED
    BY <1>1, <1>2, <1>3, <1>4, <1>5, <1>6 DEF Next

\* What a request may come to: its numbers within their bounds.
LEMMA ClientStays ==
  ASSUME ClientInv, [Next]_vars
  PROVE  ClientInv'
PROOF
  <1> DEFINE Rest ==
        /\ phase' \in {"idle", "calling", "sleeping"}
        /\ attempt' \in 0 .. MaxRetries /\ used' \in 0 .. RetryBudget
        /\ left' \in Nat /\ deadline' \in 0 .. Timeout
        /\ failure' \in {"none", "transient", "timeout", "refused", "broken"}
        /\ phase' = "sleeping" => attempt' < MaxRetries
  <1>0. /\ MaxRetries \in Nat /\ RetryBudget \in Nat /\ Timeout \in Nat
        /\ phase \in {"idle", "calling", "sleeping"} /\ attempt \in 0 .. MaxRetries
        /\ used \in 0 .. RetryBudget
        /\ left \in Nat /\ deadline \in 0 .. Timeout
        /\ failure \in {"none", "transient", "timeout", "refused", "broken"}
        /\ phase = "sleeping" => attempt < MaxRetries
    BY ClientAssumption DEF ClientInv, ClientTypeOK
  <1>1. ASSUME Ask \/ Refuses \/ Breaks \/ ClientStops \/ ClientResets \/ UNCHANGED client
        PROVE  Rest
    <2>1. CASE Ask
      BY <1>0, <2>1 DEF Ask, Attempts
    <2>2. CASE Refuses \/ Breaks \/ ClientStops \/ ClientResets
      BY <1>0, <2>2 DEF Refuses, Breaks, ClientStops, ClientResets, Ends, Raise
    <2>3. CASE UNCHANGED client
      BY <1>0, <2>3 DEF client
    <2> QED
      BY <1>1, <2>1, <2>2, <2>3
  <1>2. ASSUME NEW w, Retry(w)
        PROVE  Rest
    <2>0. PICK error \in Transient(w) : \E delay \in Delays(error) :
            used + delay <= RetryBudget /\ used' = used + delay /\ left' = delay
      BY <1>2 DEF Retry
    <2>1. PICK delay \in Delays(error) :
            used + delay <= RetryBudget /\ used' = used + delay /\ left' = delay
      BY <2>0
    <2>2. \A e : \A d \in Delays(e) : d \in Nat
      BY ClientAssumption DEF Delays
    <2>3. delay \in Nat /\ used' \in 0 .. RetryBudget /\ left' \in Nat
      BY <2>1, <2>2, <1>0
    <2>4. phase' = "sleeping" /\ attempt < MaxRetries /\ UNCHANGED <<attempt, deadline, failure>>
      BY <1>2 DEF Retry
    <2> QED
      BY <1>0, <2>3, <2>4
  <1>3. ASSUME NEW w, Tick(w)
        PROVE  Rest
    <2>1. /\ left > 0 /\ left' = left - 1 /\ UNCHANGED <<phase, attempt, used, failure>>
          /\ deadline' = deadline \/ (deadline > 0 /\ deadline' = deadline - 1)
      BY <1>3 DEF Tick
    <2> QED
      BY <1>0, <2>1
  <1>4. ASSUME NEW w, Wakes(w)
        PROVE  Rest
    <2>1. /\ phase = "sleeping" /\ phase' = "calling" /\ attempt' = attempt + 1
          /\ left' = Timeout /\ UNCHANGED <<used, deadline, failure>>
      BY <1>4 DEF Wakes
    <2> QED
      BY <1>0, <2>1
  <1>5. ASSUME NEW w, AskWithoutUsage(w)
        PROVE  Rest
    <2>1. /\ phase' = "calling" /\ attempt' = 0 /\ left' = Timeout
          /\ UNCHANGED <<used, deadline, failure>>
      BY <1>5 DEF AskWithoutUsage, Attempts
    <2> QED
      BY <1>0, <2>1
  <1>6. ASSUME NEW w, GivesUp(w) \/ DeadlinePasses(w) \/ Responds(w)
        PROVE  Rest
    <2>1. /\ phase' = "idle" /\ attempt' \in {0, attempt} /\ left' = 0 /\ deadline' = 0
          /\ used' = used
          /\ failure' \in {failure, "transient", "timeout"}
      BY <1>6 DEF GivesUp, DeadlinePasses, Responds, Transient, Raise, Ends
    <2> QED
      BY <1>0, <2>1
  <1>7. ClientMoves
    BY StepsOfClient
  <1>8. Rest
    BY <1>1, <1>2, <1>3, <1>4, <1>5, <1>6, <1>7 DEF ClientMoves
  <1>9. usage' \in BOOLEAN
    BY <1>7 DEF ClientMoves, Ask, Refuses, Breaks, ClientStops, ClientResets, Ends, Raise, Attempts,
         Tick, Retry, Wakes, AskWithoutUsage, Responds, GivesUp, DeadlinePasses, client,
         ClientInv, ClientTypeOK
  <1> QED
    BY <1>8, <1>9 DEF ClientInv, ClientTypeOK

-----------------------------------------------------------------------------
(* Where the tasks are.                                                    *)

LEMMA ScopeStays ==
  ASSUME [Next]_vars
  PROVE  scope' = scope /\ cancels' \in {cancels, cancels + 1, 0}
PROOF
  <1>1. CASE Loop \/ UNCHANGED vars
    BY <1>1 DEF Loop, Start, Load, Turn, TurnFails, Wait, ModelAnswers, ModelFails, Chunk, Answer,
         Text, SaveResult, Propose, CloseRuntime, Complete, Finish, Dispatch, Suspend,
         FinishPending, Suspended, Fail, Abandon, PutNone, Quiet, Still, vars
  <1>2. CASE Tools
    BY <1>2 DEF Tools, Act, ThreadTimeout, LooseEnds, Execute, Executed, Call, Gate, Begin,
         GiveResult, Doubt, Return, OnlyTools, Quiet, Still
  <1>3. CASE Deliver \/ Removal \/ Cancel \/ Read \/ Close \/ OtherAppends
             \/ Subscribe \/ Crash \/ Resume
    BY <1>3 DEF Deliver, Removal, OnlyTools, Quiet, Cancel, Read, Close, OtherAppends,
         Subscribe, Crash, Resume
  <1> QED
    BY <1>1, <1>2, <1>3 DEF Next

\* What a scope is.
LEMMA ScopeIs ==
  ASSUME ControlInv
  PROVE  /\ kind \in {"plain", "governed", "durable"} /\ streaming \in BOOLEAN
         /\ iteration < MaxIterations => Proposals \in SUBSET SUBSET Calls
         /\ MaxIterations \in Nat
  BY StreamAssumption DEF ControlInv, Scope, kind, streaming, Proposals

LEMMA LeaveGoes ==
  ASSUME ControlInv, pc # "closing", NEW to \in Outcomes, Leave(to), scope' = scope
  PROVE  /\ pc' \in {"closing", to}
         /\ IF pc' = "closing" THEN kind' = "plain" /\ outcome' = to ELSE outcome' = "none"
  BY DEF ControlInv, Leave, OwnsRuntime, kind, Outcomes

LEMMA ControlStays ==
  ASSUME ControlInv, LockInv, [Next]_vars
  PROVE  ControlInv'
PROOF
  <1> DEFINE Places ==
        /\ pc' \in Pcs /\ iteration' \in 0 .. MaxIterations /\ pending' \subseteq Calls
        /\ pc' \in {"asking", "streaming", "answering"} => iteration' < MaxIterations
        /\ pc' \in {"turn", "asking", "streaming", "answering"} => pending' = {}
        /\ IF pc' = "closing" THEN kind' = "plain" /\ outcome' \in Outcomes
           ELSE outcome' = "none"
  <1>0. /\ scope' = scope /\ kind' = kind /\ MaxIterations \in Nat
        /\ pc \in Pcs /\ iteration \in 0 .. MaxIterations /\ pending \subseteq Calls
        /\ pc \in {"asking", "streaming", "answering"} => iteration < MaxIterations
        /\ pc \in {"turn", "asking", "streaming", "answering"} => pending = {}
        /\ IF pc = "closing" THEN kind = "plain" /\ outcome \in Outcomes ELSE outcome = "none"
    BY ScopeStays, ScopeIs DEF ControlInv, kind
  <1> SUFFICES Places
    BY ScopeStays DEF ControlInv
  <1> HIDE DEF Places
  <1>1. ASSUME UNCHANGED <<loop, pc>>
        PROVE  Places
    BY <1>0, <1>1 DEF loop, state, Places
  <1>2. ASSUME UNCHANGED loop, pc # "closing", pc' \in Pcs \ {"closing"},
               pc' \in {"asking", "streaming", "answering"} => iteration < MaxIterations,
               pc' \in {"turn", "asking", "streaming", "answering"} => pending = {}
        PROVE  Places
    BY <1>0, <1>2 DEF loop, state, Places
  <1>3. ASSUME NEW to \in Outcomes, Leave(to), UNCHANGED state, pc # "closing"
        PROVE  Places
    <2>1. /\ pc' \in {"closing", to}
          /\ IF pc' = "closing" THEN kind' = "plain" /\ outcome' = to ELSE outcome' = "none"
      BY <1>0, <1>3, LeaveGoes
    <2>2. pc' \in Outcomes \cup {"closing"}
      BY <2>1, <1>3
    <2> QED
      BY <1>0, <1>3, <2>1, <2>2 DEF state, Outcomes, Pcs, Places
  <1>4. CASE Start \/ Finish \/ Complete \/ Suspended \/ Fail \/ Abandon \/ PutNone
             \/ ModelAnswers \/ Answer \/ Dispatch \/ Crash
    <2>1. /\ UNCHANGED loop /\ pc # "closing" /\ pc' \in Pcs \ {"closing"}
          /\ pc' \in {"asking", "streaming", "answering"} => pc \in {"asking", "streaming"}
          /\ pc' # "turn"
      BY <1>0, <1>4 DEF Start, Finish, Complete, Suspended, Fail, Abandon, PutNone,
           ModelAnswers, Answer, Dispatch, Crash, At, Pcs
    <2> QED
      BY <2>1, <1>0, <1>2
  <1>5. CASE Wait \/ Deliver \/ Removal \/ Read \/ Close \/ OtherAppends \/ Subscribe
             \/ UNCHANGED vars
    BY <1>1, <1>5 DEF Wait, Deliver, Removal, OnlyTools, Read, Close, OtherAppends, Subscribe,
         vars
  <1>6. CASE Load
    BY <1>2, <1>6 DEF Load, At, Pcs
  <1>7. CASE Turn
    BY <1>0, <1>7 DEF Turn, At, Pcs, Places
  <1>8. CASE TurnFails \/ ModelFails \/ Suspend
    BY <1>3, <1>8 DEF TurnFails, ModelFails, Suspend, At, Outcomes
  <1>9. CASE Chunk \/ Text
    BY <1>0, <1>9 DEF Chunk, Text, At, Pcs, Places
  <1>10. CASE SaveResult
    <2>1. iteration < MaxIterations /\ iteration' = iteration + 1 /\ pending' = pending
      BY <1>0, <1>10 DEF SaveResult, At
    <2>2. /\ pc' \in {"closing", "completing"}
          /\ IF pc' = "closing" THEN kind' = "plain" /\ outcome' = "completing"
             ELSE outcome' = "none"
      BY <1>0, <1>10, LeaveGoes DEF SaveResult, At, Outcomes
    <2> QED
      BY <1>0, <2>1, <2>2 DEF Outcomes, Pcs, Places
  <1>11. CASE Propose
    <2>1. iteration < MaxIterations /\ iteration' = iteration + 1 /\ pc' = "dispatching"
          /\ outcome' = outcome /\ pc = "streaming"
      BY <1>0, <1>11 DEF Propose, At
    <2>2. pending' \subseteq Calls
      BY <2>1, <1>11, ScopeIs DEF Propose
    <2> QED
      BY <1>0, <2>1, <2>2 DEF Pcs, Places
  <1>12. CASE CloseRuntime
    BY <1>0, <1>12 DEF CloseRuntime, Outcomes, Pcs, Places, state
  <1>13. CASE FinishPending
    BY <1>0, <1>13 DEF FinishPending, Pcs, Places
  <1>14. CASE Tools
    <2>1. CASE \/ ThreadTimeout \/ LooseEnds \/ Execute
               \/ \E c \in Calls : Call(c) \/ Gate(c) \/ Begin(c) \/ GiveResult(c)
      BY <1>1, <2>1 DEF ThreadTimeout, LooseEnds, Execute, Call, Gate, Begin, GiveResult,
           OnlyTools
    <2>2. ASSUME NEW c \in Calls, Return(c), task[c] = "acting"
          PROVE  Places
      <3>1. pc # "closing"
        BY <2>2 DEF LockInv
      <3>2. /\ UNCHANGED state
            /\ Leave("cancelled") \/ Leave("waiting") \/ UNCHANGED <<pc, outcome>>
        BY <2>2 DEF Return
      <3> QED
        BY <3>1, <3>2, <1>1, <1>3 DEF Outcomes, loop
    <2>3. ASSUME NEW c \in Calls, Doubt(c)
          PROVE  Places
      <3>1. UNCHANGED state /\ pc = "tools"
        BY <2>3 DEF Doubt
      <3>2. CASE pc' = "doubting" /\ outcome' = outcome
        BY <1>0, <3>1, <3>2 DEF state, Pcs, Places
      <3>3. CASE Leave("waiting")
        BY <1>3, <3>1, <3>3 DEF Outcomes
      <3> QED
        BY <2>3, <3>2, <3>3 DEF Doubt
    <2> QED
      BY <1>14, <2>1, <2>2, <2>3 DEF Tools, Act, Executed, Calls
  <1>15. CASE Cancel
    <2>1. UNCHANGED state
      BY <1>15 DEF Cancel
    <2>2. CASE InterruptRun
      <3>1. CASE pc \in InLoop /\ Leave("cancelled")
        BY <3>1, <2>1, <1>3 DEF InLoop, Outcomes
      <3>2. CASE pc' \in {"over", "ending", "cancelled"} /\ outcome' = "none"
        BY <1>0, <3>2, <2>1 DEF state, Pcs, Places
      <3>3. CASE CutCommit
        BY <1>0, <3>3, <2>1 DEF CutCommit, state, Pcs, Places
      <3> QED
        BY <2>2, <3>1, <3>2, <3>3 DEF InterruptRun, Handlers
    <2>3. CASE InterruptTools
      BY <1>0, <1>3, <2>1, <2>3 DEF InterruptTools, Outcomes, state, Pcs, Places
    <2>4. CASE Swallowed
      BY <1>1, <2>1, <2>4 DEF Swallowed, loop
    <2> QED
      BY <1>15, <2>2, <2>3, <2>4 DEF Cancel
  <1>16. CASE Resume
    BY <1>2, <1>0, <1>16 DEF Resume, Pcs
  <1> QED
    BY <1>4, <1>5, <1>6, <1>7, <1>8, <1>9, <1>10, <1>11, <1>12, <1>13, <1>14, <1>15, <1>16
       DEF Next, Loop

-----------------------------------------------------------------------------
(* The lock and the calls.                                                 *)

\* What a step does with the threads of the tools.
ThreadMoves ==
  \/ UNCHANGED threads
  \/ thread' = "awaited" /\ loose' = loose
  \/ thread' = "none" /\ loose' = loose
  \/ pc = "tools" /\ thread' = "dying" /\ loose' = loose
  \/ loose' = FALSE /\ thread' \in {"none", thread}
  \/ \E c \in Calls : Doubt(c)
  \/ Cancel /\ InterruptTools

LEMMA StepsOfThreads ==
  ASSUME [Next]_vars
  PROVE  ThreadMoves
PROOF
  <1>1. CASE Loop \/ UNCHANGED vars
    BY <1>1 DEF Loop, Start, Load, Turn, TurnFails, Wait, ModelAnswers, ModelFails, Chunk, Answer,
         Text, SaveResult, Propose, CloseRuntime, Complete, Finish, Dispatch, Suspend,
         FinishPending, Suspended, Fail, Abandon, PutNone, tools, vars, ThreadMoves
  <1>2. CASE Tools /\ ~\E c \in Calls : Doubt(c)
    BY <1>2 DEF Tools, Act, ThreadTimeout, LooseEnds, Execute, Executed, Call, Gate, Begin,
         GiveResult, tools, threads, ThreadMoves
  <1>3. CASE Cancel
    BY <1>3 DEF Cancel, InterruptRun, Swallowed, tools, ThreadMoves
  <1>4. CASE Deliver \/ Removal \/ Read \/ Close \/ OtherAppends \/ Subscribe
             \/ Crash \/ Resume
    BY <1>4 DEF Deliver, Removal, Read, Close, OtherAppends, Subscribe, Crash, Resume,
         tools, ThreadMoves
  <1> QED
    BY <1>1, <1>2, <1>3, <1>4 DEF Next, ThreadMoves

LEMMA ThreadsStay ==
  ASSUME LockInv, [Next]_vars
  PROVE  thread' \in {"none", "awaited", "dying"} /\ loose' \in BOOLEAN
PROOF
  <1>1. ThreadMoves
    BY StepsOfThreads
  <1> QED
    BY <1>1 DEF ThreadMoves, LockInv, threads, InterruptTools, Doubt

\* Where nobody has the lock and where no call is under way.
LEMMA LockFree ==
  ASSUME ControlInv, LockInv
  PROVE  /\ pc \notin {"loading", "streaming", "answering", "finishing", "ending", "tools"} =>
              lock = "free"
         /\ lock # "run" /\ pc # "tools" => lock = "free"
         /\ pc \notin {"tools", "aborting", "doubting"} => \A c \in Calls : task[c] = "off"
  BY DEF LockInv

LEMMA LockReleased ==
  ASSUME LockInv, Released
  PROVE  lock' = "free"
  BY DEF LockInv, Released

LEMMA LockStays ==
  ASSUME ControlInv, LockInv, [Next]_vars
  PROVE  LockInv'
PROOF
  <1> DEFINE Rest ==
        /\ task' \in [Calls -> TaskStates]
        /\ lock' \in {"free", "run"} \cup Calls
        /\ lock' = "run" =>
             pc' \in {"loading", "streaming", "answering", "finishing", "ending"}
        /\ lock' \in Calls =>
             pc' = "tools" /\ lock' \in pending' /\ task'[lock'] \in {"called", "done"}
        /\ \A c \in Calls :
             task'[c] # "off" => c \in pending' /\ pc' \in {"tools", "aborting", "doubting"}
        /\ lock' # "free" => streaming
  <1> SUFFICES Rest
    BY ThreadsStay, ScopeStays DEF LockInv, streaming
  <1>0. /\ task \in [Calls -> TaskStates] /\ pending \subseteq Calls
        /\ lock \in {"free", "run"} \cup Calls /\ "free" \notin Calls /\ "run" \notin Calls
        /\ lock = "run" => pc \in {"loading", "streaming", "answering", "finishing", "ending"}
        /\ lock \in Calls => pc = "tools" /\ lock \in pending /\ task[lock] \in {"called", "done"}
        /\ \A c \in Calls :
             task[c] # "off" => c \in pending /\ pc \in {"tools", "aborting", "doubting"}
        /\ lock # "free" => streaming
    BY DEF LockInv, ControlInv, Calls
  <1> HIDE DEF Rest
  <1>1. ASSUME UNCHANGED <<lock, task, pc, pending>>
        PROVE  Rest
    BY <1>0, <1>1 DEF Rest
  <1>2. ASSUME lock' = "free", task' \in [Calls -> TaskStates], \A c \in Calls : task'[c] = "off"
        PROVE  Rest
    BY <1>0, <1>2 DEF Rest
  <1>3. ASSUME lock' = "free", task' = task, UNCHANGED <<pc, pending>>
        PROVE  Rest
    BY <1>0, <1>3 DEF Rest
  <1>4. CASE Wait \/ Removal \/ Read \/ Close \/ OtherAppends \/ Subscribe \/ ThreadTimeout
             \/ LooseEnds \/ Execute \/ UNCHANGED vars
    BY <1>1, <1>4 DEF Wait, Removal, OnlyTools, Quiet, Read, Close, OtherAppends, Subscribe,
         ThreadTimeout, LooseEnds, Execute, vars, loop, state, tools
  <1>5. CASE Deliver
    BY <1>3, <1>5 DEF Deliver, loop, state, tools
  <1>6. CASE Load \/ Turn \/ TurnFails \/ ModelAnswers \/ ModelFails \/ Answer \/ SaveResult
             \/ CloseRuntime \/ Finish \/ PutNone \/ Propose \/ Abandon \/ Resume
    <2>1. pc \notin {"tools", "aborting", "doubting"} /\ task' = task
      BY <1>6 DEF Load, Turn, TurnFails, ModelAnswers, ModelFails, Answer, SaveResult,
           CloseRuntime, Finish, PutNone, Propose, Abandon, Resume, At, tools
    <2>2. lock = "free" /\ lock' = lock
      BY <1>6, LockFree DEF Load, Turn, TurnFails, ModelAnswers, ModelFails, Answer, SaveResult,
           CloseRuntime, Finish, PutNone, Propose, Abandon, EmitUndelivered, Resume, At, Quiet
    <2> QED
      BY <1>0, <1>2, <2>1, <2>2, LockFree
  <1>7. CASE Start \/ Chunk \/ Text \/ Complete \/ Suspended \/ Fail
    <2>1. /\ pc \notin {"tools", "aborting", "doubting"} /\ task' = task /\ lock = "free"
          /\ pc' \in {"loading", "streaming", "answering", "finishing", "ending"}
      BY <1>7, LockFree DEF Start, Chunk, Text, Complete, Suspended, Fail, At, tools
    <2>2. lock' = "free" \/ (lock' = "run" /\ streaming)
      BY <1>7, <2>1 DEF Start, Chunk, Text, Complete, Suspended, Fail, Emit, EmitUnlocked
    <2> QED
      BY <1>0, <2>1, <2>2, LockFree DEF Rest
  <1>8. CASE Dispatch
    <2>1. lock' = "free" /\ pc' = "tools" /\ pending' = pending
      BY <1>8, LockFree DEF Dispatch, At, Quiet, loop, state
    <2>2. /\ task' \in [Calls -> TaskStates]
          /\ \A c \in Calls : task'[c] # "off" => c \in pending
      BY <1>8 DEF Dispatch, TaskStates
    <2> QED
      BY <1>0, <2>1, <2>2 DEF Rest
  <1>9. ASSUME NEW c \in Calls, Call(c) \/ GiveResult(c)
        PROVE  Rest
    <2>1. /\ pc = "tools" /\ task[c] # "off" /\ UNCHANGED <<pc, pending>>
          /\ lock' = "free" \/ (lock' = c /\ streaming)
      BY <1>9 DEF Call, GiveResult, Emit, EmitUnlocked, loop, state
    <2>2. task' = [task EXCEPT ![c] = "called"] \/ task' = [task EXCEPT ![c] = "done"]
      BY <1>9 DEF Call, GiveResult
    <2>3. /\ task' \in [Calls -> TaskStates] /\ task'[c] \in {"called", "done"}
          /\ \A d \in Calls : task'[d] # "off" => d \in pending
      BY <1>0, <2>1, <2>2 DEF TaskStates
    <2> QED
      BY <1>0, <2>1, <2>3 DEF Rest
  <1>10. ASSUME NEW c \in Calls, Begin(c) \/ Gate(c)
         PROVE  Rest
    <2>1. /\ pc = "tools" /\ task[c] # "off" /\ lock # c /\ UNCHANGED <<pc, pending, lock>>
          /\ \E s \in {"acting", "gated"} : task' = [task EXCEPT ![c] = s]
      BY <1>10 DEF Begin, Gate, OnlyTools, Quiet, loop, state
    <2>3. /\ task' \in [Calls -> TaskStates]
          /\ \A d \in Calls : d # c => task'[d] = task[d]
          /\ \A d \in Calls : task'[d] # "off" => d \in pending
      BY <1>0, <2>1 DEF TaskStates
    <2> QED
      BY <1>0, <2>1, <2>3 DEF Rest
  <1>11. ASSUME NEW c \in Calls, task[c] = "acting", Return(c)
         PROVE  Rest
    <2>1. /\ pc \in {"tools", "aborting", "doubting"} /\ c \in pending /\ lock # c
          /\ UNCHANGED <<pending, lock>>
          /\ pc # "tools" => lock = "free"
      BY <1>0, <1>11, LockFree DEF Return, Quiet, state
    <2>2. /\ task' \in [Calls -> TaskStates]
          /\ \A d \in Calls : d # c => task'[d] = task[d]
          /\ \A d \in Calls : task'[d] # "off" => d \in pending
          /\ pc # "tools" => task'[c] = "off"
      BY <1>0, <1>11, <2>1 DEF Return, Result, TaskStates
    <2>3. pc' = pc \/ (pc # "tools" /\ \A d \in Calls \ {c} : task[d] = "off")
      BY <1>11 DEF Return
    <2>4. CASE pc' = pc
      BY <1>0, <2>1, <2>2, <2>4 DEF Rest
    <2>5. CASE pc # "tools" /\ \A d \in Calls \ {c} : task[d] = "off"
      BY <1>2, <2>1, <2>2, <2>5
    <2> QED
      BY <2>3, <2>4, <2>5
  <1>12. CASE Suspend \/ FinishPending \/ Crash
    <2>1. lock' = "free"
      BY <1>12, LockFree DEF Suspend, FinishPending, Crash, AllEnded, Returned, At, Quiet
    <2>2. task' = [c \in Calls |-> "off"]
      BY <1>12 DEF Suspend, FinishPending, Crash
    <2> QED
      BY <1>2, <2>1, <2>2 DEF TaskStates
  <1>13. CASE Cancel
    <2>1. pending' = pending
      BY <1>13 DEF Cancel, state
    <2>2. CASE InterruptRun
      <3>1. pc \notin {"tools", "aborting", "doubting"} /\ task' = task /\ lock' = "free"
        BY <2>2, LockReleased DEF InterruptRun, CutCommit, InLoop, Handlers, tools
      <3> QED
        BY <1>0, <1>2, <3>1, LockFree
    <2>3. CASE InterruptTools
      <3>1. /\ pc \in {"tools", "aborting"} /\ lock' = "free"
            /\ task' = [c \in Calls |-> IF Stays(c) THEN "acting" ELSE "off"]
            /\ pc' = "aborting" \/ \A c \in Calls : ~Stays(c)
        BY <2>3, LockReleased DEF InterruptTools
      <3>2. \A c \in Calls : Stays(c) => c \in pending
        BY <1>0 DEF Stays
      <3>3. /\ task' \in [Calls -> TaskStates]
            /\ \A c \in Calls : task'[c] # "off" => c \in pending' /\ pc' = "aborting"
        BY <3>1, <3>2, <2>1 DEF TaskStates
      <3> QED
        BY <1>0, <3>1, <3>3 DEF Rest
    <2>4. CASE Swallowed
      BY <1>1, <2>1, <2>4 DEF Swallowed, tools
    <2> QED
      BY <1>13, <2>2, <2>3, <2>4 DEF Cancel
  <1>15. ASSUME NEW c \in Calls, Doubt(c)
         PROVE  Rest
    <2>1. /\ pc = "tools" /\ pending' = pending
          /\ task' = [d \in Calls |-> IF d # c /\ Stays(d) THEN "acting" ELSE "off"]
          /\ pc' = "doubting" \/ \A d \in Calls \ {c} : ~Stays(d)
      BY <1>15 DEF Doubt, state
    <2>2. lock' = "free"
      BY <1>15, LockReleased DEF Doubt, CutOff
    <2>3. \A d \in Calls : Stays(d) => d \in pending
      BY <1>0 DEF Stays
    <2>4. /\ task' \in [Calls -> TaskStates]
          /\ \A d \in Calls : task'[d] # "off" => d \in pending' /\ pc' = "doubting"
      BY <2>1, <2>3 DEF TaskStates
    <2> QED
      BY <1>0, <2>2, <2>4 DEF Rest
  <1>14. CASE Tools
    BY <1>4, <1>9, <1>10, <1>11, <1>15, <1>14 DEF Tools, Act, Executed, Calls
  <1> QED
    BY <1>4, <1>5, <1>6, <1>7, <1>8, <1>12, <1>13, <1>14 DEF Next, Loop

-----------------------------------------------------------------------------
(* The threads.                                                            *)

\* But for a cancellation and a resumption, a step leaves the cancellations as
\* they are, and ends what they began only in the order of the loop.
CancelMoves ==
  /\ cancels' = cancels
  /\ kind = "plain" /\ loose' => loose
  /\ \/ UNCHANGED <<pc, outcome>>
     \/ \E to \in Outcomes \ {"cancelled"} : pc \notin Stopped /\ Leave(to)
     \/ pc = "aborting" /\ Leave("cancelled")
     \/ pc = "doubting" /\ kind = "durable" /\ Leave("waiting")
     \/ pc = "closing" /\ ~loose /\ pc' = outcome /\ outcome' = "none"
     \/ /\ pc \notin {"closing", "aborting"} /\ pc' \notin {"cancelled", "aborting"}
        /\ pc \in Stopped => pc' \in {"ending", "over"}
        /\ pc' = "doubting" => kind = "durable"
        /\ outcome' = outcome
     \/ kind = "durable" /\ pc' = "over" /\ outcome' = outcome

LEMMA StepsOfCancel ==
  ASSUME ControlInv, LockInv, CancelInv, [Next]_vars, ~Cancel, ~Resume
  PROVE  CancelMoves
PROOF
  <1>0. ASSUME UNCHANGED tools
        PROVE  loose' => loose
    BY <1>0 DEF tools, threads
  <1>1. CASE Start \/ Load \/ Finish \/ Complete \/ Suspended \/ Fail \/ Abandon \/ PutNone
             \/ ModelAnswers \/ Answer \/ Turn \/ Propose
    <2>1. /\ pc \notin {"closing", "aborting"} /\ pc' \notin {"cancelled", "aborting"}
          /\ pc \in Stopped => pc' \in {"ending", "over"}
          /\ pc' # "doubting" /\ outcome' = outcome /\ cancels' = cancels /\ UNCHANGED tools
      BY <1>1 DEF Start, Load, Finish, Complete, Suspended, Fail, Abandon, PutNone, ModelAnswers,
           Answer, Turn, Propose, At, loop, Stopped
    <2> QED
      BY <1>0, <2>1 DEF CancelMoves
  <1>2. CASE Dispatch \/ FinishPending
    BY <1>2 DEF Dispatch, FinishPending, At, loop, threads, Stopped, CancelMoves
  <1>3. CASE Wait \/ Chunk \/ Text \/ Deliver \/ Read \/ Close \/ OtherAppends \/ Subscribe
             \/ Removal \/ UNCHANGED vars
    <2>1. UNCHANGED <<pc, outcome, cancels, tools>>
      BY <1>3 DEF Wait, Chunk, Text, Deliver, Read, Close, OtherAppends, Subscribe, Removal,
           OnlyTools, vars, loop
    <2> QED
      BY <1>0, <2>1 DEF CancelMoves
  <1>4. CASE TurnFails \/ ModelFails \/ SaveResult
    <2>1. /\ pc \notin Stopped /\ cancels' = cancels /\ UNCHANGED tools
          /\ Leave("failing") \/ Leave("completing")
      BY <1>4 DEF TurnFails, ModelFails, SaveResult, At, Stopped
    <2> QED
      BY <1>0, <2>1 DEF CancelMoves, Outcomes
  <1>5. CASE Suspend
    BY <1>5 DEF Suspend, At, Outcomes, threads, Stopped, CancelMoves
  <1>6. CASE CloseRuntime
    BY <1>6 DEF CloseRuntime, tools, threads, CancelMoves
  <1>7. CASE Tools
    <2>1. CASE ThreadTimeout \/ LooseEnds \/ Execute
               \/ \E c \in Calls : Call(c) \/ Gate(c) \/ Begin(c) \/ GiveResult(c)
      <3>1. UNCHANGED <<pc, outcome, cancels>>
        BY <2>1 DEF ThreadTimeout, LooseEnds, Execute, Call, Gate, Begin, GiveResult, OnlyTools,
             loop
      <3>2. loose' = loose \/ loose' = FALSE
        BY <2>1 DEF ThreadTimeout, LooseEnds, Execute, Call, Gate, Begin, GiveResult, tools,
             threads
      <3> QED
        BY <3>1, <3>2 DEF CancelMoves
    <2>2. ASSUME NEW c \in Calls, Return(c), loose' = loose, task[c] = "acting"
          PROVE  CancelMoves
      <3>1. pc \in {"tools", "aborting", "doubting"}
        BY <2>2 DEF LockInv
      <3>2. pc = "doubting" => kind = "durable"
        BY DEF CancelInv
      <3> QED
        BY <2>2, <3>1, <3>2 DEF Return, CancelMoves
    <2>3. CASE Act \/ Executed
      <3>1. loose' = loose
        BY <2>3 DEF Act, Executed, threads
      <3> QED
        BY <2>2, <2>3, <3>1 DEF Act, Executed, Calls
    <2>4. ASSUME NEW c \in Calls, Doubt(c)
          PROVE  CancelMoves
      <3>1. /\ pc = "tools" /\ kind = "durable" /\ cancels' = cancels
            /\ (pc' = "doubting" /\ outcome' = outcome) \/ Leave("waiting")
        BY <2>4 DEF Doubt
      <3> QED
        BY <3>1 DEF CancelMoves, Stopped, Outcomes
    <2> QED
      BY <1>7, <2>1, <2>3, <2>4 DEF Tools
  <1>8. CASE Crash
    BY <1>8 DEF Crash, loop, CancelMoves
  <1> QED
    BY <1>1, <1>2, <1>3, <1>4, <1>5, <1>6, <1>7, <1>8 DEF Next, Loop

\* Only a call of a run with a journal leaves others in doubt.
LEMMA StepsToDoubt ==
  ASSUME ControlInv, LockInv, CancelInv, [Next]_vars
  PROVE  pc' = "doubting" => pc = "doubting" \/ kind = "durable"
PROOF
  <1>1. CASE Cancel
    BY <1>1 DEF Cancel, InterruptRun, CutCommit, InterruptTools, Swallowed, Leave
  <1>2. CASE Resume
    BY <1>2 DEF Resume
  <1>3. CASE ~Cancel /\ ~Resume
    BY <1>3, StepsOfCancel DEF CancelMoves, Leave, Outcomes, ControlInv
  <1> QED
    BY <1>1, <1>2, <1>3

LEMMA CancelStays ==
  ASSUME ControlInv, LockInv, CancelInv, [Next]_vars
  PROVE  CancelInv'
PROOF
  <1>0. /\ kind' = kind /\ cancels \in Nat /\ loose \in BOOLEAN
        /\ IF pc = "closing" THEN kind = "plain" /\ outcome \in Outcomes ELSE outcome = "none"
        /\ pc = "cancelled" \/ outcome = "cancelled" \/ pc = "aborting" => cancels > 0
        /\ kind = "plain" /\ loose => cancels > 0
        /\ kind = "plain" /\ loose => pc \in {"aborting", "closing"} \/ cancels > 1
        /\ cancels > 0 => pc \in Stopped /\ (pc = "closing" => outcome = "cancelled")
        /\ pc = "doubting" => kind = "durable"
    BY ScopeStays DEF ControlInv, LockInv, CancelInv, ThreadsAreAwaited, OwnsRuntime, kind
  <1>d. pc' = "doubting" => kind' = "durable"
    BY <1>0, StepsToDoubt
  <1> SUFFICES /\ pc' = "cancelled" \/ outcome' = "cancelled" \/ pc' = "aborting" => cancels' > 0
               /\ kind = "plain" /\ loose' => cancels' > 0
               /\ kind = "plain" /\ loose' => pc' \in {"aborting", "closing"} \/ cancels' > 1
               /\ cancels' > 0 => pc' \in Stopped /\ (pc' = "closing" => outcome' = "cancelled")
    BY <1>0, <1>d DEF CancelInv, ThreadsAreAwaited, OwnsRuntime
  <1>1. CASE Cancel
    <2>1. cancels' = cancels + 1
      BY <1>1 DEF Cancel
    <2>2. loose' => loose \/ InterruptTools
      BY <1>1 DEF Cancel, InterruptRun, Swallowed, tools, threads
    <2>3. ASSUME InterruptTools, kind = "plain"
          PROVE  pc' \in {"aborting", "closing"}
      BY <2>3 DEF InterruptTools, Leave, OwnsRuntime
    <2>4. pc' \in Stopped /\ (pc' = "closing" => outcome' = "cancelled")
      <3>1. CASE InterruptRun
        BY <3>1 DEF InterruptRun, CutCommit, Leave, Handlers, Stopped
      <3>2. CASE InterruptTools
        BY <3>2 DEF InterruptTools, Leave, Stopped
      <3>3. CASE Swallowed
        BY <3>3 DEF Swallowed, Stopped
      <3> QED
        BY <1>1, <3>1, <3>2, <3>3 DEF Cancel
    <2> QED
      BY <1>0, <2>1, <2>2, <2>3, <2>4
  <1>2. CASE Resume
    BY <1>0, <1>2 DEF Resume, loop
  <1>3. CASE ~Cancel /\ ~Resume
    <2>1. CancelMoves
      BY <1>3, StepsOfCancel
    <2>2. /\ pc' = "cancelled" \/ outcome' = "cancelled" \/ pc' = "aborting" => cancels' > 0
          /\ kind = "plain" /\ loose' => cancels' > 0
          /\ kind = "plain" /\ loose' => pc' \in {"aborting", "closing"} \/ cancels' > 1
      BY <1>0, <2>1 DEF CancelMoves, Leave, OwnsRuntime, Outcomes
    <2>3. cancels' = cancels
      BY <2>1 DEF CancelMoves
    <2>4. ASSUME pc \in Stopped, pc = "closing" => outcome = "cancelled"
          PROVE  pc' \in Stopped /\ (pc' = "closing" => outcome' = "cancelled")
      BY <2>1, <2>4 DEF CancelMoves, Leave, OwnsRuntime, Outcomes, Stopped
    <2> QED
      BY <1>0, <2>2, <2>3, <2>4
  <1> QED
    BY <1>1, <1>2, <1>3

-----------------------------------------------------------------------------
(* The record: the numbers of the events.                                  *)

\* What the loop may record now.
Emittable(to) ==
  kind # "plain" =>
    status \notin Terminal /\ nextSeq = stored + 1 /\ to \in Allowed[status] \cup {"same"}

LEMMA SinkKnows ==
  ASSUME SinkInv, LedgerInv, nextSeq = recorded + 1
  PROVE  ~Refused(Main, nextSeq)
PROOF
  <1>0. recorded \in Nat \cup {-1} /\ nextSeq \in Nat
    BY DEF LedgerInv
  <1>1. CASE Main \in Tracked
    <2>1. PICK i \in DOMAIN tracked : tracked[i].run = Main
      BY <1>1 DEF Tracked
    <2>2. \E t \in ToSet(tracked) : t.run = Main
      BY <2>1 DEF ToSet
    <2>3. \A j \in DOMAIN tracked :
            tracked[j].run = Main => tracked[j].seq \in Nat /\ tracked[j].seq <= recorded
      <3>1. DOMAIN tracked = 1 .. Len(tracked) /\ \A j \in DOMAIN tracked : tracked[j] \in Lasts
        BY DEF SinkInv, TableOK
      <3> QED
        BY <3>1 DEF SinkInv, Lasts
    <2>4. LastSequence(Main) \in Nat /\ LastSequence(Main) <= recorded
      BY <1>1, <2>2, <2>3 DEF LastSequence, ToSet
    <2> QED
      BY <1>0, <2>4 DEF Refused
  <1>2. CASE Main \notin Tracked
    BY <1>0, <1>2 DEF LastSequence, Refused
  <1> QED
    BY <1>1, <1>2

LEMMA EmitIsNext ==
  ASSUME LedgerInv, NEW to, Emittable(to)
  PROVE  nextSeq = recorded + 1 /\ nextSeq \in Nat
PROOF
  <1>1. recorded \in Nat \cup {-1}
    BY DEF LedgerInv
  <1>2. nextSeq = recorded + 1
    BY DEF LedgerInv, Emittable
  <1> QED
    BY <1>1, <1>2

\* An event that may be recorded is not refused, and is the next of its run.
LEMMA Numbered ==
  ASSUME LedgerInv, SinkInv, NEW to, Emittable(to), Number(to)
  PROVE  /\ refused' = refused /\ recorded' = nextSeq
         /\ IF kind = "plain" THEN status' = status /\ nextSeq' = nextSeq + 1
            ELSE /\ stored' = nextSeq
                 /\ nextSeq' = IF to \in Terminal THEN 0 ELSE nextSeq + 1
                 /\ IF to = "same" THEN UNCHANGED <<status, committed>>
                    ELSE status' = to /\ committed' = nextSeq
PROOF
  <1>1. refused \in BOOLEAN /\ ~Refused(Main, nextSeq)
    BY SinkKnows, EmitIsNext DEF LedgerInv
  <1>2. CASE kind = "plain"
    BY <1>1, <1>2 DEF Number
  <1>3. CASE kind # "plain"
    <2>1. nextSeq = stored + 1 /\ stored \in Nat /\ status \notin Terminal
          /\ to \in Allowed[status] \cup {"same"}
      BY <1>3 DEF LedgerInv, Emittable
    <2>2. ~StoreRefuses(to)
      <3>1. ~(nextSeq <= stored)
        BY <2>1, EmitIsNext
      <3> QED
        BY <2>1, <3>1 DEF StoreRefuses
    <2>3. refused' = refused
      BY <1>1, <1>3, <2>1, <2>2 DEF Number
    <2> QED
      BY <1>3, <2>3 DEF Number, StoreEvent
  <1> QED
    BY <1>2, <1>3

LEMMA LatestOfTwo ==
  ASSUME NEW a \in Nat, NEW b \in Nat, a <= b
  PROVE  Max({a, b}) = b
PROOF
  <1>1. \A y \in {a, b} : b >= y
    OBVIOUS
  <1>2. \A x \in {a, b} : (\A y \in {a, b} : x >= y) => x = b
    OBVIOUS
  <1> QED
    BY <1>1, <1>2 DEF Max

\* Where the task goes without a word to the store.
QuietPcs ==
  \/ pc' = pc
  \/ /\ pc \notin {"starting", "finishing", "cancelled", "ending", "over"}
     /\ pc' \notin {"starting", "finishing"}
  \/ pc \in {"finishing", "cancelled", "ending"} /\ pc' = "ending"
  \/ pc \in {"finishing"} /\ pc' = "cancelled"
  \/ pc' = "over"

\* Where it goes with an event.
RecordPcs(to) ==
  \/ /\ cut' = cut /\ (cut # "no" => pc' = "ending")
     /\ CASE to = "same" -> pc' = pc \/ (pc = "tools" /\ pc' \in {"doubting", "waiting"})
          [] to = "running" -> pc' = "loading"
          [] to = "completed" -> pc' = "finishing"
          [] OTHER -> pc' = "ending"
  \/ cut' = "after" /\ kind # "plain" /\ pc' = "cancelled"

\* An event with its new status, where the loop may record it.
Records ==
  \E to \in DOMAIN Allowed \cup {"same"} :
    /\ Emittable(to) /\ Number(to)
    /\ pc # "over" /\ pc' # "over" /\ pc' # "starting"
    /\ RecordPcs(to)

\* A cancellation before the commit of a start, and the refusal of an ending.
StartIsCut ==
  /\ pc = "starting" /\ pc' = "cancelled" /\ cut' = "before" /\ kind # "plain"
  /\ UNCHANGED ledger

EndingIsRefused ==
  /\ pc = "cancelled" /\ pc' = "ending" /\ cut # "no" /\ refused' = TRUE
  /\ UNCHANGED <<cut, status, nextSeq, stored, committed, recorded>>

\* Without a cut a run may be ended in its handler; where it may not, it was cut.
LEMMA BehindIsCut ==
  ASSUME LedgerInv, pc = "cancelled", RunIsBehind,
         ~(kind # "plain" /\ status \in Terminal /\ cut # "after")
  PROVE  cut # "no"
  BY DEF LedgerInv, RunIsBehind, Ending, Allowed, Terminal

LEMMA EndingIsEmittable ==
  ASSUME LedgerInv, pc = "cancelled", ~RunIsBehind,
         ~(kind # "plain" /\ status \in Terminal /\ cut # "after")
  PROVE  Emittable(Ending)
  BY DEF LedgerInv, RunIsBehind, Emittable

LEMMA StepsOfLedger ==
  ASSUME ControlInv, LockInv, LedgerInv, [Next]_vars
  PROVE  \/ UNCHANGED <<ledger, cut>> /\ QuietPcs
         \/ Records \/ StartIsCut \/ EndingIsRefused \/ Resume
PROOF
  <1>0. /\ pc \in Pcs
        /\ IF pc = "closing" THEN kind = "plain" /\ outcome \in Outcomes ELSE outcome = "none"
        /\ pc \notin {"cancelled", "ending", "over"} => cut = "no"
    BY DEF ControlInv, LedgerInv
  <1>1. CASE Load \/ Turn \/ Wait \/ ModelAnswers \/ Answer \/ Propose \/ Finish \/ Dispatch
             \/ FinishPending
    BY <1>1 DEF Load, Turn, Wait, ModelAnswers, Answer, Propose, Finish, Dispatch, FinishPending,
         At, Quiet, marks, QuietPcs
  <1>2. CASE TurnFails \/ ModelFails \/ SaveResult \/ Suspend
    <2>1. /\ UNCHANGED <<ledger, cut>>
          /\ pc \notin {"starting", "finishing", "cancelled", "ending", "over"}
          /\ pc' \in {"closing", "failing", "completing", "waiting"}
      BY <1>2 DEF TurnFails, ModelFails, SaveResult, Suspend, At, Quiet, marks, Leave
    <2> QED
      BY <2>1 DEF QuietPcs
  <1>3. CASE CloseRuntime
    BY <1>0, <1>3 DEF CloseRuntime, Quiet, marks, QuietPcs, Outcomes
  <1>4. CASE PutNone \/ Deliver \/ Removal \/ Read \/ Close \/ OtherAppends \/ Subscribe \/ Crash
             \/ UNCHANGED vars
    BY <1>4 DEF PutNone, Deliver, Removal, OnlyTools, Quiet, Read, Close, OtherAppends, Subscribe,
         Crash, vars, marks, QuietPcs
  <1>5. CASE Chunk \/ Text
    <2>1. /\ pc \in {"streaming", "answering"} /\ pc' = pc /\ cut' = cut
          /\ Emit("run", "same") \/ UNCHANGED ledger
      BY <1>5 DEF Chunk, Text, At, Still, marks
    <2>2. Emittable("same")
      BY <2>1 DEF LedgerInv, Emittable, Terminal
    <2> QED
      BY <1>0, <2>1, <2>2 DEF Emit, EmitUnlocked, Records, RecordPcs, QuietPcs
  <1>6. CASE Start
    <2>1. pc = "starting" /\ pc' = "loading" /\ Emit("run", "running")
          /\ cut' = cut
      BY <1>6 DEF Start, At, Still, marks
    <2>2. Emittable("running")
      BY <2>1 DEF LedgerInv, Emittable, Terminal, Allowed
    <2> QED
      BY <1>0, <2>1, <2>2 DEF Emit, EmitUnlocked, Records, RecordPcs, Allowed
  <1>7. CASE Complete
    <2>1. pc = "completing" /\ pc' = "finishing" /\ Emit("run", "completed")
          /\ cut' = cut
      BY <1>7 DEF Complete, At, Still, marks
    <2>2. Emittable("completed")
      BY <2>1 DEF LedgerInv, Emittable, Terminal, Allowed
    <2> QED
      BY <1>0, <2>1, <2>2 DEF Emit, EmitUnlocked, Records, RecordPcs, Allowed
  <1>8. CASE Suspended \/ Fail
    <2>1. /\ pc \in {"waiting", "failing"} /\ pc' = "ending" /\ cut' = cut
          /\ Emit("run", "waiting") \/ Emit("run", "failed")
      BY <1>8 DEF Suspended, Fail, At, Still, marks
    <2>2. Emittable("waiting") /\ Emittable("failed")
      BY <2>1 DEF LedgerInv, Emittable, Terminal, Allowed
    <2> QED
      BY <1>0, <2>1, <2>2 DEF Emit, EmitUnlocked, Records, RecordPcs, Allowed
  <1>9. CASE Abandon
    <2>1. pc = "cancelled" /\ pc' = "ending" /\ cut' = cut
      BY <1>9 DEF Abandon, At, Still, marks
    <2>2. CASE kind # "plain" /\ status \in Terminal /\ cut # "after"
      BY <1>9, <2>1, <2>2 DEF Abandon, QuietPcs
    <2>3. CASE RunIsBehind /\ ~(kind # "plain" /\ status \in Terminal /\ cut # "after")
      <3>1. /\ refused' = TRUE /\ UNCHANGED <<status, nextSeq, stored, committed, recorded>>
        BY <1>9, <2>3 DEF Abandon
      <3>2. cut # "no"
        BY <2>1, <2>3, BehindIsCut
      <3> QED
        BY <2>1, <3>1, <3>2 DEF EndingIsRefused
    <2>4. CASE ~RunIsBehind /\ ~(kind # "plain" /\ status \in Terminal /\ cut # "after")
      <3>1. EmitUndelivered(Ending)
        BY <1>9, <2>4 DEF Abandon
      <3>2. Emittable(Ending) /\ Ending \in {"waiting", "cancelled"}
        BY <2>1, <2>4, EndingIsEmittable DEF Ending
      <3> QED
        BY <2>1, <3>1, <3>2 DEF EmitUndelivered, Records, RecordPcs, Allowed
    <2> QED
      BY <2>2, <2>3, <2>4
  <1>10. CASE Tools
    <2>1. CASE \E c \in Calls : Call(c) \/ GiveResult(c)
      <3>1. pc = "tools" /\ pc' = pc /\ cut' = cut /\ \E c \in Calls : Emit(c, "same")
        BY <2>1 DEF Call, GiveResult, Still, marks
      <3>2. Emittable("same")
        BY <3>1 DEF LedgerInv, Emittable, Terminal
      <3> QED
        BY <1>0, <3>1, <3>2 DEF Emit, EmitUnlocked, Records, RecordPcs
    <2>2. CASE ThreadTimeout \/ LooseEnds \/ Execute \/ \E c \in Calls : Begin(c) \/ Gate(c)
      BY <2>2 DEF ThreadTimeout, LooseEnds, Execute, Begin, Gate, OnlyTools, Quiet, marks, QuietPcs
    <2>3. ASSUME NEW c \in Calls, Return(c), task[c] = "acting"
          PROVE  UNCHANGED <<ledger, cut>> /\ QuietPcs
      <3>1. UNCHANGED <<ledger, cut>>
        BY <2>3 DEF Return, Quiet, marks
      <3>2. pc \in {"tools", "aborting", "doubting"}
        BY <2>3 DEF LockInv
      <3>3. pc' \in {pc, "closing", "cancelled", "waiting"}
        BY <2>3 DEF Return, Leave
      <3> QED
        BY <3>1, <3>2, <3>3 DEF QuietPcs
    <2>4. ASSUME NEW c \in Calls, Doubt(c)
          PROVE  (UNCHANGED <<ledger, cut>> /\ QuietPcs) \/ Records
      <3>1. /\ pc = "tools" /\ pc' \in {"doubting", "waiting"} /\ cut' = cut
            /\ UNCHANGED ledger \/ Number("same")
        BY <2>4 DEF Doubt, CutOff, Leave, OwnsRuntime
      <3>2. Emittable("same")
        BY <3>1 DEF LedgerInv, Emittable, Terminal
      <3> QED
        BY <1>0, <3>1, <3>2 DEF Records, RecordPcs, QuietPcs
    <2> QED
      BY <1>10, <2>1, <2>2, <2>3, <2>4 DEF Tools, Act, Executed, Calls
  <1>11. CASE Cancel
    <2>1. CASE InterruptRun /\ ~CutCommit
      <3>0. UNCHANGED <<ledger, cut>>
        BY <2>1 DEF InterruptRun
      <3>1. CASE pc \in InLoop /\ Leave("cancelled")
        BY <3>0, <3>1 DEF InLoop, Leave, QuietPcs
      <3>2. CASE /\ pc \in {"starting", "closing", "completing", "finishing", "ending"}
                            \cup Handlers
                 /\ pc' = CASE pc = "starting" -> "over"
                            [] pc \in Handlers -> "ending"
                            [] pc = "ending" -> IF lock = "run" THEN "ending" ELSE "over"
                            [] OTHER -> "cancelled"
        BY <3>0, <3>2 DEF Handlers, QuietPcs
      <3> QED
        BY <2>1, <3>1, <3>2 DEF InterruptRun
    <2>2. CASE CutCommit
      <3>1. CASE cut' = "before" /\ pc = "starting" /\ UNCHANGED ledger
        BY <2>2, <3>1 DEF CutCommit, StartIsCut
      <3>2. CASE /\ cut' = "after"
                 /\ \E to \in {"running", "completed"} :
                      /\ Number(to)
                      /\ to = IF pc = "starting" THEN "running" ELSE "completed"
        <4>1. pc \in {"starting", "completing"} /\ pc' = "cancelled" /\ kind # "plain"
          BY <2>2 DEF CutCommit
        <4>2. PICK to \in {"running", "completed"} :
                Number(to) /\ to = IF pc = "starting" THEN "running" ELSE "completed"
          BY <3>2
        <4>3. Emittable(to)
          BY <4>1, <4>2 DEF LedgerInv, Emittable, Terminal, Allowed
        <4> QED
          BY <3>2, <4>1, <4>2, <4>3 DEF Records, RecordPcs, Allowed
      <3> QED
        BY <2>2, <3>1, <3>2 DEF CutCommit
    <2>3. CASE InterruptTools
      BY <2>3 DEF InterruptTools, Leave, QuietPcs
    <2>4. CASE Swallowed
      BY <2>4 DEF Swallowed, QuietPcs
    <2> QED
      BY <1>11, <2>1, <2>2, <2>3, <2>4 DEF Cancel
  <1> QED
    BY <1>1, <1>2, <1>3, <1>4, <1>5, <1>6, <1>7, <1>8, <1>9, <1>10, <1>11 DEF Next, Loop

LEMMA LedgerStays ==
  ASSUME ControlInv, LockInv, SinkInv, LedgerInv, [Next]_vars
  PROVE  LedgerInv'
PROOF
  <1>0. kind' = kind
    BY ScopeStays DEF kind
  <1>1. CASE UNCHANGED <<ledger, cut>> /\ QuietPcs
    BY <1>0, <1>1 DEF ledger, QuietPcs, LedgerInv
  <1>4. CASE StartIsCut
    BY <1>0, <1>4 DEF ledger, StartIsCut, LedgerInv
  <1>5. CASE EndingIsRefused
    BY <1>0, <1>5 DEF EndingIsRefused, LedgerInv
  <1>2. CASE Records
    <2>1. PICK to \in DOMAIN Allowed \cup {"same"} :
            /\ Emittable(to) /\ Number(to)
            /\ pc # "over" /\ pc' # "over" /\ pc' # "starting"
            /\ RecordPcs(to)
      BY <1>2 DEF Records
    <2>2. /\ refused' = refused /\ recorded' = nextSeq
          /\ IF kind = "plain" THEN status' = status /\ nextSeq' = nextSeq + 1
             ELSE /\ stored' = nextSeq
                  /\ nextSeq' = IF to \in Terminal THEN 0 ELSE nextSeq + 1
                  /\ IF to = "same" THEN UNCHANGED <<status, committed>>
                     ELSE status' = to /\ committed' = nextSeq
      BY <2>1, Numbered
    <2>3. nextSeq = recorded + 1 /\ nextSeq \in Nat
      BY <2>1, EmitIsNext
    <2>c. /\ refused' \in BOOLEAN /\ cut' \in {"no", "before", "after"}
          /\ refused' => cut' # "no"
          /\ cut' # "no" => kind' # "plain" /\ pc' \in {"cancelled", "ending", "over"}
      BY <1>0, <2>1, <2>2 DEF LedgerInv, RecordPcs
    <2>4. CASE kind = "plain"
      BY <1>0, <2>2, <2>3, <2>4, <2>c DEF LedgerInv
    <2>5. CASE kind # "plain" /\ to = "same"
      <3>1. status \notin Terminal
        BY <2>1, <2>5 DEF Emittable
      <3> QED
        BY <1>0, <2>1, <2>2, <2>3, <2>5, <2>c, <3>1 DEF LedgerInv, RecordPcs, Terminal
    <2>6. CASE kind # "plain" /\ to # "same"
      BY <1>0, <2>1, <2>2, <2>3, <2>6, <2>c DEF LedgerInv, RecordPcs, Allowed, Terminal
    <2> QED
      BY <2>4, <2>5, <2>6
  <1>3. CASE Resume
    <2>1. /\ kind # "plain" /\ UNCHANGED <<status, stored, committed, recorded>>
          /\ refused' = FALSE /\ cut' = "no" /\ status \in {"running", "waiting"} /\ pc' = "starting"
          /\ nextSeq' = Max({committed + 1, stored + 1})
      BY <1>3 DEF Resume, SequenceOfStore, LatestCheckpoint, LastEvent
    <2>2. recorded \in Nat /\ stored = recorded /\ committed \in Nat /\ committed <= recorded
      BY <2>1 DEF LedgerInv
    <2>3. nextSeq' = stored + 1
      BY <2>1, <2>2, LatestOfTwo
    <2> QED
      BY <1>0, <2>1, <2>3 DEF LedgerInv, Terminal
  <1> QED
    BY <1>1, <1>2, <1>3, <1>4, <1>5, StepsOfLedger

-----------------------------------------------------------------------------
(* The sink.                                                               *)

\* t is s without its first k entries.
Without(t, s, k) == Len(t) = Len(s) - k /\ \A i \in 1 .. Len(t) : t[i] = s[k + i]

\* Of a list that is too long the last entries stay.
LEMMA BoundedIs ==
  ASSUME NEW S, NEW s \in Seq(S), NEW n \in Nat \ {0}, NEW t, t = Bounded(s, n)
  PROVE  t \in Seq(S) /\ Len(t) <= n /\ \E k \in 0 .. Len(s) : Without(t, s, k)
PROOF
  <1>0. Len(s) \in Nat /\ \A i \in 1 .. Len(s) : s[i] \in S
    OBVIOUS
  <1>1. CASE Len(s) > n
    <2> DEFINE u == SubSeq(s, Len(s) - n + 1, Len(s))
    <2>1. t = u
      BY <1>1 DEF Bounded, LastOf
    <2>2. Len(s) - n \in 0 .. Len(s)
      BY <1>0, <1>1
    <2>3. /\ u \in Seq(S) /\ Len(u) = n
          /\ \A i \in 1 .. n : u[i] = s[Len(s) - n + i]
      BY <1>0, <1>1, <2>2
    <2> HIDE DEF u
    <2>4. Len(u) = Len(s) - (Len(s) - n)
      BY <1>0, <2>2, <2>3
    <2>5. Without(u, s, Len(s) - n)
      BY <2>3, <2>4 DEF Without
    <2> QED
      BY <2>1, <2>2, <2>3, <2>5
  <1>2. CASE ~(Len(s) > n)
    <2>1. t = s
      BY <1>2 DEF Bounded
    <2>2. Without(s, s, 0)
      BY <1>0 DEF Without
    <2> QED
      BY <1>0, <1>2, <2>1, <2>2
  <1> QED
    BY <1>1, <1>2

\* The buffer: the offsets go on without a gap.
LEMMA BufferKeeps ==
  ASSUME NEW b, NEW n \in Nat, BufferOK(b, n), NEW r \in Runs, NEW seq \in Nat,
         NEW t, t = Bounded(Append(b, [offset |-> n, run |-> r, seq |-> seq]), MaxEvents)
  PROVE  BufferOK(t, n + 1)
PROOF
  <1> DEFINE e == [offset |-> n, run |-> r, seq |-> seq]
             a == Append(b, e)
             L == Len(b)
             N == Len(t)
  <1>0. b \in Seq(Events) /\ \A i \in 1 .. Len(b) : b[i].offset = n - Len(b) + i - 1
    BY DEF BufferOK
  <1>1. e \in Events /\ e.offset = n /\ MaxEvents \in Nat \ {0}
    BY SinkAssumption DEF Events
  <1> HIDE DEF e
  <1>2. /\ L \in Nat /\ a \in Seq(Events) /\ Len(a) = L + 1 /\ a[L + 1] = e
        /\ \A i \in 1 .. L : a[i] = b[i]
    BY <1>0, <1>1
  <1>3. t = Bounded(a, MaxEvents)
    BY DEF e
  <1>4. \A i \in 1 .. L : b[i].offset = n - L + i - 1
    BY <1>0
  <1> HIDE DEF a
  <1>5. /\ t \in Seq(Events) /\ N <= MaxEvents /\ N \in Nat
        /\ \E k \in 0 .. Len(a) : Without(t, a, k)
    <2>1. MaxEvents \in Nat \ {0} /\ a \in Seq(Events) /\ t = Bounded(a, MaxEvents)
      BY <1>1, <1>2, <1>3
    <2>2. t \in Seq(Events) /\ Len(t) <= MaxEvents /\ \E k \in 0 .. Len(a) : Without(t, a, k)
      BY ONLY <2>1, BoundedIs
    <2> QED
      BY <2>2
  <1>6. PICK k \in 0 .. Len(a) : Without(t, a, k)
    BY <1>5
  <1> HIDE DEF L
  <1>7. \A i \in 1 .. L + 1 : a[i].offset = n - L + i - 1
    <2> TAKE i \in 1 .. L + 1
    <2>1. CASE i \in 1 .. L
      <3>1. a[i] = b[i] /\ b[i].offset = n - L + i - 1
        BY ONLY <1>2, <1>4, <2>1
      <3> QED
        BY ONLY <3>1
    <2>2. CASE i = L + 1
      <3>1. a[i].offset = n
        BY ONLY <1>1, <1>2, <2>2
      <3>2. n = n - L + i - 1
        BY ONLY <1>2, <2>2, n \in Nat
      <3> QED
        BY ONLY <3>1, <3>2
    <2> QED
      BY <1>2, <2>1, <2>2
  <1>8. N = L + 1 - k /\ \A i \in 1 .. N : t[i] = a[k + i]
    BY <1>2, <1>6 DEF Without
  <1> HIDE DEF N
  <1>9. \A i \in 1 .. N : t[i].offset = n + 1 - N + i - 1
    <2> TAKE i \in 1 .. N
    <2>1. k \in Nat /\ i \in Nat /\ k + i \in 1 .. L + 1
      BY <1>2, <1>5, <1>8
    <2>2. t[i].offset = n - L + (k + i) - 1
      BY <1>7, <1>8, <2>1
    <2> QED
      BY <1>2, <1>8, <2>1, <2>2
  <1> QED
    BY <1>5, <1>9 DEF N, BufferOK

\* The table: nobody's last event but that of the run changes.
Updates(t, s, r, seq) ==
  \A i \in 1 .. Len(t) : t[i] = [run |-> r, seq |-> seq] \/ \E j \in 1 .. Len(s) : t[i] = s[j]

LEMMA TableKeeps ==
  ASSUME NEW s, TableOK(s), NEW r \in Runs, NEW seq \in Nat,
         NEW t, t = Bounded(Append(Left(s, {i \in DOMAIN s : s[i].run # r}),
                                   [run |-> r, seq |-> seq]), MaxTracked)
  PROVE  TableOK(t) /\ Updates(t, s, r, seq)
PROOF
  <1> DEFINE e == [run |-> r, seq |-> seq]
             K == {i \in 1 .. Len(s) : s[i].run # r}
             l == Left(s, K)
             a == Append(l, e)
             L == Len(l)
             N == Len(t)
  <1>0. s \in Seq(Lasts) /\ \A i, j \in 1 .. Len(s) : s[i].run = s[j].run => i = j
    BY DEF TableOK
  <1>1. e \in Lasts /\ e.run = r /\ MaxTracked \in Nat \ {0}
    BY SinkAssumption DEF Lasts
  <1> HIDE DEF e, l
  <1>2. t = Bounded(a, MaxTracked)
    <2>1. DOMAIN s = 1 .. Len(s)
      BY <1>0
    <2> QED
      BY <2>1 DEF e, l
  <1>3. l \in Seq(Lasts) /\ LeavesOnly(l, s, K)
    BY <1>0, SomeLeft DEF l
  <1>4. PICK g \in [1 .. L -> K] :
          /\ \A i \in 1 .. L : l[i] = s[g[i]]
          /\ \A i, j \in 1 .. L : i < j => g[i] < g[j]
    BY <1>3 DEF LeavesOnly
  <1>5. L \in Nat /\ \A i \in 1 .. L : g[i] \in 1 .. Len(s) /\ s[g[i]].run # r
    BY <1>3, <1>4
  <1>6. \A i, j \in 1 .. L : l[i].run = l[j].run => i = j
    <2>1. ASSUME NEW i \in 1 .. L, NEW j \in 1 .. L, l[i].run = l[j].run, i < j
          PROVE  FALSE
      <3>1. g[i] = g[j]
        BY <1>0, <1>4, <1>5, <2>1
      <3> QED
        BY <1>4, <1>5, <2>1, <3>1
    <2> QED
      BY <1>5, <2>1
  <1>7. \A i \in 1 .. L : l[i].run # r /\ \E j \in 1 .. Len(s) : l[i] = s[j]
    BY <1>4, <1>5
  <1>8. /\ a \in Seq(Lasts) /\ Len(a) = L + 1 /\ a[L + 1] = e
        /\ \A i \in 1 .. L : a[i] = l[i]
    BY <1>1, <1>3
  <1> HIDE DEF a, K, L
  <1>9. \A i \in 1 .. L + 1 : i \in 1 .. L \/ i = L + 1
    BY <1>5
  <1>10. \A i, j \in 1 .. L + 1 : a[i].run = a[j].run => i = j
    BY <1>1, <1>6, <1>7, <1>8, <1>9
  <1>11. \A i \in 1 .. L + 1 : a[i] = e \/ \E j \in 1 .. Len(s) : a[i] = s[j]
    BY <1>7, <1>8, <1>9
  <1>12. /\ t \in Seq(Lasts) /\ N <= MaxTracked /\ N \in Nat
         /\ \E k \in 0 .. Len(a) : Without(t, a, k)
    <2>1. MaxTracked \in Nat \ {0} /\ a \in Seq(Lasts) /\ t = Bounded(a, MaxTracked)
      BY <1>1, <1>2, <1>8
    <2>2. t \in Seq(Lasts) /\ Len(t) <= MaxTracked /\ \E k \in 0 .. Len(a) : Without(t, a, k)
      BY ONLY <2>1, BoundedIs
    <2>3. N \in Nat
      BY ONLY <2>2 DEF N
    <2> QED
      BY ONLY <2>2, <2>3 DEF N
  <1>13. PICK k \in 0 .. Len(a) : Without(t, a, k)
    BY <1>12
  <1>14. N = L + 1 - k /\ \A i \in 1 .. N : t[i] = a[k + i]
    <2>1. Len(t) = Len(a) - k /\ \A i \in 1 .. Len(t) : t[i] = a[k + i]
      BY ONLY <1>13 DEF Without
    <2>2. Len(a) = L + 1 /\ L \in Nat
      BY <1>5, <1>8
    <2>3. k \in Nat
      BY ONLY <2>2, k \in 0 .. Len(a)
    <2> QED
      BY ONLY <2>1, <2>2, <2>3 DEF N
  <1> HIDE DEF N
  <1>15. k \in Nat /\ \A i \in 1 .. N : k + i \in 1 .. L + 1
    BY <1>5, <1>8, <1>12, <1>14
  <1>16. \A i, j \in 1 .. N : t[i].run = t[j].run => i = j
    <2> SUFFICES ASSUME NEW i \in 1 .. N, NEW j \in 1 .. N, t[i].run = t[j].run
                 PROVE  i = j
      OBVIOUS
    <2>1. /\ t[i] = a[k + i] /\ k + i \in 1 .. L + 1
          /\ t[j] = a[k + j] /\ k + j \in 1 .. L + 1
      BY <1>14, <1>15
    <2>2. k + i = k + j
      BY <1>10, <2>1
    <2> QED
      BY <1>12, <1>15, <2>2
  <1>17. \A i \in 1 .. N : t[i] = e \/ \E j \in 1 .. Len(s) : t[i] = s[j]
    <2> TAKE i \in 1 .. N
    <2>1. t[i] = a[k + i] /\ k + i \in 1 .. L + 1
      BY <1>14, <1>15
    <2> QED
      BY <1>11, <2>1
  <1>18. TableOK(t)
    BY ONLY <1>12, <1>16 DEF N, TableOK
  <1>19. Updates(t, s, r, seq)
    BY ONLY <1>17 DEF N, e, Updates
  <1> QED
    BY <1>18, <1>19

\* What an event of r does to the sink.
LEMMA RecordKeeps ==
  ASSUME SinkInv, NEW r \in Runs, NEW seq \in Nat, Record(r, seq)
  PROVE  /\ BufferOK(buffer', offset') /\ TableOK(tracked') /\ offset' \in Nat
         /\ topic' \in Topics /\ cursor' \in Nat \cup {-1}
         /\ tracked' = tracked \/ Updates(tracked', tracked, r, seq)
PROOF
  <1>1. CASE Refused(r, seq)
    BY <1>1 DEF Record, sink, SinkInv
  <1>2. CASE ~Refused(r, seq)
    <2>1. /\ buffer' = Bounded(Append(buffer, [offset |-> offset, run |-> r, seq |-> seq]),
                               MaxEvents)
          /\ tracked' = Bounded(Append(Left(tracked, {i \in DOMAIN tracked : tracked[i].run # r}),
                                       [run |-> r, seq |-> seq]), MaxTracked)
          /\ offset' = offset + 1 /\ UNCHANGED <<topic, cursor>>
      BY <1>2 DEF Record
    <2>2. BufferOK(buffer, offset) /\ offset \in Nat /\ TableOK(tracked)
      BY DEF SinkInv
    <2>3. BufferOK(buffer', offset + 1)
      BY <2>1, <2>2, BufferKeeps
    <2>4. TableOK(tracked') /\ Updates(tracked', tracked, r, seq)
      BY <2>1, <2>2, TableKeeps
    <2> QED
      BY <2>1, <2>2, <2>3, <2>4 DEF SinkInv
  <1> QED
    BY <1>1, <1>2

\* The subscriber's cursor is the position of an event in the buffer.
LEMMA WakeKeeps ==
  ASSUME SinkInv, Wake
  PROVE  cursor' \in Nat
PROOF
  <1> DEFINE N == Len(buffer)
             f == [i \in 1 .. N |-> Position(buffer[i])]
             D == {i \in 1 .. N : Past(buffer[i])}
             T == {Position(e) : e \in {b \in ToSet(buffer) : Past(b)}}
  <1>1. N \in Nat /\ DOMAIN buffer = 1 .. N /\ \A i \in 1 .. N : buffer[i] \in Events
    BY DEF SinkInv, BufferOK
  <1>2. \A i \in 1 .. N : Position(buffer[i]) \in Nat
    BY <1>1 DEF Events, Position
  <1>3. f \in [1 .. N -> Nat] /\ D \in SUBSET (1 .. N)
    BY <1>2
  <1>4. D # {}
    BY <1>1 DEF Wake, HasNew, ToSet
  <1>5. T = {f[i] : i \in D}
    BY <1>1 DEF ToSet
  <1>6. cursor' = Max(T)
    BY DEF Wake
  <1> HIDE DEF N, f, D, T
  <1>7. PICK m \in D : \A i \in D : f[i] <= f[m]
    BY <1>1, <1>3, <1>4, LargestOf
  <1>8. f[m] \in T /\ \A y \in T : f[m] >= y
    BY <1>3, <1>5, <1>7
  <1>9. \A x \in T : x \in Nat
    BY <1>3, <1>5
  <1> QED
    BY <1>6, <1>8, <1>9 DEF Max

LEMMA RecordGrows ==
  ASSUME ControlInv, LockInv, SinkInv, LedgerInv, [Next]_vars
  PROVE  recorded \in Nat \cup {-1} /\ recorded' \in Nat \cup {-1} /\ recorded <= recorded'
PROOF
  <1>1. recorded \in Nat \cup {-1} /\ recorded' \in Nat \cup {-1}
    BY LedgerStays DEF LedgerInv
  <1>2. recorded' = recorded \/ recorded' = recorded + 1
    BY StepsOfLedger, EmitIsNext, Numbered DEF Records, StartIsCut, EndingIsRefused,
         Resume, ledger
  <1> QED
    BY <1>1, <1>2

LEMMA StepsOfSink ==
  ASSUME [Next]_vars
  PROVE  \/ UNCHANGED <<sink, others>>
         \/ others' = others /\ \E to : Number(to) /\ Record(Main, nextSeq)
         \/ OtherAppends
         \/ Subscribe
         \/ others' = others /\ SinkLost
PROOF
  <1>1. CASE Loop \/ UNCHANGED vars
    BY <1>1 DEF Loop, Start, Load, Turn, TurnFails, Wait, ModelAnswers, ModelFails, Chunk, Answer,
         Text, SaveResult, Propose, CloseRuntime, Complete, Finish, Dispatch, Suspend,
         FinishPending, Suspended, Fail, Abandon, PutNone, Quiet, Still, Emit, EmitUnlocked, EmitUndelivered, vars
  <1>2. CASE Tools
    BY <1>2 DEF Tools, Act, ThreadTimeout, LooseEnds, Execute, Executed, Call, Gate, Begin,
         GiveResult, Doubt, Return, OnlyTools, Quiet, Still, Emit, EmitUnlocked
  <1>3. CASE Deliver \/ Removal \/ Cancel \/ Read \/ Close \/ OtherAppends
             \/ Subscribe \/ Crash \/ Resume
    BY <1>3 DEF Deliver, Removal, OnlyTools, Quiet, Cancel, Read, Close, Subscribe,
         Crash, Resume
  <1> QED
    BY <1>1, <1>2, <1>3 DEF Next

LEMMA SinkStays ==
  ASSUME ControlInv, LockInv, SinkInv, LedgerInv, [Next]_vars
  PROVE  SinkInv'
PROOF
  <1>0. recorded \in Nat \cup {-1} /\ recorded' \in Nat \cup {-1} /\ recorded <= recorded'
    BY RecordGrows
  <1>1. /\ BufferOK(buffer, offset) /\ TableOK(tracked) /\ offset \in Nat /\ others \in Nat
        /\ topic \in Topics /\ cursor \in Nat \cup {-1}
        /\ \A i \in 1 .. Len(tracked) : tracked[i].run = Main => tracked[i].seq <= recorded
        /\ \A i \in 1 .. Len(tracked) : tracked[i].seq \in Nat
    <2>1. \A i \in 1 .. Len(tracked) : tracked[i] \in Lasts
      BY DEF SinkInv, TableOK
    <2> QED
      BY <2>1 DEF SinkInv, Lasts
  <1>2. \A i \in 1 .. Len(tracked) : tracked[i].run = Main => tracked[i].seq <= recorded'
    BY <1>0, <1>1
  <1>3. ASSUME UNCHANGED <<tracked, buffer, offset, topic, others>>, cursor' \in Nat \cup {-1}
        PROVE  SinkInv'
    BY <1>1, <1>2, <1>3 DEF SinkInv
  <1>4. ASSUME NEW r \in Runs, NEW seq \in Nat, Record(r, seq), others' \in Nat,
               r = Main => seq <= recorded'
        PROVE  SinkInv'
    <2>1. /\ BufferOK(buffer', offset') /\ TableOK(tracked') /\ offset' \in Nat
          /\ topic' \in Topics /\ cursor' \in Nat \cup {-1}
          /\ tracked' = tracked \/ Updates(tracked', tracked, r, seq)
      BY <1>4, RecordKeeps
    <2>2. \A i \in 1 .. Len(tracked') : tracked'[i].run = Main => tracked'[i].seq <= recorded'
      <3>1. CASE tracked' = tracked
        BY <1>2, <3>1
      <3>2. CASE Updates(tracked', tracked, r, seq)
        <4> TAKE i \in 1 .. Len(tracked')
        <4>1. CASE tracked'[i] = [run |-> r, seq |-> seq]
          BY <1>4, <4>1
        <4>2. CASE \E j \in 1 .. Len(tracked) : tracked'[i] = tracked[j]
          BY <1>2, <4>2
        <4> QED
          BY <3>2, <4>1, <4>2 DEF Updates
      <3> QED
        BY <2>1, <3>1, <3>2
    <2> QED
      BY <1>4, <2>1, <2>2 DEF SinkInv
  <1>5. CASE UNCHANGED <<sink, others>>
    BY <1>1, <1>3, <1>5 DEF sink
  <1>6. ASSUME NEW to, Number(to), Record(Main, nextSeq), others' = others
        PROVE  SinkInv'
    <2>1. recorded' = nextSeq
      BY <1>6 DEF Number
    <2>2. nextSeq \in Nat
      <3>1. CASE kind = "plain"
        <4>1. nextSeq = recorded + 1
          BY <3>1 DEF LedgerInv
        <4> QED
          BY <1>0, <4>1
      <3>2. CASE kind # "plain"
        BY <2>1, <3>2, LedgerStays, ScopeStays DEF LedgerInv, kind
      <3> QED
        BY <3>1, <3>2
    <2>3. nextSeq <= recorded'
      BY <2>1, <2>2
    <2> QED
      BY <1>1, <1>4, <1>6, <2>2, <2>3, StreamAssumption
  <1>7. CASE OtherAppends
    <2>1. PICK r \in Runs \ {Main} : Record(r, others)
      BY <1>7 DEF OtherAppends
    <2>2. others' \in Nat
      BY <1>1, <1>7 DEF OtherAppends
    <2> QED
      BY <1>1, <1>4, <2>1, <2>2
  <1>8. CASE Subscribe
    <2>1. cursor' \in Nat /\ UNCHANGED <<tracked, buffer, offset, topic, others>>
      BY <1>8, WakeKeeps DEF Subscribe, Wake
    <2> QED
      BY <1>3, <2>1
  <1>9. CASE others' = others /\ SinkLost
    <2>1. BufferOK(<<>>, 0) /\ TableOK(<<>>)
      BY SinkAssumption DEF BufferOK, TableOK
    <2> QED
      BY <1>1, <1>9, <2>1 DEF SinkLost, SinkInv
  <1> QED
    BY <1>5, <1>6, <1>7, <1>8, <1>9, StepsOfSink

-----------------------------------------------------------------------------
(* The queue.                                                              *)

\* What comes after it, before it and after one more is read; without a loss
\* the numbers go on without a gap, and with one there is one.
LEMMA NthIs ==
  ASSUME NEW read \in Int, NEW l \in Int, NEW n \in Int
  PROVE  /\ Nth(read, l, n) \in Int
         /\ read + n <= Nth(read, l, n) /\ Nth(read, l, n) <= read + n + 1
         /\ Nth(read, l, 0) = read
         /\ l <= read => Nth(read, l, n) = read + n
  BY DEF Nth

LEMMA NthSucc ==
  ASSUME NEW read \in Int, NEW l \in Int, NEW n \in Int, NEW r \in Int,
         Nth(read, l, n) = r, l <= r
  PROVE  Nth(read, l, n + 1) = r + 1
  BY DEF Nth

LEMMA NthPred ==
  ASSUME NEW read \in Int, NEW l \in Int, NEW n \in Int, NEW r \in Int,
         Nth(read, l, n + 1) = r + 1, l # r \/ l <= read
  PROVE  Nth(read, l, n) = r
  BY DEF Nth

LEMMA NthGrows ==
  ASSUME NEW read \in Int, NEW l \in Int, NEW n \in Int, NEW k \in Int, n <= k
  PROVE  Nth(read, l, n) <= Nth(read, l, k) /\ (n < k => Nth(read, l, n) < Nth(read, l, k))
  BY DEF Nth

LEMMA NthShifts ==
  ASSUME NEW read \in Int, NEW l \in Int, NEW n \in Nat, NEW h, h = Nth(read, l, 1)
  PROVE  Nth(h, l, n) = Nth(read, l, n + 1)
  BY DEF Nth

LEMMA NthLoses ==
  ASSUME NEW read \in Int, NEW n \in Nat, NEW l \in Int, l = read + n + 1
  PROVE  /\ \A i \in 1 .. n : Nth(read, l, i) = read + i
         /\ Nth(read, l, n + 1) = l + 1
  BY DEF Nth

LEMMA QueueIs ==
  ASSUME NEW q, NEW read, NEW l, InOrder(q, read, l)
  PROVE  /\ q \in Seq(Nat \cup {Done}) /\ Len(q) \in Nat /\ (q # <<>> <=> Len(q) > 0)
         /\ \A i \in 1 .. Len(q) : q[i] # Done => q[i] = Nth(read, l, i)
         /\ \A i \in 1 .. Len(q) : \A j \in 1 .. i - 1 : q[j] # Done
  BY DEF InOrder

\* The event that is next, and the end marker.
LEMMA QueueGrows ==
  ASSUME NEW q, NEW read, NEW l, InOrder(q, read, l), ~Marked(q),
         NEW e \in Nat, e = Nth(read, l, Len(q) + 1)
  PROVE  /\ InOrder(Append(q, e), read, l) /\ ~Marked(Append(q, e))
         /\ Len(Append(q, e)) = Len(q) + 1
PROOF
  <1> DEFINE t == Append(q, e)
  <1>1. /\ q \in Seq(Nat \cup {Done}) /\ Len(q) \in Nat
        /\ \A i \in 1 .. Len(q) : q[i] # Done /\ q[i] = Nth(read, l, i)
    BY QueueIs DEF Marked
  <1>2. /\ t \in Seq(Nat \cup {Done}) /\ Len(t) = Len(q) + 1 /\ t[Len(q) + 1] = e
        /\ \A i \in 1 .. Len(q) : t[i] = q[i]
    BY <1>1, AppendProperties
  <1>3. e # Done
    BY StreamAssumption
  <1> HIDE DEF t
  <1>4. \A i \in 1 .. Len(t) : t[i] # Done /\ t[i] = Nth(read, l, i)
    <2> TAKE i \in 1 .. Len(t)
    <2>1. CASE i \in 1 .. Len(q)
      BY <1>1, <1>2, <2>1
    <2>2. CASE i = Len(q) + 1
      BY <1>1, <1>2, <1>3, <2>2
    <2> QED
      BY <1>1, <1>2, <2>1, <2>2
  <1>5. \A i \in 1 .. Len(t) : \A j \in 1 .. i - 1 : t[j] # Done
    BY <1>1, <1>2, <1>4
  <1> QED
    BY <1>2, <1>4, <1>5 DEF InOrder, Marked, t

LEMMA QueueEnds ==
  ASSUME NEW q, NEW read, NEW l, InOrder(q, read, l), ~Marked(q)
  PROVE  /\ InOrder(Append(q, Done), read, l) /\ Marked(Append(q, Done))
         /\ Len(Append(q, Done)) = Len(q) + 1
PROOF
  <1> DEFINE t == Append(q, Done)
  <1>1. /\ q \in Seq(Nat \cup {Done}) /\ Len(q) \in Nat
        /\ \A i \in 1 .. Len(q) : q[i] # Done /\ q[i] = Nth(read, l, i)
    BY QueueIs DEF Marked
  <1>2. /\ t \in Seq(Nat \cup {Done}) /\ Len(t) = Len(q) + 1 /\ t[Len(q) + 1] = Done
        /\ \A i \in 1 .. Len(q) : t[i] = q[i]
    BY <1>1, AppendProperties
  <1> HIDE DEF t
  <1>3. \A i \in 1 .. Len(t) : t[i] # Done => i \in 1 .. Len(q)
    BY <1>1, <1>2
  <1>4. \A i \in 1 .. Len(t) : t[i] # Done => t[i] = Nth(read, l, i)
    BY <1>1, <1>2, <1>3
  <1>5. \A i \in 1 .. Len(t) : \A j \in 1 .. i - 1 : t[j] # Done
    <2> TAKE i \in 1 .. Len(t)
    <2> TAKE j \in 1 .. i - 1
    <2>1. j \in 1 .. Len(q)
      BY <1>1, <1>2
    <2> QED
      BY <1>1, <1>2, <2>1
  <1>6. Marked(t)
    <2>1. Len(t) \in 1 .. Len(t) /\ t[Len(t)] = Done
      BY <1>1, <1>2
    <2> QED
      BY <2>1 DEF Marked
  <1> QED
    BY <1>2, <1>4, <1>5, <1>6 DEF InOrder, t

\* The first of the queue is taken: nothing else is there when it is the marker.
LEMMA QueueIsRead ==
  ASSUME NEW q, NEW read \in Int, NEW l \in Int, InOrder(q, read, l), q # <<>>
  PROVE  /\ Len(Tail(q)) = Len(q) - 1
         /\ Head(q) # Done =>
              /\ Head(q) = Nth(read, l, 1) /\ Head(q) \in Nat
              /\ InOrder(Tail(q), Head(q), l) /\ (Marked(Tail(q)) <=> Marked(q))
         /\ Head(q) = Done => Tail(q) = <<>> /\ Marked(q) /\ Len(q) = 1
PROOF
  <1> DEFINE t == Tail(q)
             h == Head(q)
  <1>1. /\ q \in Seq(Nat \cup {Done}) /\ Len(q) \in Nat /\ Len(q) > 0
        /\ \A i \in 1 .. Len(q) : q[i] # Done => q[i] = Nth(read, l, i)
        /\ \A i \in 1 .. Len(q) : \A j \in 1 .. i - 1 : q[j] # Done
    BY QueueIs
  <1>2. /\ t \in Seq(Nat \cup {Done}) /\ Len(t) = Len(q) - 1 /\ h = q[1]
        /\ h \in Nat \cup {Done} /\ \A i \in 1 .. Len(t) : t[i] = q[i + 1]
    BY <1>1, HeadTailProperties
  <1> HIDE DEF t, h
  <1>3. ASSUME h # Done
        PROVE  h = Nth(read, l, 1) /\ h \in Nat /\ InOrder(t, h, l) /\ (Marked(t) <=> Marked(q))
    <2>1. h = Nth(read, l, 1) /\ h \in Nat
      BY <1>1, <1>2, <1>3
    <2>2. \A i \in 1 .. Len(t) : t[i] # Done => t[i] = Nth(h, l, i)
      <3> TAKE i \in 1 .. Len(t)
      <3>1. i + 1 \in 1 .. Len(q) /\ t[i] = q[i + 1] /\ i \in Nat
        BY <1>1, <1>2
      <3>2. Nth(h, l, i) = Nth(read, l, i + 1)
        BY <2>1, <3>1, NthShifts
      <3> QED
        BY <1>1, <3>1, <3>2
    <2>3. \A i \in 1 .. Len(t) : \A j \in 1 .. i - 1 : t[j] # Done
      <3> TAKE i \in 1 .. Len(t)
      <3> TAKE j \in 1 .. i - 1
      <3>1. i + 1 \in 1 .. Len(q) /\ j + 1 \in 1 .. (i + 1) - 1 /\ t[j] = q[j + 1]
        BY <1>1, <1>2
      <3> QED
        BY <1>1, <3>1
    <2>4. Marked(t) => Marked(q)
      <3> SUFFICES ASSUME NEW i \in 1 .. Len(t), t[i] = Done
                   PROVE  Marked(q)
        BY DEF Marked
      <3>1. i + 1 \in 1 .. Len(q) /\ q[i + 1] = Done
        BY <1>1, <1>2
      <3> QED
        BY <3>1 DEF Marked
    <2>5. Marked(q) => Marked(t)
      <3> SUFFICES ASSUME NEW i \in 1 .. Len(q), q[i] = Done
                   PROVE  Marked(t)
        BY DEF Marked
      <3>1. i # 1
        BY <1>2, <1>3
      <3>2. i - 1 \in 1 .. Len(t) /\ (i - 1) + 1 = i
        BY <1>1, <1>2, <3>1
      <3>3. t[i - 1] = Done
        BY <1>2, <3>2
      <3> QED
        BY <3>2, <3>3 DEF Marked
    <2> QED
      BY <1>2, <2>1, <2>2, <2>3, <2>4, <2>5 DEF InOrder
  <1>4. ASSUME h = Done
        PROVE  t = <<>> /\ Marked(q) /\ Len(q) = 1
    <2>1. 1 \in 1 .. Len(q) /\ q[1] = Done
      BY <1>1, <1>2, <1>4
    <2>2. Len(q) = 1
      <3>0. Len(q) \in Nat /\ Len(q) > 0
        BY <1>1
      <3>1. ASSUME Len(q) > 1 PROVE FALSE
        <4>1. 2 \in 1 .. Len(q) /\ 1 \in 1 .. 2 - 1
          BY <3>0, <3>1
        <4> QED
          BY <1>1, <2>1, <4>1
      <3> QED
        BY ONLY <3>0, <3>1
    <2>3. t = <<>>
      BY <1>1, <1>2, <2>2
    <2> QED
      BY <2>1, <2>2, <2>3 DEF Marked
  <1> QED
    BY <1>2, <1>3, <1>4 DEF t, h

\* The event that would be next is lost: the queue is what it was.
LEMMA QueueLoses ==
  ASSUME NEW q, NEW read \in Nat \cup {-1}, InOrder(q, read, -1),
         NEW l \in Int, l = read + Len(q) + 1
  PROVE  InOrder(q, read, l) /\ Nth(read, l, Len(q) + 1) = l + 1
PROOF
  <1>1. /\ q \in Seq(Nat \cup {Done}) /\ Len(q) \in Nat
        /\ \A i \in 1 .. Len(q) : q[i] # Done => q[i] = Nth(read, -1, i)
        /\ \A i \in 1 .. Len(q) : \A j \in 1 .. i - 1 : q[j] # Done
    BY QueueIs
  <1>2. \A i \in 1 .. Len(q) : Nth(read, -1, i) = read + i
    BY <1>1, NthIs
  <1>3. /\ \A i \in 1 .. Len(q) : Nth(read, l, i) = read + i
        /\ Nth(read, l, Len(q) + 1) = l + 1
    BY <1>1, NthLoses
  <1>4. \A i \in 1 .. Len(q) : q[i] # Done => q[i] = Nth(read, l, i)
    BY <1>1, <1>2, <1>3
  <1> QED
    BY <1>1, <1>3, <1>4 DEF InOrder

\* Nobody gives, gets, loses or records an event.
Idle ==
  /\ UNCHANGED <<queue, lastRead, whole, lost, status, recorded, lock, held, cancels>>
  /\ consumer' \in {consumer, "closing", "done"}
  /\ pc \in {"ending", "over"} => pc' = pc
  /\ pc \in Doubtful => pc' \in Doubtful
  /\ pc' \in Doubtful => pc \in Doubtful \/ cancels = 0

\* The record grows, and the event goes to the queue or waits for room.
Gives ==
  /\ \E who \in {"run"} \cup Calls, to \in DOMAIN Allowed \cup {"same"} :
       /\ Emit(who, to) /\ Emittable(to)
       /\ pc = "waiting" => to = "waiting" /\ pc' = "ending"
  /\ UNCHANGED <<consumer, lastRead, whole, lost, cancels>>
  /\ pc \notin Stopped \ {"waiting"} /\ pc' \notin Doubtful \cup {"over"}

GivesNobody ==
  /\ \E to \in DOMAIN Allowed \cup {"same"} : EmitUndelivered(to) /\ Emittable(to)
  /\ UNCHANGED <<consumer, lastRead, whole, lost, cancels>>
  /\ pc = "cancelled" /\ pc' = "ending"

\* A run that was cancelled does not come to its suspension.
LEMMA ToDoubtful ==
  ASSUME cancels \in Nat,
         cancels > 0 => pc \in Stopped /\ (pc = "closing" => outcome = "cancelled"),
         \/ Load \/ Turn \/ Wait \/ ModelAnswers \/ Answer \/ Propose \/ Finish \/ Dispatch
         \/ FinishPending \/ TurnFails \/ ModelFails \/ SaveResult \/ Suspend \/ CloseRuntime
  PROVE  pc' \in Doubtful => cancels = 0
PROOF
  <1>1. CASE CloseRuntime
    BY <1>1 DEF CloseRuntime, Doubtful
  <1>2. CASE ~CloseRuntime
    <2>1. pc \notin Stopped
      BY <1>2 DEF Load, Turn, Wait, ModelAnswers, Answer, Propose, Finish, Dispatch,
         FinishPending, TurnFails, ModelFails, SaveResult, Suspend, At, Stopped
    <2> QED
      BY <2>1
  <1> QED
    BY <1>1, <1>2

LEMMA StepsOfChannel ==
  ASSUME ControlInv, CancelInv, LockInv, LedgerInv, [Next]_vars
  PROVE  \/ Idle \/ Gives \/ GivesNobody \/ Cancel \/ Deliver \/ Read \/ PutNone \/ Crash
         \/ Resume \/ \E c \in Calls : Doubt(c)
PROOF
  <1>0. /\ pc = "closing" => outcome \in Outcomes
        /\ cancels \in Nat
        /\ cancels > 0 => pc \in Stopped /\ (pc = "closing" => outcome = "cancelled")
    BY DEF ControlInv, CancelInv
  <1>1. ASSUME UNCHANGED <<ledger, channel, marks, lock, held, cancels>>,
               pc \notin {"ending", "over"}, pc \in Doubtful => pc' \in Doubtful,
               pc' \in Doubtful => pc \in Doubtful \/ cancels = 0
        PROVE  Idle
    BY <1>1 DEF ledger, channel, marks, Idle
  <1>2. CASE Load \/ Turn \/ Wait \/ ModelAnswers \/ Answer \/ Propose \/ Finish \/ Dispatch
             \/ FinishPending \/ TurnFails \/ ModelFails \/ SaveResult \/ Suspend \/ CloseRuntime
    <2>1. /\ UNCHANGED <<ledger, channel, marks, lock, held, cancels>>
          /\ pc \notin {"ending", "over"} /\ pc \notin Doubtful
      BY <1>2 DEF Load, Turn, Wait, ModelAnswers, Answer, Propose, Finish, Dispatch,
           FinishPending, TurnFails, ModelFails, SaveResult, Suspend, CloseRuntime, At, Quiet,
           Doubtful
    <2>2. pc' \in Doubtful => cancels = 0
      BY <1>0, <1>2, ToDoubtful
    <2> QED
      BY <1>1, <2>1, <2>2
  <1>3. CASE Removal \/ Close \/ OtherAppends \/ Subscribe \/ ThreadTimeout \/ LooseEnds \/ Execute
             \/ UNCHANGED vars
    BY <1>3 DEF Removal, OnlyTools, Quiet, Close, OtherAppends, Subscribe, ThreadTimeout,
         LooseEnds, Execute, vars, ledger, channel, marks, Idle
  <1>4. CASE Start \/ Chunk \/ Text \/ Complete \/ Suspended \/ Fail
    <2>1. /\ pc \notin Stopped \ {"waiting"} /\ pc' \notin Doubtful \cup {"over"}
          /\ UNCHANGED <<consumer, lastRead, whole, lost, cancels>>
          /\ pc = "waiting" => Suspended /\ pc' = "ending"
      BY <1>4 DEF Start, Chunk, Text, Complete, Suspended, Fail, At, Still, Stopped, Doubtful,
           marks
    <2>2. \/ /\ UNCHANGED <<ledger, queue, lock, held>> /\ Chunk
          \/ Start /\ Emit("run", "running")
          \/ (Chunk \/ Text) /\ Emit("run", "same")
          \/ Complete /\ Emit("run", "completed")
          \/ Suspended /\ Emit("run", "waiting")
          \/ Fail /\ (Emit("run", "failed") \/ Emit("run", "waiting"))
      BY <1>4 DEF Start, Chunk, Text, Complete, Suspended, Fail
    <2>3. /\ Start => Emittable("running")
          /\ Chunk \/ Text => Emittable("same")
          /\ Complete => Emittable("completed")
          /\ Suspended \/ Fail => Emittable("waiting") /\ Emittable("failed")
      BY DEF Start, Chunk, Text, Complete, Suspended, Fail, At, LedgerInv, Emittable, Terminal,
           Allowed
    <2>4. {"running", "same", "completed", "waiting", "failed"}
            \subseteq DOMAIN Allowed \cup {"same"}
      BY DEF Allowed
    <2>5. CASE UNCHANGED <<ledger, queue, lock, held>> /\ Chunk
      <3>1. pc = "streaming" /\ pc' = pc
        BY <2>5 DEF Chunk, At
      <3> QED
        BY <2>1, <2>5, <3>1 DEF ledger, Doubtful, Idle
    <2>6. CASE Suspended
      BY <2>1, <2>3, <2>4, <2>6 DEF Suspended, Gives
    <2>7. pc # "waiting" \/ Suspended
      BY <2>1
    <2> QED
      BY <2>1, <2>2, <2>3, <2>4, <2>5, <2>6, <2>7 DEF Gives
  <1>5. CASE Abandon
    <2>1. /\ pc = "cancelled" /\ pc' = "ending"
          /\ UNCHANGED <<consumer, lastRead, whole, lost, cancels>>
      BY <1>5 DEF Abandon, At, Still, marks
    <2>2. CASE UNCHANGED <<status, recorded, queue, lock, held>>
      BY <2>1, <2>2 DEF Doubtful, Idle
    <2>3. CASE ~RunIsBehind /\ ~(kind # "plain" /\ status \in Terminal /\ cut # "after")
      <3>1. EmitUndelivered(Ending)
        BY <1>5, <2>3 DEF Abandon
      <3>2. Emittable(Ending) /\ Ending \in {"waiting", "cancelled"}
        BY <2>1, <2>3, EndingIsEmittable DEF Ending
      <3> QED
        BY <2>1, <3>1, <3>2 DEF GivesNobody, Allowed
    <2> QED
      BY <1>5, <2>2, <2>3 DEF Abandon, ledger
  <1>6. CASE Tools
    <2>1. ASSUME NEW c \in Calls, Call(c) \/ GiveResult(c)
          PROVE  Gives
      <3>1. /\ pc = "tools" /\ pc' = pc /\ Emit(c, "same")
            /\ UNCHANGED <<consumer, lastRead, whole, lost, cancels>>
        BY <2>1 DEF Call, GiveResult, Still, marks
      <3>2. Emittable("same")
        BY <3>1 DEF LedgerInv, Emittable, Terminal
      <3> QED
        BY <3>1, <3>2 DEF Gives, Stopped, Doubtful
    <2>2. ASSUME NEW c \in Calls, Begin(c) \/ Gate(c)
          PROVE  Idle
      BY <2>2 DEF Begin, Gate, OnlyTools, Quiet, ledger, channel, marks, Doubtful, Idle
    <2>3. ASSUME NEW c \in Calls, Return(c), task[c] = "acting"
          PROVE  Idle
      <3>1. UNCHANGED <<ledger, channel, marks, lock, held, cancels>>
        BY <2>3 DEF Return, Quiet
      <3>2. /\ pc \in {"tools", "aborting", "doubting"}
            /\ pc = "doubting" => ~OwnsRuntime
        BY <2>3 DEF LockInv, CancelInv, OwnsRuntime
      <3>3. pc' = pc \/ (pc = "aborting" /\ pc' \in {"closing", "cancelled"})
            \/ (pc = "doubting" /\ pc' = "waiting")
        BY <2>3, <3>2 DEF Return, Leave
      <3> QED
        BY <1>1, <3>1, <3>2, <3>3 DEF Doubtful
    <2> QED
      BY <1>3, <1>6, <2>1, <2>2, <2>3 DEF Tools, Act, Executed, Calls
  <1> QED
    BY <1>2, <1>3, <1>4, <1>5, <1>6 DEF Next, Loop

LEMMA EmitGives ==
  ASSUME ControlInv, LedgerInv, NEW to, Emittable(to), Number(to)
  PROVE  recorded \in Int /\ recorded' \in Nat /\ recorded' = nextSeq /\ recorded' = recorded + 1
PROOF
  <1>1. recorded \in Int
    BY DEF LedgerInv
  <1>2. nextSeq = recorded + 1 /\ nextSeq \in Nat
    BY EmitIsNext
  <1>3. recorded' = nextSeq
    BY DEF Number
  <1> QED
    BY <1>1, <1>2, <1>3

\* A call of unknown outcome: where another one of its group has the lock, it is
\* cut off in deliver; else it may be in append.
LEMMA DoubtLoses ==
  ASSUME ControlInv, LockInv, LedgerInv, LostInv, NEW c \in Calls, Doubt(c)
  PROVE  /\ UNCHANGED <<queue, consumer, lastRead, whole, cancels>> /\ lock' = "free"
         /\ pc = "tools" /\ pc' \in Doubtful /\ kind = "durable" /\ lost = -1
         /\ status' = status /\ status \in {"running"}
         /\ \/ lock = "free" /\ UNCHANGED <<lost, recorded>>
            \/ lock # "free" /\ lost' = held /\ recorded' = recorded
            \/ /\ lock = "free" /\ recorded' = recorded + 1
               /\ lost' = IF streaming THEN recorded + 1 ELSE lost
PROOF
  <1>1. /\ pc = "tools" /\ kind = "durable" /\ pc' \in Doubtful
        /\ UNCHANGED <<queue, consumer, lastRead, whole, cancels>>
    BY DEF Doubt, channel, Leave, OwnsRuntime, Doubtful
  <1>2. lock' = "free" /\ lost = -1 /\ status = "running"
    BY <1>1, LockReleased DEF Doubt, CutOff, LostInv, LedgerInv, Doubtful
  <1>3. Emittable("same")
    BY <1>1 DEF LedgerInv, Emittable, Terminal
  <1>4. ASSUME Number("same")
        PROVE  recorded' = recorded + 1 /\ nextSeq = recorded + 1 /\ status' = status
    <2>1. recorded' = recorded + 1 /\ recorded' = nextSeq
      BY <1>3, <1>4, EmitGives
    <2>2. status' = status
      BY <1>4 DEF Number, StoreEvent
    <2> QED
      BY <2>1, <2>2
  <1> QED
    BY <1>1, <1>2, <1>4 DEF Doubt, CutOff, ledger

LEMMA LostStays ==
  ASSUME ControlInv, CancelInv, LockInv, LedgerInv, SinkInv, QueueInv, LostInv, [Next]_vars
  PROVE  LostInv'
PROOF
  <1>0. /\ lost \in Nat \cup {-1} /\ lost <= recorded /\ recorded \in Nat \cup {-1}
        /\ lost # -1 =>
             kind = "durable" /\ streaming /\ pc \in {"doubting", "waiting", "ending", "over"}
        /\ lost # -1 /\ lost = recorded =>
             pc \in {"doubting", "waiting", "over"} \/ cancels > 0
        /\ lost # -1 /\ pc \in {"doubting", "waiting"} => lost = recorded
        /\ cancels \in Nat /\ kind' = kind /\ streaming' = streaming
    BY ScopeStays DEF LostInv, LedgerInv, ControlInv, Doubtful, kind, streaming
  <1> DEFINE Rest ==
        /\ lost' \in Nat \cup {-1} /\ lost' <= recorded'
        /\ lost' # -1 =>
             kind = "durable" /\ streaming /\ pc' \in {"doubting", "waiting", "ending", "over"}
        /\ lost' # -1 /\ lost' = recorded' =>
             pc' \in {"doubting", "waiting", "over"} \/ cancels' > 0
        /\ lost' # -1 /\ pc' \in {"doubting", "waiting"} => lost' = recorded'
  <1> SUFFICES Rest
    BY <1>0 DEF LostInv, Doubtful
  <1> HIDE DEF Rest
  <1>1. CASE Idle
    BY <1>0, <1>1 DEF Idle, Doubtful, Rest
  <1>2. CASE Gives \/ GivesNobody
    <2>1. /\ recorded' = recorded + 1
          /\ UNCHANGED <<lost, cancels>>
          /\ lost # -1 => pc = "waiting" /\ pc' = "ending"
          /\ pc' \notin {"doubting", "waiting"}
      <3>1. CASE Gives
        <4>1. PICK who \in {"run"} \cup Calls : \E to \in DOMAIN Allowed \cup {"same"} :
                /\ Emit(who, to) /\ Emittable(to)
                /\ pc = "waiting" => to = "waiting" /\ pc' = "ending"
          BY <3>1 DEF Gives
        <4>2. PICK to \in DOMAIN Allowed \cup {"same"} :
                /\ Emit(who, to) /\ Emittable(to)
                /\ pc = "waiting" => to = "waiting" /\ pc' = "ending"
          BY <4>1
        <4>3. recorded' = recorded + 1
          BY <4>2, EmitGives DEF Emit, EmitUnlocked
        <4>4. /\ UNCHANGED <<lost, cancels>> /\ pc \notin Stopped \ {"waiting"}
              /\ pc' \notin {"doubting", "waiting"}
          BY <3>1 DEF Gives, Doubtful
        <4> QED
          BY <1>0, <4>2, <4>3, <4>4 DEF Stopped
      <3>2. CASE GivesNobody
        <4>1. PICK to \in DOMAIN Allowed \cup {"same"} : EmitUndelivered(to) /\ Emittable(to)
          BY <3>2 DEF GivesNobody
        <4>2. recorded' = recorded + 1
          BY <4>1, EmitGives DEF EmitUndelivered
        <4> QED
          BY <1>0, <3>2, <4>2 DEF GivesNobody
      <3> QED
        BY <1>2, <3>1, <3>2
    <2>2. lost' <= recorded' /\ lost' # recorded'
      BY <1>0, <2>1
    <2> QED
      BY <1>0, <2>1, <2>2 DEF Rest
  <1>3. CASE Cancel
    <2>1. lost' = lost /\ cancels' = cancels + 1 /\ pc # "over"
      BY <1>3 DEF Cancel
    <2>2. recorded <= recorded' /\ recorded' \in Nat \cup {-1}
      BY RecordGrows
    <2>3. ASSUME lost # -1
          PROVE  /\ recorded' = recorded /\ pc' \in {"doubting", "ending", "over"}
                 /\ pc' = "doubting" => pc = "doubting"
      <3>1. pc \in {"doubting", "waiting", "ending"}
        BY <1>0, <2>1, <2>3
      <3> QED
        BY <1>3, <3>1 DEF Cancel, InterruptRun, InLoop, Handlers, CutCommit, InterruptTools,
             Swallowed, ledger
    <2>4. CASE lost = -1
      BY <2>1, <2>2, <2>4 DEF Rest
    <2>5. CASE lost # -1
      BY <1>0, <2>1, <2>3, <2>5 DEF Rest
    <2> QED
      BY <2>4, <2>5
  <1>4. CASE Deliver \/ Read \/ Crash
    <2>1. UNCHANGED <<lost, recorded, cancels>> /\ pc' \in {pc, "over"}
      BY <1>4 DEF Deliver, Read, Crash, ledger, marks
    <2> QED
      BY <1>0, <2>1 DEF Rest
  <1>5. CASE PutNone
    <2>1. UNCHANGED <<lost, recorded>> /\ pc' = "over"
      BY <1>5 DEF PutNone, ledger, marks
    <2> QED
      BY <1>0, <2>1 DEF Rest
  <1>6. CASE Resume
    <2>1. lost' = -1 /\ recorded' = recorded
      BY <1>6 DEF Resume
    <2> QED
      BY <1>0, <2>1 DEF Rest
  <1>7. ASSUME NEW c \in Calls, Doubt(c)
        PROVE  Rest
    <2>1. /\ pc' \in {"doubting", "waiting"} /\ kind = "durable" /\ lost = -1
          /\ \/ lock = "free" /\ UNCHANGED <<lost, recorded>>
             \/ lock # "free" /\ lost' = held /\ recorded' = recorded
             \/ /\ lock = "free" /\ recorded' = recorded + 1
                /\ lost' = IF streaming THEN recorded + 1 ELSE lost
      BY <1>7, DoubtLoses DEF Doubtful
    <2>2. lock # "free" => held = recorded /\ streaming /\ recorded \in Nat
      BY <1>0, <2>1 DEF QueueInv, LockInv, LedgerInv
    <2>3. recorded + 1 \in Nat
      BY <1>0
    <2>4. CASE lost' = lost
      BY <1>0, <2>1, <2>4 DEF Rest
    <2>5. CASE lost' # lost
      <3>1. lost' = recorded' /\ lost' \in Nat /\ streaming
        BY <2>1, <2>2, <2>3, <2>5
      <3> QED
        BY <2>1, <3>1 DEF Rest
    <2> QED
      BY <2>4, <2>5
  <1> QED
    BY <1>1, <1>2, <1>3, <1>4, <1>5, <1>6, <1>7, StepsOfChannel

\* The end marker is read once, and nothing is after it.
LEMMA WholeStays ==
  ASSUME ControlInv, CancelInv, LockInv, LedgerInv, LostInv, QueueInv, [Next]_vars
  PROVE  /\ whole' \in BOOLEAN
         /\ whole' => consumer' # "reading" /\ lastRead' = recorded' /\ pc' = "over"
PROOF
  <1>0. whole \in BOOLEAN /\ (whole => consumer # "reading" /\ lastRead = recorded /\ pc = "over")
    BY DEF QueueInv
  <1>1. CASE Idle \/ Crash \/ Deliver \/ PutNone
    BY <1>0, <1>1 DEF Idle, Crash, Deliver, PutNone, At, ledger
  <1>2. CASE Gives \/ GivesNobody \/ Resume \/ Cancel \/ \E c \in Calls : Doubt(c)
    <2>1. whole' = FALSE \/ (whole' = whole /\ pc # "over")
      BY <1>2, DoubtLoses DEF Gives, GivesNobody, Resume, Cancel, Stopped
    <2>2. pc # "over" => whole = FALSE
      BY <1>0
    <2>3. whole' = FALSE
      BY <2>1, <2>2
    <2> QED
      BY <2>3
  <1>3. CASE Read
    <2>1. CASE Head(queue) # Done
      BY <1>0, <1>3, <2>1 DEF Read
    <2>2. CASE Head(queue) = Done
      <3>1. /\ queue # <<>> /\ consumer' = "closing" /\ whole' = TRUE
            /\ UNCHANGED <<lastRead, pc, recorded>>
        BY <1>3, <2>2 DEF Read, ledger
      <3>2. lastRead \in Int /\ lost \in Int /\ InOrder(queue, lastRead, lost)
        BY DEF QueueInv, LostInv
      <3>3. Marked(queue) /\ Len(queue) = 1
        BY <2>2, <3>1, <3>2, QueueIsRead
      <3>4. pc = "over" /\ Nth(lastRead, lost, 1 - 1) = recorded
        BY <3>3 DEF QueueInv
      <3>5. Nth(lastRead, lost, 0) = lastRead
        BY <3>2, NthIs
      <3> QED
        BY <3>1, <3>4, <3>5
    <2> QED
      BY <2>1, <2>2
  <1> QED
    BY <1>1, <1>2, <1>3, StepsOfChannel

LEMMA QueueStays ==
  ASSUME ControlInv, CancelInv, LockInv, LedgerInv, LostInv, QueueInv, [Next]_vars
  PROVE  QueueInv'
PROOF
  <1> DEFINE M(k) == Nth(lastRead', lost', Len(queue') + k)
             Rest ==
        /\ Len(queue') <= StreamBuffer
        /\ consumer' \in {"reading", "closing", "done"}
        /\ lastRead' \in Nat \cup {-1} /\ InOrder(queue', lastRead', lost')
        /\ Marked(queue') => pc' = "over" /\ Nth(lastRead', lost', Len(queue') - 1) = recorded'
        /\ ~Marked(queue') => Nth(lastRead', lost', Len(queue') + 1) <= recorded' + 1
        /\ lock' # "free" =>
             held' = recorded' /\ Nth(lastRead', lost', Len(queue') + 1) = recorded'
        /\ streaming /\ (cancels' = 0 \/ pc' \in Doubtful) /\ pc' # "over" /\ lock' = "free" =>
             Nth(lastRead', lost', Len(queue') + 1) = recorded' + 1
  <1> SUFFICES Rest
    BY WholeStays, ScopeStays DEF QueueInv, streaming
  <1>0. /\ Len(queue) <= StreamBuffer /\ Len(queue) \in Nat
        /\ consumer \in {"reading", "closing", "done"}
        /\ lastRead \in Nat \cup {-1} /\ InOrder(queue, lastRead, lost)
        /\ Marked(queue) => pc = "over" /\ Nth(lastRead, lost, Len(queue) - 1) = recorded
        /\ ~Marked(queue) => Nth(lastRead, lost, Len(queue) + 1) <= recorded + 1
        /\ lock # "free" => held = recorded /\ Nth(lastRead, lost, Len(queue) + 1) = recorded
        /\ streaming /\ (cancels = 0 \/ pc \in Doubtful) /\ pc # "over" /\ lock = "free" =>
             Nth(lastRead, lost, Len(queue) + 1) = recorded + 1
        /\ whole => consumer # "reading"
    BY DEF QueueInv, InOrder
  <1>n. /\ lastRead \in Int /\ recorded \in Int /\ recorded \in Nat \cup {-1}
        /\ lost \in Int /\ lost <= recorded
        /\ cancels \in Nat /\ streaming \in BOOLEAN /\ StreamBuffer \in Nat \ {0}
    BY ScopeIs, StreamAssumption DEF QueueInv, LedgerInv, ControlInv, LostInv
  <1>e. Len(<<>>) = 0 /\ ~Marked(<<>>) /\ \A r, l : InOrder(<<>>, r, l)
    BY DEF InOrder, Marked
  <1>l. /\ lock # "free" => pc \notin {"over", "starting", "completing"}
        /\ pc \in Doubtful => lock = "free"
    BY LockFree DEF Doubtful
  <1>m. /\ Nth(lastRead, lost, Len(queue) + 1) \in Int
        /\ Nth(lastRead, lost, 1) <= Nth(lastRead, lost, Len(queue) + 1)
        /\ Nth(lastRead, lost, 1) \in Int
    <2>1. Len(queue) + 1 \in Int /\ 1 \in Int /\ 1 <= Len(queue) + 1
      BY <1>0
    <2> QED
      BY <1>n, <2>1, NthIs, NthGrows
  <1> HIDE DEF Rest
  <1>1. CASE Idle
    <2>1. /\ UNCHANGED <<queue, lastRead, lost, recorded, lock, held, cancels>>
          /\ consumer' \in {"reading", "closing", "done"}
          /\ pc = "over" => pc' = "over"
          /\ pc' \in Doubtful => pc \in Doubtful \/ cancels = 0
      BY <1>0, <1>1 DEF Idle
    <2> QED
      BY <1>0, <2>1 DEF Rest
  <1>2. CASE Cancel
    <2>1. /\ UNCHANGED <<queue, lastRead, lost>> /\ cancels' # 0 /\ pc # "over"
          /\ consumer' \in {"reading", "closing", "done"}
      BY <1>0, <1>n, <1>2 DEF Cancel
    <2>2. lock' = "free" \/ UNCHANGED <<lock, held>>
      BY <1>2 DEF Cancel, InterruptRun, InterruptTools, Swallowed, Released
    <2>3. pc' \in Doubtful => pc' = pc
      BY <1>2 DEF Cancel, InterruptRun, CutCommit, Handlers, InterruptTools, Swallowed, Leave,
           Doubtful
    <2>4. CASE UNCHANGED ledger
      <3>1. recorded' = recorded
        BY <2>4 DEF ledger
      <3> QED
        BY <1>0, <1>l, <2>1, <2>2, <2>3, <3>1 DEF Rest
    <2>5. CASE CutCommit /\ ~UNCHANGED ledger
      <3>1. pc \in {"starting", "completing"} /\ pc' = "cancelled"
            /\ \E to \in {"running", "completed"} :
                 Number(to) /\ to = IF pc = "starting" THEN "running" ELSE "completed"
        BY <2>5 DEF CutCommit
      <3>2. PICK to \in {"running", "completed"} :
              Number(to) /\ to = IF pc = "starting" THEN "running" ELSE "completed"
        BY <3>1
      <3>3. Emittable(to)
        BY <3>1, <3>2 DEF LedgerInv, Emittable, Terminal, Allowed
      <3>4. recorded' = recorded + 1
        BY <3>2, <3>3, EmitGives
      <3>5. lock' = "free" /\ pc' \notin Doubtful /\ ~Marked(queue)
        BY <1>0, <1>l, <2>1, <2>2, <3>1 DEF Doubtful
      <3>6. Nth(lastRead, lost, Len(queue) + 1) <= recorded' + 1
        BY <1>0, <1>m, <1>n, <3>4, <3>5
      <3> QED
        BY <1>0, <2>1, <3>5, <3>6 DEF Rest
    <2> QED
      BY <1>2, <2>4, <2>5 DEF Cancel, InterruptRun, InterruptTools, Swallowed, ledger
  <1>3. CASE Gives
    <2>1. PICK who \in {"run"} \cup Calls :
            \E to \in DOMAIN Allowed \cup {"same"} : Emit(who, to) /\ Emittable(to)
      BY <1>3 DEF Gives
    <2>2. PICK to \in DOMAIN Allowed \cup {"same"} : Emit(who, to) /\ Emittable(to)
      BY <2>1
    <2>3. /\ UNCHANGED <<consumer, lastRead, lost, cancels>>
          /\ pc \notin Stopped \ {"waiting"} /\ pc' # "over" /\ pc' \notin Doubtful
          /\ pc # "over" /\ lock = "free" /\ ~Marked(queue) /\ who # "free"
      BY <1>0, <1>3, <2>2 DEF Gives, Emit, EmitUnlocked, Calls, Stopped
    <2>4. recorded' \in Nat /\ recorded' = nextSeq /\ recorded' = recorded + 1
      BY <2>2, EmitGives DEF Emit, EmitUnlocked
    <2>5. cancels = 0 \/ pc \in Doubtful
      BY <1>n, <2>3 DEF CancelInv, Doubtful
    <2>6. /\ streaming => recorded' = Nth(lastRead, lost, Len(queue) + 1)
          /\ Nth(lastRead, lost, Len(queue) + 1) <= recorded' + 1
      BY <1>0, <1>m, <1>n, <2>3, <2>4, <2>5
    <2>7. CASE ~streaming
      <3>1. UNCHANGED <<queue, lock, held>>
        BY <2>2, <2>7 DEF Emit, EmitUnlocked
      <3> QED
        BY <1>0, <2>3, <2>6, <2>7, <3>1 DEF Rest
    <2>8. CASE streaming /\ Len(queue) < StreamBuffer
      <3>1. queue' = Append(queue, nextSeq) /\ UNCHANGED <<lock, held>>
        BY <2>2, <2>8 DEF Emit, EmitUnlocked
      <3>2. InOrder(queue', lastRead, lost) /\ ~Marked(queue') /\ Len(queue') = Len(queue) + 1
        <4>1. nextSeq \in Nat /\ nextSeq = Nth(lastRead, lost, Len(queue) + 1)
          BY <2>4, <2>6, <2>8
        <4> QED
          BY <1>0, <2>3, <3>1, <4>1, QueueGrows
      <3>3. Nth(lastRead, lost, Len(queue) + 1 + 1) = recorded' + 1
        <4>1. Nth(lastRead, lost, Len(queue) + 1) = recorded' /\ lost <= recorded'
          BY <1>n, <2>4, <2>6, <2>8
        <4> QED
          BY <1>0, <1>n, <2>4, <4>1, NthSucc
      <3>4. Len(queue') <= StreamBuffer /\ recorded' + 1 <= recorded' + 1
        BY <1>0, <1>n, <2>4, <2>8, <3>2
      <3> QED
        BY <1>0, <2>3, <3>1, <3>2, <3>3, <3>4 DEF Rest
    <2>9. CASE streaming /\ ~(Len(queue) < StreamBuffer)
      <3>1. queue' = queue /\ lock' = who /\ held' = recorded'
        BY <2>2, <2>4, <2>9 DEF Emit, EmitUnlocked
      <3> QED
        BY <1>0, <2>3, <2>6, <2>9, <3>1 DEF Rest
    <2> QED
      BY <2>7, <2>8, <2>9
  <1>4. CASE GivesNobody
    <2>1. PICK to \in DOMAIN Allowed \cup {"same"} : EmitUndelivered(to) /\ Emittable(to)
      BY <1>4 DEF GivesNobody
    <2>2. /\ UNCHANGED <<consumer, lastRead, lost, queue, lock, held>> /\ cancels' = cancels
          /\ pc = "cancelled" /\ pc' = "ending" /\ lock = "free"
      BY <1>4, <2>1 DEF GivesNobody, EmitUndelivered
    <2>3. cancels' # 0 /\ pc' \notin Doubtful
      BY <1>n, <2>2 DEF CancelInv, Doubtful
    <2>4. recorded' = recorded + 1
      BY <2>1, EmitGives DEF EmitUndelivered
    <2>5. ~Marked(queue) /\ Nth(lastRead, lost, Len(queue) + 1) <= recorded' + 1
      BY <1>0, <1>m, <1>n, <2>2, <2>4
    <2> QED
      BY <1>0, <2>2, <2>3, <2>5 DEF Rest
  <1>5. CASE Deliver
    <2>1. /\ UNCHANGED <<consumer, lastRead, lost, recorded, pc, cancels>> /\ lock' = "free"
          /\ lock # "free" /\ Len(queue) < StreamBuffer /\ queue' = Append(queue, held)
      BY <1>5 DEF Deliver, ledger, marks
    <2>2. /\ ~Marked(queue) /\ held = recorded /\ held = Nth(lastRead, lost, Len(queue) + 1)
          /\ held \in Nat
      <3>1. lastRead + (Len(queue) + 1) <= Nth(lastRead, lost, Len(queue) + 1)
        BY <1>0, <1>n, NthIs
      <3> QED
        BY <1>0, <1>n, <1>l, <2>1, <3>1
    <2>3. InOrder(queue', lastRead, lost) /\ ~Marked(queue') /\ Len(queue') = Len(queue) + 1
      BY <1>0, <1>n, <2>1, <2>2, QueueGrows
    <2>4. Len(queue') <= StreamBuffer /\ recorded + 1 <= recorded + 1
      BY <1>0, <1>n, <2>1, <2>3
    <2>5. Nth(lastRead, lost, Len(queue) + 1 + 1) = recorded + 1
      BY <1>0, <1>n, <2>2, NthSucc
    <2> QED
      BY <1>0, <2>1, <2>3, <2>4, <2>5 DEF Rest
  <1>6. CASE Read
    <2>1. /\ consumer = "reading" /\ queue # <<>> /\ queue' = Tail(queue)
          /\ UNCHANGED <<recorded, lost, pc, cancels, lock, held>>
      BY <1>6 DEF Read, ledger, marks
    <2>2. /\ Len(queue') = Len(queue) - 1
          /\ Head(queue) # Done =>
               /\ Head(queue) = Nth(lastRead, lost, 1) /\ Head(queue) \in Nat
               /\ InOrder(queue', Head(queue), lost) /\ (Marked(queue') <=> Marked(queue))
          /\ Head(queue) = Done => queue' = <<>> /\ Marked(queue) /\ Len(queue) = 1
      BY <1>0, <1>n, <2>1, QueueIsRead
    <2>3. Len(queue') <= StreamBuffer
      BY <1>0, <1>n, <2>2
    <2>4. CASE Head(queue) = Done
      <3>1. lastRead' = lastRead /\ consumer' = "closing" /\ queue' = <<>> /\ pc = "over"
        BY <1>0, <1>6, <2>1, <2>2, <2>4 DEF Read
      <3>2. Nth(lastRead, lost, 0) = recorded
        BY <1>0, <2>2, <2>4
      <3>3. Nth(lastRead, lost, 1) <= recorded + 1
        <4>1. lastRead = recorded /\ lost <= lastRead
          BY <1>n, <3>2, NthIs
        <4>2. Nth(lastRead, lost, 1) = lastRead + 1
          BY <1>n, <4>1, NthIs
        <4> QED
          BY <1>n, <4>1, <4>2
      <3>4. M(1) = Nth(lastRead, lost, 1)
        BY <1>e, <2>1, <3>1
      <3> QED
        BY <1>0, <1>e, <1>l, <2>1, <2>3, <3>1, <3>3, <3>4 DEF Rest
    <2>5. CASE Head(queue) # Done
      <3>1. lastRead' = Nth(lastRead, lost, 1) /\ lastRead' \in Nat /\ consumer' = consumer
        BY <1>6, <2>2, <2>5 DEF Read
      <3>2. Nth(lastRead', lost, Len(queue') + 1) = Nth(lastRead, lost, Len(queue) + 1)
        <4>1. Len(queue') + 1 = Len(queue) /\ Len(queue) \in Nat
          BY <1>0, <2>2
        <4>2. Nth(lastRead', lost, Len(queue)) = Nth(lastRead, lost, Len(queue) + 1)
          BY <1>n, <3>1, <4>1, NthShifts
        <4> QED
          BY <4>1, <4>2
      <3>3. InOrder(queue', lastRead', lost) /\ (Marked(queue') <=> Marked(queue))
        BY <2>2, <2>5, <3>1
      <3>4. Marked(queue) => Nth(lastRead', lost, Len(queue') - 1) = recorded
        <4>1. ASSUME Marked(queue)
              PROVE  Len(queue') - 1 \in Nat /\ (Len(queue') - 1) + 1 = Len(queue) - 1
          <5>1. Marked(queue') /\ Len(queue') \in Nat
            BY <3>3, <4>1, QueueIs
          <5>2. Len(queue') > 0
            BY <5>1 DEF Marked
          <5> QED
            BY <1>0, <2>2, <5>1, <5>2
        <4>2. ASSUME Marked(queue)
              PROVE  Nth(lastRead', lost, Len(queue') - 1) = Nth(lastRead, lost, Len(queue) - 1)
          BY <1>n, <3>1, <4>1, <4>2, NthShifts
        <4> QED
          BY <1>0, <4>2
      <3> QED
        BY <1>0, <2>1, <2>3, <3>1, <3>2, <3>3, <3>4 DEF Rest
    <2> QED
      BY <2>4, <2>5
  <1>7. CASE PutNone
    <2>1. /\ pc = "ending" /\ pc' = "over" /\ lock # "run"
          /\ UNCHANGED <<consumer, lastRead, lost, recorded, cancels, lock, held>>
      BY <1>7 DEF PutNone, At, ledger, marks
    <2>2. lock = "free" /\ ~Marked(queue)
      BY <1>0, <2>1, LockFree
    <2>3. CASE streaming /\ cancels = 0 /\ queue' # queue
      <3>1. Len(queue) < StreamBuffer /\ queue' = Append(queue, Done)
        BY <1>7, <2>3 DEF PutNone
      <3>2. InOrder(queue', lastRead, lost) /\ Marked(queue') /\ Len(queue') = Len(queue) + 1
        BY <1>0, <1>n, <2>2, <3>1, QueueEnds
      <3>3. Nth(lastRead, lost, Len(queue)) = recorded
        <4>1. Nth(lastRead, lost, Len(queue) + 1) = recorded + 1
          BY <1>0, <2>1, <2>2, <2>3
        <4>2. lost # recorded \/ lost <= lastRead
          <5>1. lost = -1 \/ lost # recorded
            BY <2>1, <2>3 DEF LostInv, Doubtful
          <5> QED
            BY <1>0, <5>1
        <4> QED
          BY <1>0, <1>n, <4>1, <4>2, NthPred
      <3>4. Len(queue') <= StreamBuffer /\ Len(queue') - 1 = Len(queue)
        BY <1>0, <1>n, <3>1, <3>2
      <3> QED
        BY <1>0, <2>1, <2>2, <3>2, <3>3, <3>4 DEF Rest
    <2>4. CASE queue' = queue
      BY <1>0, <2>1, <2>2, <2>4 DEF Rest
    <2> QED
      BY <1>7, <2>3, <2>4 DEF PutNone
  <1>8. CASE Crash
    <2>1. /\ queue' = <<>> /\ lock' = "free" /\ UNCHANGED <<lastRead, lost, recorded>>
          /\ pc # "over" /\ pc' = "over" /\ consumer' = "done"
      BY <1>8 DEF Crash, ledger, marks
    <2>2. Nth(lastRead, lost, 1) <= recorded + 1
      BY <1>0, <1>m, <1>n, <2>1
    <2>3. M(1) = Nth(lastRead, lost, 1)
      BY <1>e, <2>1
    <2> QED
      BY <1>0, <1>n, <1>e, <2>1, <2>2, <2>3 DEF Rest
  <1>9. CASE Resume
    <2>1. /\ queue' = <<>> /\ lock' = "free" /\ lastRead' = recorded /\ recorded' = recorded
          /\ lost' = -1 /\ consumer' \in {"reading", "closing", "done"}
      BY <1>9, <1>l DEF Resume
    <2>2. Nth(recorded, -1, 1) = recorded + 1 /\ recorded + 1 <= recorded + 1
      BY <1>n, NthIs
    <2>3. M(1) = Nth(recorded, -1, 1)
      BY <1>e, <2>1
    <2> QED
      BY <1>n, <1>e, <2>1, <2>2, <2>3 DEF Rest
  <1>10. ASSUME NEW c \in Calls, Doubt(c)
         PROVE  Rest
    <2>1. /\ UNCHANGED <<queue, consumer, lastRead, cancels>> /\ lock' = "free"
          /\ pc = "tools" /\ lost = -1
          /\ \/ lock = "free" /\ UNCHANGED <<lost, recorded>>
             \/ lock # "free" /\ lost' = held /\ recorded' = recorded
             \/ /\ lock = "free" /\ recorded' = recorded + 1
                /\ lost' = IF streaming THEN recorded + 1 ELSE lost
      BY <1>10, DoubtLoses
    <2>2. ~Marked(queue) /\ cancels = 0
      BY <1>0, <1>n, <2>1 DEF CancelInv, Stopped
    <2>3. Nth(lastRead, -1, Len(queue) + 1) = lastRead + Len(queue) + 1
      BY <1>0, <1>n, NthIs
    <2>4. CASE lost' = lost
      <3>1. /\ streaming => Nth(lastRead, lost, Len(queue) + 1) = recorded' + 1
            /\ Nth(lastRead, lost, Len(queue) + 1) <= recorded' + 1
        <4>1. CASE lock = "free" /\ recorded' = recorded
          BY <1>0, <1>n, <2>1, <2>2, <4>1
        <4>2. CASE recorded' = recorded + 1 /\ ~streaming
          BY <1>0, <1>m, <1>n, <2>2, <4>2
        <4>3. lost' # held \/ lock = "free"
          <5>1. lock # "free" => held = recorded /\ recorded = lastRead + Len(queue) + 1
            BY <1>0, <2>1, <2>3
          <5> QED
            BY <1>0, <2>1, <2>4, <5>1
        <4>4. recorded' = recorded + 1 => ~streaming
          BY <1>n, <2>1, <2>4
        <4> QED
          BY <1>n, <2>1, <4>1, <4>2, <4>3, <4>4
      <3> QED
        BY <1>0, <2>1, <2>2, <2>4, <3>1 DEF Rest
    <2>5. CASE lost' # lost
      <3>1. lost' = recorded' /\ lost' = lastRead + Len(queue) + 1 /\ lost' \in Int
        <4>1. CASE lock # "free" /\ lost' = held /\ recorded' = recorded
          BY <1>0, <1>n, <2>1, <2>3, <4>1
        <4>2. CASE lock = "free" /\ recorded' = recorded + 1 /\ streaming /\ lost' = recorded + 1
          <5>1. Nth(lastRead, lost, Len(queue) + 1) = recorded + 1
            BY <1>0, <2>1, <2>2, <4>2
          <5> QED
            BY <1>0, <1>n, <2>1, <2>3, <4>2, <5>1
        <4> QED
          BY <2>1, <2>5, <4>1, <4>2
      <3>2. InOrder(queue, lastRead, lost') /\ Nth(lastRead, lost', Len(queue) + 1) = lost' + 1
        BY <1>0, <2>1, <3>1, QueueLoses
      <3>3. recorded' + 1 <= recorded' + 1
        BY <3>1
      <3> QED
        BY <1>0, <2>1, <2>2, <3>1, <3>2, <3>3 DEF Rest
    <2> QED
      BY <2>4, <2>5
  <1> QED
    BY <1>1, <1>2, <1>3, <1>4, <1>5, <1>6, <1>7, <1>8, <1>9, <1>10, StepsOfChannel

-----------------------------------------------------------------------------
(* The messages: addresses.                                                *)

LEMMA LeastIsMin ==
  ASSUME NEW S \in SUBSET Nat, S # {}
  PROVE  Min(S) \in S /\ \A n \in S : Min(S) <= n
PROOF
  <1>1. \E x \in S : \A y \in S : x <= y
    BY LeastOf
  <1> QED
    BY <1>1 DEF Min

\* An address is free.
LEMMA LowestIsFree ==
  ASSUME NEW U, IsFiniteSet(U)
  PROVE  Lowest(U) \in Nat /\ Lowest(U) \notin U
PROOF
  <1> DEFINE n == Cardinality(U)
             S == (1 .. n + 1) \ U
  <1>1. n \in Nat
    BY FS_CardinalityType
  <1> HIDE DEF n
  <1>2. S # {}
    <2> SUFFICES ASSUME 1 .. n + 1 \subseteq U PROVE FALSE
      OBVIOUS
    <2>1. Cardinality(1 .. n + 1) = n + 1
      <3>1. 1 \in Int /\ n + 1 \in Int /\ ~(1 > n + 1)
        BY <1>1
      <3>2. Cardinality(1 .. n + 1) = (n + 1) - 1 + 1
        BY <3>1, FS_Interval
      <3> QED
        BY <1>1, <3>2
    <2>2. Cardinality(1 .. n + 1) <= n
      BY FS_Subset DEF n
    <2> QED
      BY <1>1, <2>1, <2>2
  <1>3. S \in SUBSET Nat
    BY <1>1
  <1>4. Lowest(U) = Min(S)
    BY DEF Lowest, n
  <1>5. Min(S) \in S
    <2> HIDE DEF S
    <2> QED
      BY <1>2, <1>3, LeastIsMin
  <1> QED
    BY <1>3, <1>4, <1>5

LEMMA AddressesAreFinite ==
  ASSUME NEW ms \in Seq(Messages)
  PROVE  IsFiniteSet(AddressesOf(ms))
PROOF
  <1> DEFINE f == [i \in 1 .. Len(ms) |-> ms[i].at]
  <1>1. f \in Surjection(1 .. Len(ms), AddressesOf(ms))
    BY DEF Surjection, AddressesOf
  <1>2. IsFiniteSet(1 .. Len(ms))
    <2>1. 1 \in Int /\ Len(ms) \in Int
      OBVIOUS
    <2> QED
      BY <2>1, FS_Interval
  <1> HIDE DEF f
  <1> QED
    BY <1>1, <1>2, FS_Surjection

\* t is s and then k messages of a role, at addresses of their own.
Added(t, s, k, role) ==
  /\ Len(t) = Len(s) + k
  /\ \A i \in 1 .. Len(s) : t[i] = s[i]
  /\ \A i \in Len(s) + 1 .. Len(t) : t[i].role = role /\ t[i].at \notin AddressesOf(s)

LEMMA ExtendAdds ==
  ASSUME NEW ms, Formed(ms), kept = <<>> \/ Formed(kept), NEW role \in {"call", "tool"},
         NEW calls \in Nat, NEW size \in Nat
  PROVE  /\ Formed(Extend(ms, role, calls, size))
         /\ Added(Extend(ms, role, calls, size), ms, 1, role)
         /\ Extend(ms, role, calls, size)[Len(ms) + 1].calls = calls
PROOF
  <1> DEFINE U == AddressesOf(ms) \cup AddressesOf(kept)
             m == Message(Lowest(U), role, calls, size)
             t == Append(ms, m)
  <1>1. /\ ms \in Seq(Messages) /\ Len(ms) \in Nat /\ Len(ms) >= PrefixLen
        /\ \A i \in 1 .. PrefixLen : ms[i] = Prefix[i]
        /\ \A i, j \in 1 .. Len(ms) : ms[i].at = ms[j].at => i = j
    BY DEF Formed
  <1>2. IsFiniteSet(AddressesOf(kept))
    <2>1. kept \in Seq(Messages)
      <3>1. <<>> \in Seq(Messages)
        OBVIOUS
      <3> QED
        BY <3>1 DEF Formed
    <2> QED
      BY <2>1, AddressesAreFinite
  <1>3. IsFiniteSet(U)
    BY <1>1, <1>2, AddressesAreFinite, FS_Union
  <1>4. Lowest(U) \in Nat /\ Lowest(U) \notin U
    <2> HIDE DEF U
    <2> QED
      BY <1>3, LowestIsFree
  <1>5. /\ m \in Messages /\ m.at \notin AddressesOf(ms) /\ m.role = role /\ m.calls = calls
    BY <1>4 DEF Message, Messages
  <1>6. Extend(ms, role, calls, size) = t
    BY DEF Extend
  <1> HIDE DEF m
  <1>7. /\ t \in Seq(Messages) /\ Len(t) = Len(ms) + 1 /\ t[Len(ms) + 1] = m
        /\ \A i \in 1 .. Len(ms) : t[i] = ms[i]
    BY <1>1, <1>5, AppendProperties
  <1> HIDE DEF t
  <1>8. \A i \in 1 .. Len(ms) : ms[i].at # m.at
    BY <1>1, <1>5 DEF AddressesOf
  <1>9. \A i, j \in 1 .. Len(t) : t[i].at = t[j].at => i = j
    <2> TAKE i \in 1 .. Len(t), j \in 1 .. Len(t)
    <2>1. /\ i \in 1 .. Len(ms) \/ i = Len(ms) + 1
          /\ j \in 1 .. Len(ms) \/ j = Len(ms) + 1
      BY <1>1, <1>7
    <2> QED
      BY <1>1, <1>7, <1>8, <2>1
  <1>10. \A i \in 1 .. PrefixLen : t[i] = Prefix[i]
    BY <1>1, <1>7 DEF PrefixLen
  <1>11. Len(t) >= PrefixLen
    BY <1>1, <1>7 DEF PrefixLen
  <1>12. Formed(t)
    BY <1>7, <1>9, <1>10, <1>11 DEF Formed
  <1>13. \A i \in Len(ms) + 1 .. Len(t) : i = Len(ms) + 1
    BY <1>1, <1>7
  <1>14. Added(t, ms, 1, role)
    BY <1>5, <1>7, <1>13 DEF Added
  <1> QED
    BY <1>5, <1>6, <1>7, <1>12, <1>14

-----------------------------------------------------------------------------
(* The messages: calls and results.                                        *)

LEMMA MessagesAre ==
  ASSUME NEW ms, Formed(ms)
  PROVE  /\ Len(ms) \in Nat /\ DOMAIN ms = 1 .. Len(ms)
         /\ \A i \in 1 .. Len(ms) :
              ms[i] \in Messages /\ ms[i].calls \in Nat /\ ms[i].size \in Nat
PROOF
  <1>1. \A i \in 1 .. Len(ms) : ms[i] \in Messages
    BY DEF Formed
  <1>2. \A m \in Messages : m.calls \in Nat /\ m.size \in Nat
    BY DEF Messages
  <1> QED
    BY <1>1, <1>2 DEF Formed

\* A call that is appended, and the results that answer it.
LEMMA CallIsPending ==
  ASSUME NEW s, NEW t, Formed(s), Formed(t), Paired(s, Len(s)), Added(t, s, 1, "call")
  PROVE  Len(t) > PrefixLen /\ Paired(t, Len(t) - 1) /\ t[Len(t)].role = "call"
PROOF
  <1>1. /\ Len(s) \in Nat /\ Len(s) >= PrefixLen /\ Len(t) = Len(s) + 1 /\ Len(t) - 1 = Len(s)
        /\ \A i \in 1 .. Len(s) : t[i] = s[i]
        /\ \A i \in Len(s) + 1 .. Len(t) : t[i].role = "call"
    BY DEF Formed, Added
  <1>2. Paired(t, Len(s))
    <2> SUFFICES ASSUME NEW i \in PrefixLen + 1 .. Len(s)
                 PROVE  IF t[i].role = "call"
                        THEN \A k \in 1 .. t[i].calls :
                               i + k <= Len(s) /\ t[i + k].role = "tool"
                        ELSE \E j \in PrefixLen + 1 .. i - 1 :
                               t[j].role = "call" /\ i - j <= t[j].calls
      BY DEF Paired
    <2>1. i \in 1 .. Len(s) /\ t[i] = s[i]
      BY <1>1 DEF PrefixLen
    <2>2. CASE s[i].role = "call"
      <3> SUFFICES ASSUME NEW k \in 1 .. s[i].calls
                   PROVE  i + k <= Len(s) /\ t[i + k].role = "tool"
        BY <2>1, <2>2
      <3>1. i + k <= Len(s) /\ s[i + k].role = "tool"
        BY <2>2 DEF Paired
      <3>2. s[i].calls \in Nat
        BY <2>1, MessagesAre
      <3>3. i + k \in 1 .. Len(s)
        BY <1>1, <2>1, <3>1, <3>2
      <3> QED
        BY <1>1, <3>1, <3>3
    <2>3. CASE s[i].role # "call"
      <3>1. PICK j \in PrefixLen + 1 .. i - 1 : s[j].role = "call" /\ i - j <= s[j].calls
        BY <2>3 DEF Paired
      <3>2. j \in 1 .. Len(s)
        BY <1>1, <2>1 DEF PrefixLen
      <3> QED
        BY <1>1, <2>1, <2>3, <3>1, <3>2
    <2> QED
      BY <2>2, <2>3
  <1>3. Len(t) \in Len(s) + 1 .. Len(t) /\ Len(t) > PrefixLen
    BY <1>1 DEF PrefixLen
  <1> QED
    BY <1>1, <1>2, <1>3

LEMMA ResultsAnswer ==
  ASSUME NEW s, NEW t, NEW k \in Nat, Formed(s), Formed(t), Len(s) > PrefixLen,
         Paired(s, Len(s) - 1), s[Len(s)].role = "call", s[Len(s)].calls = k,
         Added(t, s, k, "tool")
  PROVE  Paired(t, Len(t))
PROOF
  <1> DEFINE n == Len(s)
  <1>1. /\ n \in Nat /\ n > PrefixLen /\ Len(t) = n + k
        /\ \A i \in 1 .. n : t[i] = s[i]
        /\ \A i \in n + 1 .. n + k : t[i].role = "tool"
        /\ Paired(s, n - 1) /\ s[n].role = "call" /\ s[n].calls = k
    BY DEF Formed, Added
  <1>2. \A i \in 1 .. n : s[i].calls \in Nat
    BY MessagesAre
  <1> HIDE DEF n
  <1> SUFFICES ASSUME NEW i \in PrefixLen + 1 .. n + k
               PROVE  IF t[i].role = "call"
                      THEN \A l \in 1 .. t[i].calls : i + l <= n + k /\ t[i + l].role = "tool"
                      ELSE \E j \in PrefixLen + 1 .. i - 1 :
                             t[j].role = "call" /\ i - j <= t[j].calls
    BY <1>1 DEF Paired
  <1>3. CASE i <= n - 1
    <2>1. i \in PrefixLen + 1 .. n - 1 /\ i \in 1 .. n /\ t[i] = s[i]
      BY <1>1, <1>3 DEF PrefixLen
    <2>2. CASE s[i].role = "call"
      <3> SUFFICES ASSUME NEW l \in 1 .. s[i].calls
                   PROVE  i + l <= n + k /\ t[i + l].role = "tool"
        BY <2>1, <2>2
      <3>1. i + l <= n - 1 /\ s[i + l].role = "tool"
        BY <1>1, <2>1, <2>2 DEF Paired
      <3>2. s[i].calls \in Nat
        BY <1>2, <2>1
      <3>3. i + l \in 1 .. n /\ i + l <= n + k
        BY <1>1, <2>1, <3>1, <3>2
      <3> QED
        BY <1>1, <3>1, <3>3
    <2>3. CASE s[i].role # "call"
      <3>1. PICK j \in PrefixLen + 1 .. i - 1 : s[j].role = "call" /\ i - j <= s[j].calls
        BY <1>1, <2>1, <2>3 DEF Paired
      <3>2. j \in 1 .. n
        BY <1>1, <2>1 DEF PrefixLen
      <3> QED
        BY <1>1, <2>1, <2>3, <3>1, <3>2
    <2> QED
      BY <2>2, <2>3
  <1>4. CASE i = n
    <2>1. n \in 1 .. n /\ t[i] = s[n]
      BY <1>1, <1>4 DEF PrefixLen
    <2>2. \A l \in 1 .. k : i + l \in n + 1 .. n + k /\ i + l <= n + k
      BY <1>1, <1>4
    <2> QED
      BY <1>1, <2>1, <2>2
  <1>5. CASE i > n
    <2>1. i \in n + 1 .. n + k /\ n \in PrefixLen + 1 .. i - 1 /\ n \in 1 .. n /\ i - n <= k
      BY <1>1, <1>5 DEF PrefixLen
    <2>2. t[i].role = "tool" /\ t[n].role = "call" /\ t[n].calls = k
      BY <1>1, <2>1
    <2> QED
      BY <2>1, <2>2
  <1> QED
    BY <1>1, <1>3, <1>4, <1>5

\* A second result is added like the first.
LEMMA AddedTwice ==
  ASSUME NEW s, NEW t, NEW u, Formed(s), Formed(t), Formed(u),
         Added(t, s, 1, "tool"), Added(u, t, 1, "tool")
  PROVE  Added(u, s, 2, "tool")
PROOF
  <1>1. /\ Len(s) \in Nat /\ Len(t) = Len(s) + 1 /\ Len(u) = Len(t) + 1
        /\ \A i \in 1 .. Len(s) : t[i] = s[i]
        /\ \A i \in 1 .. Len(t) : u[i] = t[i]
        /\ \A i \in Len(s) + 1 .. Len(t) : t[i].role = "tool" /\ t[i].at \notin AddressesOf(s)
        /\ \A i \in Len(t) + 1 .. Len(u) : u[i].role = "tool" /\ u[i].at \notin AddressesOf(t)
    BY DEF Formed, Added
  <1>2. AddressesOf(s) \subseteq AddressesOf(t)
    <2>1. /\ DOMAIN s = 1 .. Len(s) /\ DOMAIN t = 1 .. Len(t)
          /\ \A i \in 1 .. Len(s) : i \in 1 .. Len(t)
      BY <1>1 DEF Formed
    <2> QED
      BY <1>1, <2>1 DEF AddressesOf
  <1>3. Len(u) = Len(s) + 2
    BY <1>1
  <1>4. \A i \in 1 .. Len(s) : u[i] = s[i]
    BY <1>1
  <1>5. \A i \in Len(s) + 1 .. Len(u) : u[i].role = "tool" /\ u[i].at \notin AddressesOf(s)
    <2> TAKE i \in Len(s) + 1 .. Len(u)
    <2>1. CASE i \in Len(s) + 1 .. Len(t)
      <3>1. i \in 1 .. Len(t)
        BY <1>1, <2>1
      <3> QED
        BY <1>1, <2>1, <3>1
    <2>2. CASE i \in Len(t) + 1 .. Len(u)
      BY <1>1, <1>2, <2>2
    <2> QED
      BY <1>1, <2>1, <2>2
  <1> QED
    BY <1>3, <1>4, <1>5 DEF Added

-----------------------------------------------------------------------------
(* The messages: pruning.                                                  *)

LEMMA CacheRight ==
  ASSUME Formed(messages)
  PROVE  CacheIsRight <=> Right(cache, messages)
  BY MessagesAre DEF CacheIsRight, Right, ToSet

LEMMA CountedIs ==
  ASSUME Formed(messages), Right(cache, messages), DOMAIN cache \subseteq AddressesOf(messages)
  PROVE  /\ DOMAIN Counted(messages) = AddressesOf(messages)
         /\ \A i \in 1 .. Len(messages) : Counted(messages)[messages[i].at] = messages[i].size
PROOF
  <1>1. DOMAIN messages = 1 .. Len(messages)
    BY MessagesAre
  <1>2. \A i, j \in 1 .. Len(messages) : messages[i].at = messages[j].at => i = j
    BY DEF Formed
  <1>3. DOMAIN Counted(messages) = AddressesOf(messages)
    BY DEF Counted
  <1>4. ASSUME NEW i \in 1 .. Len(messages)
        PROVE  Counted(messages)[messages[i].at] = messages[i].size
    <2>1. messages[i].at \in AddressesOf(messages)
      BY <1>1 DEF AddressesOf
    <2>2. CASE messages[i].at \in DOMAIN cache
      BY <2>1, <2>2 DEF Counted, Right
    <2>3. CASE messages[i].at \notin DOMAIN cache
      <3>1. messages[i] \in ToSet(messages)
        BY <1>1 DEF ToSet
      <3>2. \A m \in ToSet(messages) : m.at = messages[i].at => m = messages[i]
        BY <1>1, <1>2 DEF ToSet
      <3>3. (CHOOSE m \in ToSet(messages) : m.at = messages[i].at) = messages[i]
        BY <3>1, <3>2
      <3> QED
        BY <2>1, <2>3, <3>3 DEF Counted
    <2> QED
      BY <2>2, <2>3
  <1> QED
    BY <1>3, <1>4

\* The sizes of the messages at the places I.
Sized(ms, I) == [i \in 1 .. Len(ms) |-> IF i \in I THEN ms[i].size ELSE 0]

LEMMA TokensAre ==
  ASSUME NEW ms, Formed(ms), NEW c, \A i \in 1 .. Len(ms) : c[ms[i].at] = ms[i].size, NEW I
  PROVE  /\ Tokens(ms, c, I) = Total(Sized(ms, I), Len(ms)) /\ Tokens(ms, c, I) \in Nat
         /\ Sized(ms, I) \in [1 .. Len(ms) -> Nat]
PROOF
  <1>1. DOMAIN ms = 1 .. Len(ms) /\ Len(ms) \in Nat /\ \A i \in 1 .. Len(ms) : ms[i].size \in Nat
    BY MessagesAre
  <1>2. [i \in DOMAIN ms |-> IF i \in I THEN c[ms[i].at] ELSE 0] = Sized(ms, I)
    BY <1>1 DEF Sized
  <1>3. Sized(ms, I) \in [1 .. Len(ms) -> Nat]
    BY <1>1 DEF Sized
  <1>4. Total(Sized(ms, I), Len(ms)) \in Nat
    <2>1. PICK g \in [0 .. Len(ms) -> Nat] : Total(Sized(ms, I), Len(ms)) = g[Len(ms)]
      BY <1>1, <1>3, TotalIsSum
    <2> QED
      BY <1>1, <2>1
  <1> QED
    BY <1>2, <1>3, <1>4 DEF Tokens

\* A group starts with a call, and a list with more than the prefix has one.
LEMMA FirstIsCall ==
  ASSUME NEW ms, Formed(ms), Paired(ms, Len(ms))
  PROVE  /\ \A f \in Firsts(ms) : ms[f].role = "call"
         /\ Firsts(ms) = {} => Len(ms) = PrefixLen
PROOF
  <1>0. Len(ms) \in Nat /\ Len(ms) >= PrefixLen /\ \A i \in 1 .. Len(ms) : ms[i].calls \in Nat
    BY MessagesAre DEF Formed
  <1>1. ASSUME NEW f \in Firsts(ms), ms[f].role # "call"
        PROVE  FALSE
    <2>1. f \in PrefixLen + 1 .. Len(ms) /\ ~IsResult(ms, f)
      BY DEF Firsts
    <2>2. PICK j \in PrefixLen + 1 .. f - 1 : ms[j].role = "call" /\ f - j <= ms[j].calls
      BY <1>1, <2>1 DEF Paired
    <2>3. j \in 1 .. Len(ms) /\ j \in PrefixLen + 1 .. Len(ms) /\ ms[j].calls \in Nat
      BY <1>0, <2>1 DEF PrefixLen
    <2>4. \A k \in 1 .. ms[j].calls : ms[j + k].role = "tool"
      BY <2>2, <2>3 DEF Paired
    <2>5. \A k \in j + 1 .. f : ms[k].role = "tool"
      <3> TAKE k \in j + 1 .. f
      <3>1. k - j \in 1 .. ms[j].calls /\ j + (k - j) = k
        BY <2>1, <2>2, <2>3
      <3> QED
        BY <2>4, <3>1
    <2> QED
      BY <2>1, <2>2, <2>5 DEF IsResult
  <1>2. ASSUME Len(ms) > PrefixLen
        PROVE  PrefixLen + 1 \in Firsts(ms)
    BY <1>0, <1>2 DEF Firsts, IsResult, PrefixLen
  <1>3. Firsts(ms) = {} => Len(ms) = PrefixLen
    <2>1. Len(ms) > PrefixLen \/ Len(ms) = PrefixLen
      <3>1. \A n \in Nat : n >= 2 => n > 2 \/ n = 2
        OBVIOUS
      <3> QED
        BY <1>0, <3>1 DEF PrefixLen
    <2> QED
      BY <1>2, <2>1
  <1> QED
    BY <1>1, <1>3

\* Without a group that is too large there is something to keep that fits.
LEMMA FirstKeptFits ==
  ASSUME NEW ms, Formed(ms), NEW c, \A i \in 1 .. Len(ms) : c[ms[i].at] = ms[i].size,
         Firsts(ms) # {}, ~TooLarge(ms, c)
  PROVE  /\ FirstKept(ms, c) \in Firsts(ms) \cup {Len(ms) + 1}
         /\ Tokens(ms, c, 1 .. PrefixLen \cup FirstKept(ms, c) .. Len(ms)) <= MaxTokens
PROOF
  <1> DEFINE D == Firsts(ms) \cup {Len(ms) + 1}
             S == {f \in D : Tokens(ms, c, 1 .. PrefixLen \cup f .. Len(ms)) <= MaxTokens}
  <1>1. Len(ms) \in Nat
    BY MessagesAre
  <1>2. S \in SUBSET Nat
    BY <1>1 DEF Firsts, PrefixLen
  <1>3. Len(ms) + 1 \in S
    <2>1. PICK f \in Firsts(ms) : TRUE
      OBVIOUS
    <2>2. ~(Tokens(ms, c, Group(ms, f)) > MaxTokens - Tokens(ms, c, 1 .. PrefixLen))
      BY <2>1 DEF TooLarge
    <2>3. /\ Tokens(ms, c, Group(ms, f)) \in Nat /\ Tokens(ms, c, 1 .. PrefixLen) \in Nat
          /\ MaxTokens \in Nat
      BY TokensAre, HistoryAssumption
    <2>4. Tokens(ms, c, 1 .. PrefixLen) <= MaxTokens
      BY <2>2, <2>3
    <2>5. 1 .. PrefixLen \cup (Len(ms) + 1) .. Len(ms) = 1 .. PrefixLen
      BY <1>1
    <2> QED
      BY <2>4, <2>5
  <1>4. FirstKept(ms, c) = Min(S)
    BY DEF FirstKept
  <1>5. Min(S) \in S
    <2> HIDE DEF S
    <2> QED
      BY <1>2, <1>3, LeastIsMin
  <1> QED
    BY <1>4, <1>5

\* t is the prefix and what s has from f on.
Cut(t, s, f) ==
  /\ Len(t) = PrefixLen + (Len(s) + 1 - f)
  /\ \A i \in 1 .. PrefixLen : t[i] = s[i]
  /\ \A i \in PrefixLen + 1 .. Len(t) : t[i] = s[i + (f - 1 - PrefixLen)]

LEMMA CutIs ==
  ASSUME NEW s, Formed(s), NEW f \in PrefixLen + 1 .. Len(s) + 1,
         NEW t, t = SubSeq(s, 1, PrefixLen) \o SubSeq(s, f, Len(s))
  PROVE  Formed(t) /\ Cut(t, s, f)
PROOF
  <1> DEFINE n == Len(s)
             a == SubSeq(s, 1, 2)
             b == SubSeq(s, f, n)
  <1>1. /\ s \in Seq(Messages) /\ n \in Nat /\ n >= 2 /\ f \in 3 .. n + 1
        /\ \A i \in 1 .. n : s[i] \in Messages
        /\ \A i, j \in 1 .. n : s[i].at = s[j].at => i = j
        /\ \A i \in 1 .. 2 : s[i] = Prefix[i]
    BY MessagesAre DEF Formed, PrefixLen
  <1>2. t = a \o b
    BY DEF PrefixLen
  <1>3. a \in Seq(Messages) /\ Len(a) = 2 /\ \A i \in 1 .. 2 : a[i] = s[i]
    <2>1. \A i \in 1 .. 2 : s[i] \in Messages
      BY <1>1
    <2>2. /\ a \in Seq(Messages) /\ Len(a) = IF 1 <= 2 THEN 2 - 1 + 1 ELSE 0
          /\ \A i \in 1 .. 2 - 1 + 1 : a[i] = s[1 + i - 1]
      BY <2>1, SubSeqProperties
    <2> QED
      BY <2>2
  <1>4. /\ b \in Seq(Messages) /\ Len(b) = n + 1 - f
        /\ \A i \in 1 .. n + 1 - f : b[i] = s[f + i - 1]
    <2>1. (\A i \in f .. n : s[i] \in Messages) /\ f \in Int /\ n \in Int
      BY <1>1
    <2>2. /\ b \in Seq(Messages) /\ Len(b) = IF f <= n THEN n - f + 1 ELSE 0
          /\ \A i \in 1 .. n - f + 1 : b[i] = s[f + i - 1]
      BY <2>1, SubSeqProperties
    <2>3. n - f + 1 = n + 1 - f /\ (~(f <= n) => n + 1 - f = 0)
      BY <1>1
    <2> QED
      BY <2>2, <2>3
  <1> HIDE DEF a, b, n
  <1>5. /\ t \in Seq(Messages) /\ Len(t) = 2 + (n + 1 - f)
        /\ \A i \in 1 .. 2 + (n + 1 - f) : t[i] = IF i <= 2 THEN a[i] ELSE b[i - 2]
    <2>1. /\ a \o b \in Seq(Messages) /\ Len(a \o b) = Len(a) + Len(b)
          /\ \A i \in 1 .. Len(a) + Len(b) : (a \o b)[i] = IF i <= Len(a) THEN a[i]
                                                          ELSE b[i - Len(a)]
      BY <1>3, <1>4, ConcatProperties
    <2> QED
      BY <1>2, <1>3, <1>4, <2>1
  <1>6. /\ \A i \in 1 .. 2 : t[i] = s[i]
        /\ \A i \in 3 .. Len(t) : t[i] = s[i + (f - 1 - 2)] /\ i + (f - 1 - 2) \in f .. n
    <2>1. ASSUME NEW i \in 1 .. 2
          PROVE  t[i] = s[i]
      <3>1. i \in 1 .. 2 + (n + 1 - f) /\ i <= 2
        BY <1>1
      <3> QED
        BY <1>3, <1>5, <3>1
    <2>2. ASSUME NEW i \in 3 .. Len(t)
          PROVE  t[i] = s[i + (f - 1 - 2)] /\ i + (f - 1 - 2) \in f .. n
      <3>1. /\ i \in 1 .. 2 + (n + 1 - f) /\ ~(i <= 2) /\ i - 2 \in 1 .. n + 1 - f
            /\ f + (i - 2) - 1 = i + (f - 1 - 2) /\ i + (f - 1 - 2) \in f .. n
        BY <1>1, <1>5
      <3>2. t[i] = b[i - 2]
        BY <1>5, <3>1
      <3>3. b[i - 2] = s[f + (i - 2) - 1]
        BY <1>4, <3>1
      <3> QED
        BY <3>1, <3>2, <3>3
    <2> QED
      BY <2>1, <2>2
  <1>7. Cut(t, s, f)
    BY <1>5, <1>6 DEF Cut, PrefixLen, n
  <1>8. \A i, j \in 1 .. Len(t) : t[i].at = t[j].at => i = j
    <2>0. n \in Nat /\ n >= 2 /\ f \in 3 .. n + 1 /\ Len(t) \in Nat
      BY <1>1, <1>5
    <2>1. ASSUME NEW i \in 1 .. Len(t)
          PROVE  \E k \in 1 .. n :
                   /\ t[i] = s[k]
                   /\ i <= 2 => k = i
                   /\ ~(i <= 2) => k = i + (f - 1 - 2) /\ k >= f
      <3>1. CASE i <= 2
        <4>1. i \in 1 .. 2 /\ i \in 1 .. n
          BY <2>0, <3>1
        <4> QED
          BY <1>6, <3>1, <4>1
      <3>2. CASE ~(i <= 2)
        <4>1. i \in 3 .. Len(t)
          <5>1. \A m \in Nat : \A k \in 1 .. m : ~(k <= 2) => k \in 3 .. m
            OBVIOUS
          <5> QED
            BY <2>0, <3>2, <5>1
        <4>2. t[i] = s[i + (f - 1 - 2)] /\ i + (f - 1 - 2) \in f .. n
          BY <1>6, <4>1
        <4>3. i + (f - 1 - 2) \in 1 .. n /\ i + (f - 1 - 2) >= f
          BY <2>0, <4>1, <4>2
        <4> QED
          BY <3>2, <4>2, <4>3
      <3> QED
        BY <3>1, <3>2
    <2>2. ASSUME NEW i \in 1 .. Len(t), NEW j \in 1 .. Len(t), t[i].at = t[j].at
          PROVE  i = j
      <3>1. PICK k \in 1 .. n :
               /\ t[i] = s[k]
               /\ i <= 2 => k = i
               /\ ~(i <= 2) => k = i + (f - 1 - 2) /\ k >= f
        BY <2>1
      <3>2. PICK l \in 1 .. n :
               /\ t[j] = s[l]
               /\ j <= 2 => l = j
               /\ ~(j <= 2) => l = j + (f - 1 - 2) /\ l >= f
        BY <2>1
      <3>3. s[k].at = s[l].at
        BY ONLY <2>2, <3>1, <3>2
      <3>4. k = l
        BY <1>1, <3>3
      <3>5. i \in Nat /\ j \in Nat /\ k \in Nat
        BY <2>0
      <3> QED
        BY ONLY <2>0, <3>1, <3>2, <3>4, <3>5
    <2> QED
      BY <2>2
  <1>9. Len(t) >= 2
    BY <1>1, <1>5
  <1> QED
    BY <1>1, <1>5, <1>6, <1>7, <1>8, <1>9 DEF Formed, PrefixLen

\* What is cut off was not counted.
LEMMA CutCounts ==
  ASSUME NEW s, NEW t, Formed(s), Formed(t), NEW f \in PrefixLen + 1 .. Len(s) + 1, Cut(t, s, f)
  PROVE  Total(Sized(t, 1 .. Len(t)), Len(t))
         = Total(Sized(s, 1 .. PrefixLen \cup f .. Len(s)), Len(s))
PROOF
  <1> DEFINE N == Len(s)
             M == Len(t)
             G == Sized(s, 1 .. PrefixLen \cup f .. Len(s))
             H == Sized(t, 1 .. Len(t))
             p == 2
  <1>1. /\ N \in Nat /\ N >= 2 /\ M \in Nat /\ f \in 3 .. N + 1 /\ M = 2 + (N + 1 - f)
        /\ \A i \in 1 .. N : s[i].size \in Nat
        /\ \A i \in 1 .. M : t[i].size \in Nat
        /\ \A i \in 1 .. 2 : t[i] = s[i]
        /\ \A i \in 3 .. M : t[i] = s[i + (f - 1 - 2)]
    <2>1. /\ N \in Nat /\ M \in Nat
          /\ \A i \in 1 .. N : s[i].size \in Nat
          /\ \A i \in 1 .. M : t[i].size \in Nat
      BY MessagesAre
    <2>2. N >= 2
      BY DEF Formed, PrefixLen
    <2>3. /\ M = 2 + (N + 1 - f)
          /\ \A i \in 1 .. 2 : t[i] = s[i]
          /\ \A i \in 3 .. M : t[i] = s[i + (f - 1 - 2)]
      BY DEF Cut, PrefixLen
    <2>4. f \in 3 .. N + 1
      BY DEF PrefixLen
    <2> QED
      BY <2>1, <2>2, <2>3, <2>4
  <1>2. /\ G = [i \in 1 .. N |-> IF i \in 1 .. 2 \cup f .. N THEN s[i].size ELSE 0]
        /\ H = [i \in 1 .. M |-> IF i \in 1 .. M THEN t[i].size ELSE 0]
    BY DEF Sized, PrefixLen
  <1> HIDE DEF N, M, G, H
  <1>3. G \in [1 .. N -> Nat] /\ H \in [1 .. M -> Nat]
    BY <1>1, <1>2
  <1>4. \A i \in 2 + 1 .. f - 1 : G[i] = 0
    <2> TAKE i \in 2 + 1 .. f - 1
    <2>1. i \in 1 .. N /\ ~(i \in 1 .. 2 \cup f .. N)
      BY <1>1
    <2> QED
      BY <1>2, <2>1
  <1>5. \A i \in 1 .. 2 : H[i] = G[i]
    <2> TAKE i \in 1 .. 2
    <2>1. i \in 1 .. N /\ i \in 1 .. M
      BY <1>1
    <2> QED
      BY <1>1, <1>2, <2>1
  <1>6. \A i \in 2 + 1 .. M : H[i] = G[i + (f - 1 - 2)]
    <2> TAKE i \in 2 + 1 .. M
    <2>1. i + (f - 1 - 2) \in 1 .. N /\ i + (f - 1 - 2) \in f .. N /\ i \in 1 .. M /\ i \in 3 .. M
      BY <1>1
    <2>2. H[i] = t[i].size /\ G[i + (f - 1 - 2)] = s[i + (f - 1 - 2)].size
      BY <1>2, <2>1
    <2> QED
      BY <1>1, <2>1, <2>2
  <1>7. 2 \in 0 .. N /\ f \in 2 + 1 .. N + 1
    BY <1>1
  <1>8. Total(H, M) = Total(G, N)
    BY <1>1, <1>3, <1>4, <1>5, <1>6, <1>7, TotalOfCut
  <1> QED
    BY <1>8 DEF N, M, G, H

\* Whole groups go: no call loses its results, and no result its call.
LEMMA CutIsPaired ==
  ASSUME NEW s, NEW t, Formed(s), Formed(t), NEW f \in Firsts(s) \cup {Len(s) + 1},
         Cut(t, s, f), Paired(s, Len(s))
  PROVE  Paired(t, Len(t))
PROOF
  <1> DEFINE N == Len(s)
             M == Len(t)
             d == f - 1 - 2
  <1>1. /\ N \in Nat /\ N >= 2 /\ M \in Nat /\ f \in 3 .. N + 1 /\ M = 2 + (N + 1 - f)
        /\ \A i \in 1 .. N : s[i].calls \in Nat
        /\ \A i \in 3 .. M : t[i] = s[i + d]
        /\ f \in 3 .. N => s[f].role = "call"
    <2>1. f \in 3 .. N => s[f].role = "call"
      BY MessagesAre, FirstIsCall
    <2> QED
      BY <2>1, MessagesAre DEF Formed, Cut, PrefixLen, Firsts
  <1>2. d \in Nat /\ f = d + 3 /\ M + d = N
    BY <1>1
  <1>3. \A i \in 3 .. N :
          IF s[i].role = "call"
          THEN \A k \in 1 .. s[i].calls : i + k <= N /\ s[i + k].role = "tool"
          ELSE \E j \in 3 .. i - 1 : s[j].role = "call" /\ i - j <= s[j].calls
    BY DEF Paired, PrefixLen
  <1> HIDE DEF N, M, d
  <1> SUFFICES ASSUME NEW i \in PrefixLen + 1 .. M
               PROVE  IF t[i].role = "call"
                      THEN \A k \in 1 .. t[i].calls : i + k <= M /\ t[i + k].role = "tool"
                      ELSE \E j \in PrefixLen + 1 .. i - 1 :
                             t[j].role = "call" /\ i - j <= t[j].calls
    BY DEF Paired, M
  <1>4. i \in 3 .. M /\ i + d \in 3 .. N /\ t[i] = s[i + d] /\ i + d \in 1 .. N
    BY <1>1, <1>2 DEF PrefixLen
  <1>5. CASE t[i].role = "call"
    <2> SUFFICES ASSUME NEW k \in 1 .. t[i].calls
                 PROVE  i + k <= M /\ t[i + k].role = "tool"
      BY <1>5
    <2>1. s[i + d].calls \in Nat /\ k \in 1 .. s[i + d].calls
      BY <1>1, <1>4
    <2>2. (i + d) + k <= N /\ s[(i + d) + k].role = "tool"
      BY <1>3, <1>4, <1>5, <2>1
    <2>3. i + k \in 3 .. M /\ (i + k) + d = (i + d) + k /\ i + k <= M
      <3>1. N \in Nat /\ M \in Nat /\ i \in 3 .. M /\ k \in Nat /\ (i + d) + k <= N
        BY <1>1, <1>4, <2>1, <2>2
      <3> QED
        BY <1>2, <3>1
    <2> QED
      BY <1>1, <2>2, <2>3
  <1>6. CASE t[i].role # "call"
    <2>1. PICK j \in 3 .. (i + d) - 1 : s[j].role = "call" /\ (i + d) - j <= s[j].calls
      BY <1>3, <1>4, <1>6
    <2>2. j \in 3 .. N /\ s[j].calls \in Nat
      <3>1. j \in 3 .. N /\ j \in 1 .. N
        BY <1>1, <1>4, <2>1
      <3> QED
        BY <1>1, <3>1
    <2>3. j >= f
      <3>1. SUFFICES ASSUME j < f PROVE FALSE
        BY <1>1, <2>2
      <3>2. f - j \in 1 .. s[j].calls /\ j + (f - j) = f /\ f \in 3 .. N
        BY <1>1, <1>2, <1>4, <2>1, <2>2, <3>1
      <3>3. s[j + (f - j)].role = "tool"
        BY <1>3, <2>1, <2>2, <3>2
      <3> QED
        BY <1>1, <3>2, <3>3
    <2>4. /\ j - d \in PrefixLen + 1 .. i - 1 /\ (j - d) + d = j
          /\ i - (j - d) = (i + d) - j /\ j - d \in 3 .. M
      BY <1>1, <1>2, <1>4, <2>1, <2>2, <2>3 DEF PrefixLen
    <2>5. t[j - d] = s[j]
      BY <1>1, <2>4
    <2> QED
      BY <1>6, <2>1, <2>4, <2>5
  <1> QED
    BY <1>5, <1>6

LEMMA CutTakes ==
  ASSUME NEW s, NEW t, Formed(s), Formed(t), NEW f \in PrefixLen + 1 .. Len(s) + 1, Cut(t, s, f)
  PROVE  \A i \in 1 .. Len(t) : \E k \in 1 .. Len(s) : t[i] = s[k]
PROOF
  <1>1. Len(s) \in Nat /\ Len(s) >= 2 /\ Len(t) \in Nat /\ f \in 3 .. Len(s) + 1
    BY MessagesAre DEF Formed, PrefixLen
  <1>2. /\ Len(t) = 2 + (Len(s) + 1 - f)
        /\ \A i \in 1 .. 2 : t[i] = s[i]
        /\ \A i \in 3 .. Len(t) : t[i] = s[i + (f - 1 - 2)]
    BY DEF Cut, PrefixLen
  <1>3. \A n, m \in Nat : \A g \in 3 .. n + 1 : \A i \in 1 .. m :
          n >= 2 /\ m = 2 + (n + 1 - g) =>
            \/ i \in 1 .. 2 /\ i \in 1 .. n
            \/ i \in 3 .. m /\ i + (g - 1 - 2) \in 1 .. n
    OBVIOUS
  <1> TAKE i \in 1 .. Len(t)
  <1>4. \/ i \in 1 .. 2 /\ i \in 1 .. Len(s)
        \/ i \in 3 .. Len(t) /\ i + (f - 1 - 2) \in 1 .. Len(s)
    BY <1>1, <1>2, <1>3
  <1> QED
    BY <1>2, <1>4

LEMMA SizesAre ==
  ASSUME NEW ms, Formed(ms)
  PROVE  [i \in DOMAIN ms |-> ms[i].size] = Sized(ms, 1 .. Len(ms))
  BY MessagesAre DEF Sized

\* What a step makes of the messages, when no call is pending.
SoundMessages(ms, c) ==
  /\ Formed(ms) /\ Paired(ms, Len(ms))
  /\ Right(c, ms) /\ DOMAIN c \subseteq AddressesOf(ms)

LEMMA PruneFits ==
  ASSUME SoundMessages(messages, cache), ~Overflows, Prune
  PROVE  /\ SoundMessages(messages', cache')
         /\ WithinContext(messages')
PROOF
  <1> DEFINE c == Counted(messages)
             f == FirstKept(messages, c)
             shorter == SubSeq(messages, 1, PrefixLen) \o SubSeq(messages, f, Len(messages))
  <1>1. /\ Formed(messages) /\ Paired(messages, Len(messages)) /\ Right(cache, messages)
        /\ DOMAIN cache \subseteq AddressesOf(messages)
    BY DEF SoundMessages
  <1>2. /\ DOMAIN c = AddressesOf(messages)
        /\ \A i \in 1 .. Len(messages) : c[messages[i].at] = messages[i].size
    BY <1>1, CountedIs
  <1>3. /\ messages' = IF Over(messages, c) /\ Firsts(messages) # {} THEN shorter ELSE messages
        /\ cache' = [a \in DOMAIN c \ (AddressesOf(messages) \ AddressesOf(messages')) |-> c[a]]
    BY DEF Prune
  <1>4. ~(Over(messages, c) /\ TooLarge(messages, c))
    BY DEF Overflows
  <1>5. DOMAIN messages = 1 .. Len(messages) /\ Len(messages) \in Nat
    BY <1>1, MessagesAre
  <1> HIDE DEF c
  <1>6. ASSUME Formed(messages'), Paired(messages', Len(messages')),
               \A i \in 1 .. Len(messages') : \E k \in 1 .. Len(messages) : messages'[i] = messages[k]
        PROVE  SoundMessages(messages', cache')
    <2>1. /\ DOMAIN cache' \subseteq AddressesOf(messages')
          /\ \A a \in DOMAIN cache' : cache'[a] = c[a]
      BY <1>2, <1>3
    <2>2. Right(cache', messages')
      <3> SUFFICES ASSUME NEW i \in 1 .. Len(messages'), messages'[i].at \in DOMAIN cache'
                   PROVE  cache'[messages'[i].at] = messages'[i].size
        BY DEF Right
      <3>1. PICK k \in 1 .. Len(messages) : messages'[i] = messages[k]
        BY <1>6
      <3> QED
        BY <1>2, <2>1, <3>1
    <2> QED
      BY <1>6, <2>1, <2>2 DEF SoundMessages
  <1>7. CASE ~Over(messages, c)
    <2>1. messages' = messages
      BY <1>3, <1>7
    <2>2. Tokens(messages, c, 1 .. Len(messages)) <= MaxTokens
      <3>1. Tokens(messages, c, 1 .. Len(messages)) \in Nat /\ MaxTokens \in Nat
        BY <1>1, <1>2, TokensAre, HistoryAssumption
      <3>2. ~(Tokens(messages, c, 1 .. Len(messages)) > MaxTokens)
        BY <1>5, <1>7 DEF Over
      <3> QED
        BY <3>1, <3>2
    <2>3. Total([i \in DOMAIN messages |-> messages[i].size], Len(messages))
          = Tokens(messages, c, 1 .. Len(messages))
      BY <1>1, <1>2, TokensAre, SizesAre
    <2>4. SoundMessages(messages', cache')
      BY <1>1, <1>6, <2>1
    <2> QED
      BY <2>1, <2>2, <2>3, <2>4 DEF WithinContext
  <1>8. CASE Firsts(messages) = {}
    <2>1. messages' = messages /\ Len(messages) = PrefixLen
      BY <1>1, <1>3, <1>8, FirstIsCall
    <2>2. SoundMessages(messages', cache')
      BY <1>1, <1>6, <2>1
    <2> QED
      BY <2>1, <2>2 DEF PrefixLen, WithinContext
  <1>9. CASE Over(messages, c) /\ Firsts(messages) # {}
    <2>1. /\ f \in Firsts(messages) \cup {Len(messages) + 1}
          /\ Tokens(messages, c, 1 .. PrefixLen \cup f .. Len(messages)) <= MaxTokens
      BY <1>1, <1>2, <1>4, <1>9, FirstKeptFits
    <2>2. messages' = shorter
      BY <1>3, <1>9
    <2>3. f \in PrefixLen + 1 .. Len(messages) + 1
      BY <1>1, <1>5, <2>1 DEF Firsts, PrefixLen, Formed
    <2> HIDE DEF f
    <2>4. Formed(shorter) /\ Cut(shorter, messages, f)
      BY <1>1, <2>3, CutIs
    <2> HIDE DEF shorter
    <2>5. Paired(shorter, Len(shorter))
      BY <1>1, <2>1, <2>4, CutIsPaired
    <2>6. \A i \in 1 .. Len(shorter) : \E k \in 1 .. Len(messages) : shorter[i] = messages[k]
      BY <1>1, <2>3, <2>4, CutTakes
    <2>7. Total(Sized(shorter, 1 .. Len(shorter)), Len(shorter)) <= MaxTokens
      <3>1. Total(Sized(shorter, 1 .. Len(shorter)), Len(shorter))
            = Total(Sized(messages, 1 .. PrefixLen \cup f .. Len(messages)), Len(messages))
        BY <1>1, <2>3, <2>4, CutCounts
      <3>2. Tokens(messages, c, 1 .. PrefixLen \cup f .. Len(messages))
            = Total(Sized(messages, 1 .. PrefixLen \cup f .. Len(messages)), Len(messages))
        BY <1>1, <1>2, TokensAre
      <3> QED
        BY <2>1, <3>1, <3>2
    <2>8. Total([i \in DOMAIN shorter |-> shorter[i].size], Len(shorter)) <= MaxTokens
      BY <2>4, <2>7, SizesAre
    <2>9. SoundMessages(messages', cache')
      BY <1>6, <2>2, <2>4, <2>5, <2>6
    <2> QED
      BY <2>2, <2>8, <2>9 DEF WithinContext
  <1> QED
    BY <1>7, <1>8, <1>9

\* What the invariant says of the prompt is the property.
LEMMA PromptIs ==
  ASSUME ControlInv, HistoryInv
  PROVE  PromptFits
PROOF
  <1>1. CacheIsRight
    BY CacheRight DEF HistoryInv
  <1>2. ASSUME pc = "asking"
        PROVE  Fits
    <2>1. Formed(messages) /\ Paired(messages, Len(messages)) /\ WithinContext(messages)
      BY <1>2 DEF HistoryInv, ControlInv, Shaped
    <2>2. SubSeq(messages, 1, PrefixLen) = Prefix
      <3> DEFINE a == SubSeq(messages, 1, 2)
      <3>1. (\A i \in 1 .. 2 : messages[i] \in Messages) /\ 1 \in Int /\ 2 \in Int
        BY <2>1, MessagesAre DEF Formed, PrefixLen
      <3>2. /\ a \in Seq(Messages) /\ Len(a) = IF 1 <= 2 THEN 2 - 1 + 1 ELSE 0
            /\ \A i \in 1 .. 2 - 1 + 1 : a[i] = messages[1 + i - 1]
        BY <3>1, SubSeqProperties
      <3>3. a \in Seq(Messages) /\ Len(a) = 2 /\ a[1] = messages[1] /\ a[2] = messages[2]
        BY <3>2
      <3>4. messages[1] = Prefix[1] /\ messages[2] = Prefix[2]
        BY <2>1 DEF Formed, PrefixLen
      <3> HIDE DEF a
      <3>5. a = <<Prefix[1], Prefix[2]>>
        BY <3>3, <3>4
      <3>6. Prefix = <<Prefix[1], Prefix[2]>>
        BY DEF Prefix
      <3> QED
        BY <3>5, <3>6 DEF a, PrefixLen
    <2> QED
      BY <2>1, <2>2 DEF Fits, WithinContext, Paired
  <1> QED
    BY <1>1, <1>2 DEF PromptFits

LEMMA StepsOfHistory ==
  ASSUME ControlInv, [Next]_vars
  PROVE  \/ UNCHANGED <<history, pending>> /\ (pc' = "asking" => pc = "asking")
         \/ Load \/ Turn \/ SaveResult \/ Propose \/ FinishPending
PROOF
  <1>0. pc = "closing" => outcome # "asking"
    BY DEF ControlInv, Outcomes
  <1>1. CASE Start \/ Wait \/ ModelAnswers \/ Chunk \/ Answer \/ Text \/ Complete \/ Finish
             \/ Dispatch \/ Suspended \/ Fail \/ Abandon \/ PutNone \/ UNCHANGED vars
    BY <1>1 DEF Start, Wait, ModelAnswers, Chunk, Answer, Text, Complete, Finish, Dispatch,
         Suspended, Fail, Abandon, PutNone, vars, loop, state
  <1>2. CASE TurnFails \/ ModelFails \/ Suspend
    <2>1. UNCHANGED <<history, pending>>
      BY <1>2 DEF TurnFails, ModelFails, Suspend, state
    <2>2. pc' # "asking"
      BY <1>2 DEF TurnFails, ModelFails, Suspend, Leave
    <2> QED
      BY <2>1, <2>2
  <1>3. CASE CloseRuntime
    BY <1>0, <1>3 DEF CloseRuntime, state
  <1>4. CASE Tools
    <2>1. UNCHANGED <<history, pending>>
      BY <1>4 DEF Tools, Act, ThreadTimeout, LooseEnds, Execute, Executed, Call, Gate, Begin,
           GiveResult, Doubt, Return, OnlyTools, loop, state
    <2>2. pc' = pc \/ pc' # "asking"
      BY <1>4 DEF Tools, Act, ThreadTimeout, LooseEnds, Execute, Executed, Call, Gate, Begin,
           GiveResult, Doubt, Return, Leave
    <2> QED
      BY <2>1, <2>2
  <1>5. CASE Cancel
    <2>1. UNCHANGED <<history, pending>>
      BY <1>5 DEF Cancel, state
    <2>2. CASE InterruptRun
      <3>1. CASE pc \in InLoop /\ Leave("cancelled")
        BY <2>1, <3>1 DEF Leave
      <3>2. CASE pc' = CASE pc = "starting" -> "over"
                         [] pc \in Handlers -> "ending"
                         [] pc = "ending" -> IF lock = "run" THEN "ending" ELSE "over"
                         [] OTHER -> "cancelled"
        BY <2>1, <3>2
      <3>3. CASE CutCommit
        BY <2>1, <3>3 DEF CutCommit
      <3> QED
        BY <2>2, <3>1, <3>2, <3>3 DEF InterruptRun
    <2>3. CASE InterruptTools
      BY <2>1, <2>3 DEF InterruptTools, Leave
    <2>4. CASE Swallowed
      BY <2>1, <2>4 DEF Swallowed
    <2> QED
      BY <1>5, <2>2, <2>3, <2>4 DEF Cancel
  <1>6. CASE Deliver \/ Removal \/ Read \/ Close \/ OtherAppends \/ Subscribe \/ Crash \/ Resume
    BY <1>6 DEF Deliver, Removal, OnlyTools, Read, Close, OtherAppends, Subscribe, Crash, Resume,
         loop, state
  <1> QED
    BY <1>1, <1>2, <1>3, <1>4, <1>5, <1>6 DEF Next, Loop

LEMMA PrefixIs ==
  Formed(Prefix) /\ Paired(Prefix, Len(Prefix)) /\ Prefix # <<>>
PROOF
  <1>1. Prefix = <<Message(1, "system", 0, 1), Message(2, "user", 0, 1)>>
    BY DEF Prefix
  <1>2. Message(1, "system", 0, 1) \in Messages /\ Message(2, "user", 0, 1) \in Messages
    BY DEF Message, Messages
  <1>3. Message(1, "system", 0, 1).at = 1 /\ Message(2, "user", 0, 1).at = 2
    BY DEF Message
  <1>4. /\ Prefix \in Seq(Messages) /\ Len(Prefix) = 2 /\ Prefix # <<>>
        /\ Prefix[1].at = 1 /\ Prefix[2].at = 2
    BY <1>1, <1>2, <1>3
  <1>5. \A i \in 1 .. 2 : i = 1 \/ i = 2
    OBVIOUS
  <1>6. \A i, j \in 1 .. 2 : Prefix[i].at = Prefix[j].at => i = j
    BY <1>4, <1>5
  <1>7. Formed(Prefix)
    BY <1>4, <1>6 DEF Formed, PrefixLen
  <1>8. Paired(Prefix, 2)
    BY DEF Paired, PrefixLen
  <1> QED
    BY <1>4, <1>7, <1>8

\* A message at a new address is not in the cache.
LEMMA AddedIsRight ==
  ASSUME NEW c, NEW s, NEW t, NEW k \in Nat, NEW role, Formed(s), Formed(t), Added(t, s, k, role),
         Right(c, s), DOMAIN c \subseteq AddressesOf(s)
  PROVE  Right(c, t) /\ DOMAIN c \subseteq AddressesOf(t)
PROOF
  <1>1. /\ Len(s) \in Nat /\ Len(t) = Len(s) + k
        /\ DOMAIN s = 1 .. Len(s) /\ DOMAIN t = 1 .. Len(t)
        /\ \A i \in 1 .. Len(s) : t[i] = s[i]
        /\ \A i \in Len(s) + 1 .. Len(t) : t[i].at \notin AddressesOf(s)
    BY MessagesAre DEF Added
  <1>2. ASSUME NEW i \in 1 .. Len(t), t[i].at \in DOMAIN c
        PROVE  c[t[i].at] = t[i].size
    <2>1. i \in 1 .. Len(s) \/ i \in Len(s) + 1 .. Len(t)
      BY <1>1
    <2>2. i \in 1 .. Len(s)
      BY <1>1, <1>2, <2>1
    <2> QED
      BY <1>1, <1>2, <2>2 DEF Right
  <1>3. AddressesOf(s) \subseteq AddressesOf(t)
    <2>1. \A i \in 1 .. Len(s) : i \in 1 .. Len(t)
      BY <1>1
    <2> QED
      BY <1>1, <2>1 DEF AddressesOf
  <1> QED
    BY <1>2, <1>3 DEF Right

\* Every call of a turn gets its result.
LEMMA ResultsAdd ==
  ASSUME Formed(messages), kept = <<>> \/ Formed(kept), pending \subseteq Calls
  PROVE  /\ Formed(Results(messages)) /\ Cardinality(pending) \in Nat
         /\ Added(Results(messages), messages, Cardinality(pending), "tool")
PROOF
  <1> DEFINE one(ms, c) == Extend(ms, "tool", 0, Sizes[c])
  <1>0. Sizes["code"] \in Nat /\ Sizes["other"] \in Nat
    BY StreamAssumption DEF Calls
  <1>1. ASSUME NEW ms, Formed(ms), NEW c \in Calls
        PROVE  Formed(one(ms, c)) /\ Added(one(ms, c), ms, 1, "tool")
    <2>1. Sizes[c] \in Nat /\ 0 \in Nat /\ "tool" \in {"call", "tool"}
      BY <1>0 DEF Calls
    <2> QED
      BY <1>1, <2>1, ExtendAdds
  <1>2. Results(messages) =
          IF "other" \in pending
          THEN one(IF "code" \in pending THEN one(messages, "code") ELSE messages, "other")
          ELSE IF "code" \in pending THEN one(messages, "code") ELSE messages
    BY DEF Results
  <1> HIDE DEF one
  <1>3. "code" \in Calls /\ "other" \in Calls /\ "code" # "other"
    BY DEF Calls
  <1>4. CASE pending = {}
    <2>1. Results(messages) = messages /\ Cardinality(pending) = 0
      BY <1>2, <1>4, FS_EmptySet
    <2>2. Added(messages, messages, 0, "tool")
      BY MessagesAre DEF Added
    <2> QED
      BY <2>1, <2>2
  <1>5. CASE pending = {"code"} \/ pending = {"other"}
    <2>1. Cardinality(pending) = 1
      BY <1>5, FS_Singleton
    <2>2. Results(messages) = one(messages, "code") \/ Results(messages) = one(messages, "other")
      BY <1>2, <1>5
    <2> QED
      BY <1>1, <1>3, <2>1, <2>2
  <1>6. CASE pending = {"code", "other"}
    <2>1. Cardinality(pending) = 2
      <3>1. IsFiniteSet({"code"}) /\ Cardinality({"code"}) = 1
        BY FS_Singleton
      <3>2. Cardinality({"code"} \cup {"other"}) = Cardinality({"code"}) + 1
        BY <1>3, <3>1, FS_AddElement
      <3>3. pending = {"code"} \cup {"other"}
        BY <1>6
      <3> QED
        BY <3>1, <3>2, <3>3
    <2>2. Results(messages) = one(one(messages, "code"), "other")
      BY <1>2, <1>6
    <2>3. Formed(one(messages, "code")) /\ Added(one(messages, "code"), messages, 1, "tool")
      BY <1>1, <1>3
    <2>4. /\ Formed(one(one(messages, "code"), "other"))
          /\ Added(one(one(messages, "code"), "other"), one(messages, "code"), 1, "tool")
      BY <1>1, <1>3, <2>3
    <2>5. Added(one(one(messages, "code"), "other"), messages, 2, "tool")
      BY <2>3, <2>4, AddedTwice
    <2> QED
      BY <2>1, <2>2, <2>4, <2>5
  <1>7. pending = {} \/ pending = {"code"} \/ pending = {"other"} \/ pending = {"code", "other"}
    BY DEF Calls
  <1> QED
    BY <1>4, <1>5, <1>6, <1>7

LEMMA HistoryStays ==
  ASSUME ControlInv, HistoryInv, [Next]_vars
  PROVE  HistoryInv'
PROOF
  <1>1. /\ Formed(messages) /\ Shaped(messages, pending)
        /\ IF kept = <<>> THEN pending = {} ELSE Formed(kept) /\ Shaped(kept, pending)
        /\ Right(cache, messages) /\ DOMAIN cache \subseteq AddressesOf(messages)
        /\ pc = "asking" => WithinContext(messages)
    BY DEF HistoryInv
  <1>2. pending \subseteq Calls
    BY DEF ControlInv
  <1>3. CASE UNCHANGED <<history, pending>> /\ (pc' = "asking" => pc = "asking")
    BY <1>1, <1>3 DEF history, HistoryInv
  <1>4. ASSUME Formed(messages'), Shaped(messages', pending'), kept' = messages',
               Right(cache', messages'), DOMAIN cache' \subseteq AddressesOf(messages'),
               pc' # "asking"
        PROVE  HistoryInv'
    <2>1. messages' # <<>>
      BY <1>4 DEF Formed, PrefixLen
    <2> QED
      BY <1>4, <2>1 DEF HistoryInv
  <1>5. CASE Load
    <2>1. /\ messages' = (IF kept = <<>> THEN Prefix ELSE kept) /\ cache' = <<>>
          /\ kept' = messages' /\ pending' = pending
          /\ pc' # "asking"
      BY <1>5 DEF Load, LoadHistory, loop, state
    <2>2. Formed(messages') /\ Shaped(messages', pending)
      BY <1>1, <2>1, PrefixIs DEF Shaped
    <2>3. Right(cache', messages') /\ DOMAIN cache' \subseteq AddressesOf(messages')
      BY <2>1 DEF Right
    <2> QED
      BY <1>4, <2>1, <2>2, <2>3
  <1>6. CASE Turn
    <2>1. Prune /\ ~Overflows /\ pending = {} /\ UNCHANGED <<kept, pending>>
      BY <1>6 DEF Turn, At, ControlInv
    <2>2. SoundMessages(messages, cache)
      BY <1>1, <2>1 DEF SoundMessages, Shaped
    <2>3. SoundMessages(messages', cache') /\ WithinContext(messages')
      BY <2>1, <2>2, PruneFits
    <2> QED
      BY <1>1, <2>1, <2>3 DEF SoundMessages, Shaped, HistoryInv
  <1>7. CASE SaveResult
    <2>1. UNCHANGED <<messages, cache, pending>> /\ kept' = messages /\ pc' # "asking"
      BY <1>7 DEF SaveResult, Leave
    <2> QED
      BY <1>1, <1>4, <2>1
  <1>8. CASE Propose
    <2>1. PICK calls \in Proposals \ {{}} :
            pending' = calls /\ messages' = Extend(messages, "call", Cardinality(calls), 1)
      BY <1>8 DEF Propose
    <2>2. kept' = messages' /\ cache' = cache /\ pc' # "asking" /\ pc = "streaming"
      BY <1>8 DEF Propose, At
    <2>3. pending = {} /\ calls \subseteq Calls
      BY <2>2, ScopeIs DEF ControlInv
    <2>4. Cardinality(calls) \in Nat
      <3>1. IsFiniteSet(Calls)
        <4>1. IsFiniteSet({"code"} \cup {"other"})
          BY FS_Singleton, FS_AddElement
        <4>2. Calls = {"code"} \cup {"other"}
          BY DEF Calls
        <4> QED
          BY <4>1, <4>2
      <3> QED
        BY <2>3, <3>1, FS_Subset, FS_CardinalityType
    <2>5. kept = <<>> \/ Formed(kept)
      BY <1>1
    <2>6. /\ Formed(messages') /\ Added(messages', messages, 1, "call")
          /\ messages'[Len(messages) + 1].calls = Cardinality(calls)
      BY <1>1, <2>1, <2>4, <2>5, ExtendAdds
    <2>7. Len(messages') = Len(messages) + 1
      BY <2>6 DEF Added
    <2>8. Paired(messages, Len(messages))
      BY <1>1, <2>3 DEF Shaped
    <2>9. /\ Len(messages') > PrefixLen /\ Paired(messages', Len(messages') - 1)
          /\ messages'[Len(messages')].role = "call"
      BY <1>1, <2>6, <2>8, CallIsPending
    <2>10. Shaped(messages', pending')
      BY <2>1, <2>6, <2>7, <2>9 DEF Shaped
    <2>11. Right(cache, messages') /\ DOMAIN cache \subseteq AddressesOf(messages')
      BY <1>1, <2>6, AddedIsRight
    <2> QED
      BY <1>4, <2>2, <2>6, <2>10, <2>11
  <1>9. CASE FinishPending
    <2>1. /\ messages' = Results(messages) /\ kept' = messages' /\ cache' = cache
          /\ pending' = {} /\ pc' # "asking"
      BY <1>9 DEF FinishPending
    <2>2. kept = <<>> \/ Formed(kept)
      BY <1>1
    <2>3. /\ Formed(messages') /\ Cardinality(pending) \in Nat
          /\ Added(messages', messages, Cardinality(pending), "tool")
      BY <1>1, <1>2, <2>1, <2>2, ResultsAdd
    <2>4. Paired(messages', Len(messages'))
      <3>1. CASE pending = {}
        <4>1. messages' = messages
          BY <2>1, <3>1 DEF Results
        <4> QED
          BY <1>1, <3>1, <4>1 DEF Shaped
      <3>2. CASE pending # {}
        <4>1. /\ Len(messages) > PrefixLen /\ Paired(messages, Len(messages) - 1)
              /\ messages[Len(messages)].role = "call"
              /\ messages[Len(messages)].calls = Cardinality(pending)
          BY <1>1, <3>2 DEF Shaped
        <4> QED
          BY <1>1, <2>3, <4>1, ResultsAnswer
      <3> QED
        BY <3>1, <3>2
    <2>5. Shaped(messages', pending')
      BY <2>1, <2>4 DEF Shaped
    <2>6. Right(cache, messages') /\ DOMAIN cache \subseteq AddressesOf(messages')
      BY <1>1, <2>3, AddedIsRight
    <2> QED
      BY <1>4, <2>1, <2>3, <2>5, <2>6
  <1> QED
    BY <1>3, <1>5, <1>6, <1>7, <1>8, <1>9, StepsOfHistory

-----------------------------------------------------------------------------
(* The run.                                                                *)

\* All of it: each part is preserved with the help of those it names.
RunInv ==
  /\ ControlInv /\ CancelInv /\ LockInv /\ LedgerInv /\ SinkInv /\ LostInv /\ QueueInv
  /\ HistoryInv /\ ClientInv /\ SandboxInv

LEMMA RunStarts == Init => RunInv
PROOF
  <1> SUFFICES ASSUME Init
      PROVE  RunInv
    OBVIOUS
  <1>0. /\ scope \in Scopes /\ pc = "starting" /\ cancels = 0 /\ lock = "free" /\ held = 0
        /\ queue = <<>> /\ consumer = IF streaming THEN "reading" ELSE "done"
        /\ lastRead = recorded /\ whole = FALSE /\ iteration = 0 /\ pending = {}
        /\ task = [c \in Calls |-> "off"] /\ others = 0 /\ outcome = "none"
        /\ thread = "none" /\ loose = FALSE /\ cut = "no" /\ lost = -1
        /\ SinkInit /\ HistoryInit /\ ClientInit /\ SandboxInit
    BY DEF Init
  <1>1. ControlInv
    BY <1>0, StreamAssumption DEF ControlInv, Pcs
  <1>2. CancelInv
    BY <1>0 DEF CancelInv, ThreadsAreAwaited
  <1>3. LockInv
    BY <1>0 DEF LockInv, TaskStates, Calls
  <1>4. /\ status = IF kind = "plain" THEN "running" ELSE "pending"
        /\ IF kind = "plain" THEN nextSeq = 0 ELSE nextSeq = 1 /\ stored = 0 /\ committed = 0
        /\ recorded = nextSeq - 1 /\ refused = FALSE
    BY DEF Init, CreateTransition
  <1>5. recorded \in Nat \cup {-1} /\ recorded >= -1
    BY <1>4
  <1>6. LedgerInv
    <2>1. status \in DOMAIN Allowed /\ status \notin Terminal
      BY <1>4 DEF Allowed, Terminal
    <2>2. /\ refused \in BOOLEAN /\ ~refused /\ cut \in {"no", "before", "after"}
          /\ pc = "starting" /\ cut = "no"
      BY <1>0, <1>4
    <2>3. CASE kind = "plain"
      BY <1>4, <1>5, <2>1, <2>2, <2>3 DEF LedgerInv
    <2>4. CASE kind # "plain"
      <3>1. /\ status = "pending" /\ nextSeq = 1 /\ stored = 0 /\ committed = 0
            /\ recorded = 0
        BY <1>4, <2>4
      <3> QED
        BY <2>1, <2>2, <2>4, <3>1 DEF LedgerInv
    <2> QED
      BY <2>3, <2>4
  <1>7. BufferOK(<<>>, 0) /\ TableOK(<<>>)
    BY SinkAssumption DEF BufferOK, TableOK
  <1>8. SinkInv
    BY <1>0, <1>7 DEF SinkInv, SinkInit
  <1>9. Len(queue) = 0 /\ Len(queue) <= StreamBuffer /\ InOrder(queue, lastRead, lost)
    BY <1>0, StreamAssumption DEF InOrder
  <1>10. ~Marked(queue)
    BY <1>9 DEF Marked
  <1>11. LostInv /\ QueueInv
    <2>1. recorded \in Int /\ -1 <= recorded /\ recorded + 1 <= recorded + 1
      BY <1>4
    <2>2. Nth(lastRead, lost, Len(queue) + 1) = recorded + 1
      <3>1. Nth(recorded, -1, 1) = recorded + 1
        BY <2>1, NthIs
      <3> QED
        BY <1>0, <1>9, <3>1
    <2>3. LostInv
      BY <1>0, <2>1 DEF LostInv
    <2> QED
      BY <1>0, <1>5, <1>9, <1>10, <2>1, <2>2, <2>3 DEF QueueInv
  <1>12. Right(<<>>, messages) /\ DOMAIN <<>> \subseteq AddressesOf(messages)
    BY DEF Right
  <1>13. messages = Prefix /\ cache = <<>> /\ kept = <<>>
    BY <1>0 DEF HistoryInit
  <1>14. HistoryInv
    BY <1>0, <1>12, <1>13, PrefixIs DEF HistoryInv, Shaped
  <1>15. ClientInv
    BY <1>0, ClientAssumption DEF ClientInit, ClientInv, ClientTypeOK
  <1>16. SandboxInv
    BY <1>0 DEF SandboxInit, SandboxInv, SandboxTypeOK
  <1> QED
    BY <1>1, <1>2, <1>3, <1>6, <1>8, <1>11, <1>14, <1>15, <1>16 DEF RunInv

LEMMA RunStays == RunInv /\ [Next]_vars => RunInv'
PROOF
  BY ControlStays, CancelStays, LockStays, LedgerStays, SinkStays, LostStays, QueueStays,
     HistoryStays, ClientStays, SandboxStays DEF RunInv

LEMMA RunAlways == Spec => []RunInv
PROOF
  BY RunStarts, RunStays, PTL DEF Spec

\* A loop that made its own runtime does not come to its end while a thread of
\* its tools runs, unless it was cancelled again while it waited for one.
THEOREM ThreadsAwaited == Spec => []ThreadsAreAwaited
PROOF
  <1>1. RunInv => ThreadsAreAwaited
    BY DEF RunInv, CancelInv
  <1> QED
    BY <1>1, RunAlways, PTL

\* No event of a run is refused, whatever is cancelled, crashes and resumes, but
\* the ending of a run cut in the commit of its start or its completion; who
\* reads the stream has the events without a gap, but for one that an unknown
\* outcome has cut off, and at its end the last.
THEOREM StreamRecorded == Spec => []StreamIsRecord
PROOF
  <1>1. RunInv => StreamIsRecord
    <2> SUFFICES ASSUME RunInv
        PROVE  StreamIsRecord
      OBVIOUS
    <2>1. /\ refused => cut # "no"
          /\ kind # "plain" /\ status \in Terminal => recorded = committed
      BY DEF RunInv, LedgerInv
    <2>2. InOrder(queue, lastRead, lost) /\ (whole => lastRead = recorded)
      BY DEF RunInv, QueueInv
    <2>3. DOMAIN queue = 1 .. Len(queue)
      BY <2>2 DEF InOrder
    <2>4. \A i \in DOMAIN queue : queue[i] # Done =>
            queue[i] = Following(i) /\ \A k \in 1 .. i - 1 : queue[k] # Done
      BY <2>2, <2>3 DEF InOrder, Following, Nth
    <2> QED
      BY <2>1, <2>2, <2>4 DEF StreamIsRecord
  <1> QED
    BY <1>1, RunAlways, PTL

\* The steps of the run are those of the abstract stream, or are not seen.
LEMMA StreamSteps ==
  ASSUME RunInv, [Next]_vars
  PROVE  Stream!StreamNext \/ UNCHANGED <<status, recorded, lastRead, lost, whole>>
PROOF
  <1>0. ControlInv /\ CancelInv /\ LockInv /\ LedgerInv /\ LostInv /\ QueueInv
    BY DEF RunInv
  <1>1. /\ status \in DOMAIN Allowed /\ recorded \in Int /\ lastRead \in Int /\ lost \in Int
        /\ whole \in BOOLEAN /\ (whole => consumer # "reading" /\ pc = "over")
        /\ kind = "plain" => status = "running"
        /\ Len(queue) \in Nat /\ InOrder(queue, lastRead, lost)
    BY <1>0 DEF LedgerInv, LostInv, QueueInv, InOrder
  <1>2. CASE Idle \/ Deliver \/ PutNone \/ Crash
    BY <1>2 DEF Idle, Deliver, PutNone, Crash, ledger, marks
  <1>3. ASSUME NEW to \in DOMAIN Allowed \cup {"same"}, Number(to), Emittable(to),
               UNCHANGED <<lastRead, lost, whole>>, pc # "over",
               lost # -1 => lost = recorded /\ kind # "plain" /\ to = "waiting"
        PROVE  Stream!Happen
    <2>1. recorded' = recorded + 1
      BY <1>0, <1>3, EmitGives
    <2>2. status' \in Allowed[status] \cup {status}
      BY <1>3 DEF Number, StoreEvent, Emittable
    <2>3. Allowed[status] # {}
      <3>1. DOMAIN Allowed =
              {"pending", "running", "waiting", "completed", "failed", "cancelled"}
        BY DEF Allowed
      <3>2. status \notin Terminal
        BY <1>1, <1>3 DEF Emittable, Terminal
      <3>3. status \in {"pending", "running", "waiting"}
        BY <1>1, <3>1, <3>2 DEF Terminal
      <3> QED
        BY <3>3 DEF Allowed
    <2>4. lost # -1 => lost = recorded /\ status' = "waiting"
      BY <1>3 DEF Number, StoreEvent
    <2> QED
      BY <1>1, <1>3, <2>1, <2>2, <2>3, <2>4 DEF Stream!Happen, Stream!Over, Stream!Nothing
  <1>4. CASE Gives
    <2>1. PICK who \in {"run"} \cup Calls : \E to \in DOMAIN Allowed \cup {"same"} :
            Emit(who, to) /\ Emittable(to) /\ (pc = "waiting" => to = "waiting")
      BY <1>4 DEF Gives
    <2>2. PICK to \in DOMAIN Allowed \cup {"same"} :
            Emit(who, to) /\ Emittable(to) /\ (pc = "waiting" => to = "waiting")
      BY <2>1
    <2>3. UNCHANGED <<lastRead, lost, whole>> /\ pc # "over"
      BY <1>4 DEF Gives, Stopped
    <2>4. lost # -1 => lost = recorded /\ kind # "plain" /\ to = "waiting"
      BY <1>0, <1>4, <2>2 DEF Gives, Stopped, LostInv, Doubtful
    <2> QED
      BY <1>3, <2>2, <2>3, <2>4 DEF Emit, EmitUnlocked, Stream!StreamNext
  <1>5. CASE GivesNobody
    <2>1. PICK to \in DOMAIN Allowed \cup {"same"} : EmitUndelivered(to) /\ Emittable(to)
      BY <1>5 DEF GivesNobody
    <2>2. UNCHANGED <<lastRead, lost, whole>> /\ pc = "cancelled"
      BY <1>5 DEF GivesNobody
    <2>3. lost = -1
      BY <1>0, <2>2 DEF LostInv, Doubtful
    <2> QED
      BY <1>3, <2>1, <2>2, <2>3 DEF EmitUndelivered, Stream!StreamNext
  <1>6. CASE Read
    <2>1. /\ consumer = "reading" /\ queue # <<>> /\ UNCHANGED <<status, recorded, lost>>
          /\ IF Head(queue) = Done THEN whole' = TRUE /\ lastRead' = lastRead
             ELSE lastRead' = Head(queue) /\ whole' = whole
      BY <1>6 DEF Read, ledger, marks
    <2>2. ~whole
      BY <1>1, <2>1
    <2>3. IF Marked(queue) THEN Nth(lastRead, lost, Len(queue) - 1) = recorded
          ELSE Nth(lastRead, lost, Len(queue) + 1) <= recorded + 1
      BY <1>0 DEF QueueInv
    <2>4. CASE Head(queue) = Done
      <3>1. Marked(queue) /\ Len(queue) = 1
        BY <1>1, <2>1, <2>4, QueueIsRead
      <3>2. Nth(lastRead, lost, 0) = recorded
        BY <2>3, <3>1
      <3>3. lastRead = recorded
        BY <1>1, <3>2, NthIs
      <3>4. Stream!End
        BY <2>1, <2>2, <2>4, <3>3 DEF Stream!End
      <3> QED
        BY <3>4 DEF Stream!StreamNext
    <2>5. CASE Head(queue) # Done
      <3>1. /\ Len(Tail(queue)) = Len(queue) - 1 /\ Head(queue) = Nth(lastRead, lost, 1)
            /\ Marked(Tail(queue)) <=> Marked(queue)
            /\ InOrder(Tail(queue), Head(queue), lost)
        BY <1>1, <2>1, <2>5, QueueIsRead
      <3>2. Len(queue) > 0 /\ (Marked(queue) => Len(queue) - 1 > 0)
        <4>1. Marked(queue) => Len(Tail(queue)) > 0
          BY <1>1, <3>1, QueueIs DEF Marked
        <4> QED
          BY <1>1, <2>1, <3>1, <4>1, QueueIs
      <3>3. Nth(lastRead, lost, 1) <= recorded
        <4>1. CASE Marked(queue)
          <5>1. Nth(lastRead, lost, 1) <= Nth(lastRead, lost, Len(queue) - 1)
            <6>1. Len(queue) - 1 \in Int /\ 1 \in Int /\ 1 <= Len(queue) - 1
              BY <1>1, <3>2, <4>1
            <6> QED
              BY <1>1, <6>1, NthGrows
          <5> QED
            BY <2>3, <4>1, <5>1
        <4>2. CASE ~Marked(queue)
          <5>1. Nth(lastRead, lost, 1) < Nth(lastRead, lost, Len(queue) + 1)
            <6>1. Len(queue) + 1 \in Int /\ 1 \in Int /\ 1 < Len(queue) + 1
              BY <1>1, <3>2
            <6> QED
              BY <1>1, <6>1, NthGrows
          <5>2. /\ Nth(lastRead, lost, 1) \in Int
                /\ Nth(lastRead, lost, Len(queue) + 1) \in Int
            BY <1>1, NthIs
          <5> QED
            BY <1>1, <2>3, <4>2, <5>1, <5>2
        <4> QED
          BY <4>1, <4>2
      <3>4. Stream!NextGiven = Nth(lastRead, lost, 1)
        BY <1>1 DEF Stream!NextGiven, Nth
      <3>5. Stream!Give
        BY <2>1, <2>2, <2>5, <3>1, <3>3, <3>4 DEF Stream!Give
      <3> QED
        BY <3>5 DEF Stream!StreamNext
    <2> QED
      BY <2>4, <2>5
  <1>7. CASE Resume
    <2>1. /\ status \in {"running", "waiting"} /\ lastRead' = recorded /\ whole' = FALSE
          /\ lost' = -1 /\ UNCHANGED <<status, recorded>>
      BY <1>7 DEF Resume
    <2>2. Allowed[status] # {}
      BY <2>1 DEF Allowed
    <2> QED
      BY <2>1, <2>2 DEF Stream!GoOn, Stream!Over, Stream!Nothing, Stream!StreamNext
  <1>8. CASE Cancel
    <2>1. UNCHANGED <<lastRead, lost, whole>> /\ pc # "over"
      BY <1>8 DEF Cancel
    <2>2. CASE UNCHANGED ledger
      BY <2>1, <2>2 DEF ledger
    <2>3. CASE CutCommit /\ ~UNCHANGED ledger
      <3>1. PICK to \in {"running", "completed"} :
              /\ Number(to) /\ to = IF pc = "starting" THEN "running" ELSE "completed"
              /\ pc \in {"starting", "completing"}
        BY <2>3 DEF CutCommit
      <3>2. Emittable(to)
        BY <1>0, <3>1 DEF LedgerInv, Emittable, Terminal, Allowed
      <3>3. lost = -1 /\ to \in DOMAIN Allowed
        BY <1>0, <3>1 DEF LostInv, Doubtful, Allowed
      <3> QED
        BY <1>3, <2>1, <3>1, <3>2, <3>3 DEF Stream!StreamNext
    <2> QED
      BY <1>8, <2>2, <2>3 DEF Cancel, InterruptRun, InterruptTools, Swallowed, ledger
  <1>9. ASSUME NEW c \in Calls, Doubt(c)
        PROVE  Stream!StreamNext \/ UNCHANGED <<status, recorded, lastRead, lost, whole>>
    <2>1. /\ UNCHANGED <<lastRead, whole>> /\ pc = "tools" /\ lost = -1
          /\ status' = status /\ status = "running"
          /\ \/ lock = "free" /\ UNCHANGED <<lost, recorded>>
             \/ lock # "free" /\ lost' = held /\ recorded' = recorded
             \/ /\ lock = "free" /\ recorded' = recorded + 1
                /\ lost' = IF streaming THEN recorded + 1 ELSE lost
      BY <1>0, <1>9, DoubtLoses
    <2>2. ~whole /\ Allowed[status] # {} /\ status \in Allowed[status] \cup {status}
      BY <1>1, <2>1 DEF Allowed
    <2>3. CASE lost' = lost /\ recorded' = recorded
      BY <2>1, <2>3
    <2>4. CASE lost' = lost /\ recorded' = recorded + 1
      <3>1. Stream!Happen
        BY <2>1, <2>2, <2>4 DEF Stream!Happen, Stream!Over, Stream!Nothing
      <3> QED
        BY <3>1 DEF Stream!StreamNext
    <2>5. CASE lost' # lost
      <3>1. /\ lastRead + (Len(queue) + 1) <= Nth(lastRead, lost, Len(queue) + 1)
            /\ Nth(lastRead, lost, Len(queue) + 1) \in Int
        BY <1>1, NthIs
      <3>2. lost' = recorded' /\ recorded' \in {recorded, recorded + 1}
            /\ Nth(lastRead, lost, Len(queue) + 1) = recorded'
        <4>1. CASE lock # "free" /\ lost' = held /\ recorded' = recorded
          BY <1>0, <4>1 DEF QueueInv
        <4>2. CASE lock = "free" /\ recorded' = recorded + 1 /\ streaming /\ lost' = recorded + 1
          <5>1. cancels = 0
            BY <1>0, <2>1 DEF CancelInv, Stopped, ControlInv
          <5> QED
            BY <1>0, <2>1, <4>2, <5>1 DEF QueueInv
        <4> QED
          BY <2>1, <2>5, <4>1, <4>2
      <3>3. lastRead < recorded'
        BY <1>1, <3>1, <3>2
      <3>4. Stream!Lose
        BY <2>1, <2>2, <3>2, <3>3 DEF Stream!Lose, Stream!Over, Stream!Nothing
      <3> QED
        BY <3>4 DEF Stream!StreamNext
    <2> QED
      BY <1>1, <2>1, <2>3, <2>4, <2>5
  <1> QED
    BY <1>0, <1>2, <1>4, <1>5, <1>6, <1>7, <1>8, <1>9, StepsOfChannel

\* A run promises its reader what the abstract stream does: every event with
\* its change of status, once, in order and none left out before the end, but
\* for one directly before the suspension.
THEOREM StreamImplemented == Spec => ImplementsStream
PROOF
  <1>1. Init => Stream!StreamInit
    <2> SUFFICES ASSUME Init
        PROVE  Stream!StreamInit
      OBVIOUS
    <2>1. /\ status = IF kind = "plain" THEN "running" ELSE "pending"
          /\ nextSeq \in {0, 1} /\ recorded = nextSeq - 1 /\ lastRead = recorded
          /\ lost = -1 /\ whole = FALSE
      BY DEF Init, CreateTransition
    <2>2. recorded \in {-1, 0}
      BY <2>1
    <2>3. status \in DOMAIN Allowed /\ Allowed[status] # {}
      BY <2>1 DEF Allowed
    <2> QED
      BY <2>1, <2>2, <2>3 DEF Stream!StreamInit, Stream!Over, Stream!Nothing
  <1>2. RunInv /\ [Next]_vars =>
          [Stream!StreamNext]_<<status, recorded, lastRead, lost, whole>>
    BY StreamSteps
  <1> QED
    BY <1>1, <1>2, RunAlways, PTL DEF Spec, ImplementsStream, Stream!StreamSpec

\* However the calls, the results and the resumptions fill the history, what
\* the model is asked with fits, in whole groups, by counts that are right.
THEOREM PromptsFit == Spec => []PromptFits
PROOF
  <1>1. RunInv => PromptFits
    BY PromptIs DEF RunInv
  <1> QED
    BY <1>1, RunAlways, PTL

\* Every part stays what it is, the buffers, the queue and the sleeps within
\* their bounds.
THEOREM StreamTypeOK == Spec => []TypeOK
PROOF
  <1>1. RunInv => TypeOK
    <2> SUFFICES ASSUME RunInv
        PROVE  TypeOK
      OBVIOUS
    <2>1. SinkTypeOK
      <3>1. BufferOK(buffer, offset) /\ TableOK(tracked) /\ topic \in Topics
            /\ cursor \in Nat \cup {-1}
        BY DEF RunInv, SinkInv
      <3>2. DOMAIN buffer = 1 .. Len(buffer) /\ DOMAIN tracked = 1 .. Len(tracked)
        BY <3>1 DEF BufferOK, TableOK
      <3> QED
        BY <3>1, <3>2 DEF SinkTypeOK, BufferOK, TableOK
    <2>2. HistoryTypeOK
      <3>1. Formed(messages) /\ DOMAIN cache \subseteq AddressesOf(messages)
        BY DEF RunInv, HistoryInv
      <3>2. DOMAIN messages = 1 .. Len(messages)
        BY <3>1 DEF Formed
      <3> QED
        BY <3>1, <3>2 DEF HistoryTypeOK, Formed
    <2>3. ClientTypeOK /\ SandboxTypeOK
      BY DEF RunInv, ClientInv, SandboxInv
    <2>4. status \in DOMAIN Allowed
      BY DEF RunInv, LedgerInv
    <2>5. Len(queue) <= StreamBuffer /\ consumer \in {"reading", "closing", "done"}
      BY DEF RunInv, QueueInv
    <2>6. /\ lock \in {"free", "run"} \cup Calls
          /\ task \in [Calls -> TaskStates]
          /\ thread \in {"none", "awaited", "dying"} /\ loose \in BOOLEAN
      BY DEF RunInv, LockInv
    <2>7. iteration \in 0 .. MaxIterations /\ pending \subseteq Calls
      BY DEF RunInv, ControlInv
    <2> QED
      BY <2>1, <2>2, <2>3, <2>4, <2>5, <2>6, <2>7 DEF TypeOK, TaskStates
  <1> QED
    BY <1>1, RunAlways, PTL

=============================================================================
