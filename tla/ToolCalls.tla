----------------------------- MODULE ToolCalls ------------------------------
(***************************************************************************)
(* The tool boundary of a run without a journal (loop/_execute.py): one    *)
(* turn's calls, checked for approvals, then run side by side under the    *)
(* policy, the approval store and the idempotency store.  The turn may be  *)
(* executed several times (a batch is one call of _execute_tools): again   *)
(* after an approval, after a cancellation, or while an earlier execution  *)
(* is still at work.  Between the policy's answer and the wait for a slot, *)
(* and between the slot and the tool, the in-memory stores and the budget  *)
(* never suspend, so each of these stretches is one action.                *)
(***************************************************************************)
EXTENDS IdempotencyStore, ApprovalStore

CONSTANTS
  Batches,       \* executions of the turn that may be under way at once
  Calls,         \* its calls in order: 1 .. n
  Malformed,     \* calls of unknown tools or with invalid arguments
  Unscoped,      \* calls whose scopes the principal lacks
  Risky,         \* calls of high risk or with irreversible effects
  Gated,         \* calls of tools that require an approval themselves
  ProposalOf,    \* the proposal digest of each call
  MaxParallel,   \* max_parallel_tools
  MaxBegun       \* bound: executions of the turn, one after the other or not

ASSUME TurnAssumption ==
  /\ Calls = 1 .. Cardinality(Calls) /\ IsFiniteSet(Calls)
  /\ Keys \cup Malformed \cup Unscoped \cup Risky \cup Gated \subseteq Calls
  /\ ProposalOf \in [Calls -> Proposals]
  /\ \A c, d \in Calls : ProposalOf[c] = ProposalOf[d] =>
       \A S \in {Unscoped, Risky, Gated} : c \in S <=> d \in S
  /\ MaxParallel \in Nat \ {0} /\ MaxBegun \in Nat

VARIABLES
  begun,    \* executions begun so far
  phase,    \* where a batch is in _execute_tools
  cursor,   \* the call its preflight is at
  asks,     \* whether its preflight found an approval to wait for
  step,     \* the progress of each of its calls
  grant,    \* the approval each of them means to consume, 0 if none
  ran,       \* history: times each call's function was started
  unclaimed  \* history: those of its starts that found no unused claim

turn == <<begun, phase, cursor, asks, step, grant>>
starts == <<ran, unclaimed>>
vars == <<store, desk, turn, starts>>

Phases == {"idle", "checking", "running", "stopping"}
\* Answered: from a receipt, with the tool's result or with an error payload.
Ended == {"answered", "asked", "raised"}
Steps == {"todo", "queued", "acting"} \cup Ended

TypeOK ==
  /\ StoreTypeOK /\ DeskTypeOK
  /\ begun \in 0 .. MaxBegun
  /\ phase \in [Batches -> Phases]
  /\ cursor \in [Batches -> 1 .. Cardinality(Calls) + 1]
  /\ asks \in [Batches -> BOOLEAN]
  /\ step \in [Batches -> [Calls -> Steps]]
  /\ grant \in [Batches -> [Calls -> 0 .. created]]
  /\ {ran, unclaimed} \subseteq [Calls -> Nat]
  /\ \A b \in Batches :
       Cardinality({c \in Calls : step[b][c] \in {"queued", "acting"}})
         <= MaxParallel

NewBatch == [c \in Calls |-> "todo"]
NoGrants == [c \in Calls |-> 0]

Init ==
  /\ StoreInit /\ DeskInit
  /\ begun = 0
  /\ phase = [b \in Batches |-> "idle"]
  /\ cursor = [b \in Batches |-> 1]
  /\ asks = [b \in Batches |-> FALSE]
  /\ step = [b \in Batches |-> NewBatch]
  /\ grant = [b \in Batches |-> NoGrants]
  /\ ran = [c \in Calls |-> 0]
  /\ unclaimed = [c \in Calls |-> 0]

Move(b, c, s) == step' = [step EXCEPT ![b][c] = s]

-----------------------------------------------------------------------------
(* What a call is allowed.                                                 *)

\* _tool_arguments: JSON of the declared shape, short enough, for a known tool.
Usable(c) == c \notin Malformed

\* LeastPrivilegePolicy.evaluate
LeastPrivilege(c) ==
  IF c \in Unscoped THEN "deny"
  ELSE IF c \in Risky THEN "require_approval" ELSE "allow"

\* CompositePolicy.evaluate: a denial first, then an approval.
Compose(decisions) ==
  IF "deny" \in decisions THEN "deny"
  ELSE IF "require_approval" \in decisions THEN "require_approval" ELSE "allow"

\* Beside the least privilege, a policy of the application that may change.
Decisions(c) == {Compose({LeastPrivilege(c), d}) : d \in {"allow", "deny"}}

NeedsApproval(c, decision) == decision = "require_approval" \/ c \in Gated

\* _resolve_approval: what the call's proposal has come to.
Resolution(c, decision) ==
  LET request == Find(ProposalOf[c])
  IN  IF ~NeedsApproval(c, decision) THEN "free"
      ELSE IF request.status \in {"none", "consumed"}
           THEN IF HasSpace THEN "create" ELSE "full"
           ELSE request.status

\* It asks: for a request that waits, or for a new one.
Asks(c, decision) == Resolution(c, decision) \in {"create", "pending"}

File(c, decision) ==
  IF Resolution(c, decision) = "create" THEN Create(ProposalOf[c])
                                        ELSE UNCHANGED desk

AnsweredBefore(c) ==
  c \in Keys /\ FreshReceipt(receipts, c).status = "completed"

\* get drops a receipt that has expired.
Look(c) == IF c \in Keys THEN Keep(Got(receipts, c))
                         ELSE UNCHANGED table

-----------------------------------------------------------------------------
(* A batch, from the preflight to the end of its task group.               *)

Start(b) ==
  /\ phase[b] = "idle"
  /\ begun < MaxBegun /\ begun' = begun + 1
  /\ phase' = [phase EXCEPT ![b] = "checking"]
  /\ UNCHANGED <<store, desk, cursor, asks, step, grant, starts>>

\* It returns or raises.
Leave(b) ==
  /\ phase' = [phase EXCEPT ![b] = "idle"]
  /\ cursor' = [cursor EXCEPT ![b] = 1]
  /\ asks' = [asks EXCEPT ![b] = FALSE]
  /\ step' = [step EXCEPT ![b] = NewBatch]
  /\ grant' = [grant EXCEPT ![b] = NoGrants]

\* The preflight goes on to the next call.
Advance(b, found) ==
  /\ cursor' = [cursor EXCEPT ![b] = @ + 1]
  /\ asks' = [asks EXCEPT ![b] = @ \/ found]
  /\ UNCHANGED <<phase, step, grant>>

\* One call of the preflight, at the verdict d of the policy.  A RuntimeError
\* of the approval store is not caught here.
Inspect(b, c, d) ==
  IF ~Usable(c) \/ d = "deny"
  THEN Advance(b, FALSE) /\ UNCHANGED <<table, desk>>
  ELSE /\ Look(c)
       /\ IF AnsweredBefore(c)
          THEN Advance(b, FALSE) /\ UNCHANGED desk
          ELSE /\ File(c, d)
               /\ IF Resolution(c, d) = "full" THEN Leave(b)
                                              ELSE Advance(b, Asks(c, d))

Preflight(b) ==
  /\ phase[b] = "checking" /\ cursor[b] \in Calls
  /\ \E d \in Decisions(cursor[b]) : Inspect(b, cursor[b], d)
  /\ UNCHANGED <<now, begun, starts>>

\* ApprovalRequiredGroup before anything is dispatched, or the task group.
Dispatch(b) ==
  /\ phase[b] = "checking" /\ cursor[b] \notin Calls
  /\ IF asks[b] THEN Leave(b)
     ELSE /\ phase' = [phase EXCEPT ![b] = "running"]
          /\ UNCHANGED <<cursor, asks, step, grant>>
  /\ UNCHANGED <<store, desk, begun, starts>>

\* Every task has ended: results, or ApprovalRequiredGroup, or the error.
Join(b) ==
  /\ phase[b] \in {"running", "stopping"}
  /\ \A c \in Calls : step[b][c] \in Ended
  /\ Leave(b)
  /\ UNCHANGED <<store, desk, begun, starts>>

\* The consumer cancels the run.
Cancel(b) ==
  /\ \/ phase[b] = "checking" /\ Leave(b)
     \/ /\ phase[b] = "running"
        /\ phase' = [phase EXCEPT ![b] = "stopping"]
        /\ UNCHANGED <<cursor, asks, step, grant>>
  /\ UNCHANGED <<store, desk, begun, starts>>

\* An exception leaves a task: the group cancels the others.
Escape(b, c) ==
  /\ Move(b, c, "raised")
  /\ phase' = [phase EXCEPT ![b] = "stopping"]
  /\ UNCHANGED <<begun, cursor, asks>>

End(b, c, s) == Move(b, c, s) /\ UNCHANGED <<begun, phase, cursor, asks>>

-----------------------------------------------------------------------------
(* One call of a batch: _execute_single_tool.                              *)

InFlight(b) == {c \in Calls : step[b][c] \in {"queued", "acting"}}

\* It has its place among max_parallel_tools.
Begins(b, c) ==
  /\ phase[b] = "running" /\ step[b][c] = "todo"
  /\ Cardinality(InFlight(b)) < MaxParallel

\* on_tool_event raises at tool_start, or at tool_result.
HookRaises(b, c) ==
  /\ \/ Begins(b, c)
     \/ phase[b] = "running" /\ step[b][c] = "answered"
  /\ Escape(b, c)
  /\ UNCHANGED <<store, desk, grant, starts>>

\* An unknown tool, invalid arguments or a denial.
Refuse(b, c) ==
  /\ Begins(b, c)
  /\ ~Usable(c) \/ "deny" \in Decisions(c)
  /\ End(b, c, "answered")
  /\ UNCHANGED <<store, desk, grant, starts>>

\* _check_governance after the policy: receipt, approval, claim.
AnswerFromReceipt(b, c) ==
  /\ AnsweredBefore(c)
  /\ End(b, c, "answered")
  /\ UNCHANGED <<table, desk, grant>>

AskFirst(b, c, d) ==
  /\ Asks(c, d)
  /\ File(c, d) /\ Look(c)
  /\ End(b, c, "asked")
  /\ UNCHANGED grant

\* Rejected, no room for a request or a receipt, or already claimed.
Blocked(c, d) ==
  \/ Resolution(c, d) \in {"rejected", "full"}
  \/ c \in Keys /\ ~(MayClaim(receipts, c) /\ HasRoom(Without(receipts, c), c))

TurnAway(b, c, d) ==
  /\ ~Asks(c, d) /\ Blocked(c, d)
  /\ Look(c)
  /\ End(b, c, "answered")
  /\ UNCHANGED <<desk, grant>>

ClaimAndQueue(b, c, d) ==
  /\ ~Asks(c, d) /\ ~Blocked(c, d)
  /\ IF c \in Keys THEN KeepClaim(Claimed(receipts, c), c)
                   ELSE UNCHANGED table
  /\ End(b, c, "queued")
  /\ grant' = [grant EXCEPT ![b][c] =
                 IF NeedsApproval(c, d) THEN Find(ProposalOf[c]).id ELSE 0]
  /\ UNCHANGED desk

Govern(b, c) ==
  /\ Begins(b, c) /\ Usable(c)
  /\ \E d \in Decisions(c) \ {"deny"} :
       \/ AnswerFromReceipt(b, c)
       \/ /\ ~AnsweredBefore(c)
          /\ AskFirst(b, c, d) \/ TurnAway(b, c, d) \/ ClaimAndQueue(b, c, d)
  /\ UNCHANGED <<now, starts>>

\* The claim of a call that never started is given back.
GiveBack(c) == IF c \in Keys THEN Expire(c) ELSE UNCHANGED table

\* The slot timed out, the budget is exhausted or the approval is used up.
FailUnstarted(b, c) ==
  /\ phase[b] = "running" /\ step[b][c] = "queued"
  /\ GiveBack(c)
  /\ End(b, c, "answered")
  /\ UNCHANGED <<now, desk, grant, starts>>

UseGrant(b, c) ==
  IF grant[b][c] = 0 THEN UNCHANGED desk ELSE Consume(grant[b][c])

\* Slots, gate and lock are taken: the approval is used, the tool starts.
Invoke(b, c) ==
  /\ phase[b] = "running" /\ step[b][c] = "queued"
  /\ UseGrant(b, c)
  /\ End(b, c, "acting")
  /\ ran' = [ran EXCEPT ![c] = @ + 1]
  /\ unclaimed' = [unclaimed EXCEPT ![c] = @ + IF c \in unused THEN 0 ELSE 1]
  /\ unused' = unused \ {c}
  /\ UNCHANGED <<now, receipts, forgotten, lapsed, taken, grant>>

\* The result is saved as the receipt; when there is no room for it there is
\* none for the unknown outcome either, and the error leaves the handler.
Settle(b, c, status, outcome) ==
  IF c \notin Keys
  THEN End(b, c, outcome) /\ UNCHANGED table
  ELSE IF SaveRaises(receipts, c)
  THEN Escape(b, c) /\ UNCHANGED table
  ELSE End(b, c, outcome) /\ KeepResult(Saved(receipts, c, status), c)

Return(b, c) ==
  /\ phase[b] = "running" /\ step[b][c] = "acting"
  /\ Settle(b, c, "completed", "answered")
  /\ UNCHANGED <<now, desk, grant, starts>>

\* It raised, timed out or returned what its schema does not allow.
Fail(b, c) ==
  /\ phase[b] = "running" /\ step[b][c] = "acting"
  /\ Settle(b, c, "unknown", "answered")
  /\ UNCHANGED <<now, desk, grant, starts>>

\* CancelledError leaves the claim where it is.
StopLeavingClaim(b, c) ==
  /\ phase[b] = "stopping" /\ step[b][c] \notin Ended
  /\ IF step[b][c] = "acting" THEN Settle(b, c, "unknown", "raised")
     ELSE End(b, c, "raised") /\ UNCHANGED table
  /\ UNCHANGED <<now, desk, grant, starts>>

\* CancelledError in a task.
Stop(b, c) ==
  /\ phase[b] = "stopping" /\ step[b][c] \notin Ended
  /\ CASE step[b][c] = "todo" ->
            End(b, c, "raised") /\ UNCHANGED table
       [] step[b][c] = "queued" -> End(b, c, "raised") /\ GiveBack(c)
       [] step[b][c] = "acting" -> Settle(b, c, "unknown", "raised")
  /\ UNCHANGED <<now, desk, grant, starts>>

-----------------------------------------------------------------------------
Work(b) ==
  \/ Preflight(b) \/ Dispatch(b) \/ Join(b)
  \/ \E c \in Calls : \/ Refuse(b, c) \/ Govern(b, c) \/ FailUnstarted(b, c)
                      \/ Invoke(b, c) \/ Return(b, c) \/ Fail(b, c) \/ Stop(b, c)

Next ==
  \/ \E b \in Batches : \/ Start(b) \/ Cancel(b) \/ Work(b)
                        \/ \E c \in Calls : HookRaises(b, c)
  \/ Decide /\ UNCHANGED <<store, turn, starts>>
  \/ (Tick \/ PurgeExpired) /\ UNCHANGED <<desk, turn, starts>>

Spec == Init /\ [][Next]_vars

-----------------------------------------------------------------------------
(* Properties.                                                             *)

\* A call of an idempotent tool acts again only for a cause, one repeat for
\* each: a receipt of a start was lost to a lifetime or to the store's
\* capacity, another execution that gave up expired it, or the repeat's own
\* claim was gone when it started.  However executions overlap, give up,
\* fail or are cancelled, the repeats are never more than the receipts lost to
\* a lifetime or to the capacity, and an execution that gives up expires the
\* receipt of another only where one was lost so before.
RepeatOnlyIfForgotten ==
  \A c \in Keys :
    /\ ran[c] <= 1 + (forgotten[c] - lapsed[c]) + taken[c] + unclaimed[c]
    /\ ran[c] <= 1 + forgotten[c]
    /\ taken[c] > 0 => forgotten[c] > 0

\* A pending receipt belongs to a call that is on its way: whatever ends the
\* call (a full queue, a used-up approval, a failure, a cancellation, the
\* failure of a sibling), its claim does not block the next execution.
ClaimsAreHeld ==
  \A n \in DOMAIN receipts :
    receipts[n].status = "pending" =>
      \E b \in Batches : step[b][receipts[n].key] \in {"queued", "acting"}

Starts(p) ==
  Total([c \in Calls |-> IF c \in Gated \cup Risky /\ ProposalOf[c] = p
                         THEN ran[c] ELSE 0],
        Cardinality(Calls))

\* Every start of a call that needs an approval has an approval of its own,
\* though executions and calls that propose the same may find the same one.
ApprovalsCover == \A p \in Proposals : Starts(p) <= granted[p]

\* A proposal has at most one live request, and it is the one find returns,
\* whatever was created, decided, consumed and evicted around it: a reviewer
\* never decides on a request the boundary does not look at.
LiveRequestIsFound ==
  \A n \in DOMAIN approvals :
    approvals[n].status \in LiveStatus =>
      Find(approvals[n].proposal) = approvals[n]
=============================================================================
