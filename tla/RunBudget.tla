----------------------------- MODULE RunBudget ------------------------------
(***************************************************************************)
(* The budget of one durable run: the ledger of governance/budget.py as    *)
(* persistence/execution.py persists it (JournalBudget), driven by the     *)
(* budgeted model client and by the dispatch of tools.  An attempt         *)
(* reserves one call in memory, writes consumed plus reserved to the       *)
(* durable floor, acts, settles in memory and writes again; an execution   *)
(* may end or die at any of these awaits, and the next one starts from     *)
(* the floor.  Writing holds the ledger's lock, so what it writes is what  *)
(* the ledger holds when it commits.                                       *)
(***************************************************************************)
EXTENDS Integers, FiniteSets

CONSTANTS
  Attempts,    \* reservation keys that may be outstanding at once
  Limit,       \* BudgetLimit: model_calls, tool_calls and tokens
  MaxUsage     \* bound: tokens the provider reports for one call

Calls == {"model_calls", "tool_calls"}
Fields == Calls \cup {"tokens"}
Models == {"generate", "stream"}
Kinds == Models \cup {"tool"}

ASSUME BudgetAssumption ==
  /\ IsFiniteSet(Attempts)
  /\ Limit \in [Fields -> Nat]
  /\ MaxUsage \in Nat

VARIABLES
  phase,     \* the execution: "down", "up", or "closing" once a model failed
  consumed,  \* BudgetLedger._consumed
  floor,     \* executions.budget
  kind,      \* what an attempt is, for as long as it is not free
  step,      \* how far an attempt has come
  made       \* history: external calls made, over all executions

vars == <<phase, consumed, floor, kind, step, made>>

Phases == {"down", "up", "closing"}
Outstanding == {"held", "saved", "called", "flowing"}
Steps == Outstanding \cup {"free", "refused", "settled"}

CallOf(k) == IF k = "tool" THEN "tool_calls" ELSE "model_calls"

-----------------------------------------------------------------------------
(* BudgetLedger.  PersistConsumed, AdmitsCallsOnly and ResumeEmpty are      *)
(* plausible mistakes in the definition after them, kept to show that the   *)
(* properties notice; no action uses them.                                  *)

\* _reserved_totals: every reservation asks for one call and no tokens.
Holds(f) == {a \in Attempts : step[a] \in Outstanding /\ CallOf(kind[a]) = f}

Reserved(f) == IF f \in Calls THEN Cardinality(Holds(f)) ELSE 0

Fits(f, amount) == consumed[f] + Reserved(f) + amount <= Limit[f]

Asked(k, f) == IF f = CallOf(k) THEN 1 ELSE 0

AdmitsCallsOnly(k) == Fits(CallOf(k), 1)

\* reserve tests every field, those the amount does not touch included.
Admits(k) == \A f \in Fields : Fits(f, Asked(k, f))

\* What settle adds: the call, and the tokens the provider reported.
Spend(k, tokens) ==
  consumed' = [consumed EXCEPT ![CallOf(k)] = @ + 1, !["tokens"] = @ + tokens]

\* SQLiteStore.budget keeps the maximum of what it holds and what is written.
Larger(m, n) == IF m >= n THEN m ELSE n

PersistConsumed ==
  floor' = [f \in Fields |-> Larger(floor[f], consumed[f])]

Persist ==
  floor' = [f \in Fields |-> Larger(floor[f], consumed[f] + Reserved(f))]

-----------------------------------------------------------------------------
(* One attempt.                                                            *)

Goto(a, s) == step' = [step EXCEPT ![a] = s]

Free == [a \in Attempts |-> "free"]

Busy(S) == \E a \in Attempts : step[a] # "free" /\ kind[a] \in S

\* The loop asks the model only between tool calls, one turn at a time.
Turn(k) == IF k = "tool" THEN ~Busy(Models) ELSE ~Busy(Kinds)

Reserve(a, k) ==
  /\ phase = "up" /\ step[a] = "free"
  /\ Turn(k)
  /\ Admits(k)
  /\ kind' = [kind EXCEPT ![a] = k]
  /\ Goto(a, "held")
  /\ UNCHANGED <<phase, consumed, floor, made>>

\* BudgetExceeded.
Exceed(a, k) ==
  /\ phase = "up" /\ step[a] = "free"
  /\ Turn(k)
  /\ ~Admits(k)
  /\ kind' = [kind EXCEPT ![a] = k]
  /\ Goto(a, "refused")
  /\ UNCHANGED <<phase, consumed, floor, made>>

PersistReserve(a) ==
  /\ step[a] = "held"
  /\ Persist
  /\ Goto(a, "saved")
  /\ UNCHANGED <<phase, consumed, kind, made>>

\* An exception of an attempt: a tool's is told to the model, the model's own
\* leaves the loop, and with it the execution.
Raise(a) ==
  /\ Goto(a, "free")
  /\ phase' = IF kind[a] = "tool" THEN phase ELSE "closing"
  /\ UNCHANGED <<consumed, floor, kind, made>>

Refuse(a) == step[a] = "refused" /\ Raise(a)

PersistReserveFails(a) == step[a] = "held" /\ Raise(a)

\* The approval or the receipt fails: the tool was not called, release.
Withhold(a) == step[a] = "saved" /\ kind[a] = "tool" /\ Raise(a)

Call(a) ==
  /\ step[a] = "saved"
  /\ Goto(a, "called")
  /\ made' = [made EXCEPT ![CallOf(kind[a])] = @ + 1]
  /\ UNCHANGED <<phase, consumed, floor, kind>>

Chunk(a) ==
  /\ step[a] = "called" /\ kind[a] = "stream"
  /\ Goto(a, "flowing")
  /\ UNCHANGED <<phase, consumed, floor, kind, made>>

\* A tool is charged whatever it did, a stream on every exit path.
Settle(a, tokens) ==
  /\ step[a] \in {"called", "flowing"}
  /\ step[a] = "called" /\ kind[a] # "generate" => tokens = 0
  /\ Spend(kind[a], tokens)
  /\ Goto(a, "settled")
  /\ UNCHANGED <<phase, floor, kind, made>>

\* generate releases what it reserved when the provider's call raises.
Refund(a) == step[a] = "called" /\ kind[a] = "generate" /\ Raise(a)

PersistSettle(a) ==
  /\ step[a] = "settled"
  /\ Persist
  /\ Goto(a, "free")
  /\ UNCHANGED <<phase, consumed, kind, made>>

PersistSettleFails(a) == step[a] = "settled" /\ Raise(a)

-----------------------------------------------------------------------------
(* Executions.                                                             *)

\* The run is suspended, fails, completes or is cancelled, or the process
\* dies: the ledger is forgotten with whatever it held.
Stop ==
  /\ phase # "down"
  /\ phase' = "down"
  /\ step' = Free
  /\ UNCHANGED <<consumed, floor, kind, made>>

ResumeEmpty ==
  /\ phase = "down"
  /\ phase' = "up"
  /\ consumed' = [f \in Fields |-> 0]
  /\ UNCHANGED <<floor, kind, step, made>>

\* JournalBudget starts from what the store holds.
Resume ==
  /\ phase = "down"
  /\ phase' = "up"
  /\ consumed' = floor
  /\ UNCHANGED <<floor, kind, step, made>>

Init ==
  /\ phase = "down"
  /\ consumed = [f \in Fields |-> 0]
  /\ floor = [f \in Fields |-> 0]
  /\ kind = [a \in Attempts |-> "tool"]
  /\ step = Free
  /\ made = [f \in Calls |-> 0]

Attempt(a) ==
  \/ \E k \in Kinds : Reserve(a, k) \/ Exceed(a, k)
  \/ Refuse(a) \/ PersistReserve(a) \/ PersistReserveFails(a) \/ Withhold(a)
  \/ Call(a) \/ Chunk(a) \/ Refund(a)
  \/ \E tokens \in 0 .. MaxUsage : Settle(a, tokens)
  \/ PersistSettle(a) \/ PersistSettleFails(a)

Next ==
  \/ \E a \in Attempts : Attempt(a)
  \/ Stop \/ Resume

Spec == Init /\ [][Next]_vars

-----------------------------------------------------------------------------
\* Every variable holds a value of the kind its declaration names.
TypeOK ==
  /\ phase \in Phases
  /\ consumed \in [Fields -> Nat]
  /\ floor \in [Fields -> Nat]
  /\ kind \in [Attempts -> Kinds]
  /\ step \in [Attempts -> Steps]
  /\ made \in [Calls -> Nat]

\* Every call made is in the durable floor by then, so no crash between a
\* reservation, the call and its settlement lets a resume have it back
\* (_persist, "before external dispatch").
CallsCovered == \A f \in Calls : made[f] <= floor[f]

\* Over all executions of the run, however they end, the model is called and
\* tools are invoked no more often than the limit says.
CallsWithinLimit == \A f \in Calls : made[f] <= Limit[f]

\* Tokens are known only afterwards: the budget is exceeded by at most the one
\* call that was under way, because calls of the model do not overlap.
TokensOvershoot == consumed["tokens"] <= Limit["tokens"] + MaxUsage

=============================================================================
