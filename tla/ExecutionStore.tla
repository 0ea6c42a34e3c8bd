--------------------------- MODULE ExecutionStore ---------------------------
(***************************************************************************)
(* The durable tables one run owns in persistence/sqlite.py, and the       *)
(* transactions over them.  Every transaction of SQLiteStore._call is one  *)
(* BEGIN IMMEDIATE ... COMMIT, so each is one action here: its guard holds *)
(* when the transaction commits, and when the guard is false the code      *)
(* raises and rolls back.  A transaction names the values of all six       *)
(* variables, so a component that calls it adds only its own.              *)
(***************************************************************************)
EXTENDS Naturals, Sequences

CONSTANTS
  Workers,    \* executions that may own the run; an owner is uuid4().hex
  Calls,      \* provider call identifiers the model may use in a turn
  Proposals,  \* proposal digests: a tool name with canonical arguments
  MaxTurns,   \* max_iterations of the loop, recorded in the snapshot
  NoRow,      \* no row of the executions table for the run
  Free        \* the row's owner is NULL

ASSUME StoreAssumption ==
  /\ MaxTurns \in Nat \ {0}
  /\ NoRow \notin Workers
  /\ Free \notin Workers
  /\ NoRow # Free

VARIABLES
  status,     \* runs.data.status, "absent" before the row is created
  version,    \* runs.version
  owner,      \* executions.owner
  snapshot,   \* executions.snapshot, its "loop" part
  receipt,    \* actions.status by invocation, "absent" when there is no row
  requests    \* approvals of the run, in rowid order

tables == <<status, version, owner, snapshot, receipt, requests>>

Turns == 1 .. MaxTurns
Invocations == Turns \X Calls      \* f"{turn_id}:{tc_id}"

RunStatus == {"absent", "pending", "running", "waiting",
              "completed", "failed", "cancelled"}
Terminal == {"completed", "failed", "cancelled"}
ReceiptStatus == {"absent", "started", "completed"}
ApprovalStatus == {"pending", "approved", "rejected", "consumed"}
Request == [proposal : Proposals, status : ApprovalStatus]

\* The part of LoopCheckpoint that decides what a resumed loop does.
Loops == [turn : 0 .. MaxTurns, pending : SUBSET Calls, final : BOOLEAN]
FreshLoop == [turn |-> 0, pending |-> {}, final |-> FALSE]

(***************************************************************************)
(* An operator whose name ends in a fault (Stale, Shared, Owned, ...) is   *)
(* a plausible mistake in the definition after it, kept to show that the   *)
(* properties notice; no action uses it.                                   *)
(***************************************************************************)

(***************************************************************************)
(* Runs: _update, create_transition and commit_transition.                 *)
(***************************************************************************)
CreateTransition ==
  /\ status = "absent"
  /\ status' = "pending"
  /\ version' = 0
  /\ UNCHANGED <<owner, snapshot, receipt, requests>>

UpdatableStale(expected) == status # "absent"

Updatable(expected) ==
  /\ status # "absent"
  /\ version = expected
  /\ status \notin Terminal

CommitTransition(expected, target) ==
  /\ Updatable(expected)
  /\ status' = target
  /\ version' = expected + 1
  /\ UNCHANGED <<owner, snapshot, receipt, requests>>

(***************************************************************************)
(* Executions: one owner at a time, and a snapshot only the owner writes.  *)
(***************************************************************************)
OpenNew(w, first) ==
  /\ owner = NoRow
  /\ owner' = w
  /\ snapshot' = first
  /\ UNCHANGED <<status, version, receipt, requests>>

OpenExistingShared(w) ==
  /\ owner # NoRow
  /\ owner' = w
  /\ UNCHANGED <<status, version, snapshot, receipt, requests>>

OpenExisting(w) ==
  /\ owner = Free
  /\ owner' = w
  /\ UNCHANGED <<status, version, snapshot, receipt, requests>>

Owns(w) == owner = w

SnapshotExecution(w, next) ==
  /\ Owns(w)
  /\ snapshot' = next
  /\ UNCHANGED <<status, version, owner, receipt, requests>>

ReleaseExecution(w) ==
  /\ Owns(w)
  /\ owner' = Free
  /\ UNCHANGED <<status, version, snapshot, receipt, requests>>

RecoverExecutionIdle(expected) ==
  /\ owner = Free
  /\ UNCHANGED tables

RecoverExecution(expected) ==
  /\ Owns(expected)
  /\ owner' = Free
  /\ UNCHANGED <<status, version, snapshot, receipt, requests>>

(***************************************************************************)
(* Actions: the receipts of external invocations.                          *)
(***************************************************************************)
Receipt(i, s) ==
  /\ receipt' = [receipt EXCEPT ![i] = s]
  /\ UNCHANGED <<status, version, owner, snapshot, requests>>

StartAction(w, i) ==
  /\ Owns(w)
  /\ receipt[i] = "absent"
  /\ Receipt(i, "started")

CompleteAction(w, i) ==
  /\ Owns(w)
  /\ receipt[i] = "started"
  /\ Receipt(i, "completed")

ReconcileActionOwned(i, notExecuted) ==
  /\ receipt[i] = "started"
  /\ Receipt(i, IF notExecuted THEN "absent" ELSE "completed")

ReconcileAction(i, notExecuted) ==
  /\ owner = Free
  /\ receipt[i] = "started"
  /\ Receipt(i, IF notExecuted THEN "absent" ELSE "completed")

Unresolved == \E i \in Invocations : receipt[i] = "started"

(***************************************************************************)
(* Approvals: SQLiteApprovalStore.  The loop creates requests without an   *)
(* expiry, so the expiry guard of _transition never bites here.            *)
(***************************************************************************)
ForProposal(p) == {k \in DOMAIN requests : requests[k].proposal = p}

\* find: the latest request of the proposal, if there is one.
Find(p) == {k \in ForProposal(p) : \A j \in ForProposal(p) : j <= k}

Found(p, s) == \E k \in Find(p) : requests[k].status = s

CreateRequest(p) ==
  /\ requests' = Append(requests, [proposal |-> p, status |-> "pending"])
  /\ UNCHANGED <<status, version, owner, snapshot, receipt>>

\* _transition: a decision needs a pending request, a use an approved one.
Expected(target) == IF target = "consumed" THEN "approved" ELSE "pending"

DecideRequest(k, target) ==
  /\ k \in DOMAIN requests
  /\ requests[k].status = Expected(target)
  /\ requests' = [requests EXCEPT ![k].status = target]
  /\ UNCHANGED <<status, version, owner, snapshot, receipt>>

(***************************************************************************)
(* The store before the run exists.                                        *)
(***************************************************************************)
StoreInit ==
  /\ status = "absent"
  /\ version = 0
  /\ owner = NoRow
  /\ snapshot = FreshLoop
  /\ receipt = [i \in Invocations |-> "absent"]
  /\ requests = <<>>

StoreTypeOK ==
  /\ status \in RunStatus
  /\ version \in Nat
  /\ owner \in Workers \cup {NoRow, Free}
  /\ snapshot \in Loops
  /\ receipt \in [Invocations -> ReceiptStatus]
  /\ requests \in Seq(Request)
=============================================================================
