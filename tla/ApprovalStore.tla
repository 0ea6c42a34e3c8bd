---------------------------- MODULE ApprovalStore ----------------------------
(***************************************************************************)
(* InMemoryApprovalStore (governance/approval.py): requests in order of    *)
(* creation; an update keeps a request's place.  No method awaits, so each *)
(* is atomic.  Requests of the tool boundary carry no expires_at, hence    *)
(* none expires.                                                           *)
(***************************************************************************)
EXTENDS Integers, Sequences, FiniteSets

CONSTANTS
  Proposals,     \* digests of a tool with its arguments
  MaxApprovals   \* max_entries

ASSUME ApprovalAssumption == MaxApprovals \in Nat \ {0}

VARIABLES
  approvals,   \* _items: the requests, oldest first
  created,     \* history: requests created so far, which names the next one
  granted      \* history: approvals given for each proposal

desk == <<approvals, created, granted>>

ApprovalStatus == {"pending", "approved", "rejected", "consumed"}
ApprovalRequest == [id : Nat, proposal : Proposals, status : ApprovalStatus]
LiveStatus == {"pending", "approved"}

DeskTypeOK ==
  /\ approvals \in Seq(ApprovalRequest) /\ Len(approvals) <= MaxApprovals
  /\ created \in Nat
  /\ granted \in [Proposals -> Nat]

DeskInit ==
  /\ approvals = <<>>
  /\ created = 0
  /\ granted = [p \in Proposals |-> 0]

Places(p) == {n \in DOMAIN approvals : approvals[n].proposal = p}

\* find returns the first match instead of the last.
FindFirst(p) ==
  IF Places(p) = {} THEN [id |-> 0, proposal |-> p, status |-> "none"]
  ELSE approvals[CHOOSE n \in Places(p) : \A m \in Places(p) : n <= m]

Find(p) ==
  IF Places(p) = {} THEN [id |-> 0, proposal |-> p, status |-> "none"]
  ELSE approvals[CHOOSE n \in Places(p) : \A m \in Places(p) : m <= n]

Decided == {n \in DOMAIN approvals : approvals[n].status \notin LiveStatus}

\* _make_room: the oldest decided or used request goes, never a live one.
HasSpace == Len(approvals) < MaxApprovals \/ Decided # {}

MadeRoom ==
  IF Len(approvals) < MaxApprovals THEN approvals
  ELSE LET oldest == CHOOSE n \in Decided : \A m \in Decided : n <= m
       IN  SubSeq(approvals, 1, oldest - 1)
           \o SubSeq(approvals, oldest + 1, Len(approvals))

Create(p) ==
  /\ HasSpace
  /\ approvals' = Append(MadeRoom, [id |-> created + 1, proposal |-> p,
                                    status |-> "pending"])
  /\ created' = created + 1
  /\ UNCHANGED granted

SetStatus(id, status) ==
  approvals' = [n \in DOMAIN approvals |->
                  IF approvals[n].id = id
                  THEN [approvals[n] EXCEPT !.status = status]
                  ELSE approvals[n]]

\* What a request is now; KeyError and ValueError are both "not this".
Is(id, status) ==
  \E n \in DOMAIN approvals :
    approvals[n].id = id /\ approvals[n].status = status

\* decide
Decide ==
  \E n \in DOMAIN approvals, verdict \in {"approved", "rejected"} :
    /\ approvals[n].status = "pending"
    /\ SetStatus(approvals[n].id, verdict)
    /\ granted' = [granted EXCEPT ![approvals[n].proposal] =
                     IF verdict = "approved" THEN @ + 1 ELSE @]
    /\ UNCHANGED created

ConsumeAny(id) ==
  /\ id \in {approvals[n].id : n \in DOMAIN approvals}
  /\ SetStatus(id, "consumed")
  /\ UNCHANGED <<created, granted>>

Consume(id) ==
  /\ Is(id, "approved")
  /\ SetStatus(id, "consumed")
  /\ UNCHANGED <<created, granted>>
=============================================================================
