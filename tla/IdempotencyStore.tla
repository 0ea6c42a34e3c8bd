-------------------------- MODULE IdempotencyStore --------------------------
(***************************************************************************)
(* InMemoryIdempotencyStore (governance/idempotency.py): receipts of tool  *)
(* calls in insertion order, with one lifetime for claims and another for  *)
(* results, and a bounded number of entries.  No method awaits while it    *)
(* holds the store's lock, so each is atomic.  The operators return the    *)
(* table a method leaves; Keep installs it.                                *)
(***************************************************************************)
EXTENDS Integers, Sequences, FiniteSets, Lists

CONSTANTS
  Keys,           \* idempotency keys: one per invocation of the run
  MaxEntries,     \* max_entries
  PendingTTL,     \* pending_ttl_seconds in whole ticks of the clock
  TerminalTTL,    \* ttl_seconds, likewise
  MaxTime         \* bound: the clock stops here

ASSUME IdempotencyAssumption ==
  /\ IsFiniteSet(Keys)
  /\ MaxEntries \in Nat \ {0}
  /\ {PendingTTL, TerminalTTL, MaxTime} \subseteq Nat

VARIABLES
  now,         \* the store's clock
  receipts,    \* _store: the receipts, oldest insertion first
  unused,      \* history: keys with a claim that no start has used yet
  forgotten,   \* history: receipts lost to a lifetime or to the capacity
  lapsed,      \* history: those of them that were claims still unused
  taken        \* history: receipts of a start that expire removed

table == <<receipts, unused, forgotten, lapsed, taken>>
store == <<now, table>>

AttemptStatus == {"pending", "completed", "unknown"}
ExecutionAttempt == [key : Keys, status : AttemptStatus, at : Nat]
NoReceipt == [status |-> "none"]

StoreTypeOK ==
  /\ now \in 0 .. MaxTime
  /\ receipts \in Seq(ExecutionAttempt) /\ Len(receipts) <= MaxEntries
  /\ \A m, n \in DOMAIN receipts : receipts[m].key = receipts[n].key => m = n
  /\ unused \subseteq {receipts[n].key : n \in DOMAIN receipts}
  /\ {forgotten, lapsed, taken} \subseteq [Keys -> Nat]

StoreInit ==
  /\ now = 0
  /\ receipts = <<>>
  /\ unused = {}
  /\ forgotten = [k \in Keys |-> 0]
  /\ lapsed = [k \in Keys |-> 0]
  /\ taken = [k \in Keys |-> 0]

KeysOf(s) == {s[n].key : n \in DOMAIN s}

Expired(r) ==
  now - r.at > IF r.status = "pending" THEN PendingTTL ELSE TerminalTTL

\* The receipt of a key if there is one that has not expired.
FreshReceipt(s, k) ==
  LET live == {n \in DOMAIN s : s[n].key = k /\ ~Expired(s[n])}
  IN  IF live = {} THEN NoReceipt ELSE s[CHOOSE n \in live : TRUE]

Without(s, k) == Left(s, {n \in DOMAIN s : s[n].key # k})

Purged(s) == Left(s, {n \in DOMAIN s : ~Expired(s[n])})

\* The oldest result goes; a claim never does.
Results(s) == {n \in DOMAIN s : s[n].status # "pending"}
EvictOldest(s) ==
  LET oldest == CHOOSE n \in Results(s) : \A m \in Results(s) : n <= m
  IN  SubSeq(s, 1, oldest - 1) \o SubSeq(s, oldest + 1, Len(s))

\* _make_room; it raises IdempotencyCapacityError when HasRoom is false.
HasRoom(s, k) ==
  \/ k \in KeysOf(s)
  \/ Len(Purged(s)) < MaxEntries
  \/ Results(Purged(s)) # {}

MakeRoom(s, k) ==
  IF k \in KeysOf(s) \/ Len(s) < MaxEntries THEN s
  ELSE IF Len(Purged(s)) < MaxEntries THEN Purged(s)
  ELSE EvictOldest(Purged(s))

Stamp(k, status) == [key |-> k, status |-> status, at |-> now]

Got(s, k) == IF FreshReceipt(s, k) = NoReceipt THEN Without(s, k) ELSE s

\* A claim overlooks an outcome that is unknown.
MayClaimUnknown(s, k) == FreshReceipt(s, k).status \in {"none", "unknown"}

MayClaim(s, k) == FreshReceipt(s, k) = NoReceipt

Claimed(s, k) == Append(MakeRoom(Without(s, k), k), Stamp(k, "pending"))

SavedOver(s, k, status) ==
  IF k \in KeysOf(s)
  THEN [n \in DOMAIN s |-> IF s[n].key = k THEN Stamp(k, status) ELSE s[n]]
  ELSE Append(MakeRoom(s, k), Stamp(k, status))

Saved(s, k, status) ==
  IF FreshReceipt(s, k).status = "completed" THEN s
  ELSE SavedOver(s, k, status)

SaveRaises(s, k) ==
  FreshReceipt(s, k).status # "completed" /\ ~HasRoom(s, k)

Counted(f, K) == [k \in Keys |-> f[k] + IF k \in K THEN 1 ELSE 0]

\* The table becomes s: the receipts of the keys in lost are forgotten, and
\* the claims of the keys in claims are still unused.
Install(s, lost, claims) ==
  /\ receipts' = s
  /\ unused' = claims
  /\ forgotten' = Counted(forgotten, lost)
  /\ lapsed' = Counted(lapsed, lost \cap unused)
  /\ UNCHANGED taken

Gone(s) == KeysOf(receipts) \ KeysOf(s)

Keep(s) == Install(s, Gone(s), unused \cap KeysOf(s))

KeepResult(s, k) == Install(s, Gone(s), (unused \cap KeysOf(s)) \ {k})

\* An expired receipt that the claim replaces was forgotten too.
Replaced(k) ==
  {c \in {k} \cap KeysOf(receipts) : FreshReceipt(receipts, c) = NoReceipt}

KeepClaim(s, k) ==
  Install(s, Gone(s) \cup Replaced(k), (unused \cap KeysOf(s)) \cup {k})

\* expire removes whatever receipt the key has: the caller's claim, or, when
\* that is gone, the claim or the result of another execution.
Expire(k) ==
  /\ receipts' = Without(receipts, k)
  /\ unused' = unused \ {k}
  /\ taken' = Counted(taken, ({k} \cap KeysOf(receipts)) \ unused)
  /\ UNCHANGED <<forgotten, lapsed>>

PurgeExpired ==
  /\ Purged(receipts) # receipts
  /\ Keep(Purged(receipts))
  /\ UNCHANGED now

Tick == now < MaxTime /\ now' = now + 1 /\ UNCHANGED table
=============================================================================
