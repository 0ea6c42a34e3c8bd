-------------------------- MODULE RunBudget_proofs --------------------------
(***************************************************************************)
(* The budget of a run bounds the external calls of all its executions,    *)
(* for every limit and any number of parallel attempts.  What is called is *)
(* bounded by the floor, but the floor is written by whoever persists      *)
(* next: the invariant has to say how the ledger's memory stands between   *)
(* the two while an execution is up.                                       *)
(***************************************************************************)
EXTENDS RunBudget, FiniteSetTheorems, TLAPS

USE BudgetAssumption

-----------------------------------------------------------------------------
(* The attempts of a field in some of the steps, and how many there are.   *)

Where(S, f) == {a \in Attempts : step[a] \in S /\ CallOf(kind[a]) = f}

Covered == {"saved", "called", "flowing"}
Under == {"called", "flowing"}

Count(S, f) == Cardinality(Where(S, f))

One(P) == IF P THEN 1 ELSE 0

LEMMA CountType ==
  ASSUME NEW S, NEW f
  PROVE  IsFiniteSet(Where(S, f)) /\ Count(S, f) \in Nat
  <1>1. Where(S, f) \in SUBSET Attempts
    BY DEF Where
  <1>2. IsFiniteSet(Where(S, f))
    BY <1>1, FS_Subset
  <1> QED
    BY <1>2, FS_CardinalityType DEF Count

LEMMA CountSubset ==
  ASSUME NEW S, NEW T, NEW f, S \subseteq T
  PROVE  Count(S, f) <= Count(T, f)
  <1>1. Where(S, f) \in SUBSET Where(T, f)
    BY DEF Where
  <1> QED
    BY <1>1, CountType, FS_Subset DEF Count

LEMMA CountFree ==
  ASSUME NEW S, NEW f, step = Free, "free" \notin S
  PROVE  Count(S, f) = 0
  <1>1. Where(S, f) = {}
    BY DEF Where, Free
  <1> QED
    BY <1>1, FS_EmptySet DEF Count

In(S, f, a) == step[a] \in S /\ CallOf(kind[a]) = f

\* One attempt moves: the count loses what it was and gains what it becomes.
LEMMA CountMove ==
  ASSUME NEW S, NEW f, NEW a \in Attempts,
         \A b \in Attempts \ {a} : step'[b] = step[b] /\ kind'[b] = kind[b]
  PROVE  Count(S, f)' = Count(S, f) - One(In(S, f, a)) + One(In(S, f, a)')
  <1> DEFINE W == Where(S, f)
             Rest == W \ {a}
  <1>1. IsFiniteSet(W) /\ Cardinality(W) \in Nat
    BY CountType DEF Count
  <1>2. a \in W <=> In(S, f, a)
    BY DEF Where, In
  <1>3. /\ IsFiniteSet(Rest)
        /\ Cardinality(Rest) = IF a \in W THEN Cardinality(W) - 1
                                          ELSE Cardinality(W)
    BY <1>1, FS_RemoveElement
  <1>4. Where(S, f)' = IF In(S, f, a)' THEN Rest \cup {a} ELSE Rest
    BY DEF Where, In
  <1>5. Cardinality(Rest \cup {a}) = Cardinality(Rest) + 1
    BY <1>3, FS_AddElement
  <1> QED
    BY <1>1, <1>2, <1>3, <1>4, <1>5 DEF Count, One

LEMMA ReservedCount ==
  ASSUME NEW f \in Calls
  PROVE  Reserved(f) = Count(Outstanding, f)
  BY DEF Reserved, Holds, Count, Where

-----------------------------------------------------------------------------
(* The inductive invariant.                                                *)

\* Calls made are covered by the floor, and the floor by the limit.
FloorInv ==
  \A f \in Calls : made[f] <= floor[f] /\ floor[f] <= Limit[f]

\* What the ledger holds in memory while an execution is up.
LedgerInv ==
  phase = "up" =>
    \A f \in Calls :
      /\ consumed[f] + Count(Outstanding, f) <= Limit[f]
      /\ consumed[f] + Count(Covered, f) <= floor[f]
      /\ made[f] <= consumed[f] + Count(Under, f)

\* Calls of the model do not overlap with anything, and end what they fail.
AloneInv ==
  /\ \A a, b \in Attempts :
       a # b /\ step[a] # "free" /\ kind[a] \in Models => step[b] = "free"
  /\ \A a \in Attempts : step[a] = "flowing" => kind[a] = "stream"
  /\ phase # "up" => step = Free

TokensInv ==
  /\ consumed["tokens"] <= Limit["tokens"] + MaxUsage
  /\ floor["tokens"] <= Limit["tokens"] + MaxUsage
  /\ \A a \in Attempts :
       step[a] \in Outstanding => consumed["tokens"] <= Limit["tokens"]

BudgetInv == TypeOK /\ FloorInv /\ LedgerInv /\ AloneInv /\ TokensInv
-----------------------------------------------------------------------------
(* The steps.                                                              *)

LEMMA TypeInit == Init => TypeOK
  BY DEF Init, TypeOK, Phases, Fields, Calls, Kinds, Models, Steps, Free

LEMMA TypeNext == TypeOK /\ [Next]_vars => TypeOK'
  <1> SUFFICES ASSUME TypeOK, [Next]_vars PROVE TypeOK'
    OBVIOUS
  <1> USE DEF TypeOK, Phases, Steps, Outstanding, Kinds, Models, Goto
  <1>1. ASSUME NEW a \in Attempts, NEW k \in Kinds, Reserve(a, k) \/ Exceed(a, k)
        PROVE  TypeOK'
    BY <1>1 DEF Reserve, Exceed
  <1>2. ASSUME NEW a \in Attempts, Raise(a)
        PROVE  TypeOK'
    BY <1>2 DEF Raise
  <1>3. ASSUME NEW a \in Attempts, PersistReserve(a) \/ PersistSettle(a)
        PROVE  TypeOK'
    <2>1. \A f \in Fields : Reserved(f) \in Nat
      BY ReservedCount, CountType DEF Reserved, Fields
    <2>2. floor' \in [Fields -> Nat]
      BY <1>3, <2>1 DEF PersistReserve, PersistSettle, Persist, Larger
    <2> QED
      BY <1>3, <2>2 DEF PersistReserve, PersistSettle
  <1>4. ASSUME NEW a \in Attempts, Call(a) \/ Chunk(a)
        PROVE  TypeOK'
    BY <1>4 DEF Call, Chunk
  <1>5. ASSUME NEW a \in Attempts, NEW t \in 0 .. MaxUsage, Settle(a, t)
        PROVE  TypeOK'
    BY <1>5 DEF Settle, Spend, CallOf, Fields, Calls
  <1>6. ASSUME Stop \/ Resume
        PROVE  TypeOK'
    BY <1>6 DEF Stop, Resume, Free
  <1>7. ASSUME UNCHANGED vars
        PROVE  TypeOK'
    BY <1>7 DEF vars
  <1> QED
    BY <1>1, <1>2, <1>3, <1>4, <1>5, <1>6, <1>7
       DEF Next, Attempt, Refuse, PersistReserveFails, Withhold, Refund,
           PersistSettleFails

LEMMA AloneNext ==
  TypeOK /\ AloneInv /\ [Next]_vars => AloneInv'
  <1> SUFFICES ASSUME TypeOK, AloneInv, [Next]_vars PROVE AloneInv'
    OBVIOUS
  <1> USE DEF TypeOK, Models, Goto
  <1>1. ASSUME NEW a \in Attempts, NEW k \in Kinds, Reserve(a, k) \/ Exceed(a, k)
        PROVE  AloneInv'
    BY <1>1 DEF Reserve, Exceed, Turn, Busy, AloneInv, Kinds
  <1>2. ASSUME NEW a \in Attempts, step[a] # "free", Raise(a)
        PROVE  AloneInv'
    <2>1. phase' # "up" => step' = Free
      BY <1>2 DEF Raise, AloneInv, Free, Kinds
    <2> QED
      BY <1>2, <2>1 DEF Raise, AloneInv
  <1>3. ASSUME NEW a \in Attempts, PersistReserve(a) \/ PersistSettle(a)
        PROVE  AloneInv'
    BY <1>3 DEF PersistReserve, PersistSettle, AloneInv, Free
  <1>4. ASSUME NEW a \in Attempts, Call(a) \/ Chunk(a)
        PROVE  AloneInv'
    BY <1>4 DEF Call, Chunk, AloneInv, Free
  <1>5. ASSUME NEW a \in Attempts, NEW t \in 0 .. MaxUsage, Settle(a, t)
        PROVE  AloneInv'
    BY <1>5 DEF Settle, AloneInv, Free
  <1>6. ASSUME Stop \/ Resume
        PROVE  AloneInv'
    BY <1>6 DEF Stop, Resume, AloneInv, Free
  <1>7. ASSUME UNCHANGED vars
        PROVE  AloneInv'
    BY <1>7 DEF vars, AloneInv
  <1> QED
    BY <1>1, <1>2, <1>3, <1>4, <1>5, <1>6, <1>7
       DEF Next, Attempt, Refuse, PersistReserveFails, Withhold, Refund,
           PersistSettleFails

\* The ledger's memory, the floor and the history keep their order.
LEMMA LedgerNext ==
  BudgetInv /\ [Next]_vars => FloorInv' /\ LedgerInv'
  <1> SUFFICES ASSUME BudgetInv, [Next]_vars PROVE FloorInv' /\ LedgerInv'
    OBVIOUS
  <1> DEFINE Moves(a) == \A f \in Calls :
        \A S \in {Outstanding, Covered, Under} :
          Count(S, f)' = Count(S, f) - One(In(S, f, a)) + One(In(S, f, a)')
  <1>0. ASSUME NEW a \in Attempts,
               \A b \in Attempts \ {a} : step'[b] = step[b] /\ kind'[b] = kind[b]
        PROVE  Moves(a)
    BY <1>0, CountMove
  <1>n. \A f \in Calls :
          /\ Count(Outstanding, f) \in Nat /\ Count(Covered, f) \in Nat
          /\ Count(Under, f) \in Nat
          /\ Count(Under, f) <= Count(Covered, f)
          /\ Count(Covered, f) <= Count(Outstanding, f)
          /\ consumed[f] \in Nat /\ floor[f] \in Nat
          /\ made[f] \in Nat /\ Limit[f] \in Nat
    BY CountType, CountSubset
       DEF Outstanding, Covered, Under, BudgetInv, TypeOK, Fields
  <1> USE DEF Outstanding, Covered, Under, In, One
  <1>1. ASSUME NEW a \in Attempts, NEW k \in Kinds, Reserve(a, k)
        PROVE  FloorInv' /\ LedgerInv'
    <2>1. Moves(a)
      BY <1>0, <1>1 DEF Reserve, Goto, BudgetInv, TypeOK
    <2>2. step[a] = "free" /\ step'[a] = "held" /\ kind'[a] = k
      BY <1>1 DEF Reserve, Goto, BudgetInv, TypeOK
    <2>3. \A f \in Calls :
            consumed[f] + Count(Outstanding, f) + Asked(k, f) <= Limit[f]
      BY <1>1, ReservedCount DEF Reserve, Admits, Fits, Fields
    <2>4. FloorInv'
      BY <1>1 DEF Reserve, FloorInv, BudgetInv
    <2>5. LedgerInv'
      BY <1>1, <1>n, <2>1, <2>2, <2>3
         DEF Reserve, LedgerInv, BudgetInv, Asked
    <2> QED
      BY <2>4, <2>5
  <1>2. ASSUME NEW a \in Attempts, NEW k \in Kinds, Exceed(a, k)
        PROVE  FloorInv' /\ LedgerInv'
    <2>1. Moves(a)
      BY <1>0, <1>2 DEF Exceed, Goto, BudgetInv, TypeOK
    <2>2. step[a] = "free" /\ step'[a] = "refused"
      BY <1>2 DEF Exceed, Goto, BudgetInv, TypeOK
    <2>3. FloorInv'
      BY <1>2 DEF Exceed, FloorInv, BudgetInv
    <2>4. LedgerInv'
      BY <1>2, <1>n, <2>1, <2>2 DEF Exceed, LedgerInv, BudgetInv
    <2> QED
      BY <2>3, <2>4
  <1>3. ASSUME NEW a \in Attempts, Raise(a),
               step[a] \in {"refused", "held", "saved", "settled"}
                 \/ kind[a] # "tool"
        PROVE  FloorInv' /\ LedgerInv'
    <2>1. Moves(a)
      BY <1>0, <1>3 DEF Raise, Goto, BudgetInv, TypeOK
    <2>2. step'[a] = "free" /\ kind' = kind
      BY <1>3 DEF Raise, Goto, BudgetInv, TypeOK
    <2>3. FloorInv'
      BY <1>3 DEF Raise, FloorInv, BudgetInv
    <2>4. LedgerInv'
      BY <1>3, <1>n, <2>1, <2>2 DEF Raise, LedgerInv, BudgetInv
    <2> QED
      BY <2>3, <2>4
  <1>4. ASSUME NEW a \in Attempts, PersistReserve(a) \/ PersistSettle(a)
        PROVE  FloorInv' /\ LedgerInv'
    <2>1. /\ step[a] # "free" /\ Persist /\ kind' = kind
          /\ UNCHANGED <<phase, consumed, made>>
      BY <1>4 DEF PersistReserve, PersistSettle
    <2>2. \/ step[a] = "held" /\ step'[a] = "saved"
          \/ step[a] = "settled" /\ step'[a] = "free"
      BY <1>4 DEF PersistReserve, PersistSettle, Goto, BudgetInv, TypeOK
    <2>3. phase = "up"
      BY <2>1 DEF BudgetInv, AloneInv, Free
    <2>4. ASSUME NEW f \in Calls
          PROVE  /\ floor'[f] >= floor[f]
                 /\ floor'[f] >= consumed[f] + Count(Outstanding, f)
                 /\ floor'[f] <= Limit[f]
      <3>1. floor'[f] = Larger(floor[f], consumed[f] + Count(Outstanding, f))
        BY <2>1, ReservedCount DEF Persist, Fields
      <3>2. floor[f] <= Limit[f] /\ consumed[f] + Count(Outstanding, f) <= Limit[f]
        BY <2>3 DEF BudgetInv, FloorInv, LedgerInv
      <3> QED
        BY <3>1, <3>2, <1>n DEF Larger
    <2>5. floor' \in [Fields -> Nat]
      BY TypeNext DEF BudgetInv, TypeOK
    <2>6. \A f \in Calls : floor'[f] \in Nat
      BY <2>5 DEF Fields
    <2>7. FloorInv'
      BY <2>1, <1>n, <2>4, <2>6 DEF FloorInv, BudgetInv
    <2>8. ASSUME NEW f \in Calls
          PROVE  /\ Count(Outstanding, f)' <= Count(Outstanding, f)
                 /\ Count(Covered, f)' <= Count(Outstanding, f)
                 /\ Count(Covered, f)' \in Nat /\ Count(Outstanding, f)' \in Nat
                 /\ Count(Under, f)' = Count(Under, f)
      <3>1. CASE step[a] = "held" /\ step'[a] = "saved"
        <4>1. /\ Where(Covered, f)' \in SUBSET Where(Outstanding, f)
              /\ Where(Outstanding, f)' = Where(Outstanding, f)
              /\ Where(Under, f)' = Where(Under, f)
          BY <1>4, <3>1
             DEF Where, PersistReserve, PersistSettle, Goto, BudgetInv, TypeOK
        <4> QED
          BY <4>1, CountType, FS_Subset, FS_CardinalityType DEF Count
      <3>2. CASE step[a] = "settled" /\ step'[a] = "free"
        <4>1. /\ Where(Covered, f)' = Where(Covered, f)
              /\ Where(Outstanding, f)' = Where(Outstanding, f)
              /\ Where(Under, f)' = Where(Under, f)
          BY <1>4, <3>2
             DEF Where, PersistReserve, PersistSettle, Goto, BudgetInv, TypeOK
        <4> QED
          BY <4>1, <1>n DEF Count
      <3> QED
        BY <2>2, <3>1, <3>2
    <2>9. LedgerInv'
      BY <2>1, <2>3, <1>n, <2>4, <2>6, <2>8 DEF LedgerInv, BudgetInv
    <2> QED
      BY <2>7, <2>9
  <1>5. ASSUME NEW a \in Attempts, Call(a)
        PROVE  FloorInv' /\ LedgerInv'
    <2>1. Moves(a)
      BY <1>0, <1>5 DEF Call, Goto, BudgetInv, TypeOK
    <2>2. step[a] = "saved" /\ step'[a] = "called" /\ kind' = kind
      BY <1>5 DEF Call, Goto, BudgetInv, TypeOK
    <2>3. phase = "up"
      BY <2>2 DEF BudgetInv, AloneInv, Free
    <2>4. /\ CallOf(kind[a]) \in Calls
          /\ \A f \in Calls :
               made'[f] = made[f] + IF f = CallOf(kind[a]) THEN 1 ELSE 0
      BY <1>5 DEF Call, BudgetInv, TypeOK, CallOf, Calls
    <2>5. \A f \in Calls : made'[f] <= consumed[f] + Count(Under, f)'
      BY <2>1, <2>2, <2>3, <2>4, <1>n DEF LedgerInv, BudgetInv
    <2>6. LedgerInv'
      BY <1>5, <2>1, <2>2, <2>3, <2>5, <1>n DEF Call, LedgerInv, BudgetInv
    <2>7. ASSUME NEW f \in Calls
          PROVE  Count(Under, f)' <= Count(Covered, f)
      <3>1. Where(Under, f)' \in SUBSET Where(Covered, f)
        BY <1>5 DEF Where, Call, Goto, BudgetInv, TypeOK
      <3> QED
        BY <3>1, CountType, FS_Subset DEF Count
    <2>8. ASSUME NEW f \in Calls
          PROVE  made'[f] <= floor[f]
      <3>1. consumed[f] + Count(Covered, f) <= floor[f]
        BY <2>3 DEF LedgerInv, BudgetInv
      <3>2. made'[f] <= consumed[f] + Count(Under, f)'
        BY <2>5
      <3>3. Count(Under, f)' \in Nat /\ made'[f] \in Nat
        BY <2>1, <2>2, <2>4, <1>n
      <3> QED
        BY <3>1, <3>2, <3>3, <2>7, <1>n
    <2>9. FloorInv'
      BY <1>5, <2>8 DEF Call, FloorInv, BudgetInv
    <2> QED
      BY <2>6, <2>9
  <1>6. ASSUME NEW a \in Attempts, Chunk(a)
        PROVE  FloorInv' /\ LedgerInv'
    <2>1. Moves(a)
      BY <1>0, <1>6 DEF Chunk, Goto, BudgetInv, TypeOK
    <2>2. step[a] = "called" /\ step'[a] = "flowing" /\ kind' = kind
      BY <1>6 DEF Chunk, Goto, BudgetInv, TypeOK
    <2> QED
      BY <1>6, <2>1, <2>2, <1>n DEF Chunk, FloorInv, LedgerInv, BudgetInv
  <1>7. ASSUME NEW a \in Attempts, NEW t \in 0 .. MaxUsage, Settle(a, t)
        PROVE  FloorInv' /\ LedgerInv'
    <2>1. Moves(a)
      BY <1>0, <1>7 DEF Settle, Goto, BudgetInv, TypeOK
    <2>2. step[a] \in Under /\ step'[a] = "settled" /\ kind' = kind
      BY <1>7 DEF Settle, Goto, BudgetInv, TypeOK
    <2>3. \A f \in Calls :
            consumed'[f] = consumed[f] + IF f = CallOf(kind[a]) THEN 1 ELSE 0
      BY <1>7 DEF Settle, Spend, CallOf, Calls, Fields, BudgetInv, TypeOK
    <2>4. LedgerInv'
      BY <1>7, <2>1, <2>2, <2>3, <1>n DEF Settle, LedgerInv, BudgetInv
    <2>5. FloorInv'
      BY <1>7 DEF Settle, FloorInv, BudgetInv
    <2> QED
      BY <2>4, <2>5
  <1>8. ASSUME Stop
        PROVE  FloorInv' /\ LedgerInv'
    BY <1>8 DEF Stop, FloorInv, LedgerInv, BudgetInv
  <1>9. ASSUME Resume
         PROVE  FloorInv' /\ LedgerInv'
    <2>1. step = Free /\ step' = step /\ kind' = kind
      BY <1>9 DEF Resume, BudgetInv, AloneInv
    <2>2. \A f \in Calls : /\ Count(Outstanding, f)' = 0
                           /\ Count(Covered, f)' = 0
                           /\ Count(Under, f)' = 0
      <3>1. \A S, f : Where(S, f)' = Where(S, f)
        BY <2>1 DEF Where
      <3>2. \A S, f : Count(S, f)' = Count(S, f)
        BY <3>1 DEF Count
      <3>3. \A S, f : "free" \notin S => Count(S, f) = 0
        BY <2>1, CountFree
      <3> QED
        BY <3>2, <3>3
    <2>3. FloorInv'
      BY <1>9 DEF Resume, FloorInv, BudgetInv
    <2>4. ASSUME NEW f \in Calls
          PROVE  /\ consumed'[f] <= Limit[f] /\ consumed'[f] <= floor'[f]
                 /\ made'[f] <= consumed'[f] /\ consumed'[f] \in Nat
      BY <1>9, <1>n DEF Resume, FloorInv, BudgetInv
    <2>5. LedgerInv'
      BY <2>2, <2>4 DEF LedgerInv
    <2> QED
      BY <2>3, <2>5
  <1>10. ASSUME UNCHANGED vars
         PROVE  FloorInv' /\ LedgerInv'
    BY <1>10 DEF vars, FloorInv, LedgerInv, BudgetInv, Count, Where
  <1> QED
    <2>1. ASSUME NEW a \in Attempts, Attempt(a)
          PROVE  FloorInv' /\ LedgerInv'
      BY <2>1, <1>1, <1>2, <1>3, <1>4, <1>5, <1>6, <1>7
         DEF Attempt, Refuse, PersistReserveFails, Withhold, Refund,
             PersistSettleFails
    <2> QED
      BY <2>1, <1>8, <1>9, <1>10 DEF Next

\* Only what settles raises the tokens, and it was alone when it reserved.
LEMMA TokensNext ==
  BudgetInv /\ [Next]_vars => TokensInv'
  <1> SUFFICES ASSUME BudgetInv, [Next]_vars PROVE TokensInv'
    OBVIOUS
  <1> USE DEF BudgetInv, TypeOK, Goto, Outstanding
  <1>0. /\ consumed["tokens"] \in Nat /\ floor["tokens"] \in Nat
        /\ Limit["tokens"] \in Nat /\ MaxUsage \in Nat
    BY DEF Fields
  <1>1. ASSUME NEW a \in Attempts, NEW k \in Kinds, Reserve(a, k)
        PROVE  TokensInv'
    <2>1. consumed["tokens"] <= Limit["tokens"]
      BY <1>1, <1>0 DEF Reserve, Admits, Fits, Asked, Reserved, CallOf,
                        Fields, Calls
    <2> QED
      BY <1>1, <2>1 DEF Reserve, TokensInv
  <1>2. ASSUME NEW a \in Attempts, NEW k \in Kinds, Exceed(a, k)
        PROVE  TokensInv'
    BY <1>2 DEF Exceed, TokensInv
  <1>3. ASSUME NEW a \in Attempts, Raise(a)
        PROVE  TokensInv'
    BY <1>3 DEF Raise, TokensInv
  <1>4. ASSUME NEW a \in Attempts, PersistReserve(a) \/ PersistSettle(a)
        PROVE  TokensInv'
    <2>1. floor'["tokens"] = Larger(floor["tokens"], consumed["tokens"])
      BY <1>4, <1>0 DEF PersistReserve, PersistSettle, Persist, Reserved,
                        Fields, Calls
    <2> QED
      BY <1>4, <2>1, <1>0
         DEF PersistReserve, PersistSettle, Larger, TokensInv
  <1>5. ASSUME NEW a \in Attempts, Call(a) \/ Chunk(a)
        PROVE  TokensInv'
    BY <1>5 DEF Call, Chunk, TokensInv
  <1>6. ASSUME NEW a \in Attempts, NEW t \in 0 .. MaxUsage, Settle(a, t)
        PROVE  TokensInv'
    <2>1. consumed'["tokens"] = consumed["tokens"] + t
      BY <1>6 DEF Settle, Spend, CallOf, Fields, Calls
    <2>2. consumed["tokens"] <= Limit["tokens"]
      BY <1>6 DEF Settle, TokensInv
    <2>3. CASE kind[a] \in Models
      <3>1. \A b \in Attempts : step'[b] \notin Outstanding
        BY <1>6, <2>3 DEF Settle, AloneInv
      <3> QED
        BY <1>6, <1>0, <2>1, <2>2, <3>1 DEF Settle, TokensInv
    <2>4. CASE kind[a] \notin Models
      <3>1. t = 0
        BY <1>6, <2>4 DEF Settle, AloneInv, Models
      <3> QED
        BY <1>6, <1>0, <2>1, <2>2, <3>1 DEF Settle, TokensInv
    <2> QED
      BY <2>3, <2>4
  <1>7. ASSUME Stop
        PROVE  TokensInv'
    BY <1>7 DEF Stop, Free, TokensInv
  <1>8. ASSUME Resume
        PROVE  TokensInv'
    BY <1>8 DEF Resume, AloneInv, Free, TokensInv
  <1>9. ASSUME UNCHANGED vars
        PROVE  TokensInv'
    BY <1>9 DEF vars, TokensInv
  <1> QED
    <2>1. ASSUME NEW a \in Attempts, Attempt(a)
          PROVE  TokensInv'
      BY <2>1, <1>1, <1>2, <1>3, <1>4, <1>5, <1>6
         DEF Attempt, Refuse, PersistReserveFails, Withhold, Refund,
             PersistSettleFails
    <2> QED
      BY <2>1, <1>7, <1>8, <1>9 DEF Next

-----------------------------------------------------------------------------
(* The theorems.                                                           *)

LEMMA InvInit == Init => BudgetInv
  <1> SUFFICES ASSUME Init PROVE BudgetInv
    OBVIOUS
  <1>1. TypeOK
    BY TypeInit
  <1>2. FloorInv /\ LedgerInv /\ AloneInv /\ TokensInv
    BY DEF Init, FloorInv, LedgerInv, AloneInv, TokensInv, Free, Fields,
           Calls, Outstanding
  <1> QED
    BY <1>1, <1>2 DEF BudgetInv

LEMMA InvNext == BudgetInv /\ [Next]_vars => BudgetInv'
  BY TypeNext, AloneNext, LedgerNext, TokensNext DEF BudgetInv

LEMMA InvAlways == Spec => []BudgetInv
  BY InvInit, InvNext, PTL DEF Spec

\* Every external call, of any execution of the run, is in the durable floor:
\* a crash at any await gives nothing back.
THEOREM CallsAreCovered == Spec => []CallsCovered
  <1>1. BudgetInv => CallsCovered
    BY DEF BudgetInv, FloorInv, CallsCovered
  <1> QED
    BY <1>1, InvAlways, PTL

\* The limit bounds the external calls of all executions together.
THEOREM CallsAreLimited == Spec => []CallsWithinLimit
  <1>1. BudgetInv => CallsWithinLimit
    BY DEF BudgetInv, TypeOK, FloorInv, CallsWithinLimit, Fields
  <1> QED
    BY <1>1, InvAlways, PTL

\* Tokens exceed their limit by at most what one call uses.
THEOREM TokensAreBounded == Spec => []TokensOvershoot
  <1>1. BudgetInv => TokensOvershoot
    BY DEF BudgetInv, TokensInv, TokensOvershoot
  <1> QED
    BY <1>1, InvAlways, PTL

=============================================================================
