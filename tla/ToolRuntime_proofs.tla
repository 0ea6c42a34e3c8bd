------------------------- MODULE ToolRuntime_proofs -------------------------
(***************************************************************************)
(* The safety of the tool runtime for any number of calls, exclusive tools,*)
(* keys, slots and workers.  Every counter of the code is the cardinality  *)
(* of a set of calls, which each step changes by one call at most; the     *)
(* rest follows from what the counters then say.                           *)
(***************************************************************************)
EXTENDS ToolRuntime, FiniteSetTheorems, TLAPS

USE RuntimeAssumption

-----------------------------------------------------------------------------
(* What the counters count.                                                *)

Readers == {t \in Tasks \ Exclusive : step[t] \in Gated}
Waiters == {t \in Exclusive : step[t] \in {"waiting", "woken"}}
Holders == {t \in Tasks : step[t] \notin {"idle", "queued"}}
Threads == {t \in Tasks : thread[t]}

CountInv ==
  /\ active = Cardinality(Readers)
  /\ writers = Cardinality(Waiters)
  /\ slots = MaxTools - Cardinality(Holders)
  /\ workers = MaxWorkers - Cardinality(Threads)

LEMMA CountSet ==
  ASSUME NEW S \in SUBSET Tasks
  PROVE  IsFiniteSet(S) /\ Cardinality(S) \in Nat
  BY FS_Subset, FS_CardinalityType

\* Two sets that agree on everything but t.
LEMMA CountMove ==
  ASSUME NEW S \in SUBSET Tasks, NEW T \in SUBSET Tasks, NEW t \in Tasks,
         \A u \in Tasks \ {t} : u \in S <=> u \in T
  PROVE  Cardinality(T) = Cardinality(S) - One(t \in S) + One(t \in T)
  <1> DEFINE Rest == S \ {t}
  <1>1. IsFiniteSet(S) /\ IsFiniteSet(Rest) /\ Cardinality(S) \in Nat
        /\ Cardinality(Rest) \in Nat
    BY CountSet
  <1>2. Cardinality(S) = Cardinality(Rest) + One(t \in S)
    <2>1. CASE t \in S
      BY <2>1, <1>1, FS_RemoveElement DEF One
    <2>2. CASE t \notin S
      <3>1. Rest = S
        BY <2>2
      <3> QED
        BY <3>1, <2>2, <1>1 DEF One
    <2> QED
      BY <2>1, <2>2
  <1>3. Cardinality(T) = Cardinality(Rest) + One(t \in T)
    <2>1. CASE t \in T
      <3>1. T = Rest \cup {t}
        BY <2>1
      <3> QED
        BY <3>1, <2>1, <1>1, FS_AddElement DEF One
    <2>2. CASE t \notin T
      <3>1. T = Rest
        BY <2>2
      <3> QED
        BY <3>1, <2>2, <1>1 DEF One
    <2> QED
      BY <2>1, <2>2
  <1> QED
    BY <1>1, <1>2, <1>3 DEF One

LEMMA CountNone ==
  ASSUME NEW S \in SUBSET Tasks, Cardinality(S) = 0
  PROVE  S = {}
  BY CountSet, FS_EmptySet

-----------------------------------------------------------------------------
(* The inductive invariant.                                                *)

\* Either one exclusive call is inside the gate or some others.
GateInv ==
  /\ exclusive <=> \E t \in Exclusive : step[t] \in Gated
  /\ \A t, u \in Exclusive : step[t] \in Gated /\ step[u] \in Gated => t = u
  /\ exclusive => Readers = {}

\* A thread belongs to a call that waits for it, or that abandoned it.
ThreadInv ==
  \A t \in Tasks :
    /\ thread[t] =>
         t \in Sync /\ step[t] \in {"running", "stopping", "ending", "idle"}
    /\ abandoned[t] <=> thread[t] /\ step[t] \in {"ending", "idle"}
    /\ step[t] = "stopping" \/ (step[t] = "running" /\ t \in Sync)
         => thread[t]
    /\ step[t] = "hiring" => t \in Sync

\* Calls with a key share the entry that the table has for it.
LockInv ==
  /\ \A t \in Tasks :
       IF KeyOf[t] # NoKey /\ step[t] \in Gated
       THEN entry[t] = locks[KeyOf[t]] /\ entry[t] # NoEntry
       ELSE entry[t] = NoEntry
  /\ \A t, u \in Tasks :
       step[t] \in Inside /\ step[u] \in Inside
         /\ KeyOf[t] # NoKey /\ KeyOf[t] = KeyOf[u] => t = u
  /\ \A k \in Keys :
       locks[k] # NoEntry =>
         /\ locks[k] \in Tasks /\ KeyOf[locks[k]] = k
         /\ \E t \in Tasks : KeyOf[t] = k /\ step[t] \in Gated

RuntimeInv ==
  TypeOK /\ CountInv /\ GateInv /\ ThreadInv /\ LockInv /\ NoLostWakeup

-----------------------------------------------------------------------------
(* How a step moves the calls.                                             *)

\* Only t moves, apart from those who are woken.
Moved(t) ==
  /\ step' \in [Tasks -> Steps]
  /\ \A u \in Tasks \ {t} :
       step'[u] = step[u] \/ (step[u] = "waiting" /\ step'[u] = "woken")

LEMMA GotoMoves ==
  ASSUME TypeOK, NEW t \in Tasks, NEW s \in Steps, Goto(t, s) \/ NotifyAll(t, s)
  PROVE  Moved(t) /\ step'[t] = s
  BY DEF Goto, NotifyAll, Moved, TypeOK, Steps, Gated, Inside

LEMMA MoveCounts ==
  ASSUME NEW t \in Tasks, Moved(t)
  PROVE  /\ Cardinality(Readers)' = Cardinality(Readers)
              - One(t \in Readers) + One(t \in Readers')
         /\ Cardinality(Waiters)' = Cardinality(Waiters)
              - One(t \in Waiters) + One(t \in Waiters')
         /\ Cardinality(Holders)' = Cardinality(Holders)
              - One(t \in Holders) + One(t \in Holders')
  <1> USE DEF Moved, Gated, Inside
  <1>1. /\ Readers \in SUBSET Tasks /\ Readers' \in SUBSET Tasks
        /\ \A u \in Tasks \ {t} : u \in Readers <=> u \in Readers'
    BY DEF Readers
  <1>2. /\ Waiters \in SUBSET Tasks /\ Waiters' \in SUBSET Tasks
        /\ \A u \in Tasks \ {t} : u \in Waiters <=> u \in Waiters'
    BY DEF Waiters
  <1>3. /\ Holders \in SUBSET Tasks /\ Holders' \in SUBSET Tasks
        /\ \A u \in Tasks \ {t} : u \in Holders <=> u \in Holders'
    BY DEF Holders
  <1> QED
    BY <1>1, <1>2, <1>3, CountMove

\* What a call does inside the gate concerns nobody else.
Acts(t) ==
  \/ Invoke(t) \/ Fail(t) \/ Hire(t) \/ ThreadEnds(t) \/ Finish(t)
  \/ CancelRunning(t) \/ CancelAgain(t)

Step(t) == Proceed(t) \/ Request(t) \/ Fail(t) \/ Cancel(t)

LEMMA ActsInside ==
  ASSUME RuntimeInv, NEW t \in Tasks, Acts(t)
  PROVE  /\ UNCHANGED <<slots, gate, table>>
         /\ step' \in [Tasks -> Steps]
         /\ \A u \in Tasks \ {t} : step'[u] = step[u]
         /\ \/ step'[t] = step[t]
            \/ step[t] \in Inside /\ step'[t] \in Inside
  BY DEF RuntimeInv, TypeOK, Acts, Invoke, Fail, Hire, ThreadEnds, Finish,
         CancelRunning, CancelAgain, Goto, Steps, Gated, Inside, gate, table

\* Every step moves one call.
LEMMA StepMoves ==
  ASSUME RuntimeInv, NEW t \in Tasks, Step(t)
  PROVE  Moved(t)
  <1> USE DEF RuntimeInv, Steps, Gated, Inside
  <1>1. CASE Acts(t)
    BY <1>1, ActsInside DEF Moved
  <1>2. CASE Request(t) \/ CancelQueued(t)
    BY <1>2, GotoMoves DEF Request, CancelQueued
  <1>3. CASE Enter(t) \/ Wake(t)
    BY <1>3, GotoMoves DEF Enter, Wake, Pass
  <1>4. CASE TakeLock(t)
    BY <1>4, GotoMoves DEF TakeLock
  <1>5. CASE Leave(t) \/ CancelLocking(t)
    BY <1>5, GotoMoves DEF Leave, CancelLocking, LeaveAll
  <1>6. CASE CancelWaiting(t)
    BY <1>6, GotoMoves DEF CancelWaiting
  <1> QED
    BY <1>1, <1>2, <1>3, <1>4, <1>5, <1>6 DEF Step, Proceed, Cancel, Acts

-----------------------------------------------------------------------------
(* One lemma per part of the invariant.                                    *)

LEMMA CountNext ==
  ASSUME RuntimeInv, NEW t \in Tasks, Step(t)
  PROVE  CountInv'
  <1>1. /\ CountInv /\ TypeOK
        /\ Cardinality(Readers) \in Nat /\ Cardinality(Waiters) \in Nat
        /\ Cardinality(Holders) \in Nat /\ Cardinality(Threads) \in Nat
    BY CountSet DEF RuntimeInv, Readers, Waiters, Holders, Threads
  <1>2. Moved(t)
    BY StepMoves
  <1>3. /\ Cardinality(Readers)' = Cardinality(Readers)
              - One(t \in Readers) + One(t \in Readers')
        /\ Cardinality(Waiters)' = Cardinality(Waiters)
              - One(t \in Waiters) + One(t \in Waiters')
        /\ Cardinality(Holders)' = Cardinality(Holders)
              - One(t \in Holders) + One(t \in Holders')
    BY <1>2, MoveCounts
  <1>4. Cardinality(Threads)' = Cardinality(Threads)
              - One(t \in Threads) + One(t \in Threads')
    <2>1. \A u \in Tasks \ {t} : thread'[u] = thread[u]
      BY <1>1 DEF TypeOK, Step, Proceed, Cancel, Request, Enter, Wake, TakeLock,
                  Invoke, Fail, Hire, ThreadEnds, Finish, Leave, LeaveAll,
                  CancelQueued, CancelWaiting, CancelLocking, CancelRunning,
                  CancelAgain
    <2>2. /\ Threads \in SUBSET Tasks /\ Threads' \in SUBSET Tasks
          /\ \A u \in Tasks \ {t} : u \in Threads <=> u \in Threads'
      BY <2>1 DEF Threads
    <2> QED
      BY <2>2, CountMove
  <1>5. step' \in [Tasks -> Steps]
    BY <1>2 DEF Moved
  <1>6. CASE Acts(t)
    <2>1. /\ One(t \in Readers) = One(t \in Readers')
          /\ One(t \in Waiters) = One(t \in Waiters')
          /\ One(t \in Holders) = One(t \in Holders')
      BY <1>6, ActsInside DEF Readers, Waiters, Holders, Gated, Inside
    <2>2. UNCHANGED <<active, writers, slots>>
      BY <1>6, ActsInside DEF gate
    <2>3. workers' = workers + One(t \in Threads) - One(t \in Threads')
      BY <1>1, <1>6 DEF RuntimeInv, ThreadInv, TypeOK, Threads, One, Acts,
           Invoke, Fail, Hire, ThreadEnds, Finish, CancelRunning, CancelAgain
    <2> QED
      BY <1>1, <1>3, <1>4, <2>1, <2>2, <2>3 DEF CountInv, One
  <1> USE <1>1, <1>3, <1>4, <1>5
      DEF CountInv, Readers, Waiters, Holders, Threads, One, Gated, Inside
  <1>7. CASE Request(t) \/ CancelQueued(t)
    BY <1>7, GotoMoves DEF Request, CancelQueued, gate, Steps
  <1>8. CASE Enter(t) \/ Wake(t)
    BY <1>8, GotoMoves DEF Enter, Wake, Pass, gate, Steps
  <1>9. CASE TakeLock(t)
    BY <1>9, GotoMoves DEF TakeLock, gate, Steps
  <1>10. CASE Leave(t) \/ CancelLocking(t)
    BY <1>10, GotoMoves DEF Leave, CancelLocking, LeaveAll, Steps
  <1>11. CASE CancelWaiting(t)
    BY <1>11, GotoMoves DEF CancelWaiting, Steps
  <1> QED
    BY <1>6, <1>7, <1>8, <1>9, <1>10, <1>11 DEF Step, Proceed, Cancel, Acts

LEMMA TypeNext ==
  ASSUME RuntimeInv, NEW t \in Tasks, Step(t)
  PROVE  TypeOK'
  <1>1. CountInv' /\ Moved(t) /\ TypeOK
    BY CountNext, StepMoves DEF RuntimeInv
  <1>2. step' \in [Tasks -> Steps]
    BY <1>1 DEF Moved
  <1>3. /\ active' \in Nat /\ writers' \in Nat
        /\ slots' \in Int /\ slots' <= MaxTools
        /\ workers' \in Int /\ workers' <= MaxWorkers
    <2>1. /\ Cardinality(Readers') \in Nat /\ Cardinality(Waiters') \in Nat
          /\ Cardinality(Holders') \in Nat /\ Cardinality(Threads') \in Nat
      BY CountSet DEF Readers, Waiters, Holders, Threads
    <2> QED
      BY <1>1, <2>1 DEF CountInv
  <1>4. slots' >= 0 /\ workers' >= 0
    BY <1>1 DEF TypeOK, Step, Proceed, Cancel, Request, Enter, Wake, TakeLock,
                Invoke, Fail, Hire, ThreadEnds, Finish, Leave, LeaveAll,
                CancelQueued, CancelWaiting, CancelLocking, CancelRunning,
                CancelAgain
  <1>5. /\ thread' \in [Tasks -> BOOLEAN] /\ abandoned' \in [Tasks -> BOOLEAN]
        /\ exclusive' \in BOOLEAN
    BY <1>1 DEF TypeOK, Step, Proceed, Cancel, Request, Enter, Wake, TakeLock,
                Invoke, Fail, Hire, ThreadEnds, Finish, Leave, LeaveAll, Pass,
                CancelQueued, CancelWaiting, CancelLocking, CancelRunning,
                CancelAgain, gate
  <1>6. locks' \in [Keys -> Entries] /\ entry' \in [Tasks -> Entries]
    <2>1. CASE Acts(t)
      BY <1>1, <2>1, ActsInside DEF TypeOK, table
    <2>2. CASE UNCHANGED table
      BY <1>1, <2>2 DEF TypeOK, table
    <2>3. CASE Register(t)
      BY <1>1, <2>3 DEF TypeOK, Register, table, Entries, NoEntry
    <2>4. CASE Unregister(t)
      BY <1>1, <2>4 DEF TypeOK, Unregister, Entries, NoEntry
    <2> QED
      BY <2>1, <2>2, <2>3, <2>4
      DEF Step, Proceed, Cancel, Acts, Request, Enter, Wake, Pass, TakeLock,
          Leave, LeaveAll, CancelQueued, CancelWaiting, CancelLocking, table
  <1> QED
    BY <1>2, <1>3, <1>4, <1>5, <1>6 DEF TypeOK

\* An exclusive call comes in only when it sees no reader; nobody else does
\* while it is there.
LEMMA GateNext ==
  ASSUME RuntimeInv, NEW t \in Tasks, Step(t)
  PROVE  GateInv'
  <1>1. /\ GateInv /\ TypeOK /\ active = Cardinality(Readers)
        /\ Moved(t)
    BY StepMoves DEF RuntimeInv, CountInv
  <1>2. \A u \in Tasks \ {t} : step'[u] \in Gated <=> step[u] \in Gated
    BY <1>1 DEF Moved, Gated, Inside
  <1> USE <1>1, <1>2 DEF GateInv, Readers
  <1>3. CASE /\ UNCHANGED exclusive
             /\ step'[t] \in Gated <=> step[t] \in Gated
    BY <1>3
  <1>4. CASE Pass(t) /\ May(t) /\ step[t] \notin Gated
    <2>1. CASE t \in Exclusive
      <3>1. Readers = {}
        BY <1>4, <2>1, CountNone DEF May
      <3>2. exclusive' /\ step'[t] \in Gated
        BY <1>4, <2>1, GotoMoves DEF Pass, Steps, Gated, Inside
      <3> QED
        BY <1>4, <2>1, <3>1, <3>2, RuntimeAssumption DEF May
    <2>2. CASE t \notin Exclusive
      BY <1>4, <2>2 DEF Pass, May
    <2> QED
      BY <2>1, <2>2
  <1>5. CASE LeaveAll(t) /\ step[t] \in Gated
    <2>1. step'[t] \notin Gated
      BY <1>5, GotoMoves DEF LeaveAll, Steps, Gated, Inside
    <2> QED
      BY <1>5, <2>1, RuntimeAssumption DEF LeaveAll
  <1>6. CASE Acts(t)
    BY <1>6, <1>3, ActsInside DEF Gated, gate
  <1>7. CASE Request(t) \/ CancelQueued(t) \/ CancelWaiting(t)
    BY <1>7, <1>3, GotoMoves
    DEF Request, CancelQueued, CancelWaiting, Steps, Gated, Inside, gate
  <1>8. CASE TakeLock(t)
    BY <1>8, <1>3, GotoMoves DEF TakeLock, Steps, Gated, Inside, gate
  <1>9. CASE Enter(t) \/ Wake(t)
    BY <1>9, <1>3, <1>4, GotoMoves
    DEF Enter, Wake, Steps, Gated, Inside, gate
  <1>10. CASE Leave(t) \/ CancelLocking(t)
    BY <1>10, <1>5 DEF Leave, CancelLocking, Gated, Inside
  <1> QED
    BY <1>6, <1>7, <1>8, <1>9, <1>10 DEF Step, Proceed, Cancel, Acts

LEMMA ThreadNext ==
  ASSUME RuntimeInv, NEW t \in Tasks, Step(t)
  PROVE  ThreadInv'
  <1>1. ThreadInv /\ TypeOK /\ Moved(t)
    BY StepMoves DEF RuntimeInv
  <1> USE <1>1 DEF ThreadInv, TypeOK
  <1>2. CASE Acts(t)
    <2>1. \A u \in Tasks \ {t} : step'[u] = step[u]
      BY <1>2, ActsInside
    <2> QED
      <3>1. CASE Invoke(t) \/ Fail(t) \/ Finish(t) \/ CancelRunning(t)
        BY <2>1, <3>1 DEF Invoke, Fail, Finish, CancelRunning, Goto
      <3>2. CASE Hire(t)
        BY <2>1, <3>2 DEF Hire, Goto
      <3>3. CASE ThreadEnds(t)
        BY <2>1, <3>3 DEF ThreadEnds, Goto
      <3>4. CASE CancelAgain(t)
        BY <2>1, <3>4 DEF CancelAgain, Goto
      <3> QED
        BY <1>2, <3>1, <3>2, <3>3, <3>4 DEF Acts
  <1>3. \A u \in Tasks \ {t} :
          step'[u] = step[u]
            \/ (step[u] = "waiting" /\ step'[u] = "woken")
    BY DEF Moved
  <1>4. CASE Request(t) \/ CancelQueued(t) \/ CancelWaiting(t)
    BY <1>3, <1>4, GotoMoves DEF Request, CancelQueued, CancelWaiting, Steps
  <1>5. CASE Enter(t) \/ Wake(t) \/ TakeLock(t)
    BY <1>3, <1>5, GotoMoves
    DEF Enter, Wake, Pass, TakeLock, Steps, Gated, Inside
  <1>6. CASE Leave(t) \/ CancelLocking(t)
    BY <1>3, <1>6, GotoMoves DEF Leave, CancelLocking, LeaveAll, Steps
  <1> QED
    BY <1>2, <1>4, <1>5, <1>6 DEF Step, Proceed, Cancel, Acts

\* The entry of a key is dropped only when no call shares it, and made only
\* when the key has none.
LEMMA LockNext ==
  ASSUME RuntimeInv, NEW t \in Tasks, Step(t)
  PROVE  LockInv'
  <1>1. LockInv /\ TypeOK /\ Moved(t)
    BY StepMoves DEF RuntimeInv
  <1>2. \A u \in Tasks \ {t} :
          /\ step'[u] \in Gated <=> step[u] \in Gated
          /\ step'[u] \in Inside <=> step[u] \in Inside
    BY <1>1 DEF Moved, Gated, Inside
  <1>3. Inside \subseteq Gated /\ "locking" \in Gated \ Inside
    BY DEF Gated, Inside
  <1> USE <1>1, <1>2, <1>3 DEF LockInv
  <1>4. CASE /\ UNCHANGED table
             /\ step'[t] \in Gated <=> step[t] \in Gated
             /\ step'[t] \in Inside => step[t] \in Inside
    BY <1>4 DEF table
  <1>5. CASE TakeLock(t)
    <2>1. step'[t] \in Inside /\ step[t] \in Gated /\ step'[t] \in Gated
      BY <1>5, GotoMoves DEF TakeLock, Steps, Gated, Inside
    <2>2. \A u \in Tasks : step[u] \in Inside => entry[u] # entry[t]
      BY <1>5 DEF TakeLock
    <2> QED
      BY <1>5, <2>1, <2>2 DEF TakeLock, table
  <1>6. CASE Pass(t) /\ step[t] \notin Gated
    <2>1. CASE KeyOf[t] = NoKey
      <3>1. UNCHANGED table /\ step'[t] \in Gated
        BY <1>6, <2>1, GotoMoves DEF Pass, Register, Steps, Gated, Inside
      <3> QED
        BY <1>6, <2>1, <3>1 DEF table
    <2>2. CASE KeyOf[t] # NoKey
      <3> DEFINE k == KeyOf[t]
      <3>1. k \in Keys /\ t \notin Exclusive /\ t # NoEntry
        BY <2>2, RuntimeAssumption DEF NoEntry
      <3>2. step'[t] = "locking" /\ Register(t)
        BY <1>6, <2>2, <3>1, GotoMoves DEF Pass, Steps, Gated, Inside
      <3>3. /\ locks' = [locks EXCEPT ![k] = IF @ = NoEntry THEN t ELSE @]
            /\ entry' = [entry EXCEPT ![t] = locks'[k]]
        BY <2>2, <3>2 DEF Register
      <3>4. locks'[k] # NoEntry /\ locks'[k] \in Tasks /\ KeyOf[locks'[k]] = k
            /\ entry'[t] = locks'[k]
        BY <3>1, <3>3 DEF TypeOK
      <3>5. \A j \in Keys : locks[j] # NoEntry => locks'[j] = locks[j]
        BY <3>1, <3>3 DEF TypeOK
      <3>6. \A j \in Keys \ {k} : locks'[j] = locks[j]
        BY <3>1, <3>3 DEF TypeOK
      <3>7. \A u \in Tasks \ {t} : entry'[u] = entry[u]
        BY <3>3 DEF TypeOK
      <3>8. \A u \in Tasks :
              IF KeyOf[u] # NoKey /\ step'[u] \in Gated
              THEN entry'[u] = locks'[KeyOf[u]] /\ entry'[u] # NoEntry
              ELSE entry'[u] = NoEntry
        BY <2>2, <3>2, <3>4, <3>5, <3>7, RuntimeAssumption
      <3>9. \A j \in Keys : locks'[j] # NoEntry =>
              /\ locks'[j] \in Tasks /\ KeyOf[locks'[j]] = j
              /\ \E u \in Tasks : KeyOf[u] = j /\ step'[u] \in Gated
        BY <1>6, <3>2, <3>4, <3>6
      <3> QED
        BY <3>2, <3>8, <3>9
    <2> QED
      BY <2>1, <2>2
  <1>7. CASE LeaveAll(t) /\ step[t] \in Gated
    <2>1. step'[t] = "idle" /\ step'[t] \notin Gated /\ Unregister(t)
      BY <1>7, GotoMoves DEF LeaveAll, Steps, Gated, Inside
    <2>2. entry'[t] = NoEntry /\ \A u \in Tasks \ {t} : entry'[u] = entry[u]
      BY <2>1 DEF Unregister, TypeOK
    <2>3. \A u \in Tasks \ {t} :
            KeyOf[u] # NoKey /\ step[u] \in Gated
              => locks'[KeyOf[u]] = locks[KeyOf[u]]
      <3> SUFFICES ASSUME NEW u \in Tasks \ {t},
                          KeyOf[u] # NoKey, step[u] \in Gated
                   PROVE  locks'[KeyOf[u]] = locks[KeyOf[u]]
        OBVIOUS
      <3>1. CASE KeyOf[u] = KeyOf[t]
        <4>1. entry[u] = entry[t]
          BY <1>7, <3>1
        <4> QED
          BY <2>1, <4>1 DEF Unregister
      <3>2. CASE KeyOf[u] # KeyOf[t]
        BY <2>1, <3>2 DEF Unregister, TypeOK
      <3> QED
        BY <3>1, <3>2
    <2>4. \A u \in Tasks :
            IF KeyOf[u] # NoKey /\ step'[u] \in Gated
            THEN entry'[u] = locks'[KeyOf[u]] /\ entry'[u] # NoEntry
            ELSE entry'[u] = NoEntry
      BY <2>1, <2>2, <2>3
    <2>5. \A j \in Keys : locks'[j] # NoEntry =>
            /\ locks'[j] \in Tasks /\ KeyOf[locks'[j]] = j
            /\ \E u \in Tasks : KeyOf[u] = j /\ step'[u] \in Gated
      <3> SUFFICES ASSUME NEW j \in Keys, locks'[j] # NoEntry
                   PROVE  /\ locks'[j] \in Tasks /\ KeyOf[locks'[j]] = j
                          /\ \E u \in Tasks : KeyOf[u] = j /\ step'[u] \in Gated
        OBVIOUS
      <3>1. locks'[j] = locks[j]
        BY <2>1 DEF Unregister, TypeOK
      <3>2. CASE KeyOf[t] = j
        <4>1. KeyOf[t] # NoKey
          BY <3>2, RuntimeAssumption
        <4>2. PICK u \in Tasks \ {t} : entry[u] = entry[t]
          BY <2>1, <3>2, <4>1 DEF Unregister, TypeOK
        <4>3. entry[t] = locks[j] /\ entry[t] # NoEntry
          BY <1>7, <3>2, <4>1
        <4>4. KeyOf[u] # NoKey /\ step[u] \in Gated /\ entry[u] = locks[KeyOf[u]]
          BY <4>2, <4>3
        <4>5. KeyOf[u] \in Keys
          BY <4>4, RuntimeAssumption
        <4>6. KeyOf[u] = j
          BY <4>2, <4>3, <4>4, <4>5
        <4> QED
          BY <3>1, <4>3, <4>4, <4>6
      <3>3. CASE KeyOf[t] # j
        BY <3>1, <3>3
      <3> QED
        BY <3>2, <3>3
    <2> QED
      BY <2>1, <2>4, <2>5
  <1>8. CASE Acts(t)
    BY <1>8, <1>4, ActsInside
  <1>9. CASE Request(t) \/ CancelQueued(t) \/ CancelWaiting(t)
    BY <1>9, <1>4, GotoMoves
    DEF Request, CancelQueued, CancelWaiting, Steps, Gated, Inside, table
  <1>10. CASE Enter(t) \/ Wake(t)
    BY <1>10, <1>4, <1>6, GotoMoves
    DEF Enter, Wake, Steps, Gated, Inside, table
  <1>11. CASE Leave(t) \/ CancelLocking(t)
    BY <1>11, <1>7 DEF Leave, CancelLocking, Gated, Inside
  <1> QED
    BY <1>5, <1>8, <1>9, <1>10, <1>11 DEF Step, Proceed, Cancel, Acts

\* What opens the gate wakes everybody; the rest can only close it.
LEMMA WakeNext ==
  ASSUME RuntimeInv, NEW t \in Tasks, Step(t)
  PROVE  NoLostWakeup'
  <1>1. NoLostWakeup /\ TypeOK /\ TypeOK' /\ Moved(t)
    BY StepMoves, TypeNext DEF RuntimeInv
  <1>2. \A u \in Tasks \ {t} : step'[u] = "waiting" => step[u] = "waiting"
    BY <1>1 DEF Moved
  <1> USE <1>1, <1>2 DEF NoLostWakeup, May
  <1>3. CASE UNCHANGED gate /\ step'[t] # "waiting"
    BY <1>3 DEF gate
  <1>4. CASE \E s \in Steps \ {"waiting"} : NotifyAll(t, s)
    BY <1>4 DEF NotifyAll
  <1>5. CASE Acts(t)
    BY <1>5, ActsInside DEF gate, Inside
  <1>6. CASE Request(t) \/ CancelQueued(t) \/ TakeLock(t)
    BY <1>6, <1>3, GotoMoves DEF Request, CancelQueued, TakeLock, Steps, Gated, Inside
  <1>7. CASE CancelWaiting(t)
    <2>1. CASE t \in Exclusive
      BY <1>7, <2>1, <1>4 DEF CancelWaiting, Steps
    <2>2. CASE t \notin Exclusive
      <3>1. UNCHANGED gate
        BY <1>7, <2>2 DEF CancelWaiting, One, gate, TypeOK
      <3> QED
        BY <1>7, <2>2, <3>1, <1>3, GotoMoves DEF CancelWaiting, Steps
    <2> QED
      BY <2>1, <2>2
  <1>8. CASE Leave(t) \/ CancelLocking(t)
    BY <1>8, <1>4 DEF Leave, CancelLocking, LeaveAll, Steps
  <1>9. CASE Pass(t) /\ (Enter(t) \/ Wake(t))
    <2>1. CASE t \in Exclusive
      BY <1>9, <2>1, <1>4 DEF Pass, Steps, Gated, Inside
    <2>2. CASE t \notin Exclusive
      <3>1. active' = active + 1 /\ UNCHANGED <<exclusive, writers>>
        BY <1>9, <2>2 DEF Pass, Enter, Wake, One, gate, TypeOK
      <3>2. step'[t] # "waiting"
        BY <1>9, <2>2, GotoMoves DEF Pass, Steps, Gated, Inside
      <3> QED
        BY <3>1, <3>2 DEF TypeOK
    <2> QED
      BY <2>1, <2>2
  <1>10. CASE /\ ~May(t) /\ UNCHANGED <<active, exclusive>>
              /\ writers' = writers \/ writers' = writers + One(t \in Exclusive)
    BY <1>10 DEF TypeOK, One
  <1> QED
    BY <1>5, <1>6, <1>7, <1>8, <1>9, <1>10
    DEF Step, Proceed, Cancel, Acts, Enter, Wake, gate

LEMMA InvAlways == Spec => []RuntimeInv
  <1>1. Init => RuntimeInv
    <2> SUFFICES ASSUME Init PROVE RuntimeInv
      OBVIOUS
    <2> USE DEF Init
    <2>1. TypeOK
      <3>1. slots \in 0 .. MaxTools /\ workers \in 0 .. MaxWorkers
        BY RuntimeAssumption
      <3> QED
        BY <3>1 DEF TypeOK, Steps, Gated, Inside, Entries
    <2>2. Readers = {} /\ Waiters = {} /\ Holders = {} /\ Threads = {}
      BY DEF Readers, Waiters, Holders, Threads, Gated, Inside
    <2>3. CountInv
      BY <2>2, FS_EmptySet, RuntimeAssumption DEF CountInv
    <2>4. GateInv /\ ThreadInv /\ LockInv /\ NoLostWakeup
      BY <2>2, RuntimeAssumption
      DEF GateInv, ThreadInv, LockInv, NoLostWakeup, Gated, Inside
    <2> QED
      BY <2>1, <2>3, <2>4 DEF RuntimeInv
  <1>2. RuntimeInv /\ [Next]_vars => RuntimeInv'
    <2> SUFFICES ASSUME RuntimeInv, [Next]_vars PROVE RuntimeInv'
      OBVIOUS
    <2>1. ASSUME NEW t \in Tasks, Step(t) PROVE RuntimeInv'
      BY <2>1, CountNext, TypeNext, GateNext, ThreadNext, LockNext, WakeNext
      DEF RuntimeInv
    <2>2. CASE UNCHANGED vars
      BY <2>2 DEF vars, gate, table, RuntimeInv, TypeOK, CountInv, GateInv,
        ThreadInv, LockInv, NoLostWakeup, May, Readers, Waiters, Holders, Threads
    <2> QED
      BY <2>1, <2>2 DEF Next, Step
  <1> QED
    BY <1>1, <1>2, PTL DEF Spec

-----------------------------------------------------------------------------
(* The theorems.                                                           *)

\* The counters of the runtime stay within their bounds: no slot and no worker
\* is given back twice, however a call ends.
THEOREM TypeIsCorrect == Spec => []TypeOK
  BY InvAlways, PTL DEF RuntimeInv

\* What acts is inside the gate, since a thread that is not is abandoned.
LEMMA ActingInside ==
  ASSUME RuntimeInv, NEW t \in Tasks, Acting(t)
  PROVE  step[t] \in Inside
  BY DEF RuntimeInv, ThreadInv, TypeOK, Acting, Inside

\* While an exclusive tool acts nothing else does.
THEOREM ExclusiveIsAlone == Spec => []ExclusiveAlone
  <1>1. RuntimeInv => ExclusiveAlone
    <2> SUFFICES ASSUME RuntimeInv, NEW t \in Exclusive, NEW u \in Tasks,
                        Acting(t), Acting(u)
                 PROVE  t = u
      BY DEF ExclusiveAlone
    <2>1. step[t] \in Gated /\ step[u] \in Gated
      BY ActingInside, RuntimeAssumption DEF Gated
    <2> QED
      BY <2>1 DEF RuntimeInv, GateInv, Readers
  <1> QED
    BY <1>1, InvAlways, PTL

\* Calls of one resource act one after the other.
THEOREM SerialIsSerial == Spec => []SerialByKey
  <1>1. RuntimeInv => SerialByKey
    BY ActingInside DEF SerialByKey, RuntimeInv, LockInv
  <1> QED
    BY <1>1, InvAlways, PTL

\* Nobody sleeps at an open gate.
THEOREM NobodyOversleeps == Spec => []NoLostWakeup
  BY InvAlways, PTL DEF RuntimeInv

\* A runtime without calls is as it was at the start.
THEOREM NothingIsLeaked == Spec => []NothingLeaks
  <1>1. RuntimeInv => NothingLeaks
    <2> SUFFICES ASSUME RuntimeInv, \A t \in Tasks : step[t] = "idle" /\ ~thread[t]
                 PROVE  /\ active = 0 /\ writers = 0 /\ ~exclusive
                        /\ slots = MaxTools /\ workers = MaxWorkers
                        /\ \A k \in Keys : locks[k] = NoEntry
      BY DEF NothingLeaks
    <2>1. Readers = {} /\ Waiters = {} /\ Holders = {} /\ Threads = {}
      BY DEF Readers, Waiters, Holders, Threads, Gated, Inside
    <2>2. /\ active = 0 /\ writers = 0
          /\ slots = MaxTools /\ workers = MaxWorkers
      BY <2>1, FS_EmptySet, RuntimeAssumption DEF RuntimeInv, CountInv
    <2>3. ~exclusive /\ \A k \in Keys : locks[k] = NoEntry
      BY RuntimeAssumption DEF RuntimeInv, GateInv, LockInv, Gated, Inside
    <2> QED
      BY <2>2, <2>3
  <1> QED
    BY <1>1, InvAlways, PTL
=============================================================================
