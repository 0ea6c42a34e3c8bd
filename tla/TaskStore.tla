----------------------------- MODULE TaskStore ------------------------------
(***************************************************************************)
(* BoundedInMemoryTaskStore (interfaces/server.py): A2A tasks that expire  *)
(* and are evicted in the order they were last saved.  Every method holds  *)
(* the lock from end to end without awaiting, so each is one action.       *)
(***************************************************************************)
EXTENDS Integers, Sequences, FiniteSets

CONSTANTS
  Tasks,       \* task ids
  TaskTTL,     \* ttl_seconds in whole ticks of the clock
  MaxTasks,    \* max_tasks
  MaxClock     \* bound: the clock stops here

ASSUME TaskStoreAssumption ==
  {TaskTTL, MaxClock} \subseteq Nat /\ MaxTasks \in Nat \ {0}

VARIABLES
  clock,    \* _now()
  tasks,    \* the ids of the tasks kept
  savedAt   \* _saved_at: when each was saved, the oldest entry first

taskStore == <<clock, tasks, savedAt>>

TasksInit == clock = 0 /\ tasks = {} /\ savedAt = <<>>

IdsOf(s) == {s[n].id : n \in DOMAIN s}

\* The first loop stops at the first entry that has not expired.
FirstFresh(s) ==
  CHOOSE n \in 1 .. Len(s) + 1 :
    /\ \A m \in 1 .. n - 1 : clock - s[m].at > TaskTTL
    /\ n <= Len(s) => clock - s[n].at <= TaskTTL

\* The second loop goes on while there are too many tasks.
Surplus(kept) == IF Cardinality(kept) > MaxTasks THEN Cardinality(kept) - MaxTasks
                                                 ELSE 0

\* _cleanup_locked: the entries that stay.
Cleanup(kept, s) ==
  LET fresh == SubSeq(s, FirstFresh(s), Len(s))
      live == kept \ (IdsOf(s) \ IdsOf(fresh))
  IN  SubSeq(fresh, Surplus(live) + 1, Len(fresh))

\* The tasks whose entries were dropped are dropped with them.
Install(kept, s) ==
  /\ savedAt' = Cleanup(kept, s)
  /\ tasks' = kept \ (IdsOf(s) \ IdsOf(Cleanup(kept, s)))

Entry(t) == [id |-> t, at |-> clock]
NotOf(s, t) == SelectSeq(s, LAMBDA x : x.id # t)

Resaved(s, t) == Append(NotOf(s, t), Entry(t))

\* save: cleaned up before and after.
Save(t) ==
  LET before == Cleanup(tasks, savedAt)
      kept == tasks \ (IdsOf(savedAt) \ IdsOf(before))
  IN  Install(kept \cup {t}, Resaved(before, t)) /\ UNCHANGED clock

Get == Install(tasks, savedAt) /\ UNCHANGED clock

Delete(t) ==
  /\ t \in tasks
  /\ tasks' = tasks \ {t}
  /\ savedAt' = NotOf(savedAt, t)
  /\ UNCHANGED clock

TickClock == clock < MaxClock /\ clock' = clock + 1 /\ UNCHANGED <<tasks, savedAt>>

-----------------------------------------------------------------------------
\* The loops of the cleanup look at the oldest entry alone: every task has one
\* entry, and the entries are in the order of their times.
TasksTypeOK ==
  /\ clock \in 0 .. MaxClock
  /\ tasks \subseteq Tasks /\ Cardinality(tasks) <= MaxTasks
  /\ savedAt \in Seq([id : Tasks, at : 0 .. MaxClock])
  /\ IdsOf(savedAt) = tasks /\ Len(savedAt) = Cardinality(tasks)
  /\ \A m, n \in DOMAIN savedAt : m < n => savedAt[m].at <= savedAt[n].at
=============================================================================
