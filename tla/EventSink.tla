------------------------------ MODULE EventSink ------------------------------
(***************************************************************************)
(* InMemoryEventSink (core/event_stream.py): a bounded buffer of events,   *)
(* each with its offset, a bounded table of the last sequence seen of each *)
(* run, least recently seen first, and a subscriber that sleeps until the  *)
(* buffer holds something past its cursor and yields it.  How long it      *)
(* takes to yield it is how long it does not wake for more.                *)
(***************************************************************************)
EXTENDS Integers, Sequences, SequencesExt, FiniteSetsExt, Lists

CONSTANTS
  Runs,        \* runs whose events the sink gets
  AllRuns,     \* model value: a subscription to every run
  Topics,      \* what the subscriber may follow
  MaxEvents,   \* _max_events
  MaxTracked   \* _max_tracked_runs

ASSUME SinkAssumption ==
  /\ AllRuns \notin Runs /\ Topics \subseteq Runs \cup {AllRuns}
  /\ {MaxEvents, MaxTracked} \subseteq Nat \ {0}

VARIABLES
  buffer,   \* _events
  tracked,  \* _last_sequence
  offset,   \* _global_counter
  topic,    \* the run the subscriber follows, or AllRuns
  cursor    \* the subscriber's cursor

sink == <<buffer, tracked, offset, topic, cursor>>

SinkInit ==
  /\ buffer = <<>> /\ tracked = <<>> /\ offset = 0
  /\ topic \in Topics /\ cursor = -1

LastOf(s, n) == SubSeq(s, Len(s) - n + 1, Len(s))
Bounded(s, n) == IF Len(s) > n THEN LastOf(s, n) ELSE s

Tracked == {tracked[i].run : i \in DOMAIN tracked}
LastSequence(r) ==
  IF r \in Tracked THEN (CHOOSE t \in ToSet(tracked) : t.run = r).seq ELSE -1

\* Who regresses is refused; a run that fell out of the table is not known to.
Refused(r, seq) == seq <= LastSequence(r)

\* append
Record(r, seq) ==
  IF Refused(r, seq) THEN UNCHANGED sink
  ELSE /\ buffer' = Bounded(Append(buffer, [offset |-> offset, run |-> r, seq |-> seq]),
                            MaxEvents)
       /\ offset' = offset + 1
       /\ tracked' = Bounded(Append(Left(tracked, {i \in DOMAIN tracked : tracked[i].run # r}),
                                    [run |-> r, seq |-> seq]), MaxTracked)
       /\ UNCHANGED <<topic, cursor>>

Position(e) == IF topic = AllRuns THEN e.offset ELSE e.seq
Past(e) == (topic = AllRuns \/ e.run = topic) /\ Position(e) > cursor

\* _has_new_events: the table is asked before the buffer.
HasNew ==
  /\ topic = AllRuns \/ LastSequence(topic) > cursor
  /\ \E e \in ToSet(buffer) : Past(e)

Wake ==
  /\ HasNew
  /\ cursor' = Max({Position(e) : e \in {b \in ToSet(buffer) : Past(b)}})
  /\ UNCHANGED <<buffer, tracked, offset, topic>>

\* The process is gone, and the subscriber with it.
SinkLost ==
  /\ buffer' = <<>> /\ tracked' = <<>> /\ offset' = 0
  /\ cursor' = -1
  /\ UNCHANGED topic

-----------------------------------------------------------------------------
SinkTypeOK ==
  /\ Len(buffer) <= MaxEvents /\ Len(tracked) <= MaxTracked
  /\ \A i \in DOMAIN buffer : buffer[i].offset = offset - Len(buffer) + i - 1
  /\ \A i, j \in DOMAIN tracked : tracked[i].run = tracked[j].run => i = j
  /\ topic \in Topics
  /\ cursor \in Nat \cup {-1}

\* The subscriber has had every buffered event it follows; a run that is no
\* longer tracked keeps its subscriber waiting although its events are there.
CaughtUp ==
  topic \in Tracked \cup {AllRuns} => \A e \in ToSet(buffer) : ~Past(e)
=============================================================================
