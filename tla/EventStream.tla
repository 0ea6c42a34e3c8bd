----------------------------- MODULE EventStream -----------------------------
(***************************************************************************)
(* What a run promises to who reads its stream, with no loop, tools, locks *)
(* or queue in sight: its events are numbered without a gap and recorded   *)
(* together with the change of status they report, until it has ended; the *)
(* reader is given every one of them, in their order and none before it is *)
(* recorded, and is told the end only when it has had the last.  One event *)
(* at most is lost to the reader, the last before the run is suspended.  A *)
(* run that was suspended goes on with a stream of its own.                *)
(***************************************************************************)
EXTENDS Integers

CONSTANT Transitions   \* the statuses that may follow a status; none at the end

VARIABLES
  status,     \* of the run
  recorded,   \* the sequence of the last event recorded
  given,      \* of the last one given to the reader, or before the stream
  lost,       \* of one that is never given, or Nothing
  whole       \* the reader was told the end

Nothing == -1

Over == Transitions[status] = {}

StreamInit ==
  /\ status \in DOMAIN Transitions /\ ~Over
  /\ recorded \in {-1, 0} /\ given = recorded
  /\ lost = Nothing /\ whole = FALSE

\* Nothing but its suspension happens to a run that has lost an event.
Happen ==
  /\ ~Over /\ ~whole
  /\ recorded' = recorded + 1
  /\ status' \in Transitions[status] \cup {status}
  /\ lost # Nothing => lost = recorded /\ status' = "waiting"
  /\ UNCHANGED <<given, lost, whole>>

\* The last event, already recorded or just now, will not be given.
Lose ==
  /\ lost = Nothing /\ ~Over /\ ~whole
  /\ recorded' \in {recorded, recorded + 1} /\ given < recorded'
  /\ lost' = recorded'
  /\ UNCHANGED <<status, given, whole>>

NextGiven == IF given + 1 = lost THEN given + 2 ELSE given + 1

Give ==
  /\ NextGiven <= recorded /\ ~whole
  /\ given' = NextGiven
  /\ UNCHANGED <<status, recorded, lost, whole>>

End ==
  /\ given = recorded /\ ~whole
  /\ whole' = TRUE
  /\ UNCHANGED <<status, recorded, given, lost>>

GoOn ==
  /\ ~Over
  /\ given' = recorded /\ lost' = Nothing /\ whole' = FALSE
  /\ UNCHANGED <<status, recorded>>

StreamNext == Happen \/ Lose \/ Give \/ End \/ GoOn

StreamSpec == StreamInit /\ [][StreamNext]_<<status, recorded, given, lost, whole>>
=============================================================================
