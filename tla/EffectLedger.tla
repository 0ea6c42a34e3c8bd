---------------------------- MODULE EffectLedger ----------------------------
(***************************************************************************)
(* What the execution journal promises of external effects, with no        *)
(* workers, checkpoints or approvals in sight: an invocation is announced, *)
(* its effect happens at most once, and its outcome is then recorded for   *)
(* good; an announcement is withdrawn only while nothing has happened.     *)
(* Between announcement and record the outcome is in doubt, and stays so   *)
(* until somebody who knows records or withdraws it.  An invocation may be *)
(* abandoned to a thread that acts late or never; whoever withdraws its    *)
(* announcement then does so blindly, and only then may it happen again.   *)
(***************************************************************************)
EXTENDS Naturals

CONSTANT Invocations

VARIABLES
  outcome,  \* "absent", "started" or "completed"
  ran,      \* how often the effect happened
  late,     \* abandoned threads that may still bring it about
  blind     \* invocations withdrawn while such a thread was there

LedgerInit ==
  /\ outcome = [i \in Invocations |-> "absent"]
  /\ ran = [i \in Invocations |-> 0]
  /\ late = [i \in Invocations |-> 0]
  /\ blind = {}

\* Nothing has happened, and nobody is left who could make it happen.
Untouched(i) == ran[i] = 0 /\ late[i] = 0

Announce(i) ==
  /\ outcome[i] = "absent"
  /\ i \in blind \/ Untouched(i)
  /\ outcome' = [outcome EXCEPT ![i] = "started"]
  /\ UNCHANGED <<ran, late, blind>>

Happen(i) ==
  /\ outcome[i] = "started"
  /\ i \in blind \/ Untouched(i)
  /\ ran' = [ran EXCEPT ![i] = @ + 1]
  /\ UNCHANGED <<outcome, late, blind>>

\* Several invocations of a turn may be abandoned at once.
Abandon(S) ==
  /\ \A i \in S : outcome[i] = "started"
  /\ \A i \in S : i \in blind \/ Untouched(i)
  /\ late' = [i \in Invocations |-> IF i \in S THEN late[i] + 1 ELSE late[i]]
  /\ UNCHANGED <<outcome, ran, blind>>

HappenLate(i) ==
  /\ late[i] > 0
  /\ late' = [late EXCEPT ![i] = @ - 1]
  /\ ran' = [ran EXCEPT ![i] = @ + 1]
  /\ UNCHANGED <<outcome, blind>>

GiveUp(i) ==
  /\ late[i] > 0
  /\ late' = [late EXCEPT ![i] = @ - 1]
  /\ UNCHANGED <<outcome, ran, blind>>

Record(i) ==
  /\ outcome[i] = "started" /\ ran[i] > 0
  /\ outcome' = [outcome EXCEPT ![i] = "completed"]
  /\ UNCHANGED <<ran, late, blind>>

Withdraw(i) ==
  /\ outcome[i] = "started" /\ ran[i] = 0
  /\ outcome' = [outcome EXCEPT ![i] = "absent"]
  /\ blind' = IF late[i] > 0 THEN blind \cup {i} ELSE blind
  /\ UNCHANGED <<ran, late>>

LedgerNext ==
  \/ \E S \in SUBSET Invocations : Abandon(S)
  \/ \E i \in Invocations :
       \/ Announce(i) \/ Happen(i) \/ HappenLate(i) \/ GiveUp(i)
       \/ Record(i) \/ Withdraw(i)

LedgerSpec == LedgerInit /\ [][LedgerNext]_<<outcome, ran, late, blind>>
=============================================================================
