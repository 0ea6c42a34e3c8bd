----------------------------- MODULE ModelClient -----------------------------
(***************************************************************************)
(* LLM (engine/llm.py) with the deadline of _stream_with_timeout: one      *)
(* request to the model, its attempts, the sleeps between them, the budget *)
(* of sleep that the requests of a loop share, and the two deadlines.      *)
(***************************************************************************)
EXTENDS Integers

CONSTANTS
  MaxRetries,    \* max_retries
  BaseDelay,     \* retry_base_delay
  RetryAfters,   \* values of a Retry-After header
  RetryBudget,   \* retry_max_elapsed
  Timeout        \* timeout

ASSUME ClientAssumption ==
  /\ {MaxRetries, BaseDelay, RetryBudget} \subseteq Nat /\ Timeout \in Nat \ {0}
  /\ RetryAfters \subseteq Nat

VARIABLES
  phase,      \* "idle", "calling" or "sleeping"
  attempt,    \* attempt
  usage,      \* the request asks for usage: stream_options
  used,       \* _retry_used_var
  left,       \* until the attempt's own deadline, or the end of the sleep
  deadline,   \* until the deadline around the whole request
  failure     \* why the last request of the loop failed

client == <<phase, attempt, usage, used, left, deadline, failure>>

ClientInit ==
  /\ phase = "idle" /\ attempt = 0 /\ usage = TRUE /\ used = 0
  /\ left = 0 /\ deadline = 0 /\ failure = "none"

\* _with_retry begins.
Attempts(withUsage) ==
  /\ phase' = "calling" /\ attempt' = 0 /\ usage' = withUsage /\ left' = Timeout

Ask ==
  /\ Attempts(TRUE)
  /\ deadline' = Timeout
  /\ UNCHANGED <<used, failure>>

\* Time passes: the wrapped request has one deadline for everything.
Tick(wrapped) ==
  /\ phase # "idle" /\ left > 0 /\ (wrapped => deadline > 0)
  /\ left' = left - 1
  /\ deadline' = IF wrapped THEN deadline - 1 ELSE deadline
  /\ UNCHANGED <<phase, attempt, usage, used, failure>>

\* An error that may pass (too many requests, service unavailable, connection,
\* no choices) at any time; or the attempt's own deadline, TimeoutError.
Transient(wrapped) ==
  {"transient"} \cup (IF left = 0 /\ ~wrapped THEN {"timeout"} ELSE {})

\* The delay a header asks for, or one up to the doubled base.
Delays(error) ==
  (0 .. BaseDelay * 2 ^ attempt) \cup (IF error = "transient" THEN RetryAfters ELSE {})

\* Only the delay of this attempt is held against the budget.
RetryForgetful(wrapped) ==
  /\ phase = "calling" /\ attempt < MaxRetries
  /\ wrapped => deadline > 0
  /\ \E error \in Transient(wrapped) : \E delay \in Delays(error) :
       /\ delay <= RetryBudget
       /\ used' = used + delay /\ left' = delay
  /\ phase' = "sleeping"
  /\ UNCHANGED <<attempt, usage, deadline, failure>>

\* _with_retry's handler: the budget is that of the loop.
Retry(wrapped) ==
  /\ phase = "calling" /\ attempt < MaxRetries
  /\ wrapped => deadline > 0
  /\ \E error \in Transient(wrapped) : \E delay \in Delays(error) :
       /\ used + delay <= RetryBudget
       /\ used' = used + delay /\ left' = delay
  /\ phase' = "sleeping"
  /\ UNCHANGED <<attempt, usage, deadline, failure>>

Wakes(wrapped) ==
  /\ phase = "sleeping" /\ left = 0 /\ (wrapped => deadline > 0)
  /\ phase' = "calling" /\ attempt' = attempt + 1 /\ left' = Timeout
  /\ UNCHANGED <<usage, used, deadline, failure>>

\* astream: the provider refuses stream_options, and is asked again without.
AskWithoutUsage(streams) ==
  /\ streams /\ phase = "calling" /\ usage
  /\ Attempts(FALSE)
  /\ UNCHANGED <<used, deadline, failure>>

\* The request and its deadlines are over.
Ends(n) == phase' = "idle" /\ attempt' = n /\ usage' = TRUE /\ left' = 0 /\ deadline' = 0

Raise(why) == Ends(attempt) /\ failure' = why /\ UNCHANGED used

\* The error is raised: attempts or budget spent, or not one to retry.
GivesUp(wrapped) ==
  /\ phase = "calling" /\ (wrapped => deadline > 0)
  /\ \E error \in Transient(wrapped) :
       /\ attempt = MaxRetries \/ \E delay \in Delays(error) : used + delay > RetryBudget
       /\ Raise(error)

Refuses == phase = "calling" /\ Raise("refused")

\* _stream_with_timeout: wait_for around __anext__.
DeadlinePasses(wrapped) ==
  /\ wrapped /\ phase # "idle" /\ deadline = 0
  /\ Raise("timeout")

\* The provider answers in time.
Responds(wrapped) ==
  /\ phase = "calling" /\ left > 0 /\ (wrapped => deadline > 0)
  /\ Ends(0) /\ UNCHANGED <<used, failure>>

\* The stream breaks, or its next chunk does not come in time.
Breaks == Raise("broken")

ClientStops == Ends(0) /\ UNCHANGED <<used, failure>>

\* A new loop, with a budget of its own.
ClientResets == Ends(0) /\ used' = 0 /\ failure' = "none"

-----------------------------------------------------------------------------
ClientTypeOK ==
  /\ phase \in {"idle", "calling", "sleeping"}
  /\ attempt \in 0 .. MaxRetries /\ usage \in BOOLEAN
  /\ used \in 0 .. RetryBudget
  /\ left \in Nat /\ deadline \in 0 .. Timeout
  /\ failure \in {"none", "transient", "timeout", "refused", "broken"}
=============================================================================
