---------------------------- MODULE McpTransport ----------------------------
(***************************************************************************)
(* _RPCClient with its two transports (interfaces/mcp.py): callers share   *)
(* one connection, opened and initialised by whoever comes first under     *)
(* _lock, and find the answer to their request by its id.  The server is   *)
(* external: it answers late, twice or never, and the connection may drop. *)
(* A caller's action ends where it awaits; its deadline may pass, and it   *)
(* may be cancelled, wherever it waits.                                    *)
(***************************************************************************)
EXTENDS Integers, FiniteSets

CONSTANTS
  Callers,         \* tasks that use the client
  MaxOutstanding,  \* requests that may be outstanding at once (128)
  MaxRequests,     \* bound: requests made in all
  Nobody           \* model value: the lock is free

ASSUME TransportAssumption ==
  /\ IsFiniteSet(Callers) /\ Nobody \notin Callers
  /\ MaxOutstanding \in Nat \ {0} /\ MaxRequests \in Nat

VARIABLES
  kind,         \* "stdio" or "sse"
  link,         \* _process and its reader, or _sse_task and its stream
  initialized,  \* _initialized
  failed,       \* _failure is set
  closed,       \* _closed
  lock,         \* the caller that holds _lock while it awaits
  requestId,    \* _request_id
  at,           \* where each caller is
  entering,     \* the callers in __aenter__
  asked,        \* the request each waits for, with its future
  sent,         \* history: requests made in all
  received,     \* the requests the server has, and may answer
  orphaned      \* history: the child was being started when close ran

transport == <<kind, link, initialized, failed, closed, lock, requestId, at,
               entering, asked, sent, received, orphaned>>

Places == {"idle", "locking", "opening", "asking", "failing"}
NoRequest == [what |-> "none"]
NoAnswer == [n |-> 0]
Error(n) == [n |-> n, ok |-> FALSE, more |-> FALSE, version |-> 0]
Request(id, n, what) == [id |-> id, n |-> n, what |-> what, answer |-> NoAnswer]

\* _pending
Pending == {c \in Callers : asked[c] # NoRequest}

TransportInit ==
  /\ kind \in {"stdio", "sse"}
  /\ link = "none"
  /\ initialized = FALSE /\ failed = FALSE /\ closed = FALSE
  /\ lock = Nobody
  /\ requestId = 0
  /\ at = [c \in Callers |-> "idle"]
  /\ entering = {}
  /\ asked = [c \in Callers |-> NoRequest]
  /\ sent = 0
  /\ received = {}
  /\ orphaned = FALSE

\* An id is free again as soon as nobody waits for it.
NextIdReused == Cardinality(Pending) + 1

NextId == requestId + 1

Refuses == closed \/ failed \/ Cardinality(Pending) >= MaxOutstanding

Steady == UNCHANGED <<kind, initialized, failed, closed, orphaned>>

Unlock(c) == lock' = IF lock = c THEN Nobody ELSE lock

\* The finally clause of _send_request, and what the lock's block releases.
Forget(c, p) ==
  /\ at' = [at EXCEPT ![c] = p]
  /\ asked' = [asked EXCEPT ![c] = NoRequest]
  /\ Unlock(c)
  /\ UNCHANGED <<requestId, sent, received>>

\* The caller returns, or raises; __aenter__ closes the client when it does.
Leave(c) == Forget(c, "idle")
Raise(c) == Forget(c, IF c \in entering THEN "failing" ELSE "idle")

\* _send_request: the future is registered; the request is written later, once
\* the pipe has room or the POST gets through.
Ask(c, what) ==
  IF Refuses THEN Raise(c)
  ELSE /\ sent < MaxRequests
       /\ requestId' = NextId
       /\ sent' = sent + 1
       /\ asked' = [asked EXCEPT ![c] = Request(requestId', sent', what)]
       /\ at' = [at EXCEPT ![c] = "asking"]
       /\ UNCHANGED received

\* Its request is registered, and the server does not have it yet.
Unwritten(c) ==
  at[c] = "asking" /\ \A m \in received : m.n # asked[c].n

\* _write: the server gets it.  A POST needs no stream of events.
Write(c) ==
  /\ Unwritten(c) /\ (kind = "sse" \/ link = "open")
  /\ received' = received \cup {[id |-> asked[c].id, n |-> asked[c].n, what |-> asked[c].what]}
  /\ UNCHANGED <<kind, link, initialized, failed, closed, lock, requestId, at,
                 entering, asked, sent, orphaned>>

\* Once it is told that the connection is open.
Initialize(c) == Ask(c, "initialize") /\ lock' = IF Refuses THEN Nobody ELSE c

Park(c, p) ==
  /\ at' = [at EXCEPT ![c] = p]
  /\ UNCHANGED <<asked, requestId, sent, received>>

\* _ensure_connected with the lock in hand, the connection not initialised.
Connect(c) ==
  IF closed \/ failed THEN Raise(c) /\ UNCHANGED link
  ELSE IF link = "open" THEN Initialize(c) /\ UNCHANGED link
  ELSE Park(c, "opening") /\ lock' = c /\ link' = "opening"

\* Whoever comes while others wait for the lock waits behind them.
LockIsFree == lock = Nobody /\ \A c \in Callers : at[c] # "locking"

\* The first thing every operation does, unless the client is initialised.
Reach(c) ==
  IF LockIsFree THEN Connect(c)
                ELSE Park(c, "locking") /\ UNCHANGED <<lock, link>>

GetLock(c) ==
  /\ at[c] = "locking" /\ lock = Nobody /\ ~initialized
  /\ Connect(c)
  /\ Steady

\* The child runs, or the endpoint event arrives; or the stream ended first.
Opened(c) ==
  /\ at[c] = "opening"
  /\ link' = IF link = "opening" THEN "open" ELSE link
  /\ IF failed /\ kind = "sse" THEN Raise(c) ELSE Initialize(c)
  /\ Steady

\* _accept: the read loop hands an answer to whoever waits for its id.
Answered(m, a) ==
  [c \in Callers |->
     IF asked[c] # NoRequest /\ asked[c].id = m.id /\ asked[c].answer = NoAnswer
     THEN [asked[c] EXCEPT !.answer = a] ELSE asked[c]]

\* The server answers a request, late or once more, for good or not.
Reply(m, more, version) ==
  /\ m \in received /\ link = "open"
  /\ \E ok \in BOOLEAN :
       asked' = Answered(m, [n |-> m.n, ok |-> ok, more |-> more, version |-> version])
  /\ UNCHANGED <<kind, link, initialized, failed, closed, lock, requestId, at,
                 entering, sent, received, orphaned>>

\* Whoever waits keeps waiting.
FailQuietly == failed' = TRUE /\ UNCHANGED asked

\* _fail: everyone who waits is told.
FailAll ==
  /\ failed' = TRUE
  /\ asked' = [c \in Callers |->
       IF asked[c] # NoRequest /\ asked[c].answer = NoAnswer
       THEN [asked[c] EXCEPT !.answer = Error(asked[c].n)]
       ELSE asked[c]]

\* The stream ends, or carries what is not a response: the reader ends.
Drop ==
  /\ link = "open" \/ (kind = "sse" /\ link = "opening")
  /\ link' = "down"
  /\ FailAll
  /\ UNCHANGED <<kind, initialized, closed, lock, requestId, at, entering, sent,
                 received, orphaned>>

\* close: a child that is still being started is not seen.
Shut ==
  /\ closed' = TRUE
  /\ FailAll
  /\ link' = IF kind = "stdio" /\ link = "opening" THEN link ELSE "down"
  /\ orphaned' = (orphaned \/ (link' = "opening"))

Close ==
  /\ Shut
  /\ UNCHANGED <<kind, initialized, lock, requestId, at, entering, sent, received>>

CloseOnError(c) ==
  /\ at[c] = "failing"
  /\ Shut
  /\ at' = [at EXCEPT ![c] = "idle"]
  /\ UNCHANGED <<kind, initialized, lock, requestId, sent, received>>

\* The deadline passes, the task is cancelled or the write fails.  A child
\* whose start is cancelled is killed; the listener of SSE goes on.
Abandon(c) ==
  /\ at[c] \in {"locking", "opening", "asking"}
  /\ Raise(c)
  /\ link' = IF at[c] = "opening" /\ kind = "stdio" THEN "none" ELSE link
  /\ Steady

-----------------------------------------------------------------------------
TransportTypeOK ==
  /\ kind \in {"stdio", "sse"}
  /\ link \in {"none", "opening", "open", "down"}
  /\ {initialized, failed, closed, orphaned} \subseteq BOOLEAN
  /\ lock \in Callers \cup {Nobody}
  /\ requestId \in 0 .. MaxRequests /\ sent \in 0 .. MaxRequests
  /\ at \in [Callers -> Places]
  /\ \A c \in Callers : at[c] = "asking" <=> c \in Pending
  /\ entering \subseteq Callers /\ Cardinality(Pending) <= MaxOutstanding

\* An answer that comes after its request timed out, or twice, is never taken
\* for the answer to another request, however many were made since.
AnswersMatch ==
  \A c \in Pending : asked[c].answer # NoAnswer => asked[c].answer.n = asked[c].n

\* Once the connection has failed or was closed nobody waits for an answer that
\* cannot come; the lock is held only by a caller that is opening the
\* connection; and after close no child is left but one that was being started.
NothingWaitsOnDeadLink ==
  /\ failed \/ closed => \A c \in Pending : asked[c].answer # NoAnswer
  /\ lock # Nobody =>
       \/ at[lock] = "opening"
       \/ at[lock] = "asking" /\ asked[lock].what = "initialize"
  /\ closed /\ link = "open" => orphaned
=============================================================================
