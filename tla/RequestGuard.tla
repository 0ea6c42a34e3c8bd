---------------------------- MODULE RequestGuard ----------------------------
(***************************************************************************)
(* ProductionGuardMiddleware (interfaces/server.py): every HTTP request is *)
(* checked, counted under a lock, given one of max_concurrent_requests     *)
(* slots or turned away after request_queue_timeout, and run.  The busy    *)
(* answer is sent while the lock is held.  An action ends where the        *)
(* request awaits: the lock, a slot, its client or the application.        *)
(***************************************************************************)
EXTENDS Integers, FiniteSets

CONSTANTS
  Requests,        \* HTTP requests
  MaxConcurrent,   \* max_concurrent_requests
  MaxBacklog,      \* max_queue_backlog
  QueueWaits,      \* whether request_queue_timeout is positive
  Nobody           \* model value: the lock is free

ASSUME GuardAssumption ==
  /\ IsFiniteSet(Requests)
  /\ MaxConcurrent \in Nat \ {0} /\ MaxBacklog \in Nat
  /\ QueueWaits \in BOOLEAN
  /\ Nobody \notin Requests

VARIABLES
  place,    \* where each request waits
  holder,   \* _pending_lock: the request that holds it while it awaits
  pending,  \* _pending_requests
  slots,    \* the value of _semaphore
  leaked    \* history: requests cancelled before they were uncounted

guard == <<place, holder, pending, slots, leaked>>

MaxPending == MaxConcurrent + MaxBacklog

\* refusing: sends 400, 401 or 413; busy: sends 503 holding the lock;
\* queued: waits for a slot; late: sends 503 after the timeout; tooLong: sends
\* 413 from within its slot; leaving: waits for the lock to be uncounted.
Places == {"out", "refusing", "locking", "busy", "queued", "late", "inside",
           "tooLong", "leaving", "gone"}
Counted == {"queued", "late", "inside", "tooLong", "leaving"}
InSlot == {"inside", "tooLong"}

At(P) == {r \in Requests : place[r] \in P}

GuardTypeOK ==
  /\ place \in [Requests -> Places]
  /\ holder \in Requests \cup {Nobody}
  /\ pending \in 0 .. MaxPending
  /\ slots \in 0 .. MaxConcurrent
  /\ leaked \subseteq Requests

GuardInit ==
  /\ place = [r \in Requests |-> "out"]
  /\ holder = Nobody
  /\ pending = 0
  /\ slots = MaxConcurrent
  /\ leaked = {}

Go(r, p) == place' = [place EXCEPT ![r] = p]

\* The lock is taken without waiting.
LockIsFree == holder = Nobody /\ At({"locking", "leaving"}) = {}

\* Under the lock: counted, or turned away before the lock is released.
Admission(r) ==
  IF pending >= MaxPending
  THEN Go(r, "busy") /\ holder' = r /\ UNCHANGED pending
  ELSE Go(r, "queued") /\ pending' = pending + 1 /\ UNCHANGED holder

\* Refused by _check_content_length or _check_bearer_auth, or on to the lock.
Arrive(r) ==
  /\ place[r] = "out"
  /\ \/ Go(r, "refusing") /\ UNCHANGED <<holder, pending>>
     \/ LockIsFree /\ Admission(r)
     \/ ~LockIsFree /\ Go(r, "locking") /\ UNCHANGED <<holder, pending>>
  /\ UNCHANGED <<slots, leaked>>

Admit(r) ==
  /\ place[r] = "locking" /\ holder = Nobody
  /\ Admission(r)
  /\ UNCHANGED <<slots, leaked>>

\* _acquire_slot
TakeSlot(r) ==
  /\ place[r] = "queued" /\ slots > 0
  /\ Go(r, "inside")
  /\ slots' = slots - 1
  /\ UNCHANGED <<holder, pending, leaked>>

\* Without a timeout a request never waits for a slot.
GiveUp(r) ==
  /\ place[r] = "queued" /\ (QueueWaits \/ slots = 0)
  /\ Go(r, "late")
  /\ UNCHANGED <<holder, pending, slots, leaked>>

\* The slot is not given back.
ReleaseNoSlot(r) ==
  /\ slots' = slots
  /\ IF LockIsFree THEN Go(r, "gone") /\ pending' = pending - 1
                   ELSE Go(r, "leaving") /\ UNCHANGED pending

\* The inner finally, then as far into the outer one as the lock allows.
Release(r) ==
  /\ slots' = slots + IF place[r] \in InSlot THEN 1 ELSE 0
  /\ IF LockIsFree THEN Go(r, "gone") /\ pending' = pending - 1
                   ELSE Go(r, "leaving") /\ UNCHANGED pending

\* The application returns or raises.
Finish(r) ==
  /\ place[r] = "inside"
  /\ Release(r)
  /\ UNCHANGED <<holder, leaked>>

\* guarded_receive raises RequestBodyTooLarge: 413, unless the response has
\* started and the exception goes on.
Overflow(r) ==
  /\ place[r] = "inside"
  /\ \/ Go(r, "tooLong") /\ UNCHANGED <<pending, slots>>
     \/ Release(r)
  /\ UNCHANGED <<holder, leaked>>

\* The client has taken the whole answer, or is gone.
Sent(r) ==
  /\ \/ place[r] = "refusing" /\ Go(r, "gone") /\ UNCHANGED <<holder, pending, slots>>
     \/ /\ place[r] = "busy" /\ Go(r, "gone") /\ holder' = Nobody
        /\ UNCHANGED <<pending, slots>>
     \/ place[r] \in {"late", "tooLong"} /\ Release(r) /\ UNCHANGED holder
  /\ UNCHANGED leaked

Uncount(r) ==
  /\ place[r] = "leaving" /\ holder = Nobody
  /\ Go(r, "gone")
  /\ pending' = pending - 1
  /\ UNCHANGED <<holder, slots, leaked>>

\* The server cancels the request's task at an await.  One that waits to be
\* uncounted is never uncounted.
Abort(r) ==
  \/ /\ place[r] \in {"refusing", "locking"} /\ Go(r, "gone")
     /\ UNCHANGED <<holder, pending, slots, leaked>>
  \/ /\ place[r] = "busy" /\ Go(r, "gone") /\ holder' = Nobody
     /\ UNCHANGED <<pending, slots, leaked>>
  \/ /\ place[r] \in {"queued", "late"} \cup InSlot /\ Release(r)
     /\ UNCHANGED <<holder, leaked>>
  \/ /\ place[r] = "leaving" /\ Go(r, "gone") /\ leaked' = leaked \cup {r}
     /\ UNCHANGED <<holder, pending, slots>>

Serve(r) ==
  \/ Arrive(r) \/ Admit(r) \/ TakeSlot(r) \/ GiveUp(r) \/ Finish(r)
  \/ Overflow(r) \/ Sent(r) \/ Uncount(r)

\* What the guard does by itself: the slots and the application come to an end.
Progress(r) ==
  Admit(r) \/ TakeSlot(r) \/ GiveUp(r) \/ Finish(r) \/ Sent(r) \/ Uncount(r)

-----------------------------------------------------------------------------
\* The count and the slots are exactly what the requests under way hold, but
\* for those cancelled while they waited for the lock to give their count back.
CountsBalance ==
  /\ pending = Cardinality(At(Counted) \cup leaked)
  /\ slots = MaxConcurrent - Cardinality(At(InSlot))
  /\ holder # Nobody <=> At({"busy"}) # {}
=============================================================================
