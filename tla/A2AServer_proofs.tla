-------------------------- MODULE A2AServer_proofs --------------------------
(***************************************************************************)
(* What A2AServer keeps, for any number of requests, executions and tasks. *)
(* The guard is a matter of bookkeeping: each step moves one request and   *)
(* changes the count and the slots by what that request then holds.  The   *)
(* gateway's registry is exact because an execution registers as the       *)
(* latest of its task and takes nobody's registration away but its own.    *)
(***************************************************************************)
EXTENDS A2AServer, FiniteSetTheorems, TLAPS

-----------------------------------------------------------------------------
(* The guard. *)

\* The count, the slots and the lock are what the requests hold of them.
GuardInv ==
  /\ GuardTypeOK
  /\ CountsBalance
  /\ \A r \in Requests : place[r] = "busy" <=> holder = r
  /\ \A r \in leaked : place[r] = "gone"

One(b) == IF b THEN 1 ELSE 0

\* Request r goes to p, taking and giving back what the two places hold.
Moves(r, p) ==
  /\ place[r] # "gone" /\ Go(r, p)
  /\ leaked' = leaked \/ (p = "gone" /\ leaked' = leaked \cup {r})
  /\ pending' = pending + One(p \in Counted \/ r \in leaked') - One(place[r] \in Counted)
  /\ pending' <= MaxPending
  /\ slots' = slots + One(place[r] \in InSlot) - One(p \in InSlot)
  /\ slots' >= 0
  /\ holder' = IF p = "busy" THEN r ELSE IF place[r] = "busy" THEN Nobody ELSE holder
  /\ p = "busy" => holder = Nobody

\* Two finite sets that differ by x at most differ in size by what x tells.
LEMMA Weighs ==
  ASSUME NEW S, NEW T, NEW x, IsFiniteSet(S), S \ {x} = T \ {x}
  PROVE  /\ Cardinality(S) \in Nat /\ Cardinality(T) \in Nat
         /\ Cardinality(T) = Cardinality(S) + One(x \in T) - One(x \in S)
PROOF
  <1> DEFINE R == S \ {x}
  <1>1. IsFiniteSet(R) /\ Cardinality(R) \in Nat /\ x \notin R
    BY FS_RemoveElement, FS_CardinalityType
  <1>2. /\ S = R \/ S = R \cup {x}
        /\ T = R \/ T = R \cup {x}
    OBVIOUS
  <1>3. Cardinality(R \cup {x}) = Cardinality(R) + 1
    BY <1>1, FS_AddElement
  <1>4. \A U : U = R \/ U = R \cup {x} => Cardinality(U) = Cardinality(R) + One(x \in U)
    BY <1>1, <1>3 DEF One
  <1> HIDE DEF R
  <1>5. /\ Cardinality(S) = Cardinality(R) + One(x \in S)
        /\ Cardinality(T) = Cardinality(R) + One(x \in T)
    BY <1>2, <1>4
  <1> QED
    BY <1>1, <1>5 DEF One

LEMMA AtFinite ==
  ASSUME NEW P
  PROVE  At(P) \subseteq Requests /\ IsFiniteSet(At(P)) /\ Cardinality(At(P)) \in Nat
PROOF
  BY GuardAssumption, FS_Subset, FS_CardinalityType DEF At

\* Whatever moves, the books stay balanced.
LEMMA MoveBalances ==
  ASSUME GuardInv, NEW r \in Requests, NEW p \in Places, Moves(r, p)
  PROVE  GuardInv'
PROOF
  <1>0. /\ place \in [Requests -> Places] /\ holder \in Requests \cup {Nobody}
        /\ leaked \subseteq Requests /\ pending \in Nat /\ slots \in Nat
        /\ MaxConcurrent \in Nat /\ MaxPending \in Nat
    BY GuardAssumption DEF GuardInv, GuardTypeOK, MaxPending
  <1>1. /\ place' = [place EXCEPT ![r] = p] /\ place[r] # "gone"
        /\ leaked' = leaked \/ (p = "gone" /\ leaked' = leaked \cup {r})
    BY DEF Moves, Go
  <1>2. place' \in [Requests -> Places] /\ leaked' \subseteq Requests
    BY <1>0, <1>1
  <1>3. \A q \in leaked' : place'[q] = "gone"
    BY <1>0, <1>1 DEF GuardInv
  <1>4. r \notin leaked
    BY <1>1 DEF GuardInv
  <1> DEFINE C == At(Counted) \cup leaked
             D == At(Counted)' \cup leaked'
             I == At(InSlot)
             J == At(InSlot)'
  <1>5. /\ C \ {r} = D \ {r} /\ I \ {r} = J \ {r}
        /\ r \in C <=> place[r] \in Counted
        /\ r \in D <=> (p \in Counted \/ r \in leaked')
        /\ r \in I <=> place[r] \in InSlot
        /\ r \in J <=> p \in InSlot
    BY <1>0, <1>1, <1>4 DEF At
  <1>6. IsFiniteSet(C) /\ IsFiniteSet(I)
    <2>1. C \subseteq Requests
      BY <1>0, AtFinite
    <2> QED
      BY <2>1, AtFinite, FS_Subset, GuardAssumption
  <1>7. /\ pending = Cardinality(C) /\ slots = MaxConcurrent - Cardinality(I)
        /\ holder # Nobody <=> At({"busy"}) # {}
    BY DEF GuardInv, CountsBalance
  <1>8. /\ pending' = pending + One(r \in D) - One(r \in C) /\ pending' <= MaxPending
        /\ slots' = slots + One(r \in I) - One(r \in J) /\ slots' >= 0
    BY <1>5 DEF Moves
  <1> HIDE DEF C, D, I, J
  <1>9. /\ Cardinality(C) \in Nat /\ Cardinality(D) \in Nat
        /\ Cardinality(D) = Cardinality(C) + One(r \in D) - One(r \in C)
    BY <1>5, <1>6, Weighs
  <1>10. /\ Cardinality(I) \in Nat /\ Cardinality(J) \in Nat
         /\ Cardinality(J) = Cardinality(I) + One(r \in J) - One(r \in I)
    BY <1>5, <1>6, Weighs
  <1>11. pending' = Cardinality(D) /\ slots' = MaxConcurrent - Cardinality(J)
    BY <1>0, <1>7, <1>8, <1>9, <1>10 DEF One
  <1>12. pending' \in 0 .. MaxPending /\ slots' \in 0 .. MaxConcurrent
    BY <1>0, <1>8, <1>9, <1>10, <1>11 DEF One
  <1>13. \A q \in Requests : place'[q] = "busy" <=> holder' = q
    BY <1>0, <1>1, GuardAssumption DEF Moves, GuardInv
  <1>14. holder' \in Requests \cup {Nobody} /\ (holder' # Nobody <=> At({"busy"})' # {})
    <2>1. holder' \in Requests \cup {Nobody}
      BY <1>0 DEF Moves
    <2>2. At({"busy"})' = {q \in Requests : holder' = q}
      BY <1>13 DEF At
    <2> QED
      BY <2>1, <2>2, GuardAssumption
  <1>15. CountsBalance'
    BY <1>11, <1>14 DEF CountsBalance, D, J
  <1> QED
    BY <1>2, <1>3, <1>12, <1>13, <1>14, <1>15 DEF GuardInv, GuardTypeOK

\* Each step of the guard moves one request.
LEMMA ReleaseMoves ==
  ASSUME GuardInv, NEW r \in Requests, Release(r), UNCHANGED <<holder, leaked>>,
         place[r] \in {"queued", "late", "inside", "tooLong"}
  PROVE  \E p \in Places : Moves(r, p)
PROOF
  <1>0. /\ pending \in Nat /\ slots \in Nat /\ MaxPending \in Nat /\ pending <= MaxPending
        /\ place[r] \in Counted /\ r \notin leaked
    BY GuardAssumption DEF GuardInv, GuardTypeOK, MaxPending, Counted
  <1>1. PICK p \in {"gone", "leaving"} : Go(r, p) /\ pending' = pending - One(p = "gone")
    BY <1>0 DEF Release, One
  <1>2. p \in Places /\ (p \in Counted <=> p # "gone") /\ p \notin InSlot /\ p # "busy"
    BY DEF Places, Counted, InSlot
  <1>3. pending' = pending + One(p \in Counted \/ r \in leaked') - One(place[r] \in Counted)
    BY <1>0, <1>1, <1>2 DEF One
  <1>4. slots' = slots + One(place[r] \in InSlot) - One(p \in InSlot) /\ slots' >= 0
    BY <1>0, <1>2 DEF Release, One
  <1> QED
    BY <1>0, <1>1, <1>2, <1>3, <1>4 DEF Moves, One

LEMMA AdmissionMoves ==
  ASSUME GuardInv, NEW r \in Requests, Admission(r), UNCHANGED <<slots, leaked>>,
         place[r] \in {"out", "locking"}, holder = Nobody
  PROVE  \E p \in Places : Moves(r, p)
PROOF
  <1>0. /\ pending \in Nat /\ slots \in Nat /\ MaxPending \in Nat /\ pending <= MaxPending
        /\ place[r] \notin Counted /\ place[r] \notin InSlot /\ r \notin leaked
        /\ {"busy", "queued"} \subseteq Places
        /\ "busy" \notin Counted /\ "queued" \in Counted
        /\ "busy" \notin InSlot /\ "queued" \notin InSlot
    BY GuardAssumption DEF GuardInv, GuardTypeOK, MaxPending, Counted, InSlot, Places
  <1>1. CASE pending >= MaxPending
    BY <1>0, <1>1 DEF Admission, Moves, One
  <1>2. CASE ~(pending >= MaxPending)
    BY <1>0, <1>2 DEF Admission, Moves, One
  <1> QED
    BY <1>1, <1>2

LEMMA StepMoves ==
  ASSUME GuardInv, NEW r \in Requests, Serve(r) \/ Abort(r)
  PROVE  \E p \in Places : Moves(r, p)
PROOF
  <1>0. /\ pending \in Nat /\ slots \in Nat /\ MaxPending \in Nat /\ pending <= MaxPending
        /\ place[r] \in Places
        /\ place[r] # "gone" => r \notin leaked
        /\ place[r] = "busy" <=> holder = r
    BY GuardAssumption DEF GuardInv, GuardTypeOK, MaxPending
  <1>1. ASSUME NEW p \in Places, p \notin Counted, place[r] \notin Counted \cup {"gone"},
               p # "busy", Go(r, p), UNCHANGED <<pending, slots, leaked>>,
               holder' = IF place[r] = "busy" THEN Nobody ELSE holder
        PROVE  Moves(r, p)
    <2>1. p \notin InSlot /\ place[r] \notin InSlot
      BY <1>1 DEF Counted, InSlot
    <2> QED
      BY <1>0, <1>1, <2>1 DEF Moves, One
  <1>2. {"refusing", "locking", "gone"} \cap Counted = {} /\ {"refusing", "locking", "gone"} \subseteq Places
    BY DEF Counted, Places
  <1>3. CASE Arrive(r)
    <2>1. CASE LockIsFree /\ Admission(r)
      BY <1>3, <2>1, AdmissionMoves DEF Arrive, LockIsFree
    <2>2. CASE ~(LockIsFree /\ Admission(r))
      <3>1. PICK p \in {"refusing", "locking"} :
              Go(r, p) /\ UNCHANGED <<holder, pending, slots, leaked>> /\ place[r] = "out"
        BY <1>3, <2>2 DEF Arrive
      <3>2. Moves(r, p)
        BY <1>1, <1>2, <3>1 DEF Counted
      <3> QED
        BY <1>2, <3>2
    <2> QED
      BY <2>1, <2>2
  <1>4. CASE Admit(r)
    BY <1>4, AdmissionMoves DEF Admit
  <1>5. CASE TakeSlot(r)
    BY <1>0, <1>5 DEF TakeSlot, Moves, One, Counted, InSlot, Places
  <1>6. CASE GiveUp(r)
    BY <1>0, <1>6 DEF GiveUp, Moves, One, Counted, InSlot, Places
  <1>7. CASE Finish(r)
    BY <1>7, ReleaseMoves DEF Finish
  <1>8. CASE Overflow(r)
    <2>1. CASE Release(r)
      BY <1>8, <2>1, ReleaseMoves DEF Overflow
    <2>2. CASE Go(r, "tooLong") /\ UNCHANGED <<pending, slots>>
      BY <1>0, <1>8, <2>2 DEF Overflow, Moves, One, Counted, InSlot, Places
    <2> QED
      BY <1>8, <2>1, <2>2 DEF Overflow
  <1>9. CASE Sent(r)
    <2>1. CASE place[r] \in {"late", "tooLong"}
      BY <1>9, <2>1, ReleaseMoves DEF Sent
    <2>2. CASE place[r] \notin {"late", "tooLong"}
      <3>1. /\ place[r] \in {"refusing", "busy"} /\ Go(r, "gone")
            /\ UNCHANGED <<pending, slots, leaked>>
            /\ holder' = IF place[r] = "busy" THEN Nobody ELSE holder
        BY <1>9, <2>2 DEF Sent
      <3> QED
        BY <1>1, <1>2, <3>1 DEF Counted
    <2> QED
      BY <2>1, <2>2
  <1>10. CASE Uncount(r)
    BY <1>0, <1>10 DEF Uncount, Moves, One, Counted, InSlot, Places
  <1>11. CASE Abort(r)
    <2>1. CASE place[r] \in {"queued", "late"} \cup InSlot
      BY <1>11, <2>1, ReleaseMoves DEF Abort, InSlot
    <2>2. CASE place[r] \in {"refusing", "locking", "busy"}
      <3>1. /\ Go(r, "gone")
            /\ UNCHANGED <<pending, slots, leaked>>
            /\ holder' = IF place[r] = "busy" THEN Nobody ELSE holder
        BY <1>11, <2>2 DEF Abort, InSlot
      <3> QED
        BY <1>1, <1>2, <2>2, <3>1 DEF Counted
    <2>3. CASE place[r] = "leaving"
      BY <1>0, <1>11, <2>3 DEF Abort, Moves, One, Counted, InSlot, Places
    <2> QED
      BY <1>11, <2>1, <2>2, <2>3 DEF Abort
  <1> QED
    BY <1>3, <1>4, <1>5, <1>6, <1>7, <1>8, <1>9, <1>10, <1>11 DEF Serve

-----------------------------------------------------------------------------
(* The gateway. *)

\* What is registered for a task is the latest of its executions, until that
\* has left; what an execution has published tells how far it has come.
GatewayInv ==
  /\ stage \in [Executions -> Stages]
  /\ running \in [TaskIds -> Executions \cup {Nothing}]
  /\ latest \in [TaskIds -> Executions \cup {Nothing}]
  /\ verdicts \in [Executions -> Seq(Verdicts)]
  /\ \A t \in TaskIds : latest[t] # Nothing => TaskOf[latest[t]] = t
  /\ RegistryIsExact
  /\ \A e \in Executions :
       /\ stage[e] \in {"none", "starting", "extracting", "decoding", "handling"} => verdicts[e] = <<>>
       /\ stage[e] = "handled" => Len(verdicts[e]) = 1
  /\ cut \subseteq Executions
  /\ \A e \in cut : stage[e] # "none" /\ (e \notin doomed => latest[TaskOf[e]] # e)
  /\ stopping = "no" => cut = {}
  /\ OneVerdict

\* Execution e goes on to s; its registration goes with it if s is the end.
Goes(e, s) ==
  /\ stage[e] \in Live /\ Become(e, s)
  /\ running' = IF s = "ended"
                THEN [running EXCEPT ![TaskOf[e]] = IF @ = e THEN Nothing ELSE @]
                ELSE running
  /\ UNCHANGED <<doomed, cut, stopping, latest>>

LEMMA RegistryGoes ==
  ASSUME GatewayInv, NEW e \in Executions, NEW s \in Live \cup {"ended", "stranded"}, Goes(e, s)
  PROVE  /\ stage' \in [Executions -> Stages]
         /\ running' \in [TaskIds -> Executions \cup {Nothing}]
         /\ RegistryIsExact'
PROOF
  <1>0. /\ stage \in [Executions -> Stages] /\ latest \in [TaskIds -> Executions \cup {Nothing}]
        /\ running \in [TaskIds -> Executions \cup {Nothing}]
        /\ \A t \in TaskIds : latest[t] # Nothing => TaskOf[latest[t]] = t
        /\ RegistryIsExact
        /\ TaskOf[e] \in TaskIds /\ e # Nothing /\ s \in Stages
    BY GatewayAssumption DEF GatewayInv, TaskIds, Stages
  <1>1. /\ stage' = [stage EXCEPT ![e] = s] /\ latest' = latest /\ stage[e] \in Live
        /\ running' = IF s = "ended"
                      THEN [running EXCEPT ![TaskOf[e]] = IF @ = e THEN Nothing ELSE @]
                      ELSE running
    BY DEF Goes, Become
  <1>2. /\ stage' \in [Executions -> Stages]
        /\ running' \in [TaskIds -> Executions \cup {Nothing}]
    BY <1>0, <1>1
  <1>3. SUFFICES ASSUME NEW t \in TaskIds
        PROVE  running'[t] = IF latest[t] # Nothing /\ stage'[latest[t]] \in Live \cup {"stranded"}
                             THEN latest[t] ELSE Nothing
    BY <1>1, <1>2 DEF RegistryIsExact
  <1>4. running[t] = IF latest[t] # Nothing /\ stage[latest[t]] \in Live \cup {"stranded"}
                     THEN latest[t] ELSE Nothing
    BY <1>0 DEF RegistryIsExact
  <1>5. CASE latest[t] = e
    <2>1. t = TaskOf[e] /\ running[t] = e /\ stage'[e] = s
      BY <1>0, <1>1, <1>4, <1>5
    <2>2. CASE s = "ended"
      BY <1>0, <1>1, <1>5, <2>1, <2>2 DEF Live
    <2>3. CASE s # "ended"
      BY <1>0, <1>1, <1>5, <2>1, <2>3
    <2> QED
      BY <2>2, <2>3
  <1>6. CASE latest[t] # e
    <2>1. running[t] # e /\ running'[t] = running[t]
      BY <1>0, <1>1, <1>4, <1>6
    <2>2. latest[t] # Nothing => stage'[latest[t]] = stage[latest[t]]
      BY <1>0, <1>1, <1>6
    <2> QED
      BY <1>4, <2>1, <2>2
  <1> QED
    BY <1>5, <1>6

\* An execution that goes on keeps its verdicts, or publishes its only one.
GoesWith(e, s, v) ==
  /\ s \in Live \cup {"ended", "stranded"} /\ Goes(e, s)
  /\ v \in Seq(Verdicts) /\ verdicts' = [verdicts EXCEPT ![e] = v]
  /\ Len(v) <= 1
  /\ s \in {"starting", "extracting", "decoding", "handling"} => v = <<>>
  /\ s = "handled" => Len(v) = 1
  /\ s = "ended" /\ e \notin doomed => Len(v) = 1 \/ e \in cut

LEMMA GoesOn ==
  ASSUME GatewayInv, NEW e \in Executions, NEW s, NEW v, GoesWith(e, s, v)
  PROVE  GatewayInv'
PROOF
  <1>0. /\ s \in Live \cup {"ended", "stranded"} /\ Goes(e, s)
        /\ v \in Seq(Verdicts) /\ verdicts' = [verdicts EXCEPT ![e] = v]
        /\ Len(v) <= 1
        /\ s \in {"starting", "extracting", "decoding", "handling"} => v = <<>>
        /\ s = "handled" => Len(v) = 1
        /\ s = "ended" /\ e \notin doomed => Len(v) = 1 \/ e \in cut
    BY DEF GoesWith
  <1>1. /\ stage' \in [Executions -> Stages]
        /\ running' \in [TaskIds -> Executions \cup {Nothing}]
        /\ RegistryIsExact'
    BY <1>0, RegistryGoes
  <1>2. /\ verdicts' \in [Executions -> Seq(Verdicts)]
        /\ \A d \in Executions :
             /\ verdicts'[d] = IF d = e THEN v ELSE verdicts[d]
             /\ stage'[d] = IF d = e THEN s ELSE stage[d]
        /\ doomed' = doomed /\ latest' = latest /\ cut' = cut
        /\ stopping' = stopping
    BY <1>0 DEF GatewayInv, Goes, Become
  <1>3. OneVerdict'
    BY <1>0, <1>2 DEF GatewayInv, OneVerdict
  <1>4. \A d \in Executions :
          /\ stage'[d] \in {"none", "starting", "extracting", "decoding", "handling"} => verdicts'[d] = <<>>
          /\ stage'[d] = "handled" => Len(verdicts'[d]) = 1
    <2>1. TAKE d \in Executions
    <2>2. CASE d = e
      <3>1. stage'[d] = s /\ verdicts'[d] = v /\ s # "none"
        BY <1>0, <1>2, <2>2 DEF Live
      <3> QED
        BY <1>0, <3>1
    <2>3. CASE d # e
      <3>1. stage'[d] = stage[d] /\ verdicts'[d] = verdicts[d]
        BY <1>2, <2>3
      <3> QED
        BY <3>1 DEF GatewayInv
    <2> QED
      BY <2>2, <2>3
  <1>5. \A d \in cut : stage'[d] # "none" /\ (d \notin doomed => latest[TaskOf[d]] # d)
    <2>1. s # "none"
      BY <1>0 DEF Live
    <2>2. cut \subseteq Executions
          /\ \A d \in cut : stage[d] # "none" /\ (d \notin doomed => latest[TaskOf[d]] # d)
      BY DEF GatewayInv
    <2> QED
      BY <1>2, <2>1, <2>2
  <1> QED
    BY <1>1, <1>2, <1>3, <1>4, <1>5 DEF GatewayInv

\* What an execution has published so far.
LEMMA Published ==
  ASSUME GatewayInv, NEW e \in Executions
  PROVE  /\ verdicts[e] \in Seq(Verdicts) /\ Len(verdicts[e]) <= 1
         /\ verdicts = [verdicts EXCEPT ![e] = verdicts[e]]
         /\ verdicts[e] = <<>> <=> Len(verdicts[e]) = 0
PROOF
  <1>1. verdicts[e] \in Seq(Verdicts) /\ Len(verdicts[e]) <= 1
    BY DEF GatewayInv, OneVerdict
  <1>2. Len(verdicts[e]) = 0 <=> verdicts[e] = <<>>
    BY <1>1
  <1>3. verdicts = [verdicts EXCEPT ![e] = verdicts[e]]
    BY DEF GatewayInv
  <1> QED
    BY <1>1, <1>2, <1>3

LEMMA RunKeeps ==
  ASSUME GatewayInv, NEW e \in Executions, Run(e)
  PROVE  GatewayInv'
PROOF
  <1>0. /\ verdicts[e] \in Seq(Verdicts) /\ Len(verdicts[e]) <= 1
        /\ verdicts = [verdicts EXCEPT ![e] = verdicts[e]]
        /\ verdicts[e] = <<>> <=> Len(verdicts[e]) = 0
        /\ stage[e] \in {"none", "starting", "extracting", "decoding", "handling"} => verdicts[e] = <<>>
        /\ stage[e] = "handled" => Len(verdicts[e]) = 1
    BY Published DEF GatewayInv
  <1>1. CASE StartWork(e)
    <2>1. Goes(e, "extracting") /\ UNCHANGED verdicts /\ verdicts[e] = <<>>
      BY <1>0, <1>1 DEF StartWork, Goes, Live, Unstopped
    <2>2. GoesWith(e, "extracting", verdicts[e])
      BY <1>0, <2>1 DEF GoesWith, Live
    <2> QED
      BY <2>2, GoesOn
  <1>2. CASE Extract(e)
    <2>1. PICK s \in {"handling", "decoding", "reporting"} : Goes(e, s)
      BY <1>2 DEF Extract, Accept, Goes, Live, Unstopped
    <2>2. UNCHANGED verdicts /\ verdicts[e] = <<>>
      BY <1>0, <1>2 DEF Extract
    <2>3. GoesWith(e, s, verdicts[e])
      BY <1>0, <2>1, <2>2 DEF GoesWith, Live
    <2> QED
      BY <2>3, GoesOn
  <1>8. CASE Decode(e)
    <2>1. PICK s \in {"handling", "reporting"} : Goes(e, s)
      BY <1>8 DEF Decode, Accept, Goes, Live, Unstopped
    <2>2. UNCHANGED verdicts /\ verdicts[e] = <<>>
      BY <1>0, <1>8 DEF Decode
    <2>3. GoesWith(e, s, verdicts[e])
      BY <1>0, <2>1, <2>2 DEF GoesWith, Live
    <2> QED
      BY <2>3, GoesOn
  <1>9. CASE LoseDecoding(e)
    <2>1. Goes(e, "ended") /\ UNCHANGED verdicts /\ e \in cut
      BY <1>9 DEF LoseDecoding, End, Goes, Live, Unstopped
    <2>2. GoesWith(e, "ended", verdicts[e])
      BY <1>0, <2>1 DEF GoesWith
    <2> QED
      BY <2>2, GoesOn
  <1>3. CASE Complete(e)
    <2> DEFINE v == Append(verdicts[e], "completed")
    <2>1. Goes(e, "handled") /\ verdicts[e] = <<>> /\ verdicts' = [verdicts EXCEPT ![e] = v]
      BY <1>0, <1>3 DEF Complete, Goes, Live, Unstopped
    <2>2. v \in Seq(Verdicts) /\ Len(v) = 1
      BY <1>0, <2>1 DEF Verdicts
    <2> HIDE DEF v
    <2>3. GoesWith(e, "handled", v)
      BY <2>1, <2>2 DEF GoesWith, Live
    <2> QED
      BY <2>3, GoesOn
  <1>4. CASE GoWrong(e)
    <2>1. Goes(e, "reporting") /\ UNCHANGED verdicts
      BY <1>4 DEF GoWrong, Goes, Live, Unstopped
    <2>2. GoesWith(e, "reporting", verdicts[e])
      BY <1>0, <2>1 DEF GoesWith, Live
    <2> QED
      BY <2>2, GoesOn
  <1>5. CASE HandlerEnds(e)
    <2>1. Goes(e, "ended") /\ UNCHANGED verdicts /\ Len(verdicts[e]) = 1
      BY <1>0, <1>5 DEF HandlerEnds, End, Goes, Live, Unstopped
    <2>2. GoesWith(e, "ended", verdicts[e])
      BY <1>0, <2>1 DEF GoesWith
    <2> QED
      BY <2>2, GoesOn
  <1>6. CASE Report(e)
    <2>1. Goes(e, "ended")
      BY <1>6 DEF Report, End, Goes, Live, Unstopped
    <2>2. CASE verdicts[e] = <<>>
      <3>1. verdicts' = [verdicts EXCEPT ![e] = <<"failed">>]
        BY <1>6, <2>2 DEF Report
      <3>2. <<"failed">> \in Seq(Verdicts)
        BY DEF Verdicts
      <3>3. Len(<<"failed">>) = 1
        OBVIOUS
      <3>4. GoesWith(e, "ended", <<"failed">>)
        BY <2>1, <3>1, <3>2, <3>3 DEF GoesWith
      <3> QED
        BY <3>4, GoesOn
    <2>3. CASE verdicts[e] # <<>>
      <3>1. verdicts' = [verdicts EXCEPT ![e] = verdicts[e]]
        BY <1>6, <2>3 DEF Report
      <3>2. Len(verdicts[e]) \in Nat
        BY <1>0
      <3>3. Len(verdicts[e]) = 1
        <4>1. Len(verdicts[e]) # 0
          BY <1>0, <2>3
        <4>2. Len(verdicts[e]) <= 1
          BY <1>0
        <4> DEFINE n == Len(verdicts[e])
        <4>3. n \in Nat /\ n # 0 /\ n <= 1
          BY <3>2, <4>1, <4>2
        <4> HIDE DEF n
        <4>4. n = 1
          BY <4>3
        <4> QED
          BY <4>4 DEF n
      <3>4. GoesWith(e, "ended", verdicts[e])
        BY <1>0, <2>1, <3>1, <3>3 DEF GoesWith
      <3> QED
        BY <3>4, GoesOn
    <2> QED
      BY <2>2, <2>3
  <1>7. CASE Die(e)
    <2>1. PICK s \in {"stranded", "ended"} : Goes(e, s)
      BY <1>7 DEF Die, End, Goes, Unstopped
    <2>2. UNCHANGED verdicts /\ e \in doomed
      BY <1>7 DEF Die
    <2>3. GoesWith(e, s, verdicts[e])
      BY <1>0, <2>1, <2>2 DEF GoesWith
    <2> QED
      BY <2>3, GoesOn
  <1> QED
    BY <1>1, <1>2, <1>3, <1>4, <1>5, <1>6, <1>7, <1>8, <1>9 DEF Run

\* A new execution takes the registration of its task.
LEMMA ExecuteKeeps ==
  ASSUME GatewayInv, NEW e \in Executions, Execute(e)
  PROVE  GatewayInv'
PROOF
  <1>0. /\ stage \in [Executions -> Stages] /\ latest \in [TaskIds -> Executions \cup {Nothing}]
        /\ running \in [TaskIds -> Executions \cup {Nothing}]
        /\ \A t \in TaskIds : latest[t] # Nothing => TaskOf[latest[t]] = t
        /\ TaskOf[e] \in TaskIds /\ e # Nothing /\ "starting" \in Stages
        /\ stage[e] = "none" /\ "none" \notin Live \cup {"stranded"} /\ "starting" \in Live
    BY GatewayAssumption DEF GatewayInv, TaskIds, Stages, Live, Execute
  <1>1. /\ stage' = [stage EXCEPT ![e] = "starting"]
        /\ running' = [running EXCEPT ![TaskOf[e]] = e]
        /\ latest' = [latest EXCEPT ![TaskOf[e]] = e]
        /\ UNCHANGED <<doomed, cut, stopping, verdicts>>
    BY DEF Execute, Become
  <1>2. /\ stage' \in [Executions -> Stages]
        /\ running' \in [TaskIds -> Executions \cup {Nothing}]
        /\ latest' \in [TaskIds -> Executions \cup {Nothing}]
        /\ \A t \in TaskIds : latest'[t] # Nothing => TaskOf[latest'[t]] = t
    BY <1>0, <1>1
  <1>3. RegistryIsExact'
    <2>1. SUFFICES ASSUME NEW t \in TaskIds
          PROVE  running'[t] = IF latest'[t] # Nothing /\ stage'[latest'[t]] \in Live \cup {"stranded"}
                               THEN latest'[t] ELSE Nothing
      BY DEF RegistryIsExact
    <2>2. CASE t = TaskOf[e]
      BY <1>0, <1>1, <2>2
    <2>3. CASE t # TaskOf[e]
      <3>1. latest[t] # e /\ latest'[t] = latest[t] /\ running'[t] = running[t]
        BY <1>0, <1>1, <2>3
      <3>2. latest[t] # Nothing => stage'[latest[t]] = stage[latest[t]]
        BY <1>0, <1>1, <3>1
      <3> QED
        BY <3>1, <3>2 DEF GatewayInv, RegistryIsExact
    <2> QED
      BY <2>2, <2>3
  <1>4. \A d \in Executions : stage'[d] = IF d = e THEN "starting" ELSE stage[d]
    BY <1>0, <1>1
  <1>5. /\ OneVerdict'
        /\ \A d \in Executions :
             /\ stage'[d] \in {"none", "starting", "extracting", "decoding", "handling"} => verdicts'[d] = <<>>
             /\ stage'[d] = "handled" => Len(verdicts'[d]) = 1
    <2>1. \A d \in Executions : d # e => (latest[TaskOf[d]] # d => latest'[TaskOf[d]] # d)
      BY <1>0, <1>1, GatewayAssumption DEF TaskIds
    <2> QED
      BY <1>0, <1>1, <1>4, <2>1 DEF GatewayInv, OneVerdict
  <1>6. \A d \in cut : stage'[d] # "none" /\ (d \notin doomed => latest'[TaskOf[d]] # d)
    BY <1>0, <1>1, <1>4, <1>2 DEF GatewayInv
  <1> QED
    BY <1>1, <1>2, <1>3, <1>5, <1>6 DEF GatewayInv

\* cancel and shutdown cancel what lives, and nothing that has ended.
LEMMA DoomKeeps ==
  ASSUME GatewayInv, UNCHANGED <<stage, running, cut, verdicts, latest>>,
         doomed \subseteq doomed', stopping' = "no" => stopping = "no"
  PROVE  GatewayInv'
PROOF
  <1>1. RegistryIsExact' /\ OneVerdict'
    BY DEF GatewayInv, RegistryIsExact, OneVerdict
  <1> QED
    BY <1>1 DEF GatewayInv

\* What shutdown cuts without cancelling it has lost its registration.
LEMMA ShutdownKeeps ==
  ASSUME GatewayInv, Shutdown
  PROVE  GatewayInv'
PROOF
  <1>1. /\ UNCHANGED <<stage, running, verdicts, latest>> /\ doomed \subseteq doomed'
        /\ cut' \subseteq {e \in Executions : stage[e] = "decoding"}
        /\ \A t \in TaskIds : running[t] # Nothing /\ stage[running[t]] \in Live =>
             running[t] \in doomed'
    BY DEF Shutdown, Doom
  <1>2. ASSUME NEW e \in cut', e \notin doomed' PROVE latest[TaskOf[e]] # e
    <2>1. e \in Executions /\ stage[e] \in Live /\ TaskOf[e] \in TaskIds /\ e # Nothing
      BY <1>1, <1>2, GatewayAssumption DEF Live, TaskIds
    <2>2. latest[TaskOf[e]] = e => running[TaskOf[e]] = e
      BY <2>1 DEF GatewayInv, RegistryIsExact
    <2> QED
      BY <1>1, <1>2, <2>1, <2>2
  <1>3. RegistryIsExact'
    BY <1>1 DEF GatewayInv, RegistryIsExact
  <1>4. cut = {} /\ stopping' = "waiting"
    BY DEF Shutdown, GatewayInv
  <1>5. OneVerdict'
    BY <1>1, <1>4 DEF GatewayInv, OneVerdict
  <1> QED
    BY <1>1, <1>2, <1>3, <1>4, <1>5 DEF GatewayInv

-----------------------------------------------------------------------------
(* The server. *)

LEMMA StartsWell == Init => GuardInv /\ GatewayInv
PROOF
  <1>1. ASSUME Init PROVE GuardInv
    <2>1. /\ place = [r \in Requests |-> "out"] /\ holder = Nobody /\ pending = 0
          /\ slots = MaxConcurrent /\ leaked = {}
      BY <1>1 DEF Init, GuardInit
    <2>2. At(Counted) = {} /\ At(InSlot) = {} /\ At({"busy"}) = {}
      BY <2>1 DEF At, Counted, InSlot
    <2>3. CountsBalance
      BY <2>1, <2>2, FS_EmptySet, GuardAssumption DEF CountsBalance
    <2>4. GuardTypeOK
      BY <2>1, GuardAssumption DEF GuardTypeOK, MaxPending, Places
    <2> QED
      BY <2>1, <2>3, <2>4, GuardAssumption DEF GuardInv
  <1>2. ASSUME Init PROVE GatewayInv
    <2>1. /\ stage = [e \in Executions |-> "none"] /\ verdicts = [e \in Executions |-> <<>>]
          /\ running = [t \in TaskIds |-> Nothing] /\ latest = [t \in TaskIds |-> Nothing]
          /\ cut = {}
      BY <1>2 DEF Init, GatewayInit
    <2>2. RegistryIsExact /\ OneVerdict
      BY <2>1 DEF RegistryIsExact, OneVerdict
    <2> QED
      BY <2>1, <2>2 DEF GatewayInv, Stages, Verdicts
  <1> QED
    BY <1>1, <1>2

LEMMA NextKeepsGuard == GuardInv /\ [Next]_vars => GuardInv'
PROOF
  <1>1. SUFFICES ASSUME GuardInv, [Next]_vars PROVE GuardInv'
    OBVIOUS
  <1>2. CASE UNCHANGED guard
    BY <1>1, <1>2 DEF guard, GuardInv, GuardTypeOK, CountsBalance, At
  <1>3. CASE \E r \in Requests : Serve(r) \/ Abort(r)
    BY <1>1, <1>3, StepMoves, MoveBalances
  <1> QED
    BY <1>1, <1>2, <1>3 DEF Next, vars, Begin, CancelRequest, StoreOther, Poll, Publish,
                            Continue, Lifespan

LEMMA NextKeepsGateway == GatewayInv /\ [Next]_vars => GatewayInv'
PROOF
  <1>1. SUFFICES ASSUME GatewayInv, [Next]_vars PROVE GatewayInv'
    OBVIOUS
  <1>2. CASE UNCHANGED gateway
    BY <1>1, <1>2, DoomKeeps DEF gateway
  <1>3. CASE \E r \in Requests : Begin(r) \/ CancelRequest(r)
    <2>1. PICK r \in Requests : Begin(r) \/ CancelRequest(r)
      BY <1>3
    <2>2. CASE Begin(r)
      BY <1>1, <2>2, ExecuteKeeps DEF Begin
    <2>3. CASE CancelRequest(r)
      BY <1>1, <2>3, DoomKeeps DEF CancelRequest, CancelTask, Doom
    <2> QED
      BY <2>1, <2>2, <2>3
  <1>4. CASE \E e \in Executions : Publish(e) \/ Continue(e)
    BY <1>1, <1>4, RunKeeps DEF Publish, Continue, Run
  <1>5. CASE Lifespan
    BY <1>1, <1>5, DoomKeeps, ShutdownKeeps DEF Lifespan, ShutdownReturns
  <1> QED
    BY <1>1, <1>2, <1>3, <1>4, <1>5 DEF Next, vars, StoreOther, Poll

\* The guard's count and slots never drift from the requests under way: every
\* way out of the guard gives back what was taken, except for a request that is
\* cancelled while it waits for the lock to be uncounted, which is remembered.
THEOREM CountsAreBalanced == Spec => []CountsBalance
PROOF
  <1>1. GuardInv => CountsBalance
    BY DEF GuardInv
  <1>2. Init => GuardInv
    BY StartsWell
  <1> QED
    BY <1>1, <1>2, NextKeepsGuard, PTL DEF Spec

\* cancel and shutdown find the latest execution of a task while it lives,
\* whichever of its predecessors end meanwhile.
THEOREM RegistryStaysExact == Spec => []RegistryIsExact
PROOF
  <1>1. GatewayInv => RegistryIsExact
    BY DEF GatewayInv
  <1>2. Init => GatewayInv
    BY StartsWell
  <1> QED
    BY <1>1, <1>2, NextKeepsGateway, PTL DEF Spec

\* No execution publishes two terminal statuses, and none ends without one
\* unless it was cancelled, or had been replaced when shutdown cancelled the
\* decoding of its files.
THEOREM OneVerdictEach == Spec => []OneVerdict
PROOF
  <1>1. GatewayInv => OneVerdict
    BY DEF GatewayInv
  <1>2. Init => GatewayInv
    BY StartsWell
  <1> QED
    BY <1>1, <1>2, NextKeepsGateway, PTL DEF Spec

=============================================================================
