-------------------------- MODULE ToolCalls_proofs --------------------------
(***************************************************************************)
(* What ToolCalls keeps, for any number of executions of a turn, calls,    *)
(* keys, proposals and entries of the stores: an effect is repeated only   *)
(* if its receipt was forgotten, no claim is left behind, every start is   *)
(* covered by an approval, and a live request is the one find returns.     *)
(* The invariant keeps three balances: of starts against receipts, of      *)
(* repeats against what made them possible, and of starts against          *)
(* approvals.                                                              *)
(***************************************************************************)
EXTENDS ToolCalls, Lists_proofs

-----------------------------------------------------------------------------
(* The approval requests. *)

\* A live request is the last of its proposal: what is created after it for
\* the same proposal finds it decided against or used.  Ids tell requests apart.
DeskInv ==
  /\ approvals \in Seq(ApprovalRequest) /\ created \in Nat
  /\ \A n \in 1 .. Len(approvals) : approvals[n].id \in 1 .. created
  /\ \A m, n \in 1 .. Len(approvals) : approvals[m].id = approvals[n].id => m = n
  /\ \A m, n \in 1 .. Len(approvals) :
       approvals[m].status \in LiveStatus /\ m < n
         => approvals[m].proposal # approvals[n].proposal

IsApproved(p) ==
  \E n \in 1 .. Len(approvals) :
    approvals[n].proposal = p /\ approvals[n].status = "approved"

\* A request that has the id of an earlier one is for the same proposal.
IdsStay ==
  /\ created <= created'
  /\ \A n \in 1 .. Len(approvals') :
       approvals'[n].id <= created =>
         \E m \in 1 .. Len(approvals) :
           approvals[m].id = approvals'[n].id /\ approvals[m].proposal = approvals'[n].proposal

LEMMA LiveIsFound ==
  ASSUME DeskInv
  PROVE  LiveRequestIsFound
PROOF
  <1>0. approvals \in Seq(ApprovalRequest) /\ DOMAIN approvals = 1 .. Len(approvals)
        /\ Len(approvals) \in Nat
    BY DEF DeskInv
  <1>1. SUFFICES ASSUME NEW n \in 1 .. Len(approvals), approvals[n].status \in LiveStatus
                 PROVE  Find(approvals[n].proposal) = approvals[n]
    BY <1>0 DEF LiveRequestIsFound
  <1> DEFINE P == Places(approvals[n].proposal)
  <1>2. P \subseteq 1 .. Len(approvals) /\ n \in P
    BY <1>0 DEF Places
  <1>3. \A m \in P : m <= n
    BY <1>0, <1>1, <1>2 DEF DeskInv, Places
  <1> HIDE DEF P
  <1>4. (CHOOSE k \in P : \A m \in P : m <= k) = n
    <2>1. \A k \in P : (\A m \in P : m <= k) => k = n
      BY <1>0, <1>2, <1>3
    <2>2. \E k \in P : \A m \in P : m <= k
      BY <1>2, <1>3
    <2> QED
      BY <2>1, <2>2
  <1> QED
    BY <1>2, <1>4 DEF Find, P

\* A new request, for a proposal that has no live one.
LEMMA CreateKeeps ==
  ASSUME DeskInv, NEW p \in Proposals, Create(p),
         \A n \in 1 .. Len(approvals) :
           approvals[n].status \in LiveStatus => approvals[n].proposal # p
  PROVE  DeskInv' /\ IdsStay /\ \A q \in Proposals : IsApproved(q)' => IsApproved(q)
PROOF
  <1> DEFINE L == Len(approvals)
             r == [id |-> created + 1, proposal |-> p, status |-> "pending"]
             room == MadeRoom
  <1>0. approvals \in Seq(ApprovalRequest) /\ created \in Nat /\ L \in Nat
        /\ DOMAIN approvals = 1 .. L
        /\ \A n \in 1 .. L : approvals[n] \in ApprovalRequest
    BY DEF DeskInv
  <1>1. approvals' = Append(room, r) /\ created' = created + 1 /\ HasSpace
    BY DEF Create
  <1>14. \A n \in 1 .. L : approvals[n].status \in LiveStatus => approvals[n].proposal # p
    OBVIOUS
  <1>2. room \in Seq(ApprovalRequest) /\ \E M \in SUBSET (1 .. L) : LeavesOnly(room, approvals, M)
    <2>1. CASE L < MaxApprovals
      <3>1. room = approvals
        BY <2>1 DEF MadeRoom
      <3> DEFINE g == [i \in 1 .. L |-> i]
      <3>2. /\ g \in [1 .. L -> 1 .. L]
            /\ \A i \in 1 .. L : g[i] = i
        OBVIOUS
      <3> HIDE DEF room, g
      <3>3. LeavesOnly(room, approvals, 1 .. L)
        BY <1>0, <3>1, <3>2 DEF LeavesOnly
      <3> QED
        BY <1>0, <3>1, <3>3
    <2>2. CASE ~ (L < MaxApprovals)
      <3> DEFINE oldest == CHOOSE n \in Decided : \A m \in Decided : n <= m
      <3>1. Decided # {} /\ Decided \subseteq 1 .. L
        BY <1>0, <1>1, <2>2 DEF HasSpace, Decided
      <3>2. oldest \in Decided
        <4>1. \E n \in Decided : \A m \in Decided : n <= m
          BY <1>0, <3>1, LeastOf
        <4> QED
          BY <4>1
      <3>3. oldest \in 1 .. L
        BY <3>1, <3>2
      <3>4. room = SubSeq(approvals, 1, oldest - 1) \o SubSeq(approvals, oldest + 1, L)
        BY <2>2 DEF MadeRoom
      <3> HIDE DEF oldest, room
      <3>5. room \in Seq(ApprovalRequest) /\ LeavesOnly(room, approvals, (1 .. L) \ {oldest})
        BY <1>0, <3>3, <3>4, OneRemoved
      <3> QED
        BY <3>5
    <2> QED
      BY <2>1, <2>2
  <1>3. PICK g \in [1 .. Len(room) -> 1 .. L] :
          /\ \A i \in 1 .. Len(room) : room[i] = approvals[g[i]]
          /\ \A i, j \in 1 .. Len(room) : i < j => g[i] < g[j]
    BY <1>2 DEF LeavesOnly
  <1>4. r \in ApprovalRequest
    BY <1>0 DEF ApprovalRequest, ApprovalStatus
  <1> HIDE DEF room, r, L
  <1>5. /\ approvals' \in Seq(ApprovalRequest) /\ Len(approvals') = Len(room) + 1
        /\ approvals'[Len(room) + 1] = r
        /\ \A i \in 1 .. Len(room) : approvals'[i] = room[i]
        /\ Len(room) \in Nat
    BY <1>1, <1>2, <1>4
  <1> DEFINE K == Len(room)
  <1>6. r.id = created + 1 /\ r.proposal = p
    BY DEF r
  <1> HIDE DEF K
  <1>7. /\ K \in Nat /\ Len(approvals') = K + 1 /\ approvals'[K + 1] = r
        /\ \A i \in 1 .. K : g[i] \in 1 .. L /\ approvals'[i] = approvals[g[i]]
        /\ \A i, j \in 1 .. K : i < j => g[i] < g[j]
    BY <1>3, <1>5 DEF K
  <1>8. /\ \A n \in 1 .. L : approvals[n].id \in 1 .. created
        /\ \A m, n \in 1 .. L : approvals[m].id = approvals[n].id => m = n
        /\ \A m, n \in 1 .. L : approvals[m].status \in LiveStatus /\ m < n
             => approvals[m].proposal # approvals[n].proposal
    BY <1>0 DEF DeskInv, L
  <1>9. \A n \in 1 .. K + 1 : approvals'[n].id \in 1 .. created + 1
    <2>1. SUFFICES ASSUME NEW n \in 1 .. K + 1 PROVE approvals'[n].id \in 1 .. created + 1
      OBVIOUS
    <2>2. CASE n \in 1 .. K
      <3>1. approvals'[n].id \in 1 .. created
        BY <1>7, <1>8, <2>2
      <3> QED
        BY <1>0, <3>1
    <2>3. CASE n = K + 1
      BY <1>0, <1>6, <1>7, <2>3
    <2> QED
      BY <1>7, <2>2, <2>3
  <1>10. \A m, n \in 1 .. K + 1 : approvals'[m].id = approvals'[n].id => m = n
    <2>1. SUFFICES ASSUME NEW m \in 1 .. K + 1, NEW n \in 1 .. K + 1, m < n
                   PROVE  approvals'[m].id # approvals'[n].id
      BY <1>7
    <2>2. m \in 1 .. K /\ (n \in 1 .. K \/ n = K + 1)
      BY <1>7, <2>1
    <2>3. CASE n \in 1 .. K
      <3>1. g[m] \in 1 .. L /\ g[n] \in 1 .. L /\ g[m] < g[n]
        BY <1>7, <2>1, <2>2, <2>3
      <3>2. g[m] # g[n]
        BY <1>0, <3>1
      <3>3. approvals'[m] = approvals[g[m]] /\ approvals'[n] = approvals[g[n]]
        BY <1>7, <2>2, <2>3
      <3>4. approvals[g[m]].id # approvals[g[n]].id
        BY <1>8, <3>1, <3>2
      <3> QED
        BY <3>3, <3>4
    <2>4. CASE n = K + 1
      <3>1. g[m] \in 1 .. L /\ approvals'[m] = approvals[g[m]]
        BY <1>7, <2>2
      <3>2. approvals'[m].id \in 1 .. created
        BY <1>8, <3>1
      <3>3. approvals'[n].id = created + 1
        BY <1>6, <1>7, <2>4
      <3> QED
        BY <1>0, <3>2, <3>3
    <2> QED
      BY <2>2, <2>3, <2>4
  <1>11. \A m, n \in 1 .. K + 1 :
           approvals'[m].status \in LiveStatus /\ m < n
             => approvals'[m].proposal # approvals'[n].proposal
    <2>1. SUFFICES ASSUME NEW m \in 1 .. K + 1, NEW n \in 1 .. K + 1, m < n,
                          approvals'[m].status \in LiveStatus
                   PROVE  approvals'[m].proposal # approvals'[n].proposal
      OBVIOUS
    <2>2. m \in 1 .. K /\ (n \in 1 .. K \/ n = K + 1)
      BY <1>7, <2>1
    <2>3. CASE n \in 1 .. K
      <3>1. g[m] \in 1 .. L /\ g[n] \in 1 .. L /\ g[m] < g[n]
        BY <1>7, <2>1, <2>2, <2>3
      <3> QED
        BY <1>7, <1>8, <2>1, <2>2, <2>3, <3>1
    <2>4. CASE n = K + 1
      <3>1. g[m] \in 1 .. L /\ approvals'[m] = approvals[g[m]]
        BY <1>7, <2>2
      <3> QED
        BY <1>6, <1>7, <1>14, <2>1, <2>4, <3>1
    <2> QED
      BY <2>2, <2>3, <2>4
  <1>12. created' \in Nat
    BY <1>0, <1>1
  <1>13. IdsStay
    <2>1. created <= created'
      BY <1>0, <1>1
    <2>2. ASSUME NEW n \in 1 .. K + 1, approvals'[n].id <= created
          PROVE  \E m \in 1 .. L : /\ approvals[m].id = approvals'[n].id
                                   /\ approvals[m].proposal = approvals'[n].proposal
      <3>1. n # K + 1
        BY <1>0, <1>6, <1>7, <2>2
      <3>2. n \in 1 .. K
        BY <1>7, <2>2, <3>1
      <3> QED
        BY <1>7, <3>2
    <2> QED
      BY <1>7, <2>1, <2>2 DEF IdsStay, L
  <1>15. ASSUME NEW q \in Proposals, IsApproved(q)' PROVE IsApproved(q)
    <2>1. PICK n \in 1 .. K + 1 : approvals'[n].proposal = q /\ approvals'[n].status = "approved"
      BY <1>7, <1>15 DEF IsApproved
    <2>2. n \in 1 .. K
      <3>1. n # K + 1
        BY <1>7, <2>1 DEF r
      <3> QED
        BY <1>7, <2>1, <3>1
    <2> QED
      BY <1>7, <2>1, <2>2 DEF IsApproved, L
  <1>16. DeskInv'
    BY <1>1, <1>5, <1>7, <1>9, <1>10, <1>11, <1>12 DEF DeskInv
  <1> QED
    BY <1>13, <1>15, <1>16

\* A decision or a use changes one request, and makes none live.
LEMMA StatusKeeps ==
  ASSUME DeskInv, NEW id, NEW status \in ApprovalStatus, SetStatus(id, status),
         UNCHANGED created,
         \A n \in 1 .. Len(approvals) :
           approvals[n].id = id /\ status \in LiveStatus => approvals[n].status \in LiveStatus
  PROVE  /\ DeskInv' /\ IdsStay /\ Len(approvals') = Len(approvals)
         /\ \A n \in 1 .. Len(approvals) :
              /\ approvals'[n].id = approvals[n].id
              /\ approvals'[n].proposal = approvals[n].proposal
              /\ approvals'[n].status = IF approvals[n].id = id THEN status
                                        ELSE approvals[n].status
PROOF
  <1>0. approvals \in Seq(ApprovalRequest) /\ Len(approvals) \in Nat
        /\ DOMAIN approvals = 1 .. Len(approvals)
        /\ \A n \in 1 .. Len(approvals) : approvals[n] \in ApprovalRequest
    BY DEF DeskInv
  <1>1. approvals' = [n \in 1 .. Len(approvals) |->
                        IF approvals[n].id = id
                        THEN [approvals[n] EXCEPT !.status = status] ELSE approvals[n]]
    BY <1>0 DEF SetStatus
  <1>2. \A n \in 1 .. Len(approvals) :
          /\ approvals'[n] \in ApprovalRequest
          /\ approvals'[n].id = approvals[n].id /\ approvals'[n].proposal = approvals[n].proposal
          /\ approvals'[n].status \in LiveStatus => approvals[n].status \in LiveStatus
          /\ approvals'[n].status = IF approvals[n].id = id THEN status ELSE approvals[n].status
    <2>1. SUFFICES ASSUME NEW n \in 1 .. Len(approvals)
          PROVE  /\ approvals'[n] \in ApprovalRequest
                 /\ approvals'[n].id = approvals[n].id
                 /\ approvals'[n].proposal = approvals[n].proposal
                 /\ approvals'[n].status \in LiveStatus => approvals[n].status \in LiveStatus
                 /\ approvals'[n].status = IF approvals[n].id = id THEN status
                                           ELSE approvals[n].status
      OBVIOUS
    <2> DEFINE x == approvals[n]
    <2>2. x \in ApprovalRequest
      BY <1>0, <2>1
    <2>3. approvals'[n] = IF x.id = id THEN [x EXCEPT !.status = status] ELSE x
      BY <1>1, <2>1
    <2>4. x.id = id /\ status \in LiveStatus => x.status \in LiveStatus
      BY <2>1
    <2> HIDE DEF x
    <2>5. /\ approvals'[n] \in ApprovalRequest
          /\ approvals'[n].id = x.id /\ approvals'[n].proposal = x.proposal
          /\ approvals'[n].status \in LiveStatus => x.status \in LiveStatus
          /\ approvals'[n].status = IF x.id = id THEN status ELSE x.status
      BY <2>2, <2>3, <2>4 DEF ApprovalRequest
    <2> QED
      BY <2>5 DEF x
  <1>3. approvals' \in Seq(ApprovalRequest) /\ Len(approvals') = Len(approvals)
    BY <1>0, <1>1, <1>2
  <1>4. DeskInv'
    BY <1>2, <1>3 DEF DeskInv
  <1>5. IdsStay
    <2>1. created \in Nat /\ created' = created
      BY DEF DeskInv
    <2> QED
      BY <1>2, <1>3, <2>1 DEF IdsStay
  <1> QED
    BY <1>2, <1>3, <1>4, <1>5

LEMMA DecideKeeps ==
  ASSUME DeskInv, granted \in [Proposals -> Nat], Decide
  PROVE  /\ DeskInv' /\ IdsStay /\ granted' \in [Proposals -> Nat]
         /\ \A q \in Proposals :
              \/ granted'[q] = granted[q] /\ (IsApproved(q)' => IsApproved(q))
              \/ granted'[q] = granted[q] + 1
PROOF
  <1>0. DOMAIN approvals = 1 .. Len(approvals)
        /\ \A n \in 1 .. Len(approvals) : approvals[n] \in ApprovalRequest
    BY DEF DeskInv
  <1>1. PICK n \in 1 .. Len(approvals), verdict \in {"approved", "rejected"} :
          /\ approvals[n].status = "pending"
          /\ SetStatus(approvals[n].id, verdict)
          /\ granted' = [granted EXCEPT ![approvals[n].proposal] =
                           IF verdict = "approved" THEN @ + 1 ELSE @]
          /\ UNCHANGED created
    BY <1>0 DEF Decide
  <1>2. verdict \in ApprovalStatus
    BY DEF ApprovalStatus
  <1>3. \A m \in 1 .. Len(approvals) :
          approvals[m].id = approvals[n].id => approvals[m].status \in LiveStatus
    BY <1>1 DEF DeskInv, LiveStatus
  <1>4. /\ DeskInv' /\ IdsStay /\ Len(approvals') = Len(approvals)
        /\ \A m \in 1 .. Len(approvals) :
             /\ approvals'[m].proposal = approvals[m].proposal
             /\ approvals'[m].status = IF approvals[m].id = approvals[n].id THEN verdict
                                       ELSE approvals[m].status
    BY <1>1, <1>2, <1>3, StatusKeeps
  <1>5. approvals[n].proposal \in Proposals
    BY <1>0 DEF ApprovalRequest
  <1>6. granted' \in [Proposals -> Nat]
    BY <1>1, <1>5
  <1>7. ASSUME NEW q \in Proposals
        PROVE  \/ granted'[q] = granted[q] /\ (IsApproved(q)' => IsApproved(q))
               \/ granted'[q] = granted[q] + 1
    <2>1. CASE q = approvals[n].proposal /\ verdict = "approved"
      BY <1>1, <2>1
    <2>2. CASE ~ (q = approvals[n].proposal /\ verdict = "approved")
      <3>1. granted'[q] = granted[q]
        BY <1>1, <1>5, <2>2
      <3>2. ASSUME IsApproved(q)' PROVE IsApproved(q)
        <4>1. PICK m \in 1 .. Len(approvals) :
                approvals'[m].proposal = q /\ approvals'[m].status = "approved"
          BY <1>4, <3>2 DEF IsApproved
        <4>2. approvals[m].id # approvals[n].id
          <5>1. SUFFICES ASSUME approvals[m].id = approvals[n].id PROVE FALSE
            OBVIOUS
          <5>2. m = n
            BY <5>1 DEF DeskInv
          <5> QED
            BY <1>4, <2>2, <4>1, <5>2
        <4> QED
          BY <1>4, <4>1, <4>2 DEF IsApproved
      <3> QED
        BY <3>1, <3>2
    <2> QED
      BY <2>1, <2>2
  <1> QED
    BY <1>4, <1>6, <1>7

\* A request is used: its proposal has no approved one left.
LEMMA ConsumeKeeps ==
  ASSUME DeskInv, NEW id, Consume(id)
  PROVE  /\ DeskInv' /\ IdsStay
         /\ \A q : IsApproved(q)' => IsApproved(q)
         /\ \A n \in 1 .. Len(approvals) :
              approvals[n].id = id => /\ IsApproved(approvals[n].proposal)
                                      /\ \A q : q = approvals[n].proposal => ~ IsApproved(q)'
PROOF
  <1>0. DOMAIN approvals = 1 .. Len(approvals) /\ Len(approvals) \in Nat
    BY DEF DeskInv
  <1>1. PICK n \in 1 .. Len(approvals) : approvals[n].id = id /\ approvals[n].status = "approved"
    BY <1>0 DEF Consume, Is
  <1>2. "consumed" \in ApprovalStatus /\ "consumed" \notin LiveStatus
    BY DEF ApprovalStatus, LiveStatus
  <1>3. SetStatus(id, "consumed") /\ UNCHANGED created
    BY DEF Consume
  <1>4. /\ DeskInv' /\ IdsStay /\ Len(approvals') = Len(approvals)
        /\ \A m \in 1 .. Len(approvals) :
             /\ approvals'[m].proposal = approvals[m].proposal
             /\ approvals'[m].status = IF approvals[m].id = id THEN "consumed"
                                       ELSE approvals[m].status
    BY <1>2, <1>3, StatusKeeps
  <1>5. ASSUME NEW q, IsApproved(q)'
        PROVE  IsApproved(q) /\ q # approvals[n].proposal
    <2>1. PICK m \in 1 .. Len(approvals) :
            approvals'[m].proposal = q /\ approvals'[m].status = "approved"
      BY <1>4, <1>5 DEF IsApproved
    <2>2. /\ approvals[m].id # id /\ approvals[m].proposal = q
          /\ approvals[m].status = "approved"
      BY <1>4, <2>1
    <2>3. m # n /\ (m < n \/ n < m)
      BY <1>0, <1>1, <2>2
    <2>4. approvals[m].proposal # approvals[n].proposal
      BY <1>1, <2>2, <2>3 DEF DeskInv, LiveStatus
    <2> QED
      BY <2>2, <2>4 DEF IsApproved
  <1>6. \A m \in 1 .. Len(approvals) : approvals[m].id = id => m = n
    BY <1>1 DEF DeskInv
  <1>7. IsApproved(approvals[n].proposal)
    BY <1>1 DEF IsApproved
  <1> QED
    BY <1>4, <1>5, <1>6, <1>7

\* What the boundary asks for is created where no request is live.
LEMMA FiledKeeps ==
  ASSUME DeskInv, NEW p \in Proposals, Create(p), Find(p).status \in {"none", "consumed"}
  PROVE  DeskInv' /\ IdsStay /\ \A q \in Proposals : IsApproved(q)' => IsApproved(q)
PROOF
  <1>0. DOMAIN approvals = 1 .. Len(approvals)
    BY DEF DeskInv
  <1>1. \A n \in 1 .. Len(approvals) :
          approvals[n].status \in LiveStatus => Find(approvals[n].proposal) = approvals[n]
    BY <1>0, LiveIsFound DEF LiveRequestIsFound
  <1>2. \A n \in 1 .. Len(approvals) :
          approvals[n].status \in LiveStatus => approvals[n].proposal # p
    BY <1>1 DEF LiveStatus
  <1> QED
    BY <1>2, CreateKeeps

\* What find returns is a request for the proposal, if there is any.
LEMMA FindIsOne ==
  ASSUME DeskInv, NEW p \in Proposals
  PROVE  \/ Find(p).status = "none" /\ Find(p).id = 0
         \/ \E n \in 1 .. Len(approvals) :
              Find(p) = approvals[n] /\ approvals[n].proposal = p
PROOF
  <1>0. DOMAIN approvals = 1 .. Len(approvals) /\ Len(approvals) \in Nat
    BY DEF DeskInv
  <1>1. CASE Places(p) = {}
    BY <1>1 DEF Find
  <1>2. CASE Places(p) # {}
    <2>1. Places(p) \subseteq 1 .. Len(approvals)
      BY <1>0 DEF Places
    <2> DEFINE last == CHOOSE n \in Places(p) : \A m \in Places(p) : m <= n
               T == {Len(approvals) - n : n \in Places(p)}
    <2>2. \E n \in Places(p) : \A m \in Places(p) : m <= n
      <3>1. T \in SUBSET Nat /\ T # {}
        BY <1>0, <1>2, <2>1
      <3>2. PICK t \in T : \A u \in T : t <= u
        BY <3>1, LeastOf
      <3>3. PICK n \in Places(p) : t = Len(approvals) - n
        BY <3>2
      <3>4. ASSUME NEW m \in Places(p) PROVE m <= n
        <4>1. Len(approvals) - n <= Len(approvals) - m
          BY <3>2, <3>3
        <4> QED
          BY <1>0, <2>1, <4>1
      <3> QED
        BY <3>4
    <2>3. last \in Places(p)
      BY <2>2
    <2>4. Find(p) = approvals[last]
      BY <1>2 DEF Find
    <2> HIDE DEF last
    <2>5. last \in 1 .. Len(approvals) /\ approvals[last].proposal = p
      BY <2>1, <2>3 DEF Places
    <2> QED
      BY <2>4, <2>5
  <1> QED
    BY <1>1, <1>2

\* A request found approved can be used, and is for the proposal.
LEMMA FoundIsThere ==
  ASSUME DeskInv, NEW p \in Proposals, Find(p).status = "approved"
  PROVE  /\ Find(p).id \in 1 .. created
         /\ \A n \in 1 .. Len(approvals) :
              approvals[n].id = Find(p).id => approvals[n].proposal = p
  BY FindIsOne DEF DeskInv

-----------------------------------------------------------------------------
(* The receipts. *)

Table(s) ==
  /\ s \in Seq(ExecutionAttempt)
  /\ \A m, n \in 1 .. Len(s) : s[m].key = s[n].key => m = n

\* t holds receipts of s and no others.
Shrinks(t, s) ==
  /\ Table(t)
  /\ \A i \in 1 .. Len(t) : \E n \in 1 .. Len(s) : t[i] = s[n]

LEMMA TableShrinks ==
  ASSUME NEW s, Table(s), NEW t \in Seq(ExecutionAttempt),
         NEW K \in SUBSET (1 .. Len(s)), LeavesOnly(t, s, K)
  PROVE  /\ Shrinks(t, s)
         /\ \A n \in K : \E i \in 1 .. Len(t) : t[i] = s[n]
         /\ \A i \in 1 .. Len(t) : \E n \in K : t[i] = s[n]
PROOF
  <1>0. Len(t) \in Nat /\ Len(s) \in Nat
    BY DEF Table
  <1>1. PICK g \in [1 .. Len(t) -> K] :
          /\ \A i \in 1 .. Len(t) : t[i] = s[g[i]]
          /\ \A i, j \in 1 .. Len(t) : i < j => g[i] < g[j]
          /\ \A n \in K : \E i \in 1 .. Len(t) : g[i] = n
    BY DEF LeavesOnly
  <1>4. \A i \in 1 .. Len(t) : g[i] \in K /\ g[i] \in 1 .. Len(s) /\ t[i] = s[g[i]]
    BY <1>1
  <1>2. ASSUME NEW i \in 1 .. Len(t), NEW j \in 1 .. Len(t), t[i].key = t[j].key
        PROVE  i = j
    <2>1. g[i] = g[j]
      <3>1. g[i] \in 1 .. Len(s) /\ g[j] \in 1 .. Len(s)
        BY <1>4
      <3>2. s[g[i]].key = s[g[j]].key
        BY <1>2, <1>4
      <3> QED
        BY <3>1, <3>2 DEF Table
    <2>2. ~ (i < j) /\ ~ (j < i)
      <3>1. g[i] \in Nat /\ g[j] \in Nat /\ ~ (g[i] < g[j]) /\ ~ (g[j] < g[i])
        BY <1>0, <1>4, <2>1
      <3> QED
        BY <1>1, <3>1
    <2> QED
      BY <1>0, <2>2
  <1>3. Table(t)
    BY <1>2 DEF Table
  <1>5. Shrinks(t, s)
    BY <1>3, <1>4 DEF Shrinks
  <1>6. ASSUME NEW n \in K PROVE \E i \in 1 .. Len(t) : t[i] = s[n]
    <2>1. PICK i \in 1 .. Len(t) : g[i] = n
      BY <1>1
    <2> QED
      BY <1>4, <2>1
  <1>7. ASSUME NEW i \in 1 .. Len(t) PROVE \E n \in K : t[i] = s[n]
    BY <1>4
  <1> QED
    BY <1>5, <1>6, <1>7

LEMMA ShrinksFurther ==
  ASSUME NEW s, NEW t, NEW u, Shrinks(u, t), Shrinks(t, s)
  PROVE  Shrinks(u, s)
PROOF
  <1>1. ASSUME NEW i \in 1 .. Len(u) PROVE \E n \in 1 .. Len(s) : u[i] = s[n]
    <2>1. PICK m \in 1 .. Len(t) : u[i] = t[m]
      BY DEF Shrinks
    <2>2. PICK n \in 1 .. Len(s) : t[m] = s[n]
      BY DEF Shrinks
    <2> QED
      BY <2>1, <2>2
  <1> QED
    BY <1>1 DEF Shrinks

LEMMA KeysShrink ==
  ASSUME NEW s, NEW t, Table(s), Shrinks(t, s)
  PROVE  KeysOf(t) \subseteq KeysOf(s)
PROOF
  <1>1. DOMAIN t = 1 .. Len(t) /\ DOMAIN s = 1 .. Len(s)
    BY DEF Shrinks, Table
  <1>2. ASSUME NEW i \in 1 .. Len(t) PROVE t[i].key \in KeysOf(s)
    <2>1. PICK n \in 1 .. Len(s) : t[i] = s[n]
      BY DEF Shrinks
    <2> QED
      BY <1>1, <2>1 DEF KeysOf
  <1> QED
    BY <1>1, <1>2 DEF KeysOf

LEMMA WithoutIs ==
  ASSUME NEW s, Table(s), NEW k
  PROVE  /\ Shrinks(Without(s, k), s)
         /\ KeysOf(Without(s, k)) = KeysOf(s) \ {k}
PROOF
  <1> DEFINE K == {n \in DOMAIN s : s[n].key # k}
             t == Without(s, k)
  <1>0. s \in Seq(ExecutionAttempt) /\ DOMAIN s = 1 .. Len(s) /\ K \in SUBSET (1 .. Len(s))
    BY DEF Table
  <1>1. t = Left(s, K)
    BY DEF Without
  <1>2. \A n \in 1 .. Len(s) : n \in K <=> s[n].key # k
    BY <1>0
  <1> HIDE DEF K, t
  <1>3. t \in Seq(ExecutionAttempt) /\ LeavesOnly(t, s, K)
    BY <1>0, <1>1, SomeLeft
  <1>4. /\ Shrinks(t, s)
        /\ \A n \in K : \E i \in 1 .. Len(t) : t[i] = s[n]
        /\ \A i \in 1 .. Len(t) : \E n \in K : t[i] = s[n]
    BY <1>0, <1>3, TableShrinks
  <1>5. DOMAIN t = 1 .. Len(t)
    BY <1>3
  <1>6. ASSUME NEW x \in KeysOf(t) PROVE x \in KeysOf(s) /\ x # k
    <2>1. PICK i \in 1 .. Len(t) : x = t[i].key
      BY <1>5 DEF KeysOf
    <2>2. PICK n \in K : t[i] = s[n]
      BY <1>4
    <2> QED
      BY <1>0, <1>2, <2>1, <2>2 DEF KeysOf
  <1>7. ASSUME NEW x \in KeysOf(s), x # k PROVE x \in KeysOf(t)
    <2>1. PICK n \in 1 .. Len(s) : x = s[n].key
      BY <1>0 DEF KeysOf
    <2>2. PICK i \in 1 .. Len(t) : t[i] = s[n]
      BY <1>2, <1>4, <1>7, <2>1
    <2> QED
      BY <1>5, <2>1, <2>2 DEF KeysOf
  <1>8. KeysOf(t) = KeysOf(s) \ {k}
    BY <1>6, <1>7
  <1> QED
    BY <1>4, <1>8 DEF t

LEMMA PurgedShrinks ==
  ASSUME NEW s, Table(s)
  PROVE  Shrinks(Purged(s), s)
PROOF
  <1> DEFINE K == {n \in DOMAIN s : ~ Expired(s[n])}
             t == Purged(s)
  <1>0. s \in Seq(ExecutionAttempt) /\ K \in SUBSET (1 .. Len(s))
    BY DEF Table
  <1>1. t = Left(s, K)
    BY DEF Purged
  <1> HIDE DEF K, t
  <1>2. t \in Seq(ExecutionAttempt) /\ LeavesOnly(t, s, K)
    BY <1>0, <1>1, SomeLeft
  <1>3. Shrinks(t, s)
    BY <1>0, <1>2, TableShrinks
  <1> QED
    BY <1>3 DEF t

LEMMA ShrinksNot ==
  ASSUME NEW s, Table(s)
  PROVE  Shrinks(s, s)
  BY DEF Shrinks

LEMMA EvictedShrinks ==
  ASSUME NEW s, Table(s), Results(s) # {}
  PROVE  Shrinks(EvictOldest(s), s)
PROOF
  <1> DEFINE oldest == CHOOSE n \in Results(s) : \A m \in Results(s) : n <= m
             t == EvictOldest(s)
  <1>0. s \in Seq(ExecutionAttempt) /\ DOMAIN s = 1 .. Len(s)
    BY DEF Table
  <1>1. Results(s) \in SUBSET (1 .. Len(s)) /\ Results(s) \in SUBSET Nat
    BY <1>0 DEF Results
  <1>2. \E n \in Results(s) : \A m \in Results(s) : n <= m
    BY <1>1, LeastOf
  <1>3. oldest \in Results(s)
    BY <1>2
  <1>4. t = SubSeq(s, 1, oldest - 1) \o SubSeq(s, oldest + 1, Len(s))
    BY DEF EvictOldest
  <1> HIDE DEF oldest, t
  <1>5. oldest \in 1 .. Len(s)
    BY <1>1, <1>3
  <1>6. t \in Seq(ExecutionAttempt) /\ LeavesOnly(t, s, (1 .. Len(s)) \ {oldest})
    BY <1>0, <1>4, <1>5, OneRemoved
  <1> DEFINE K == (1 .. Len(s)) \ {oldest}
  <1>7. K \in SUBSET (1 .. Len(s)) /\ LeavesOnly(t, s, K)
    BY <1>6
  <1> HIDE DEF K
  <1>8. Shrinks(t, s)
    BY <1>6, <1>7, TableShrinks
  <1> QED
    BY <1>8 DEF t

LEMMA RoomShrinks ==
  ASSUME NEW s, Table(s), NEW k, HasRoom(s, k)
  PROVE  Shrinks(MakeRoom(s, k), s)
PROOF
  <1> DEFINE P == Purged(s)
  <1>1. Shrinks(P, s)
    BY PurgedShrinks
  <1>2. Table(P)
    BY <1>1 DEF Shrinks
  <1> HIDE DEF P
  <1>3. CASE k \in KeysOf(s) \/ Len(s) < MaxEntries
    BY <1>3, ShrinksNot DEF MakeRoom
  <1>4. CASE ~ (k \in KeysOf(s) \/ Len(s) < MaxEntries) /\ Len(P) < MaxEntries
    BY <1>1, <1>4 DEF MakeRoom, P
  <1>5. CASE ~ (k \in KeysOf(s) \/ Len(s) < MaxEntries) /\ ~ (Len(P) < MaxEntries)
    <2>1. Results(P) # {} /\ MakeRoom(s, k) = EvictOldest(P)
      BY <1>5 DEF HasRoom, MakeRoom, P
    <2>2. Shrinks(EvictOldest(P), P)
      BY <1>2, <2>1, EvictedShrinks
    <2> QED
      BY <1>1, <2>1, <2>2, ShrinksFurther
  <1> QED
    BY <1>3, <1>4, <1>5

LEMMA GotShrinks ==
  ASSUME NEW s, Table(s), NEW k
  PROVE  Shrinks(Got(s, k), s)
  BY WithoutIs, ShrinksNot DEF Got

\* A receipt is added for a key that has none.
LEMMA AddKeeps ==
  ASSUME NEW s, Table(s), NEW k \in Keys, k \notin KeysOf(s),
         NEW status \in AttemptStatus, now \in Nat
  PROVE  /\ Table(Append(s, Stamp(k, status)))
         /\ k \in KeysOf(Append(s, Stamp(k, status)))
         /\ \A i \in 1 .. Len(Append(s, Stamp(k, status))) :
              \/ Append(s, Stamp(k, status))[i] = Stamp(k, status)
              \/ \E n \in 1 .. Len(s) : Append(s, Stamp(k, status))[i] = s[n]
PROOF
  <1> DEFINE x == Stamp(k, status)
             L == Len(s)
             t == Append(s, x)
  <1>0. s \in Seq(ExecutionAttempt) /\ DOMAIN s = 1 .. L /\ L \in Nat
    BY DEF Table
  <1>1. x \in ExecutionAttempt /\ x.key = k
    BY DEF Stamp, ExecutionAttempt
  <1> HIDE DEF x
  <1>2. /\ t \in Seq(ExecutionAttempt) /\ Len(t) = L + 1 /\ t[L + 1] = x
        /\ \A i \in 1 .. L : t[i] = s[i]
    BY <1>0, <1>1
  <1>3. DOMAIN t = 1 .. L + 1
    BY <1>2
  <1> HIDE DEF t, L
  <1>4. \A i \in 1 .. L : s[i].key # k
    BY <1>0 DEF KeysOf
  <1>5. \A m, n \in 1 .. L : s[m].key = s[n].key => m = n
    BY DEF Table, L
  <1>6. ASSUME NEW m \in 1 .. L + 1, NEW n \in 1 .. L + 1, t[m].key = t[n].key
        PROVE  m = n
    <2>1. (m \in 1 .. L \/ m = L + 1) /\ (n \in 1 .. L \/ n = L + 1)
      BY <1>0
    <2> QED
      BY <1>1, <1>2, <1>4, <1>5, <1>6, <2>1
  <1>7. Table(t)
    BY <1>2, <1>6 DEF Table
  <1>8. k \in KeysOf(t)
    BY <1>0, <1>1, <1>2, <1>3 DEF KeysOf
  <1>9. ASSUME NEW i \in 1 .. L + 1 PROVE t[i] = x \/ \E n \in 1 .. L : t[i] = s[n]
    <2>1. i \in 1 .. L \/ i = L + 1
      BY <1>0
    <2> QED
      BY <1>2, <2>1
  <1> QED
    BY <1>2, <1>7, <1>8, <1>9 DEF t, x, L

\* A claim: a pending receipt of the key beside receipts there were.
LEMMA ClaimedIs ==
  ASSUME NEW s, Table(s), NEW k \in Keys, now \in Nat, HasRoom(Without(s, k), k)
  PROVE  /\ Table(Claimed(s, k)) /\ k \in KeysOf(Claimed(s, k))
         /\ \A i \in 1 .. Len(Claimed(s, k)) :
              \/ Claimed(s, k)[i].key = k
              \/ \E n \in 1 .. Len(s) : Claimed(s, k)[i] = s[n]
PROOF
  <1> DEFINE w == Without(s, k)
             m == MakeRoom(w, k)
             t == Claimed(s, k)
  <1>1. Shrinks(w, s) /\ k \notin KeysOf(w)
    BY WithoutIs
  <1>2. Table(w) /\ HasRoom(w, k)
    BY <1>1 DEF Shrinks
  <1>3. t = Append(m, Stamp(k, "pending"))
    BY DEF Claimed
  <1> HIDE DEF w, t
  <1>4. Shrinks(m, w)
    BY <1>2, RoomShrinks
  <1>5. Table(m) /\ k \notin KeysOf(m)
    BY <1>1, <1>2, <1>4, KeysShrink DEF Shrinks
  <1>6. Shrinks(m, s)
    BY <1>1, <1>4, ShrinksFurther
  <1> HIDE DEF m
  <1>7. "pending" \in AttemptStatus /\ Stamp(k, "pending").key = k
    BY DEF AttemptStatus, Stamp
  <1>8. /\ Table(t) /\ k \in KeysOf(t)
        /\ \A i \in 1 .. Len(t) :
             t[i] = Stamp(k, "pending") \/ \E n \in 1 .. Len(m) : t[i] = m[n]
    BY <1>3, <1>5, <1>7, AddKeeps
  <1>9. ASSUME NEW i \in 1 .. Len(t) PROVE t[i].key = k \/ \E n \in 1 .. Len(s) : t[i] = s[n]
    BY <1>6, <1>7, <1>8 DEF Shrinks
  <1> QED
    BY <1>8, <1>9 DEF t

\* An outcome saved: no receipt of the key is pending after it.
LEMMA SavedIs ==
  ASSUME NEW s, Table(s), NEW k \in Keys, now \in Nat, ~ SaveRaises(s, k),
         NEW status \in AttemptStatus \ {"pending"}
  PROVE  /\ Table(Saved(s, k, status))
         /\ \A i \in 1 .. Len(Saved(s, k, status)) :
              Saved(s, k, status)[i].status = "pending" =>
                /\ Saved(s, k, status)[i].key # k
                /\ \E n \in 1 .. Len(s) : Saved(s, k, status)[i] = s[n]
         /\ \A i \in 1 .. Len(Saved(s, k, status)) :
              \/ Saved(s, k, status)[i].key = k
              \/ \E n \in 1 .. Len(s) : Saved(s, k, status)[i] = s[n]
PROOF
  <1> DEFINE x == Stamp(k, status)
             t == Saved(s, k, status)
  <1>0. s \in Seq(ExecutionAttempt) /\ DOMAIN s = 1 .. Len(s) /\ Len(s) \in Nat
        /\ \A m, n \in 1 .. Len(s) : s[m].key = s[n].key => m = n
    BY DEF Table
  <1>1. x \in ExecutionAttempt /\ x.key = k /\ x.status = status
    BY DEF Stamp, ExecutionAttempt
  <1>2. CASE FreshReceipt(s, k).status = "completed"
    <2> DEFINE live == {n \in DOMAIN s : s[n].key = k /\ ~ Expired(s[n])}
    <2>1. live # {}
      BY <1>2 DEF FreshReceipt, NoReceipt
    <2>2. PICK n \in live : FreshReceipt(s, k) = s[n]
      BY <2>1 DEF FreshReceipt
    <2>3. s[n].key = k /\ s[n].status = "completed" /\ n \in 1 .. Len(s)
      BY <1>0, <1>2, <2>2
    <2>4. t = s
      BY <1>2 DEF Saved
    <2>5. \A i \in 1 .. Len(s) : s[i].status = "pending" => s[i].key # k
      BY <1>0, <2>3
    <2> QED
      BY <2>4, <2>5
  <1>3. CASE FreshReceipt(s, k).status # "completed" /\ k \in KeysOf(s)
    <2>1. t = [n \in 1 .. Len(s) |-> IF s[n].key = k THEN x ELSE s[n]]
      BY <1>0, <1>3 DEF Saved, SavedOver
    <2> HIDE DEF x, t
    <2>2. t \in Seq(ExecutionAttempt) /\ Len(t) = Len(s)
      BY <1>0, <1>1, <2>1
    <2>3. \A n \in 1 .. Len(s) : t[n].key = s[n].key
      BY <1>1, <2>1
    <2>4. Table(t)
      BY <1>0, <2>2, <2>3 DEF Table
    <2>5. \A i \in 1 .. Len(s) : t[i].status = "pending" => t[i].key # k /\ t[i] = s[i]
      BY <1>1, <2>1
    <2>6. \A i \in 1 .. Len(s) : t[i].key = k \/ t[i] = s[i]
      BY <1>1, <2>1
    <2> QED
      BY <2>2, <2>4, <2>5, <2>6 DEF t
  <1>4. CASE FreshReceipt(s, k).status # "completed" /\ k \notin KeysOf(s)
    <2> DEFINE m == MakeRoom(s, k)
    <2>1. t = Append(m, x)
      BY <1>4 DEF Saved, SavedOver
    <2>2. Shrinks(m, s)
      BY <1>4, RoomShrinks DEF SaveRaises
    <2>3. Table(m) /\ k \notin KeysOf(m)
      BY <1>4, <2>2, KeysShrink DEF Shrinks
    <2> HIDE DEF m, t
    <2>4. /\ Table(t)
          /\ \A i \in 1 .. Len(t) : t[i] = x \/ \E n \in 1 .. Len(m) : t[i] = m[n]
      BY <2>1, <2>3, AddKeeps
    <2> HIDE DEF x
    <2>5. ASSUME NEW i \in 1 .. Len(t), t[i].status = "pending"
          PROVE  t[i].key # k /\ \E n \in 1 .. Len(s) : t[i] = s[n]
      <3>1. t[i] # x
        BY <1>1, <2>5
      <3>2. PICK n \in 1 .. Len(m) : t[i] = m[n]
        BY <2>4, <3>1
      <3>3. DOMAIN m = 1 .. Len(m)
        BY <2>3 DEF Table
      <3> QED
        BY <2>2, <2>3, <3>2, <3>3 DEF Shrinks, KeysOf
    <2>6. ASSUME NEW i \in 1 .. Len(t)
          PROVE  t[i].key = k \/ \E n \in 1 .. Len(s) : t[i] = s[n]
      BY <1>1, <2>2, <2>4, <2>6 DEF Shrinks
    <2> QED
      BY <2>4, <2>5, <2>6 DEF t
  <1> QED
    BY <1>2, <1>3, <1>4

-----------------------------------------------------------------------------
(* What a step may do. *)

OnItsWay == {"queued", "acting"}

Turn ==
  /\ phase \in [Batches -> Phases] /\ step \in [Batches -> [Calls -> Steps]]
  /\ grant \in [Batches -> [Calls -> Nat]] /\ ran \in [Calls -> Nat] /\ now \in Nat
  /\ \A b \in Batches : phase[b] \in {"idle", "checking"} =>
       \A c \in Calls : step[b][c] = "todo"

Untouched(b, c) == step'[b][c] = step[b][c] /\ grant'[b][c] = grant[b][c]

\* The call c of the batch b goes from one progress to another.
Goes(b, c, from, to) ==
  /\ step[b][c] = from /\ step'[b][c] \in to
  /\ \A d \in Batches, e \in Calls : d # b \/ e # c => Untouched(d, e)

Clears ==
  \/ UNCHANGED table
  \/ \E s : Shrinks(s, receipts) /\ Keep(s)

Files ==
  \/ UNCHANGED desk
  \/ \E p \in Proposals : Create(p) /\ Find(p).status \in {"none", "consumed"}

\* No call on its way is touched.
Calm ==
  /\ \A b \in Batches, c \in Calls :
       step[b][c] \in OnItsWay \/ step'[b][c] \in OnItsWay => Untouched(b, c)
  /\ UNCHANGED starts /\ Clears

Claims(b, c) ==
  /\ Goes(b, c, "todo", {"queued"}) /\ UNCHANGED <<starts, desk>>
  /\ IF c \in Keys
     THEN /\ MayClaim(receipts, c) /\ HasRoom(Without(receipts, c), c)
          /\ KeepClaim(Claimed(receipts, c), c)
     ELSE UNCHANGED table
  /\ c \in Gated \cup Risky =>
       /\ Find(ProposalOf[c]).status = "approved"
       /\ grant'[b][c] = Find(ProposalOf[c]).id

Drops(b, c) ==
  Goes(b, c, "queued", Ended) /\ UNCHANGED <<starts, desk>> /\ GiveBack(c)

Begun(b, c) ==
  /\ Goes(b, c, "queued", {"acting"})
  /\ UNCHANGED <<receipts, forgotten, lapsed, taken>> /\ unused' = unused \ {c}
  /\ UseGrant(b, c) /\ ran' = [ran EXCEPT ![c] = @ + 1]
  /\ unclaimed' = [unclaimed EXCEPT ![c] = @ + IF c \in unused THEN 0 ELSE 1]

Settles(b, c) ==
  /\ Goes(b, c, "acting", Ended) /\ UNCHANGED <<starts, desk>>
  /\ \/ /\ c \notin Keys \/ SaveRaises(receipts, c)
        /\ UNCHANGED table
     \/ /\ c \in Keys /\ ~ SaveRaises(receipts, c)
        /\ \E status \in AttemptStatus \ {"pending"} :
             KeepResult(Saved(receipts, c, status), c)

StepKind ==
  \/ Calm /\ (Files \/ Decide)
  \/ \E b \in Batches, c \in Calls :
       Claims(b, c) \/ Drops(b, c) \/ Begun(b, c) \/ Settles(b, c)

LEMMA ReachesEnd ==
  ASSUME Turn, NEW b \in Batches, NEW c \in Calls, NEW s \in Steps,
         Move(b, c, s), grant' = grant
  PROVE  /\ step' \in [Batches -> [Calls -> Steps]] /\ grant' \in [Batches -> [Calls -> Nat]]
         /\ step'[b][c] = s
         /\ \A d \in Batches, e \in Calls : d # b \/ e # c => Untouched(d, e)
         /\ \A from : step[b][c] = from => Goes(b, c, from, {s})
  BY DEF Turn, Move, Untouched, Goes

\* A batch leaves when none of its calls is on its way.
LEMMA LeaveIsCalm ==
  ASSUME Turn, NEW b \in Batches, Leave(b), \A c \in Calls : step[b][c] \notin OnItsWay,
         UNCHANGED <<starts, now>>, Clears
  PROVE  Turn' /\ Calm
PROOF
  <1>1. \A c \in Calls : NewBatch[c] = "todo" /\ NoGrants[c] = 0
    BY DEF NewBatch, NoGrants
  <1>2. NewBatch \in [Calls -> Steps] /\ NoGrants \in [Calls -> Nat]
    BY DEF NewBatch, NoGrants, Steps
  <1>3. /\ step' = [step EXCEPT ![b] = NewBatch] /\ grant' = [grant EXCEPT ![b] = NoGrants]
        /\ phase' = [phase EXCEPT ![b] = "idle"]
    BY DEF Leave
  <1>4. Turn'
    BY <1>1, <1>2, <1>3 DEF Turn, Phases, starts, table
  <1>5. \A d \in Batches, c \in Calls :
          step[d][c] \in OnItsWay \/ step'[d][c] \in OnItsWay => Untouched(d, c)
    BY <1>1, <1>3 DEF Turn, Untouched, OnItsWay
  <1> QED
    BY <1>4, <1>5 DEF Calm

LEMMA LookClears ==
  ASSUME Table(receipts), NEW c, Look(c)
  PROVE  Clears
  BY GotShrinks DEF Look, Clears

LEMMA FindStatus ==
  ASSUME DeskInv, NEW p \in Proposals
  PROVE  Find(p).status \in ApprovalStatus \cup {"none"} /\ Find(p).id \in Nat
PROOF
  <1>1. \A n \in 1 .. Len(approvals) : approvals[n] \in ApprovalRequest
    BY DEF DeskInv
  <1>2. \A n \in 1 .. Len(approvals) :
          approvals[n].status \in ApprovalStatus /\ approvals[n].id \in Nat
    BY <1>1 DEF ApprovalRequest
  <1> QED
    BY <1>2, FindIsOne

LEMMA FilesFound ==
  ASSUME TurnAssumption, DeskInv, NEW c \in Calls, NEW d, File(c, d)
  PROVE  Files
PROOF
  <1>1. ProposalOf[c] \in Proposals
    BY DEF TurnAssumption
  <1>2. Find(ProposalOf[c]).status # "create"
    BY <1>1, FindStatus DEF ApprovalStatus
  <1>3. CASE Resolution(c, d) = "create"
    <2>1. Create(ProposalOf[c])
      BY <1>3 DEF File
    <2>2. Find(ProposalOf[c]).status \in {"none", "consumed"}
      BY <1>2, <1>3 DEF Resolution
    <2> QED
      BY <1>1, <2>1, <2>2 DEF Files
  <1>4. CASE Resolution(c, d) # "create"
    BY <1>4 DEF File, Files
  <1> QED
    BY <1>3, <1>4

\* A call that needs an approval is only let through with one.
LEMMA LetThrough ==
  ASSUME TurnAssumption, DeskInv, NEW c \in Calls, c \in Gated \cup Risky,
         NEW d \in Decisions(c) \ {"deny"}, ~ Asks(c, d), ~ Blocked(c, d)
  PROVE  NeedsApproval(c, d) /\ Find(ProposalOf[c]).status = "approved"
PROOF
  <1>1. NeedsApproval(c, d)
    BY DEF NeedsApproval, Decisions, Compose, LeastPrivilege
  <1>2. ProposalOf[c] \in Proposals
    BY DEF TurnAssumption
  <1>3. Find(ProposalOf[c]).status \in ApprovalStatus \cup {"none"}
    BY <1>2, FindStatus
  <1>4. Resolution(c, d) \notin {"create", "pending", "rejected", "full"}
    BY DEF Asks, Blocked
  <1> QED
    BY <1>1, <1>3, <1>4 DEF Resolution, ApprovalStatus

LEMMA SettleIs ==
  ASSUME Turn, NEW b \in Batches, NEW c \in Calls, step[b][c] = "acting",
         NEW status \in AttemptStatus \ {"pending"}, NEW outcome \in Ended,
         Settle(b, c, status, outcome), UNCHANGED <<now, desk, grant, starts>>,
         phase[b] \in {"running", "stopping"}
  PROVE  Turn' /\ Settles(b, c)
PROOF
  <1>0. Ended \subseteq Steps /\ "raised" \in Ended /\ "stopping" \in Phases
    BY DEF Ended, Steps, Phases
  <1>1. CASE c \in Keys /\ SaveRaises(receipts, c)
    <2>1. Move(b, c, "raised") /\ phase' = [phase EXCEPT ![b] = "stopping"]
          /\ UNCHANGED table
      BY <1>1 DEF Settle, Escape
    <2>2. /\ step' \in [Batches -> [Calls -> Steps]] /\ Goes(b, c, "acting", {"raised"})
      BY <1>0, <2>1, ReachesEnd
    <2>3. phase' \in [Batches -> Phases]
          /\ \A d \in Batches : phase'[d] \in {"idle", "checking"} => d # b /\ phase'[d] = phase[d]
      BY <1>0, <2>1 DEF Turn
    <2>4. Turn'
      <3>1. /\ grant' \in [Batches -> [Calls -> Nat]] /\ ran' \in [Calls -> Nat] /\ now' \in Nat
            /\ \A d \in Batches : d # b => \A e \in Calls : step'[d][e] = step[d][e]
        BY <2>2 DEF Turn, Goes, Untouched, starts, table
      <3> QED
        BY <2>2, <2>3, <3>1 DEF Turn
    <2> QED
      BY <1>0, <1>1, <2>1, <2>2, <2>4 DEF Settles, Goes
  <1>2. CASE ~ (c \in Keys /\ SaveRaises(receipts, c))
    <2>1. /\ Move(b, c, outcome) /\ phase' = phase
          /\ \/ c \notin Keys /\ UNCHANGED table
             \/ c \in Keys /\ ~ SaveRaises(receipts, c)
                /\ KeepResult(Saved(receipts, c, status), c)
      BY <1>2 DEF Settle, End
    <2>2. /\ step' \in [Batches -> [Calls -> Steps]] /\ Goes(b, c, "acting", {outcome})
      BY <1>0, <2>1, ReachesEnd
    <2>3. Turn'
      BY <2>1, <2>2 DEF Turn, Goes, Untouched, starts, table
    <2> QED
      BY <2>1, <2>2, <2>3 DEF Settles, Goes
  <1> QED
    BY <1>1, <1>2

LEMMA EndIsCalm ==
  ASSUME Turn, NEW b \in Batches, NEW c \in Calls, NEW s \in Ended,
         step[b][c] \notin OnItsWay, Move(b, c, s), phase[b] \in {"running", "stopping"},
         phase' = phase \/ phase' = [phase EXCEPT ![b] = "stopping"],
         UNCHANGED <<grant, starts, now>>, Clears
  PROVE  Turn' /\ Calm
PROOF
  <1>0. s \in Steps /\ s \notin OnItsWay /\ "stopping" \in Phases
    BY DEF Ended, Steps, OnItsWay, Phases
  <1>1. /\ step' \in [Batches -> [Calls -> Steps]] /\ grant' \in [Batches -> [Calls -> Nat]]
        /\ step'[b][c] = s
        /\ \A d \in Batches, e \in Calls : d # b \/ e # c => Untouched(d, e)
    BY <1>0, ReachesEnd
  <1>2. phase' \in [Batches -> Phases]
        /\ \A d \in Batches : phase'[d] \in {"idle", "checking"} => d # b /\ phase'[d] = phase[d]
    BY <1>0 DEF Turn
  <1>3. Turn'
    <2>1. /\ ran' \in [Calls -> Nat] /\ now' \in Nat
          /\ \A d \in Batches : d # b => \A e \in Calls : step'[d][e] = step[d][e]
      BY <1>1 DEF Turn, Untouched, starts, table
    <2> QED
      BY <1>1, <1>2, <2>1 DEF Turn
  <1>4. \A d \in Batches, e \in Calls :
          step[d][e] \in OnItsWay \/ step'[d][e] \in OnItsWay => Untouched(d, e)
    BY <1>0, <1>1
  <1> QED
    BY <1>3, <1>4 DEF Calm

\* Nothing happens to the calls.
LEMMA StillIsCalm ==
  ASSUME Turn, UNCHANGED <<step, grant, starts>>, now' \in Nat, Clears,
         phase' \in [Batches -> Phases],
         \A b \in Batches : phase'[b] \in {"idle", "checking"} =>
           phase[b] \in {"idle", "checking"}
  PROVE  Turn' /\ Calm
  BY DEF Turn, Calm, Untouched, starts, table

LEMMA NextIs ==
  ASSUME Turn, DeskInv, Table(receipts), Next
  PROVE  Turn' /\ StepKind
PROOF
  <1>0. /\ \A b \in Batches : phase[b] \in Phases
        /\ \A b \in Batches, c \in Calls : step[b][c] \in Steps
        /\ "idle" \in Phases /\ "checking" \in Phases /\ "running" \in Phases
        /\ "stopping" \in Phases
        /\ "answered" \in Ended /\ "asked" \in Ended /\ "raised" \in Ended
        /\ Ended \subseteq Steps /\ Ended \cap OnItsWay = {} /\ "queued" \in Steps
        /\ "acting" \in Steps /\ "todo" \notin OnItsWay
        /\ now \in Nat
    BY DEF Turn, Phases, Steps, Ended, OnItsWay
  <1>1. ASSUME NEW b \in Batches, Start(b) PROVE Turn' /\ Calm /\ Files
    <2>1. /\ phase[b] = "idle" /\ phase' = [phase EXCEPT ![b] = "checking"]
          /\ UNCHANGED <<step, grant, starts, table, now, desk>>
      BY <1>1 DEF Start, store
    <2>2. phase' \in [Batches -> Phases]
          /\ \A d \in Batches : phase'[d] \in {"idle", "checking"} =>
               phase[d] \in {"idle", "checking"}
      BY <1>0, <2>1 DEF Turn
    <2> QED
      BY <1>0, <2>1, <2>2, StillIsCalm DEF Clears, Files
  <1>2. ASSUME NEW b \in Batches, Cancel(b) PROVE Turn' /\ Calm /\ Files
    <2>0. UNCHANGED <<table, now, desk, starts>> /\ Clears /\ Files
      BY <1>2 DEF Cancel, store, Clears, Files
    <2>1. CASE phase[b] = "checking" /\ Leave(b)
      <3>1. \A c \in Calls : step[b][c] \notin OnItsWay
        BY <1>0, <2>1 DEF Turn
      <3> QED
        BY <2>0, <2>1, <3>1, LeaveIsCalm
    <2>2. CASE phase[b] = "running" /\ phase' = [phase EXCEPT ![b] = "stopping"]
               /\ UNCHANGED <<step, grant>>
      <3>1. phase' \in [Batches -> Phases]
            /\ \A d \in Batches : phase'[d] \in {"idle", "checking"} =>
                 phase[d] \in {"idle", "checking"}
        BY <1>0, <2>2 DEF Turn
      <3> QED
        BY <1>0, <2>0, <2>2, <3>1, StillIsCalm
    <2> QED
      BY <1>2, <2>1, <2>2 DEF Cancel
  <1>3. ASSUME NEW b \in Batches, Preflight(b) PROVE Turn' /\ Calm /\ Files
    <2> DEFINE c == cursor[b]
    <2>1. PICK d \in Decisions(c) :
            /\ c \in Calls /\ phase[b] = "checking" /\ Inspect(b, c, d)
            /\ UNCHANGED <<now, begun, starts>>
      BY <1>3 DEF Preflight
    <2> HIDE DEF c
    <2>2. Clears
      BY <2>1, LookClears DEF Inspect, Clears
    <2>3. Files
      BY <2>1, TurnAssumption, FilesFound DEF Inspect, Files
    <2>4. \A e \in Calls : step[b][e] \notin OnItsWay
      BY <1>0, <2>1 DEF Turn
    <2>5. Leave(b) \/ UNCHANGED <<phase, step, grant>>
      BY <2>1 DEF Inspect, Advance
    <2>6. CASE Leave(b)
      BY <2>1, <2>2, <2>3, <2>4, <2>6, LeaveIsCalm
    <2>7. CASE UNCHANGED <<phase, step, grant>>
      <3>1. phase' \in [Batches -> Phases] /\ now' \in Nat /\ phase' = phase
        BY <1>0, <2>1, <2>7 DEF Turn
      <3> QED
        BY <2>1, <2>2, <2>3, <2>7, <3>1, StillIsCalm
    <2> QED
      BY <2>5, <2>6, <2>7
  <1>4. ASSUME NEW b \in Batches, Dispatch(b) PROVE Turn' /\ Calm /\ Files
    <2>0. UNCHANGED <<table, now, desk, starts>> /\ Clears /\ Files
          /\ phase[b] = "checking"
      BY <1>4 DEF Dispatch, store, Clears, Files
    <2>1. CASE Leave(b)
      <3>1. \A c \in Calls : step[b][c] \notin OnItsWay
        BY <1>0, <2>0 DEF Turn
      <3> QED
        BY <2>0, <2>1, <3>1, LeaveIsCalm
    <2>2. CASE phase' = [phase EXCEPT ![b] = "running"] /\ UNCHANGED <<step, grant>>
      <3>1. phase' \in [Batches -> Phases]
            /\ \A d \in Batches : phase'[d] \in {"idle", "checking"} =>
                 phase[d] \in {"idle", "checking"}
        BY <1>0, <2>2 DEF Turn
      <3> QED
        BY <1>0, <2>0, <2>2, <3>1, StillIsCalm
    <2> QED
      BY <1>4, <2>1, <2>2 DEF Dispatch
  <1>5. ASSUME NEW b \in Batches, Join(b) PROVE Turn' /\ Calm /\ Files
    <2>1. UNCHANGED <<table, now, desk, starts>> /\ Clears /\ Files /\ Leave(b)
      BY <1>5 DEF Join, store, Clears, Files
    <2>2. \A c \in Calls : step[b][c] \notin OnItsWay
      BY <1>0, <1>5 DEF Join
    <2> QED
      BY <2>1, <2>2, LeaveIsCalm
  <1>6. ASSUME NEW b \in Batches, NEW c \in Calls, HookRaises(b, c) PROVE Turn' /\ Calm /\ Files
    <2>1. /\ UNCHANGED <<table, now, desk, starts, grant>> /\ Clears /\ Files
          /\ Move(b, c, "raised") /\ phase' = [phase EXCEPT ![b] = "stopping"]
          /\ phase[b] = "running" /\ step[b][c] \in {"todo", "answered"}
      BY <1>6 DEF HookRaises, Begins, Escape, store, Clears, Files
    <2>2. step[b][c] \notin OnItsWay
      BY <1>0, <2>1
    <2> QED
      BY <1>0, <2>1, <2>2, EndIsCalm
  <1>7. ASSUME NEW b \in Batches, NEW c \in Calls, Refuse(b, c) PROVE Turn' /\ Calm /\ Files
    <2>1. /\ UNCHANGED <<table, now, desk, starts, grant>> /\ Clears /\ Files
          /\ Move(b, c, "answered") /\ phase' = phase
          /\ phase[b] = "running" /\ step[b][c] = "todo"
      BY <1>7 DEF Refuse, Begins, End, store, Clears, Files
    <2>2. step[b][c] \notin OnItsWay
      BY <1>0, <2>1
    <2> QED
      BY <1>0, <2>1, <2>2, EndIsCalm
  <1>8. ASSUME NEW b \in Batches, NEW c \in Calls, Govern(b, c)
        PROVE  Turn' /\ ((Calm /\ Files) \/ Claims(b, c))
    <2>0. phase[b] = "running" /\ step[b][c] = "todo" /\ UNCHANGED <<now, starts>>
      BY <1>8 DEF Govern, Begins
    <2>1. CASE AnswerFromReceipt(b, c)
      <3>1. /\ UNCHANGED grant /\ Clears /\ Files /\ Move(b, c, "answered") /\ phase' = phase
        BY <2>1 DEF AnswerFromReceipt, End, Clears, Files
      <3> QED
        BY <1>0, <2>0, <3>1, EndIsCalm
    <2>2. ASSUME NEW d, AskFirst(b, c, d) PROVE Turn' /\ Calm /\ Files
      <3>1. /\ UNCHANGED grant /\ Move(b, c, "asked") /\ phase' = phase /\ Look(c) /\ File(c, d)
        BY <2>2 DEF AskFirst, End
      <3>2. Clears /\ Files
        BY <3>1, LookClears, TurnAssumption, FilesFound
      <3> QED
        BY <1>0, <2>0, <3>1, <3>2, EndIsCalm
    <2>3. ASSUME NEW d, TurnAway(b, c, d) PROVE Turn' /\ Calm /\ Files
      <3>1. /\ UNCHANGED <<desk, grant>> /\ Move(b, c, "answered") /\ phase' = phase /\ Look(c)
        BY <2>3 DEF TurnAway, End
      <3>2. Clears /\ Files
        BY <3>1, LookClears DEF Files
      <3> QED
        BY <1>0, <2>0, <3>1, <3>2, EndIsCalm
    <2>4. ASSUME NEW d \in Decisions(c) \ {"deny"}, ClaimAndQueue(b, c, d)
          PROVE  Turn' /\ Claims(b, c)
      <3>1. /\ ~ Asks(c, d) /\ ~ Blocked(c, d) /\ UNCHANGED desk
            /\ Move(b, c, "queued") /\ phase' = phase
            /\ grant' = [grant EXCEPT ![b][c] =
                           IF NeedsApproval(c, d) THEN Find(ProposalOf[c]).id ELSE 0]
            /\ IF c \in Keys THEN KeepClaim(Claimed(receipts, c), c)
                             ELSE UNCHANGED table
        BY <2>4 DEF ClaimAndQueue, End
      <3>2. c \in Keys => MayClaim(receipts, c) /\ HasRoom(Without(receipts, c), c)
        BY <3>1 DEF Blocked
      <3>3. c \in Gated \cup Risky =>
              /\ Find(ProposalOf[c]).status = "approved"
              /\ NeedsApproval(c, d)
        BY <3>1, TurnAssumption, LetThrough
      <3> DEFINE id == IF NeedsApproval(c, d) THEN Find(ProposalOf[c]).id ELSE 0
      <3>4. id \in Nat
        <4>1. ProposalOf[c] \in Proposals
          BY TurnAssumption
        <4>2. Find(ProposalOf[c]).id \in Nat
          BY <4>1, FindStatus
        <4> QED
          BY <4>2
      <3> HIDE DEF id
      <3>5. grant' = [grant EXCEPT ![b][c] = id]
        BY <3>1 DEF id
      <3>6. /\ step' \in [Batches -> [Calls -> Steps]] /\ grant' \in [Batches -> [Calls -> Nat]]
            /\ step'[b][c] = "queued" /\ grant'[b][c] = id
            /\ \A e \in Batches, g \in Calls : e # b \/ g # c => Untouched(e, g)
        BY <1>0, <3>1, <3>4, <3>5 DEF Turn, Move, Untouched
      <3>7. Turn'
        BY <2>0, <3>1, <3>6 DEF Turn, Untouched, starts, table
      <3>8. Goes(b, c, "todo", {"queued"})
        BY <2>0, <3>6 DEF Goes
      <3>9. c \in Gated \cup Risky => grant'[b][c] = Find(ProposalOf[c]).id
        BY <3>3, <3>6 DEF id
      <3> QED
        BY <2>0, <3>1, <3>2, <3>3, <3>7, <3>8, <3>9 DEF Claims
    <2> QED
      BY <1>8, <2>1, <2>2, <2>3, <2>4 DEF Govern
  <1>9. ASSUME NEW b \in Batches, NEW c \in Calls, FailUnstarted(b, c)
        PROVE  Turn' /\ Drops(b, c)
    <2>1. /\ phase[b] = "running" /\ step[b][c] = "queued" /\ GiveBack(c)
          /\ Move(b, c, "answered") /\ phase' = phase /\ UNCHANGED <<now, desk, grant, starts>>
      BY <1>9 DEF FailUnstarted, End
    <2>2. /\ step' \in [Batches -> [Calls -> Steps]] /\ Goes(b, c, "queued", {"answered"})
      BY <1>0, <2>1, ReachesEnd
    <2>3. Turn'
      BY <2>1, <2>2 DEF Turn, Goes, Untouched, starts, table
    <2> QED
      BY <1>0, <2>1, <2>2, <2>3 DEF Drops, Goes
  <1>10. ASSUME NEW b \in Batches, NEW c \in Calls, Invoke(b, c)
         PROVE  Turn' /\ Begun(b, c)
    <2>1. /\ phase[b] = "running" /\ step[b][c] = "queued" /\ UseGrant(b, c)
          /\ Move(b, c, "acting") /\ phase' = phase /\ UNCHANGED <<now, receipts, forgotten, lapsed, taken, grant>>
          /\ ran' = [ran EXCEPT ![c] = @ + 1] /\ unused' = unused \ {c}
          /\ unclaimed' = [unclaimed EXCEPT ![c] = @ + IF c \in unused THEN 0 ELSE 1]
      BY <1>10 DEF Invoke, End
    <2>2. /\ step' \in [Batches -> [Calls -> Steps]] /\ Goes(b, c, "queued", {"acting"})
      BY <1>0, <2>1, ReachesEnd
    <2>3. ran' \in [Calls -> Nat]
      BY <2>1 DEF Turn
    <2> HIDE <2>1
    <2>5. phase' = phase /\ now' = now /\ grant' = grant /\ phase[b] = "running"
      BY <2>1
    <2>4. Turn'
      BY <2>2, <2>3, <2>5 DEF Turn, Goes, Untouched
    <2> QED
      BY <2>1, <2>2, <2>4 DEF Begun
  <1>11. ASSUME NEW b \in Batches, NEW c \in Calls, Return(b, c) \/ Fail(b, c)
         PROVE  Turn' /\ Settles(b, c)
    <2>1. /\ "completed" \in AttemptStatus \ {"pending"} /\ "unknown" \in AttemptStatus \ {"pending"}
      BY DEF AttemptStatus
    <2> QED
      BY <1>0, <1>11, <2>1, SettleIs DEF Return, Fail
  <1>12. ASSUME NEW b \in Batches, NEW c \in Calls, Stop(b, c)
         PROVE  Turn' /\ ((Calm /\ Files) \/ Drops(b, c) \/ Settles(b, c))
    <2>0. phase[b] = "stopping" /\ UNCHANGED <<now, desk, grant, starts>>
          /\ step[b][c] \in {"todo", "queued", "acting"}
      BY <1>0, <1>12 DEF Stop, Steps
    <2>1. CASE step[b][c] = "todo"
      <3>1. Move(b, c, "raised") /\ phase' = phase /\ UNCHANGED table
        BY <1>12, <2>1 DEF Stop, End
      <3> QED
        BY <1>0, <2>0, <2>1, <3>1, EndIsCalm DEF Clears, Files
    <2>2. CASE step[b][c] = "queued"
      <3>1. Move(b, c, "raised") /\ phase' = phase /\ GiveBack(c)
        BY <1>12, <2>2 DEF Stop, End
      <3>2. /\ step' \in [Batches -> [Calls -> Steps]] /\ Goes(b, c, "queued", {"raised"})
        BY <1>0, <2>0, <2>2, <3>1, ReachesEnd
      <3>3. Turn'
        BY <2>0, <3>1, <3>2 DEF Turn, Goes, Untouched, starts, table
      <3> QED
        BY <1>0, <2>0, <3>1, <3>2, <3>3 DEF Drops, Goes
    <2>3. CASE step[b][c] = "acting"
      <3>1. Settle(b, c, "unknown", "raised")
        BY <1>12, <2>3 DEF Stop
      <3>2. "unknown" \in AttemptStatus \ {"pending"}
        BY DEF AttemptStatus
      <3> QED
        BY <1>0, <2>0, <2>3, <3>1, <3>2, SettleIs
    <2> QED
      BY <2>0, <2>1, <2>2, <2>3
  <1>13. ASSUME Decide, UNCHANGED <<store, turn, starts>> PROVE Turn' /\ Calm
    <2>1. phase' \in [Batches -> Phases] /\ now' \in Nat /\ phase' = phase
          /\ UNCHANGED <<step, grant, starts, table>>
      BY <1>0, <1>13 DEF Turn, turn, store
    <2> QED
      BY <2>1, StillIsCalm DEF Clears
  <1>14. ASSUME Tick \/ PurgeExpired, UNCHANGED <<desk, turn, starts>> PROVE Turn' /\ Calm /\ Files
    <2>1. phase' \in [Batches -> Phases] /\ now' \in Nat /\ phase' = phase
          /\ UNCHANGED <<step, grant, starts>>
      BY <1>0, <1>14 DEF Turn, turn, Tick, PurgeExpired
    <2>2. Clears
      BY <1>14, PurgedShrinks DEF Tick, PurgeExpired, Clears
    <2> QED
      BY <1>14, <2>1, <2>2, StillIsCalm DEF Files
  <1> QED
    BY <1>1, <1>2, <1>3, <1>4, <1>5, <1>6, <1>7, <1>8, <1>9, <1>10, <1>11, <1>12, <1>13, <1>14
       DEF Next, Work, StepKind

-----------------------------------------------------------------------------
(* Receipts: starts made and starts to come are balanced by receipts kept    *)
(* and receipts forgotten.                                                   *)

Queued(c) == {b \in Batches : step[b][c] = "queued"}
Held(c) == IF c \in KeysOf(receipts) THEN 1 ELSE 0

ReceiptsBalance ==
  /\ Table(receipts) /\ forgotten \in [Keys -> Nat]
  /\ ClaimsAreHeld
  /\ \A c \in Keys :
       /\ IsFiniteSet(Queued(c))
       /\ ran[c] + Cardinality(Queued(c)) <= forgotten[c] + Held(c)

One(P) == IF P THEN 1 ELSE 0

\* A set that changes by one member changes its size by what is gained or lost.
LEMMA Changes ==
  ASSUME NEW S, NEW T, NEW x, IsFiniteSet(S), S \ {x} = T \ {x}
  PROVE  /\ IsFiniteSet(T) /\ Cardinality(S) \in Nat /\ Cardinality(T) \in Nat
         /\ Cardinality(T) + One(x \in S) = Cardinality(S) + One(x \in T)
PROOF
  <1> DEFINE R == S \ {x}
  <1>1. IsFiniteSet(R) /\ Cardinality(R) \in Nat /\ x \notin R
    BY FS_RemoveElement, FS_CardinalityType
  <1>2. IsFiniteSet(R \cup {x}) /\ Cardinality(R \cup {x}) = Cardinality(R) + 1
    BY <1>1, FS_AddElement
  <1>3. IF x \in S THEN S = R \cup {x} ELSE S = R
    OBVIOUS
  <1>4. IF x \in T THEN T = R \cup {x} ELSE T = R
    OBVIOUS
  <1> HIDE DEF R
  <1>10. IsFiniteSet(T)
    BY <1>1, <1>2, <1>4
  <1>5. Cardinality(S) = Cardinality(R) + One(x \in S)
    <2>1. CASE x \in S
      BY <1>1, <1>2, <1>3, <1>4, <2>1 DEF One
    <2>2. CASE x \notin S
      BY <1>1, <1>2, <1>3, <1>4, <2>2 DEF One
    <2> QED
      BY <2>1, <2>2
  <1>6. Cardinality(T) = Cardinality(R) + One(x \in T)
    <2>1. CASE x \in T
      BY <1>1, <1>2, <1>4, <2>1 DEF One
    <2>2. CASE x \notin T
      BY <1>1, <1>4, <2>2 DEF One
    <2> QED
      BY <2>1, <2>2
  <1>7. One(x \in S) \in Nat /\ One(x \in T) \in Nat
    BY DEF One
  <1> DEFINE cr == Cardinality(R)  cs == Cardinality(S)  ct == Cardinality(T)
             os == One(x \in S)  ot == One(x \in T)
  <1>8. cr \in Nat /\ os \in Nat /\ ot \in Nat /\ cs = cr + os /\ ct = cr + ot
    BY <1>1, <1>5, <1>6, <1>7
  <1> HIDE DEF cr, cs, ct, os, ot
  <1>9. cs \in Nat /\ ct \in Nat /\ ct + os = cs + ot
    BY <1>8
  <1> QED
    BY <1>9, <1>10 DEF cs, ct, os, ot

LEMMA QueueMoves ==
  ASSUME NEW b \in Batches, NEW c \in Calls, NEW from, NEW to, Goes(b, c, from, to),
         NEW d \in Calls
  PROVE  /\ d # c => Queued(d)' = Queued(d)
         /\ Queued(c) \ {b} = Queued(c)' \ {b}
         /\ b \in Queued(c) <=> from = "queued"
         /\ b \in Queued(c)' <=> step'[b][c] = "queued"
  BY DEF Goes, Untouched, Queued

\* What a method of the store leaves is what was there, or is counted as lost.
LEMMA InstallCounts ==
  ASSUME forgotten \in [Keys -> Nat], NEW s, NEW lost, NEW claims, Install(s, lost, claims),
         Gone(s) \subseteq lost
  PROVE  /\ receipts' = s /\ forgotten' \in [Keys -> Nat]
         /\ \A c \in Keys :
              /\ forgotten[c] + Held(c) <= forgotten'[c] + Held(c)'
              /\ c \in KeysOf(s) /\ (c \in KeysOf(receipts) => c \in lost) =>
                   forgotten[c] + Held(c) + 1 <= forgotten'[c] + Held(c)'
PROOF
  <1>1. receipts' = s /\ forgotten' = [k \in Keys |-> forgotten[k] + IF k \in lost THEN 1 ELSE 0]
    BY DEF Install, Counted
  <1>2. ASSUME NEW c \in Keys
        PROVE  /\ forgotten[c] + Held(c) <= forgotten'[c] + Held(c)'
               /\ c \in KeysOf(s) /\ (c \in KeysOf(receipts) => c \in lost) =>
                    forgotten[c] + Held(c) + 1 <= forgotten'[c] + Held(c)'
    <2> DEFINE f == forgotten[c]  ff == forgotten'[c]  h == Held(c)  hh == Held(c)'
               l == IF c \in lost THEN 1 ELSE 0
    <2>1. hh = IF c \in KeysOf(s) THEN 1 ELSE 0
      BY <1>1 DEF Held, KeysOf
    <2>2. ff = f + l /\ f \in Nat
      BY <1>1
    <2>3. h = IF c \in KeysOf(receipts) THEN 1 ELSE 0
      BY DEF Held
    <2>4. /\ h \in {0, 1} /\ hh \in {0, 1} /\ l \in {0, 1} /\ h <= hh + l
          /\ c \in KeysOf(s) /\ (c \in KeysOf(receipts) => c \in lost) => h + 1 <= hh + l
      BY <2>1, <2>3 DEF Gone
    <2> HIDE DEF f, ff, h, hh, l
    <2>5. /\ f + h <= ff + hh
          /\ c \in KeysOf(s) /\ (c \in KeysOf(receipts) => c \in lost) => f + h + 1 <= ff + hh
      BY <2>2, <2>4
    <2> QED
      BY <2>5 DEF f, ff, h, hh
  <1>3. forgotten' \in [Keys -> Nat]
    BY <1>1
  <1> QED
    BY <1>1, <1>2, <1>3

\* Clearing neither makes a claim nor loses a count.
LEMMA ClearsCounts ==
  ASSUME Table(receipts), forgotten \in [Keys -> Nat], Clears
  PROVE  /\ Shrinks(receipts', receipts) /\ forgotten' \in [Keys -> Nat]
         /\ \A c \in Keys : forgotten[c] + Held(c) <= forgotten'[c] + Held(c)'
PROOF
  <1>1. CASE UNCHANGED table
    <2>1. receipts' = receipts /\ forgotten' = forgotten
      BY <1>1 DEF table
    <2>2. \A c \in Keys : Held(c)' = Held(c) /\ forgotten[c] + Held(c) \in Nat
      BY <2>1 DEF Held, KeysOf
    <2>3. \A c \in Keys : forgotten[c] + Held(c) <= forgotten'[c] + Held(c)'
      BY <2>1, <2>2
    <2> QED
      BY <2>1, <2>3, ShrinksNot
  <1>2. ASSUME NEW s, Shrinks(s, receipts), Keep(s)
        PROVE  /\ Shrinks(receipts', receipts) /\ forgotten' \in [Keys -> Nat]
               /\ \A c \in Keys : forgotten[c] + Held(c) <= forgotten'[c] + Held(c)'
    <2>1. Install(s, Gone(s), unused \cap KeysOf(s))
      BY <1>2 DEF Keep
    <2> QED
      BY <1>2, <2>1, InstallCounts
  <1> QED
    BY <1>1, <1>2 DEF Clears

\* One call moves: a claim it does not leave behind is held as before.
LEMMA HoldersStay ==
  ASSUME NEW b \in Batches, NEW c \in Calls, NEW from, NEW to, Goes(b, c, from, to),
         ClaimsAreHeld, Table(receipts), Table(receipts'), TurnAssumption,
         \A n \in 1 .. Len(receipts') : receipts'[n].status = "pending" =>
           \/ receipts'[n].key = c /\ step'[b][c] \in OnItsWay
           \/ /\ receipts'[n].key # c \/ step'[b][c] \in OnItsWay
              /\ \E m \in 1 .. Len(receipts) : receipts'[n] = receipts[m]
  PROVE  ClaimsAreHeld'
PROOF
  <1>0. DOMAIN receipts = 1 .. Len(receipts) /\ DOMAIN receipts' = 1 .. Len(receipts')
        /\ \A n \in 1 .. Len(receipts') : receipts'[n] \in ExecutionAttempt
    BY DEF Table
  <1>1. SUFFICES ASSUME NEW n \in 1 .. Len(receipts'), receipts'[n].status = "pending"
                 PROVE  \E d \in Batches : step'[d][receipts'[n].key] \in OnItsWay
    BY <1>0 DEF ClaimsAreHeld, OnItsWay
  <1>2. receipts'[n].key \in Calls
    BY <1>0 DEF ExecutionAttempt, TurnAssumption
  <1>3. CASE receipts'[n].key = c /\ step'[b][c] \in OnItsWay
    BY <1>3
  <1>4. CASE /\ receipts'[n].key # c \/ step'[b][c] \in OnItsWay
             /\ \E m \in 1 .. Len(receipts) : receipts'[n] = receipts[m]
    <2>1. PICK m \in 1 .. Len(receipts) : receipts'[n] = receipts[m]
      BY <1>4
    <2>2. PICK d \in Batches : step[d][receipts[m].key] \in OnItsWay
      BY <1>0, <1>1, <2>1 DEF ClaimsAreHeld, OnItsWay
    <2>3. CASE d = b /\ receipts[m].key = c
      BY <1>4, <2>1, <2>3
    <2>4. CASE ~ (d = b /\ receipts[m].key = c)
      BY <1>2, <2>1, <2>2, <2>4 DEF Goes, Untouched
    <2> QED
      BY <2>3, <2>4
  <1> QED
    BY <1>1, <1>3, <1>4

LEMMA BalanceKept ==
  ASSUME Turn, Turn', ReceiptsBalance, StepKind
  PROVE  ReceiptsBalance'
PROOF
  <1>0. /\ Table(receipts) /\ forgotten \in [Keys -> Nat] /\ ClaimsAreHeld /\ now \in Nat
        /\ Keys \subseteq Calls /\ ran \in [Calls -> Nat] /\ ran' \in [Calls -> Nat]
        /\ DOMAIN receipts = 1 .. Len(receipts)
        /\ \A n \in 1 .. Len(receipts) : receipts[n] \in ExecutionAttempt
    BY TurnAssumption DEF ReceiptsBalance, Turn, Table
  <1>1. \A c \in Keys : /\ IsFiniteSet(Queued(c)) /\ Cardinality(Queued(c)) \in Nat
                        /\ ran[c] + Cardinality(Queued(c)) <= forgotten[c] + Held(c)
                        /\ ran[c] \in Nat /\ forgotten[c] \in Nat /\ Held(c) \in Nat
    BY <1>0, FS_CardinalityType DEF ReceiptsBalance, Held
  <1>2. ASSUME forgotten' \in [Keys -> Nat]
        PROVE  \A c \in Keys : forgotten'[c] \in Nat /\ Held(c)' \in Nat /\ ran'[c] \in Nat
    BY <1>0, <1>2 DEF Held
  <1>3. CASE Calm
    <2>1. /\ Shrinks(receipts', receipts) /\ forgotten' \in [Keys -> Nat]
          /\ \A c \in Keys : forgotten[c] + Held(c) <= forgotten'[c] + Held(c)'
      BY <1>0, <1>3, ClearsCounts DEF Calm
    <2>2. Table(receipts')
      BY <2>1 DEF Shrinks
    <2>3. \A b \in Batches, c \in Calls :
            step[b][c] \in OnItsWay \/ step'[b][c] \in OnItsWay => step'[b][c] = step[b][c]
      BY <1>3 DEF Calm, Untouched
    <2>4. \A c \in Keys : Queued(c)' = Queued(c)
      BY <1>0, <2>3 DEF Queued, OnItsWay
    <2>5. ClaimsAreHeld'
      <3>1. DOMAIN receipts' = 1 .. Len(receipts')
        BY <2>2 DEF Table
      <3>2. SUFFICES ASSUME NEW n \in 1 .. Len(receipts'), receipts'[n].status = "pending"
                     PROVE  \E d \in Batches : step'[d][receipts'[n].key] \in OnItsWay
        BY <3>1 DEF ClaimsAreHeld, OnItsWay
      <3>3. PICK m \in 1 .. Len(receipts) : receipts'[n] = receipts[m]
        BY <2>1 DEF Shrinks
      <3>4. receipts[m].key \in Calls
        BY <1>0 DEF ExecutionAttempt
      <3>5. PICK d \in Batches : step[d][receipts[m].key] \in OnItsWay
        BY <1>0, <3>2, <3>3 DEF ClaimsAreHeld, OnItsWay
      <3> QED
        BY <2>3, <3>3, <3>4, <3>5
    <2>6. \A c \in Keys : /\ IsFiniteSet(Queued(c)')
                          /\ ran'[c] + Cardinality(Queued(c)') <= forgotten'[c] + Held(c)'
      <3>1. SUFFICES ASSUME NEW c \in Keys
                     PROVE  /\ IsFiniteSet(Queued(c)')
                            /\ ran'[c] + Cardinality(Queued(c)') <= forgotten'[c] + Held(c)'
        OBVIOUS
      <3>2. ran'[c] = ran[c]
        BY <1>3 DEF Calm, starts, table
      <3> DEFINE q == Cardinality(Queued(c))  h == Held(c)  hh == Held(c)'
      <3>3. /\ q \in Nat /\ h \in Nat /\ hh \in Nat /\ ran[c] \in Nat /\ forgotten[c] \in Nat
            /\ forgotten'[c] \in Nat
            /\ ran[c] + q <= forgotten[c] + h /\ forgotten[c] + h <= forgotten'[c] + hh
        BY <1>1, <1>2, <2>1
      <3> HIDE DEF q, h, hh
      <3>4. ran'[c] + q <= forgotten'[c] + hh
        BY <3>2, <3>3
      <3> QED
        BY <1>1, <2>4, <3>4 DEF q, hh
    <2> QED
      BY <2>1, <2>2, <2>5, <2>6 DEF ReceiptsBalance
  <1>4. ASSUME NEW b \in Batches, NEW c \in Calls, NEW from, NEW to, Goes(b, c, from, to),
               Table(receipts'), forgotten' \in [Keys -> Nat], ClaimsAreHeld',
               \A d \in Keys : d # c => /\ ran'[d] = ran[d]
                                        /\ forgotten[d] + Held(d) <= forgotten'[d] + Held(d)',
               c \in Keys => ran'[c] + One(step'[b][c] = "queued") + forgotten[c] + Held(c)
                               <= ran[c] + One(from = "queued") + forgotten'[c] + Held(c)'
        PROVE  ReceiptsBalance'
    <2>1. SUFFICES ASSUME NEW d \in Keys
                   PROVE  /\ IsFiniteSet(Queued(d)')
                          /\ ran'[d] + Cardinality(Queued(d)') <= forgotten'[d] + Held(d)'
      BY <1>4 DEF ReceiptsBalance
    <2>2. CASE d # c
      <3>1. Queued(d)' = Queued(d) /\ ran'[d] = ran[d]
        BY <1>0, <1>4, <2>2, QueueMoves
      <3> DEFINE q == Cardinality(Queued(d))  h == Held(d)  hh == Held(d)'
      <3>3. /\ q \in Nat /\ h \in Nat /\ hh \in Nat /\ ran[d] \in Nat /\ forgotten[d] \in Nat
            /\ forgotten'[d] \in Nat
            /\ ran[d] + q <= forgotten[d] + h /\ forgotten[d] + h <= forgotten'[d] + hh
        BY <1>1, <1>2, <1>4, <2>2
      <3> HIDE DEF q, h, hh
      <3>4. ran'[d] + q <= forgotten'[d] + hh
        BY <3>1, <3>3
      <3> QED
        BY <1>1, <3>1, <3>4 DEF q, hh
    <2>3. CASE d = c
      <3>1. /\ Queued(c) \ {b} = Queued(c)' \ {b}
            /\ b \in Queued(c) <=> from = "queued"
            /\ b \in Queued(c)' <=> step'[b][c] = "queued"
        BY <1>4, QueueMoves
      <3>2. /\ IsFiniteSet(Queued(c)') /\ Cardinality(Queued(c)') \in Nat
            /\ Cardinality(Queued(c)') + One(b \in Queued(c))
                 = Cardinality(Queued(c)) + One(b \in Queued(c)')
        BY <1>1, <2>3, <3>1, Changes
      <3> DEFINE q == Cardinality(Queued(c))  qq == Cardinality(Queued(c)')
                 h == Held(c)  hh == Held(c)'
                 o == One(from = "queued")  oo == One(step'[b][c] = "queued")
      <3>3. o = One(b \in Queued(c)) /\ oo = One(b \in Queued(c)') /\ o \in Nat /\ oo \in Nat
        BY <3>1 DEF One
      <3>4. /\ q \in Nat /\ qq \in Nat /\ h \in Nat /\ hh \in Nat /\ ran[c] \in Nat
            /\ ran'[c] \in Nat /\ forgotten[c] \in Nat /\ forgotten'[c] \in Nat
            /\ ran[c] + q <= forgotten[c] + h
            /\ qq + o = q + oo
            /\ ran'[c] + oo + forgotten[c] + h <= ran[c] + o + forgotten'[c] + hh
        BY <1>1, <1>2, <1>4, <2>3, <3>2, <3>3
      <3>5. o \in Nat /\ oo \in Nat
        BY <3>3
      <3> HIDE DEF q, qq, h, hh, o, oo
      <3>6. ran'[c] + qq <= forgotten'[c] + hh
        BY <3>4, <3>5
      <3> QED
        BY <2>3, <3>2, <3>6 DEF qq, hh
    <2> QED
      BY <2>2, <2>3
  <1>5. ASSUME NEW b \in Batches, NEW c \in Calls, Claims(b, c) PROVE ReceiptsBalance'
    <2>0. /\ Goes(b, c, "todo", {"queued"}) /\ step'[b][c] = "queued" /\ ran' = ran
          /\ One(step'[b][c] = "queued") = 1 /\ One("todo" = "queued") = 0
      BY <1>5 DEF Claims, Goes, One, starts, table
    <2>1. CASE c \in Keys
      <3> DEFINE s == Claimed(receipts, c)
      <3>1. MayClaim(receipts, c) /\ HasRoom(Without(receipts, c), c) /\ KeepClaim(s, c)
        BY <1>5, <2>1 DEF Claims
      <3>2. /\ Table(s) /\ c \in KeysOf(s)
            /\ \A i \in 1 .. Len(s) : s[i].key = c \/ \E n \in 1 .. Len(receipts) : s[i] = receipts[n]
        BY <1>0, <2>1, <3>1, ClaimedIs
      <3> HIDE DEF s
      <3>3. /\ receipts' = s /\ forgotten' \in [Keys -> Nat]
            /\ \A d \in Keys : forgotten[d] + Held(d) <= forgotten'[d] + Held(d)'
            /\ forgotten[c] + Held(c) + 1 <= forgotten'[c] + Held(c)'
        <4>1. Install(s, Gone(s) \cup ({c} \cap KeysOf(receipts)),
                      (unused \cap KeysOf(s)) \cup {c})
          BY <3>1 DEF KeepClaim, Replaced, MayClaim
        <4> QED
          BY <1>0, <2>1, <3>2, <4>1, InstallCounts
      <3>4. Table(receipts') /\ step'[b][c] \in OnItsWay
        BY <2>0, <3>2, <3>3 DEF OnItsWay
      <3>5. ClaimsAreHeld'
        <4>1. \A n \in 1 .. Len(receipts') : receipts'[n].status = "pending" =>
                \/ receipts'[n].key = c /\ step'[b][c] \in OnItsWay
                \/ /\ receipts'[n].key # c \/ step'[b][c] \in OnItsWay
                   /\ \E m \in 1 .. Len(receipts) : receipts'[n] = receipts[m]
          BY <3>2, <3>3, <3>4
        <4>2. Table(receipts) /\ ClaimsAreHeld
          BY <1>0
        <4> QED
          BY <2>0, <3>4, <4>1, <4>2, TurnAssumption, HoldersStay
      <3>6. ran'[c] + One(step'[b][c] = "queued") + forgotten[c] + Held(c)
              <= ran[c] + One("todo" = "queued") + forgotten'[c] + Held(c)'
        <4> DEFINE f == forgotten[c]  ff == forgotten'[c]  h == Held(c)  hh == Held(c)'
        <4>1. f \in Nat /\ ff \in Nat /\ h \in Nat /\ hh \in Nat /\ ran[c] \in Nat /\ f + h + 1 <= ff + hh
          BY <1>1, <1>2, <2>1, <3>3
        <4> HIDE DEF f, ff, h, hh
        <4>2. ran[c] + 1 + f + h <= ran[c] + 0 + ff + hh
          BY <4>1
        <4> QED
          BY <2>0, <4>2 DEF f, ff, h, hh
      <3> QED
        BY <1>4, <2>0, <3>3, <3>4, <3>5, <3>6
    <2>2. CASE c \notin Keys
      <3>1. receipts' = receipts /\ forgotten' = forgotten
        BY <1>5, <2>2 DEF Claims, starts, table
      <3>2. \A d \in Keys : forgotten[d] + Held(d) <= forgotten'[d] + Held(d)'
        BY <1>1, <3>1 DEF Held, KeysOf
      <3>3. step'[b][c] \in OnItsWay /\ Table(receipts')
        BY <1>0, <2>0, <3>1 DEF OnItsWay
      <3>4. ClaimsAreHeld'
        BY <1>0, <2>0, <3>1, <3>3, TurnAssumption, HoldersStay
      <3> QED
        BY <1>0, <1>4, <2>0, <2>2, <3>1, <3>2, <3>3, <3>4
    <2> QED
      BY <2>1, <2>2
  <1>6. ASSUME NEW b \in Batches, NEW c \in Calls, Drops(b, c) PROVE ReceiptsBalance'
    <2>0. /\ Goes(b, c, "queued", Ended) /\ step'[b][c] # "queued" /\ ran' = ran
          /\ One(step'[b][c] = "queued") = 0 /\ One("queued" = "queued") = 1
      BY <1>6 DEF Drops, Goes, One, Ended, starts, table
    <2>1. CASE c \in Keys
      <3>1. receipts' = Without(receipts, c) /\ forgotten' = forgotten
        BY <1>6, <2>1 DEF Drops, GiveBack, Expire
      <3>2. Shrinks(receipts', receipts) /\ KeysOf(receipts') = KeysOf(receipts) \ {c}
        BY <1>0, <3>1, WithoutIs
      <3>3. Table(receipts') /\ DOMAIN receipts' = 1 .. Len(receipts')
        BY <3>2 DEF Shrinks, Table
      <3>4. \A n \in 1 .. Len(receipts') :
              receipts'[n].key # c /\ \E m \in 1 .. Len(receipts) : receipts'[n] = receipts[m]
        BY <3>2, <3>3 DEF Shrinks, KeysOf
      <3>5. ClaimsAreHeld'
        <4>1. \A n \in 1 .. Len(receipts') : receipts'[n].status = "pending" =>
                \/ receipts'[n].key = c /\ step'[b][c] \in OnItsWay
                \/ /\ receipts'[n].key # c \/ step'[b][c] \in OnItsWay
                   /\ \E m \in 1 .. Len(receipts) : receipts'[n] = receipts[m]
          BY <3>4
        <4>2. Table(receipts) /\ ClaimsAreHeld
          BY <1>0
        <4> QED
          BY <2>0, <3>3, <4>1, <4>2, TurnAssumption, HoldersStay
      <3>6. \A d \in Keys : d # c => forgotten[d] + Held(d) <= forgotten'[d] + Held(d)'
        <4>1. ASSUME NEW d \in Keys, d # c PROVE Held(d)' = Held(d)
          BY <3>2, <4>1 DEF Held, KeysOf
        <4> QED
          BY <1>1, <3>1, <4>1
      <3>7. ran'[c] + One(step'[b][c] = "queued") + forgotten[c] + Held(c)
              <= ran[c] + One("queued" = "queued") + forgotten'[c] + Held(c)'
        <4>1. Held(c) \in {0, 1} /\ Held(c)' \in {0, 1}
          BY DEF Held
        <4> DEFINE f == forgotten[c]  h == Held(c)  hh == Held(c)'
        <4>2. f \in Nat /\ h \in {0, 1} /\ hh \in {0, 1} /\ ran[c] \in Nat
          BY <1>1, <2>1, <4>1
        <4> HIDE DEF f, h, hh
        <4>3. ran[c] + 0 + f + h <= ran[c] + 1 + f + hh
          BY <4>2
        <4> QED
          BY <2>0, <3>1, <4>3 DEF f, h, hh
      <3> QED
        BY <1>0, <1>4, <2>0, <3>1, <3>3, <3>5, <3>6, <3>7
    <2>2. CASE c \notin Keys
      <3>1. receipts' = receipts /\ forgotten' = forgotten
        BY <1>6, <2>2 DEF Drops, GiveBack, starts, table
      <3>2. \A d \in Keys : forgotten[d] + Held(d) <= forgotten'[d] + Held(d)'
        BY <1>1, <3>1 DEF Held, KeysOf
      <3>3. Table(receipts') /\ \A n \in 1 .. Len(receipts') : receipts'[n].key # c
        BY <1>0, <2>2, <3>1 DEF ExecutionAttempt
      <3>4. ClaimsAreHeld'
        BY <1>0, <2>0, <3>1, <3>3, TurnAssumption, HoldersStay
      <3> QED
        BY <1>0, <1>4, <2>0, <2>2, <3>1, <3>2, <3>3, <3>4
    <2> QED
      BY <2>1, <2>2
  <1>7. ASSUME NEW b \in Batches, NEW c \in Calls, Begun(b, c) PROVE ReceiptsBalance'
    <2>0. /\ Goes(b, c, "queued", {"acting"}) /\ step'[b][c] = "acting"
          /\ ran' = [ran EXCEPT ![c] = @ + 1] /\ receipts' = receipts /\ forgotten' = forgotten
          /\ One(step'[b][c] = "queued") = 0 /\ One("queued" = "queued") = 1
      BY <1>7 DEF Begun, Goes, One
    <2>1. Table(receipts') /\ step'[b][c] \in OnItsWay
      BY <1>0, <2>0 DEF OnItsWay
    <2>2. ClaimsAreHeld'
      BY <1>0, <2>0, <2>1, TurnAssumption, HoldersStay
    <2>3. \A d \in Keys : Held(d)' = Held(d)
      BY <2>0 DEF Held, KeysOf
    <2>4. \A d \in Keys : d # c => /\ ran'[d] = ran[d]
                                   /\ forgotten[d] + Held(d) <= forgotten'[d] + Held(d)'
      BY <1>0, <1>1, <2>0, <2>3
    <2>5. ASSUME c \in Keys
          PROVE  ran'[c] + One(step'[b][c] = "queued") + forgotten[c] + Held(c)
                   <= ran[c] + One("queued" = "queued") + forgotten'[c] + Held(c)'
      <3> DEFINE f == forgotten[c]  h == Held(c)
      <3>1. f \in Nat /\ h \in Nat /\ ran[c] \in Nat /\ ran'[c] = ran[c] + 1
        BY <1>0, <1>1, <2>0, <2>5
      <3> HIDE DEF f, h
      <3>2. ran'[c] + 0 + f + h <= ran[c] + 1 + f + h
        BY <3>1
      <3> QED
        BY <2>0, <2>3, <2>5, <3>2 DEF f, h
    <2> QED
      BY <1>0, <1>4, <2>0, <2>1, <2>2, <2>4, <2>5
  <1>8. ASSUME NEW b \in Batches, NEW c \in Calls, Settles(b, c) PROVE ReceiptsBalance'
    <2>0. /\ Goes(b, c, "acting", Ended) /\ step'[b][c] # "queued" /\ ran' = ran
          /\ One(step'[b][c] = "queued") = 0 /\ One("acting" = "queued") = 0
      BY <1>8 DEF Settles, Goes, One, Ended, starts, table
    <2>1. CASE (c \notin Keys \/ SaveRaises(receipts, c)) /\ UNCHANGED table
      <3>1. receipts' = receipts /\ forgotten' = forgotten
        BY <2>1 DEF starts, table
      <3>2. \A d \in Keys : forgotten[d] + Held(d) <= forgotten'[d] + Held(d)'
        BY <1>1, <3>1 DEF Held, KeysOf
      <3>3. Table(receipts') /\ \A n \in 1 .. Len(receipts') : receipts'[n].key # c
        BY <1>0, <2>1, <3>1 DEF ExecutionAttempt, SaveRaises, HasRoom, KeysOf
      <3>4. ClaimsAreHeld'
        BY <1>0, <2>0, <3>1, <3>3, TurnAssumption, HoldersStay
      <3>5. ASSUME c \in Keys
            PROVE  ran'[c] + One(step'[b][c] = "queued") + forgotten[c] + Held(c)
                     <= ran[c] + One("acting" = "queued") + forgotten'[c] + Held(c)'
        <4> DEFINE f == forgotten[c]  h == Held(c)  ff == forgotten'[c]  hh == Held(c)'
        <4>1. f \in Nat /\ h \in Nat /\ ff \in Nat /\ hh \in Nat /\ ran[c] \in Nat
              /\ f + h <= ff + hh
          BY <1>0, <1>1, <1>2, <3>1, <3>2, <3>5
        <4> HIDE DEF f, h, ff, hh
        <4>2. ran[c] + 0 + f + h <= ran[c] + 0 + ff + hh
          BY <4>1
        <4> QED
          BY <2>0, <4>2 DEF f, h, ff, hh
      <3> QED
        BY <1>0, <1>4, <2>0, <3>1, <3>2, <3>3, <3>4, <3>5
    <2>2. ASSUME c \in Keys, ~ SaveRaises(receipts, c), NEW status \in AttemptStatus \ {"pending"},
                 KeepResult(Saved(receipts, c, status), c)
          PROVE  ReceiptsBalance'
      <3> DEFINE s == Saved(receipts, c, status)
      <3>1. /\ Table(s)
            /\ \A i \in 1 .. Len(s) : s[i].status = "pending" =>
                 s[i].key # c /\ \E n \in 1 .. Len(receipts) : s[i] = receipts[n]
        BY <1>0, <2>2, SavedIs
      <3>2. Install(s, Gone(s), (unused \cap KeysOf(s)) \ {c})
        BY <2>2 DEF KeepResult
      <3> HIDE DEF s
      <3>3. /\ receipts' = s /\ forgotten' \in [Keys -> Nat]
            /\ \A d \in Keys : forgotten[d] + Held(d) <= forgotten'[d] + Held(d)'
        BY <1>0, <3>2, InstallCounts
      <3>4. Table(receipts')
        BY <3>1, <3>3
      <3>5. ClaimsAreHeld'
        BY <1>0, <2>0, <3>1, <3>3, <3>4, TurnAssumption, HoldersStay
      <3>6. ran'[c] + One(step'[b][c] = "queued") + forgotten[c] + Held(c)
              <= ran[c] + One("acting" = "queued") + forgotten'[c] + Held(c)'
        <4> DEFINE f == forgotten[c]  h == Held(c)  ff == forgotten'[c]  hh == Held(c)'
        <4>1. f \in Nat /\ h \in Nat /\ ff \in Nat /\ hh \in Nat /\ ran[c] \in Nat
              /\ f + h <= ff + hh
          BY <1>0, <1>1, <1>2, <2>2, <3>3
        <4> HIDE DEF f, h, ff, hh
        <4>2. ran[c] + 0 + f + h <= ran[c] + 0 + ff + hh
          BY <4>1
        <4> QED
          BY <2>0, <4>2 DEF f, h, ff, hh
      <3> QED
        BY <1>4, <2>0, <3>3, <3>4, <3>5, <3>6
    <2> QED
      BY <1>8, <2>1, <2>2 DEF Settles
  <1> QED
    BY <1>3, <1>5, <1>6, <1>7, <1>8 DEF StepKind

-----------------------------------------------------------------------------
(* What a repeat takes: a call may start at no cost as long as it has no     *)
(* receipt of a start; every other start is put down to what made it         *)
(* possible.                                                                 *)

Used == KeysOf(receipts) \ unused
Free(c) == IF c \in Used THEN 0 ELSE 1

\* What is counted, and what the receipts say of the starts.
CauseOf(c) ==
  /\ ran[c] + lapsed[c] + Free(c) <= 1 + forgotten[c] + taken[c] + unclaimed[c]
  /\ c \in Used => ran[c] >= 1
  /\ taken[c] > 0 => forgotten[c] > 0

Counts ==
  /\ forgotten \in [Keys -> Nat] /\ lapsed \in [Keys -> Nat] /\ taken \in [Keys -> Nat]
  /\ unclaimed \in [Calls -> Nat]

Causes ==
  /\ Counts
  /\ unused \subseteq KeysOf(receipts)
  /\ \A c \in Keys :
       /\ CauseOf(c)
       /\ \A b \in Batches : step[b][c] = "acting" => ran[c] >= 1

\* The table changes, and every receipt of it that is neither an unused claim
\* nor an old receipt of a start belongs to a call that was started.
LEMMA InstallCauses ==
  ASSUME Causes, ran \in [Calls -> Nat], Keys \subseteq Calls, starts' = starts,
         NEW s, NEW lost, NEW claims, Install(s, lost, claims),
         Gone(s) \subseteq lost, lost \subseteq KeysOf(receipts), claims \subseteq KeysOf(s),
         claims \cap Used \subseteq lost,
         \A c \in KeysOf(s) \ claims : c \in Used \/ (c \in Keys => ran[c] >= 1)
  PROVE  /\ Counts' /\ unused' \subseteq KeysOf(receipts')
         /\ \A c \in Keys : CauseOf(c)'
PROOF
  <1>1. /\ receipts' = s /\ unused' = claims /\ taken' = taken /\ ran' = ran
        /\ unclaimed' = unclaimed
        /\ forgotten' = [k \in Keys |-> forgotten[k] + IF k \in lost THEN 1 ELSE 0]
        /\ lapsed' = [k \in Keys |-> lapsed[k] + IF k \in lost \cap unused THEN 1 ELSE 0]
    BY DEF Install, Counted, starts
  <1>2. KeysOf(receipts)' = KeysOf(s) /\ Used' = KeysOf(s) \ claims
    BY <1>1 DEF Used, KeysOf
  <1>3. Counts'
    BY <1>1 DEF Causes, Counts
  <1>4. ASSUME NEW c \in Keys PROVE CauseOf(c)'
    <2> DEFINE f == forgotten[c]  ff == forgotten'[c]  l == lapsed[c]  ll == lapsed'[c]
               t == taken[c]  u == unclaimed[c]  r == ran[c]  h == Free(c)  hh == Free(c)'
               df == IF c \in lost THEN 1 ELSE 0
               dl == IF c \in lost \cap unused THEN 1 ELSE 0
    <2>1. /\ ff = f + df /\ ll = l + dl /\ f \in Nat /\ l \in Nat /\ t \in Nat /\ u \in Nat
          /\ r \in Nat /\ df \in {0, 1} /\ dl \in {0, 1}
      BY <1>1 DEF Causes, Counts
    <2>2. /\ r + l + h <= 1 + f + t + u
          /\ c \in Used => r >= 1
          /\ t > 0 => f > 0
      BY DEF Causes, CauseOf
    <2>3. h \in {0, 1} /\ hh \in {0, 1} /\ dl + hh <= h + df
      <3>1. h = (IF c \in Used THEN 0 ELSE 1) /\ hh = (IF c \in KeysOf(s) \ claims THEN 0 ELSE 1)
        BY <1>2 DEF Free
      <3>2. CASE c \in lost
        <4>1. c \in KeysOf(receipts)
          BY <3>2
        <4>2. c \in unused => h = 1 /\ dl = 1 /\ df = 1
          BY <3>1, <3>2, <4>1 DEF Used
        <4>3. c \notin unused => h = 0 /\ dl = 0 /\ df = 1
          BY <3>1, <3>2, <4>1 DEF Used
        <4> QED
          BY <3>1, <4>2, <4>3
      <3>3. CASE c \notin lost
        <4>1. dl = 0 /\ df = 0
          BY <3>3
        <4>2. h = 0 => hh = 0
          <5>1. ASSUME c \in Used PROVE c \in KeysOf(s) /\ c \notin claims
            BY <3>3, <5>1 DEF Used, Gone
          <5> QED
            BY <3>1, <5>1
        <4> QED
          BY <3>1, <4>1, <4>2
      <3> QED
        BY <3>2, <3>3
    <2>4. c \in Used' => r >= 1
      BY <1>2, <2>2
    <2>5. taken'[c] = t /\ unclaimed'[c] = u /\ ran'[c] = r
      BY <1>1
    <2> HIDE DEF f, ff, l, ll, t, u, r, h, hh, df, dl
    <2>6. r + ll + hh <= 1 + ff + t + u
      BY <2>1, <2>2, <2>3
    <2>7. t > 0 => ff > 0
      BY <2>1, <2>2
    <2> QED
      BY <2>4, <2>5, <2>6, <2>7 DEF CauseOf, ff, ll, hh, r, t, u
  <1> QED
    BY <1>1, <1>2, <1>3, <1>4

\* Nothing but the start of a call makes it act.
LEMMA ActingStays ==
  ASSUME NEW b \in Batches, NEW c \in Calls, NEW from, NEW to, Goes(b, c, from, to),
         "acting" \notin to, starts' = starts, Keys \subseteq Calls,
         \A d \in Keys : \A e \in Batches : step[e][d] = "acting" => ran[d] >= 1
  PROVE  \A d \in Keys : \A e \in Batches : step'[e][d] = "acting" => ran'[d] >= 1
PROOF
  <1>1. ran' = ran
    BY DEF starts
  <1>2. ASSUME NEW d \in Keys, NEW e \in Batches, step'[e][d] = "acting"
        PROVE  step[e][d] = "acting"
    BY <1>2 DEF Goes, Untouched
  <1> QED
    BY <1>1, <1>2

\* A table and counts that stay.
LEMMA CausesStay ==
  ASSUME Causes, UNCHANGED <<receipts, unused, forgotten, lapsed, taken>>, starts' = starts
  PROVE  /\ Counts' /\ unused' \subseteq KeysOf(receipts')
         /\ \A c \in Keys : CauseOf(c)'
  BY DEF Causes, Counts, CauseOf, starts, Free, Used, KeysOf

\* What clearing leaves are old receipts.
LEMMA ClearsCauses ==
  ASSUME Causes, ran \in [Calls -> Nat], Keys \subseteq Calls, Table(receipts),
         starts' = starts, Clears
  PROVE  /\ Counts' /\ unused' \subseteq KeysOf(receipts')
         /\ \A c \in Keys : CauseOf(c)'
PROOF
  <1>1. CASE UNCHANGED table
    BY <1>1, CausesStay DEF table
  <1>2. ASSUME NEW s, Shrinks(s, receipts), Keep(s)
        PROVE  /\ Counts' /\ unused' \subseteq KeysOf(receipts')
               /\ \A c \in Keys : CauseOf(c)'
    <2>1. KeysOf(s) \subseteq KeysOf(receipts)
      BY <1>2, KeysShrink
    <2> DEFINE lost == Gone(s)  claims == unused \cap KeysOf(s)
    <2>2. /\ Gone(s) \subseteq lost /\ lost \subseteq KeysOf(receipts)
          /\ claims \subseteq KeysOf(s) /\ claims \cap Used \subseteq lost
          /\ \A c \in KeysOf(s) \ claims : c \in Used
      BY <2>1 DEF Gone, Used
    <2>3. Install(s, lost, claims)
      BY <1>2 DEF Keep
    <2> HIDE DEF lost, claims
    <2> QED
      BY <2>2, <2>3, InstallCauses
  <1> QED
    BY <1>1, <1>2 DEF Clears

LEMMA CausesKept ==
  ASSUME Turn, ReceiptsBalance, Causes, StepKind
  PROVE  Causes'
PROOF
  <1>0. /\ ran \in [Calls -> Nat] /\ Keys \subseteq Calls /\ Table(receipts) /\ now \in Nat
        /\ \A d \in Keys : \A e \in Batches : step[e][d] = "acting" => ran[d] >= 1
    BY TurnAssumption DEF Turn, ReceiptsBalance, Causes
  <1>1. CASE Calm
    <2>1. starts' = starts /\ Clears
      BY <1>1 DEF Calm
    <2>2. /\ Counts' /\ unused' \subseteq KeysOf(receipts')
          /\ \A c \in Keys : CauseOf(c)'
      BY <1>0, <2>1, ClearsCauses
    <2>3. ASSUME NEW d \in Keys, NEW e \in Batches, step'[e][d] = "acting" PROVE ran'[d] >= 1
      <3>1. step[e][d] = "acting"
        BY <1>0, <1>1, <2>3 DEF Calm, Untouched, OnItsWay
      <3> QED
        BY <1>0, <2>1, <3>1 DEF starts
    <2> QED
      BY <2>2, <2>3 DEF Causes
  <1>2. ASSUME NEW b \in Batches, NEW c \in Calls, Claims(b, c) PROVE Causes'
    <2>1. Goes(b, c, "todo", {"queued"}) /\ starts' = starts
      BY <1>2 DEF Claims
    <2>2. \A d \in Keys : \A e \in Batches : step'[e][d] = "acting" => ran'[d] >= 1
      BY <1>0, <2>1, ActingStays
    <2>3. CASE c \notin Keys
      BY <1>2, <2>1, <2>2, <2>3, CausesStay DEF Claims, Causes, table
    <2>4. CASE c \in Keys
      <3> DEFINE s == Claimed(receipts, c)
                 lost == Gone(s) \cup ({c} \cap KeysOf(receipts))
                 claims == (unused \cap KeysOf(s)) \cup {c}
      <3>1. HasRoom(Without(receipts, c), c) /\ Install(s, lost, claims)
        <4>1. Replaced(c) = {c} \cap KeysOf(receipts)
          BY <1>2, <2>4 DEF Claims, Replaced, MayClaim
        <4> QED
          BY <1>2, <2>4, <4>1 DEF Claims, KeepClaim
      <3>2. /\ Table(s) /\ c \in KeysOf(s)
            /\ \A i \in 1 .. Len(s) : s[i].key = c \/ \E n \in 1 .. Len(receipts) : s[i] = receipts[n]
        BY <1>0, <2>4, <3>1, ClaimedIs
      <3> HIDE DEF s
      <3>3. KeysOf(s) \subseteq KeysOf(receipts) \cup {c}
        BY <1>0, <3>2 DEF Table, KeysOf
      <3>4. /\ Gone(s) \subseteq lost /\ lost \subseteq KeysOf(receipts)
            /\ claims \subseteq KeysOf(s) /\ claims \cap Used \subseteq lost
            /\ \A d \in KeysOf(s) \ claims : d \in Used
        BY <3>2, <3>3 DEF Gone, Used
      <3> HIDE DEF lost, claims
      <3>5. /\ Counts' /\ unused' \subseteq KeysOf(receipts')
            /\ \A d \in Keys : CauseOf(d)'
        BY <1>0, <2>1, <3>1, <3>4, InstallCauses
      <3> QED
        BY <2>2, <3>5 DEF Causes
    <2> QED
      BY <2>3, <2>4
  <1>3. ASSUME NEW b \in Batches, NEW c \in Calls, Drops(b, c) PROVE Causes'
    <2>1. Goes(b, c, "queued", Ended) /\ starts' = starts /\ "acting" \notin Ended
      BY <1>3 DEF Drops, Ended
    <2>2. \A d \in Keys : \A e \in Batches : step'[e][d] = "acting" => ran'[d] >= 1
      BY <1>0, <2>1, ActingStays
    <2>3. CASE c \notin Keys
      BY <1>3, <2>1, <2>2, <2>3, CausesStay DEF Drops, GiveBack, Causes, table
    <2>4. CASE c \in Keys
      <3>1. /\ receipts' = Without(receipts, c) /\ unused' = unused \ {c}
            /\ taken' = [k \in Keys |-> taken[k] + IF k \in {c} \cap Used THEN 1 ELSE 0]
            /\ forgotten' = forgotten /\ lapsed' = lapsed
            /\ ran' = ran /\ unclaimed' = unclaimed
        <4>1. {c} \cap Used = ({c} \cap KeysOf(receipts)) \ unused
          BY DEF Used
        <4> QED
          BY <1>3, <2>1, <2>4, <4>1 DEF Drops, GiveBack, Expire, Counted, starts
      <3>2. KeysOf(receipts)' = KeysOf(receipts) \ {c}
        BY <1>0, <3>1, WithoutIs DEF KeysOf
      <3>3. Used' = Used \ {c} /\ unused' \subseteq KeysOf(receipts')
        BY <3>1, <3>2 DEF Used, Causes, KeysOf
      <3>4. Counts'
        BY <3>1 DEF Causes, Counts
      <3>5. c \in Used => forgotten[c] > 0
        <4>1. SUFFICES ASSUME c \in Used PROVE forgotten[c] > 0
          OBVIOUS
        <4>2. ran[c] \in Nat /\ ran[c] >= 1 /\ forgotten[c] \in Nat /\ Held(c) = 1
          BY <1>0, <2>4, <4>1 DEF Causes, CauseOf, Counts, Held, Used
        <4>3. IsFiniteSet(Queued(c)) /\ ran[c] + Cardinality(Queued(c)) <= forgotten[c] + Held(c)
          BY <2>4 DEF ReceiptsBalance
        <4>4. Cardinality(Queued(c)) \in Nat /\ Cardinality(Queued(c)) # 0
          <5>1. b \in Queued(c)
            BY <2>1 DEF Goes, Queued
          <5> QED
            BY <4>3, <5>1, FS_CardinalityType, FS_EmptySet
        <4> DEFINE q == Cardinality(Queued(c))  h == Held(c)
        <4>5. q \in Nat /\ q # 0 /\ h = 1 /\ ran[c] + q <= forgotten[c] + h
          BY <4>2, <4>3, <4>4
        <4> HIDE DEF q, h
        <4> QED
          BY <4>2, <4>5
      <3>6. ASSUME NEW d \in Keys PROVE CauseOf(d)'
        <4> DEFINE f == forgotten[d]  l == lapsed[d]  t == taken[d]  tt == taken'[d]
                   u == unclaimed[d]  r == ran[d]  h == Free(d)  hh == Free(d)'
        <4>1. /\ f \in Nat /\ l \in Nat /\ t \in Nat /\ u \in Nat /\ r \in Nat
              /\ h \in {0, 1} /\ hh \in {0, 1}
          BY <1>0 DEF Causes, Counts, Free
        <4>2. r + l + h <= 1 + f + t + u /\ (d \in Used => r >= 1) /\ (t > 0 => f > 0)
          BY DEF Causes, CauseOf
        <4>3. tt = t + (IF d \in {c} \cap Used THEN 1 ELSE 0)
          BY <3>1
        <4>4. h = (IF d \in Used THEN 0 ELSE 1) /\ hh = (IF d \in Used \ {c} THEN 0 ELSE 1)
          BY <3>3 DEF Free
        <4>5. tt \in {t, t + 1} /\ hh + t <= h + tt
          BY <4>1, <4>3, <4>4
        <4>6. tt > 0 => f > 0
          <5>1. CASE d = c /\ d \in Used
            BY <3>5, <5>1
          <5>2. CASE ~ (d = c /\ d \in Used)
            <6>1. tt = t + 0
              BY <4>3, <5>2
            <6> HIDE DEF t, tt, f
            <6> QED
              BY <4>1, <4>2, <6>1
          <5> QED
            BY <5>1, <5>2
        <4>7. /\ forgotten'[d] = f /\ lapsed'[d] = l /\ unclaimed'[d] = u /\ ran'[d] = r
              /\ d \in Used' => r >= 1
          BY <3>1, <3>3, <4>2
        <4> HIDE DEF f, l, t, tt, u, r, h, hh
        <4>8. r + l + hh <= 1 + f + tt + u
          BY <4>1, <4>2, <4>5
        <4> QED
          BY <4>6, <4>7, <4>8 DEF CauseOf, tt, hh
      <3> QED
        BY <2>2, <3>3, <3>4, <3>6 DEF Causes
    <2> QED
      BY <2>3, <2>4
  <1>4. ASSUME NEW b \in Batches, NEW c \in Calls, Begun(b, c) PROVE Causes'
    <2>1. /\ Goes(b, c, "queued", {"acting"}) /\ unused' = unused \ {c}
          /\ receipts' = receipts /\ forgotten' = forgotten /\ lapsed' = lapsed /\ taken' = taken
          /\ ran' = [ran EXCEPT ![c] = @ + 1]
          /\ unclaimed' = [unclaimed EXCEPT ![c] = @ + IF c \in unused THEN 0 ELSE 1]
      BY <1>4 DEF Begun
    <2>2. /\ ran'[c] = ran[c] + 1 /\ \A d \in Calls : d # c => ran'[d] = ran[d]
          /\ unclaimed'[c] = unclaimed[c] + (IF c \in unused THEN 0 ELSE 1)
          /\ \A d \in Calls : d # c => unclaimed'[d] = unclaimed[d]
          /\ unclaimed' \in [Calls -> Nat]
      BY <1>0, <2>1 DEF Causes, Counts
    <2>3. Counts'
      BY <2>1, <2>2 DEF Causes, Counts
    <2>4. KeysOf(receipts)' = KeysOf(receipts) /\ unused \subseteq KeysOf(receipts)
      BY <2>1 DEF KeysOf, Causes
    <2>5. unused' \subseteq KeysOf(receipts') /\ Used' = KeysOf(receipts) \ (unused \ {c})
      BY <2>1, <2>4 DEF Used, KeysOf
    <2>6. ASSUME NEW d \in Keys PROVE CauseOf(d)'
      <3> DEFINE f == forgotten[d]  l == lapsed[d]  t == taken[d]
                 u == unclaimed[d]  r == ran[d]  h == Free(d)
                 uu == unclaimed'[d]  rr == ran'[d]  hh == Free(d)'
      <3>1. /\ f \in Nat /\ l \in Nat /\ t \in Nat /\ u \in Nat /\ r \in Nat
            /\ h \in {0, 1} /\ hh \in {0, 1}
        BY <1>0 DEF Causes, Counts, Free
      <3>2. r + l + h <= 1 + f + t + u /\ (d \in Used => r >= 1) /\ (t > 0 => f > 0)
        BY DEF Causes, CauseOf
      <3>3. h = (IF d \in Used THEN 0 ELSE 1)
            /\ hh = (IF d \in KeysOf(receipts) \ (unused \ {c}) THEN 0 ELSE 1)
        BY <2>5 DEF Free
      <3>4. CASE d # c
        <4>1. rr = r /\ uu = u /\ hh = h /\ (d \in Used' <=> d \in Used)
          BY <1>0, <2>2, <2>5, <3>3, <3>4 DEF Used
        <4>2. forgotten'[d] = f /\ lapsed'[d] = l /\ taken'[d] = t
          BY <2>1
        <4>3. r + l + h <= 1 + f + t + u /\ (d \in Used' => r >= 1) /\ (t > 0 => f > 0)
          BY <3>2, <4>1
        <4> QED
          BY ONLY <4>1, <4>2, <4>3 DEF CauseOf, rr, uu, hh, f, l, t, r, u, h
      <3>5. CASE d = c
        <4>1. forgotten'[d] = f /\ lapsed'[d] = l /\ taken'[d] = t /\ rr = r + 1
          BY <2>1, <2>2, <3>5
        <4>2. rr + hh - r <= h + uu - u /\ uu \in Nat
          <5>1. CASE c \in unused
            <6>1. uu = u
              BY <2>2, <3>1, <3>5, <5>1
            <6>2. h = 1
              BY <3>3, <3>5, <5>1 DEF Used
            <6>3. hh = 0
              BY <2>4, <3>3, <3>5, <5>1
            <6> HIDE DEF rr, hh, h, uu, u, r
            <6> QED
              BY <3>1, <4>1, <6>1, <6>2, <6>3
          <5>2. CASE c \notin unused
            <6>1. uu = u + 1
              BY <2>2, <3>5, <5>2
            <6>2. hh = h
              BY <3>3, <3>5, <5>2 DEF Used
            <6> HIDE DEF rr, hh, h, uu, u, r
            <6> QED
              BY <3>1, <4>1, <6>1, <6>2
          <5> QED
            BY <5>1, <5>2
        <4> HIDE DEF f, l, t, u, r, h, uu, rr, hh
        <4>3. rr + l + hh <= 1 + f + t + uu /\ rr >= 1
          BY <3>1, <3>2, <4>1, <4>2
        <4> QED
          BY <3>2, <4>1, <4>3 DEF CauseOf, rr, hh, uu
      <3> QED
        BY <3>4, <3>5
    <2>7. ASSUME NEW d \in Keys, NEW e \in Batches, step'[e][d] = "acting" PROVE ran'[d] >= 1
      <3>1. ran[c] \in Nat /\ ran[d] \in Nat
        BY <1>0
      <3>2. CASE d = c
        BY <2>2, <3>1, <3>2
      <3>3. CASE d # c
        <4>1. step[e][d] = "acting"
          BY <1>0, <2>1, <2>7, <3>3 DEF Goes, Untouched
        <4> QED
          BY <1>0, <2>2, <3>3, <4>1
      <3> QED
        BY <3>2, <3>3
    <2> QED
      BY <2>3, <2>5, <2>6, <2>7 DEF Causes
  <1>5. ASSUME NEW b \in Batches, NEW c \in Calls, Settles(b, c) PROVE Causes'
    <2>1. /\ Goes(b, c, "acting", Ended) /\ starts' = starts /\ "acting" \notin Ended
          /\ step[b][c] = "acting"
      BY <1>5 DEF Settles, Ended, Goes
    <2>2. \A d \in Keys : \A e \in Batches : step'[e][d] = "acting" => ran'[d] >= 1
      BY <1>0, <2>1, ActingStays
    <2>3. CASE UNCHANGED table
      BY <2>1, <2>2, <2>3, CausesStay DEF Causes, table
    <2>4. ASSUME c \in Keys, ~ SaveRaises(receipts, c), NEW status \in AttemptStatus \ {"pending"},
                 KeepResult(Saved(receipts, c, status), c)
          PROVE  Causes'
      <3> DEFINE s == Saved(receipts, c, status)
                 lost == Gone(s)
                 claims == (unused \cap KeysOf(s)) \ {c}
      <3>1. Install(s, lost, claims)
        BY <2>4 DEF KeepResult
      <3>2. /\ Table(s)
            /\ \A i \in 1 .. Len(s) : s[i].key = c \/ \E n \in 1 .. Len(receipts) : s[i] = receipts[n]
        BY <1>0, <2>4, SavedIs
      <3> HIDE DEF s
      <3>3. KeysOf(s) \subseteq KeysOf(receipts) \cup {c}
        <4>1. s \in Seq(ExecutionAttempt) /\ receipts \in Seq(ExecutionAttempt)
          BY <1>0, <3>2 DEF Table
        <4>2. DOMAIN s = 1 .. Len(s) /\ DOMAIN receipts = 1 .. Len(receipts)
          BY <4>1
        <4>3. ASSUME NEW i \in 1 .. Len(s) PROVE s[i].key \in KeysOf(receipts) \cup {c}
          BY <3>2, <4>2 DEF KeysOf
        <4> QED
          BY <4>2, <4>3 DEF KeysOf
      <3>4. ran[c] >= 1
        BY <1>0, <2>1, <2>4
      <3>5. /\ Gone(s) \subseteq lost /\ lost \subseteq KeysOf(receipts)
            /\ claims \subseteq KeysOf(s) /\ claims \cap Used \subseteq lost
            /\ \A d \in KeysOf(s) \ claims : d \in Used \/ (d \in Keys => ran[d] >= 1)
        BY <3>3, <3>4 DEF Gone, Used
      <3> HIDE DEF lost, claims
      <3>6. /\ Counts' /\ unused' \subseteq KeysOf(receipts')
            /\ \A d \in Keys : CauseOf(d)'
        BY <1>0, <2>1, <3>1, <3>5, InstallCauses
      <3> QED
        BY <2>2, <3>6 DEF Causes
    <2> QED
      BY <1>5, <2>3, <2>4 DEF Settles
  <1> QED
    BY <1>1, <1>2, <1>3, <1>4, <1>5 DEF StepKind

-----------------------------------------------------------------------------
(* Approvals: starts made and an approval unused are balanced by approvals   *)
(* given.                                                                    *)

GrantIsFor(b, c) ==
  /\ grant[b][c] \in 1 .. created
  /\ \A n \in 1 .. Len(approvals) :
       approvals[n].id = grant[b][c] => approvals[n].proposal = ProposalOf[c]

ApprovalsBalance ==
  /\ DeskInv /\ granted \in [Proposals -> Nat]
  /\ \A b \in Batches, c \in Gated \cup Risky : step[b][c] = "queued" => GrantIsFor(b, c)
  /\ \A p \in Proposals : Starts(p) + One(IsApproved(p)) <= granted[p]

StartsOf(p) == [c \in Calls |-> IF c \in Gated \cup Risky /\ ProposalOf[c] = p
                                THEN ran[c] ELSE 0]

LEMMA StartsCount ==
  ASSUME ran \in [Calls -> Nat], NEW p
  PROVE  /\ Cardinality(Calls) \in Nat /\ Calls = 1 .. Cardinality(Calls)
         /\ StartsOf(p) \in [Calls -> Nat]
         /\ Starts(p) = Total(StartsOf(p), Cardinality(Calls)) /\ Starts(p) \in Nat
PROOF
  <1>1. Cardinality(Calls) \in Nat /\ Calls = 1 .. Cardinality(Calls)
    BY TurnAssumption, FS_CardinalityType
  <1>2. StartsOf(p) \in [Calls -> Nat]
    BY DEF StartsOf
  <1>3. Starts(p) = Total(StartsOf(p), Cardinality(Calls))
    BY DEF Starts, StartsOf
  <1> DEFINE N == Cardinality(Calls)  G == StartsOf(p)
  <1>4. N \in Nat /\ G \in [1 .. N -> Nat]
    BY <1>1, <1>2
  <1> HIDE DEF N, G
  <1>5. Total(G, N) \in Nat
    BY <1>4, TotalIsSum
  <1> QED
    BY <1>1, <1>2, <1>3, <1>5 DEF N, G

LEMMA StartsStay ==
  ASSUME ran' = ran, NEW p
  PROVE  Starts(p)' = Starts(p)
  BY DEF Starts

LEMMA StartsGrow ==
  ASSUME ran \in [Calls -> Nat], ran' \in [Calls -> Nat],
         NEW c \in Calls, ran' = [ran EXCEPT ![c] = @ + 1], NEW p
  PROVE  Starts(p)' = Starts(p) + One(c \in Gated \cup Risky /\ ProposalOf[c] = p)
PROOF
  <1> DEFINE N == Cardinality(Calls)  G == StartsOf(p)  H == StartsOf(p)'
  <1>1. /\ N \in Nat /\ Calls = 1 .. N /\ G \in [Calls -> Nat]
        /\ Starts(p) = Total(G, N) /\ Starts(p) \in Nat
    BY StartsCount
  <1>2. H \in [Calls -> Nat]
    BY DEF StartsOf
  <1>3. Starts(p)' = Total(H, N)
    BY DEF Starts, StartsOf
  <1>4. \A d \in Calls : d # c => H[d] = G[d]
    BY DEF StartsOf
  <1>5. H[c] = G[c] + One(c \in Gated \cup Risky /\ ProposalOf[c] = p)
    BY DEF StartsOf, One
  <1> HIDE DEF N, G, H
  <1>6. CASE c \in Gated \cup Risky /\ ProposalOf[c] = p
    <2>1. H[c] = G[c] + 1 /\ One(c \in Gated \cup Risky /\ ProposalOf[c] = p) = 1
      BY <1>5, <1>6 DEF One
    <2>2. Total(H, N) = Total(G, N) + 1
      BY <1>1, <1>2, <1>4, <2>1, TotalGrows
    <2> QED
      BY <1>1, <1>3, <2>1, <2>2
  <1>7. CASE ~ (c \in Gated \cup Risky /\ ProposalOf[c] = p)
    <2>1. One(c \in Gated \cup Risky /\ ProposalOf[c] = p) = 0
      BY <1>7 DEF One
    <2>2. H[c] = G[c]
      BY <1>1, <1>5, <2>1
    <2>3. H = G
      BY <1>1, <1>2, <1>4, <2>2
    <2> QED
      BY <1>1, <1>3, <2>1, <2>3
  <1> QED
    BY <1>6, <1>7

\* A grant stays for its proposal when ids keep their meaning.
LEMMA GrantStays ==
  ASSUME IdsStay, DeskInv, DeskInv', NEW b, NEW c, GrantIsFor(b, c), grant'[b][c] = grant[b][c]
  PROVE  GrantIsFor(b, c)'
PROOF
  <1>1. created \in Nat /\ created' \in Nat /\ created <= created'
    BY DEF IdsStay, DeskInv
  <1>2. grant'[b][c] \in 1 .. created' /\ grant'[b][c] <= created
    BY <1>1 DEF GrantIsFor
  <1>3. ASSUME NEW n \in 1 .. Len(approvals'), approvals'[n].id = grant'[b][c]
        PROVE  approvals'[n].proposal = ProposalOf[c]
    <2>1. PICK m \in 1 .. Len(approvals) :
            approvals[m].id = approvals'[n].id /\ approvals[m].proposal = approvals'[n].proposal
      BY <1>2, <1>3 DEF IdsStay
    <2> QED
      BY <1>3, <2>1 DEF GrantIsFor
  <1> QED
    BY <1>2, <1>3 DEF GrantIsFor

LEMMA ApprovalsKept ==
  ASSUME Turn, Turn', ApprovalsBalance, StepKind
  PROVE  ApprovalsBalance'
PROOF
  <1>0. /\ DeskInv /\ granted \in [Proposals -> Nat] /\ created \in Nat
        /\ ran \in [Calls -> Nat] /\ ran' \in [Calls -> Nat]
        /\ Gated \cup Risky \subseteq Calls /\ ProposalOf \in [Calls -> Proposals]
        /\ \A b \in Batches, c \in Gated \cup Risky : step[b][c] = "queued" => GrantIsFor(b, c)
    BY TurnAssumption DEF ApprovalsBalance, Turn, DeskInv
  <1>1. \A p \in Proposals : /\ Starts(p) + One(IsApproved(p)) <= granted[p]
                             /\ Starts(p) \in Nat /\ granted[p] \in Nat
    BY <1>0, StartsCount DEF ApprovalsBalance
  <1>2. ASSUME UNCHANGED desk
        PROVE  /\ DeskInv' /\ granted' = granted
               /\ \A p : IsApproved(p)' = IsApproved(p)
               /\ \A b \in Batches, c \in Calls :
                    GrantIsFor(b, c) /\ Untouched(b, c) => GrantIsFor(b, c)'
    BY <1>0, <1>2 DEF desk, DeskInv, IsApproved, GrantIsFor, Untouched
  <1>3. ASSUME DeskInv', granted' \in [Proposals -> Nat],
               \A b \in Batches, c \in Gated \cup Risky : step'[b][c] = "queued" => GrantIsFor(b, c)',
               ran' = ran,
               \A p \in Proposals :
                 \/ granted'[p] = granted[p] /\ (IsApproved(p)' => IsApproved(p))
                 \/ granted'[p] = granted[p] + 1
        PROVE  ApprovalsBalance'
    <2>1. SUFFICES ASSUME NEW p \in Proposals
                   PROVE  Starts(p)' + One(IsApproved(p)') <= granted'[p]
      BY <1>3 DEF ApprovalsBalance
    <2>2. Starts(p)' = Starts(p)
      BY <1>3, StartsStay
    <2>3. CASE granted'[p] = granted[p] /\ (IsApproved(p)' => IsApproved(p))
      <3>1. One(IsApproved(p)') <= One(IsApproved(p)) /\ One(IsApproved(p)') \in Nat
            /\ One(IsApproved(p)) \in Nat
        BY <2>3 DEF One
      <3> QED
        BY <1>1, <2>2, <2>3, <3>1
    <2>4. CASE granted'[p] = granted[p] + 1
      <3>1. One(IsApproved(p)') <= One(IsApproved(p)) + 1 /\ One(IsApproved(p)') \in Nat
            /\ One(IsApproved(p)) \in Nat
        BY DEF One
      <3> QED
        BY <1>1, <2>2, <2>4, <3>1
    <2> QED
      BY <1>3, <2>3, <2>4
  <1>4. ASSUME Calm, DeskInv', IdsStay
        PROVE  \A b \in Batches, c \in Gated \cup Risky :
                 step'[b][c] = "queued" => GrantIsFor(b, c)'
    <2>1. SUFFICES ASSUME NEW b \in Batches, NEW c \in Gated \cup Risky, step'[b][c] = "queued"
                   PROVE  GrantIsFor(b, c)'
      OBVIOUS
    <2>2. c \in Calls /\ step[b][c] = "queued" /\ grant'[b][c] = grant[b][c]
      BY <1>0, <1>4, <2>1 DEF Calm, OnItsWay, Untouched
    <2> QED
      BY <1>0, <1>4, <2>2, GrantStays
  <1>5. CASE Calm /\ Files
    <2>1. CASE UNCHANGED desk
      <3>1. IdsStay
        BY <1>0, <2>1 DEF IdsStay, desk
      <3> QED
        BY <1>0, <1>2, <1>3, <1>4, <1>5, <2>1, <3>1 DEF Calm, starts, table
    <2>2. ASSUME NEW p \in Proposals, Create(p), Find(p).status \in {"none", "consumed"}
          PROVE  ApprovalsBalance'
      <3>1. /\ DeskInv' /\ IdsStay /\ \A q \in Proposals : IsApproved(q)' => IsApproved(q)
            /\ granted' = granted
        BY <1>0, <2>2, FiledKeeps DEF Create
      <3> QED
        BY <1>0, <1>3, <1>4, <1>5, <3>1 DEF Calm, starts, table
    <2> QED
      BY <1>5, <2>1, <2>2 DEF Files
  <1>6. CASE Calm /\ Decide
    <2>1. /\ DeskInv' /\ IdsStay /\ granted' \in [Proposals -> Nat]
          /\ \A q \in Proposals :
               \/ granted'[q] = granted[q] /\ (IsApproved(q)' => IsApproved(q))
               \/ granted'[q] = granted[q] + 1
      BY <1>0, <1>6, DecideKeeps
    <2> QED
      BY <1>3, <1>4, <1>6, <2>1 DEF Calm, starts, table
  <1>7. ASSUME NEW b \in Batches, NEW c \in Calls, Claims(b, c) PROVE ApprovalsBalance'
    <2>1. UNCHANGED desk /\ ran' = ran /\ Goes(b, c, "todo", {"queued"})
      BY <1>7 DEF Claims, starts, table
    <2>2. c \in Gated \cup Risky => GrantIsFor(b, c)'
      <3>1. ASSUME c \in Gated \cup Risky PROVE GrantIsFor(b, c)'
        <4>1. Find(ProposalOf[c]).status = "approved" /\ grant'[b][c] = Find(ProposalOf[c]).id
          BY <1>7, <3>1 DEF Claims
        <4>2. /\ grant'[b][c] \in 1 .. created
              /\ \A n \in 1 .. Len(approvals) :
                   approvals[n].id = grant'[b][c] => approvals[n].proposal = ProposalOf[c]
          BY <1>0, <4>1, FoundIsThere
        <4> QED
          BY <2>1, <4>2 DEF desk, GrantIsFor
      <3> QED
        BY <3>1
    <2>3. \A d \in Batches, e \in Gated \cup Risky : step'[d][e] = "queued" => GrantIsFor(d, e)'
      <3>1. SUFFICES ASSUME NEW d \in Batches, NEW e \in Gated \cup Risky, step'[d][e] = "queued"
                     PROVE  GrantIsFor(d, e)'
        OBVIOUS
      <3>2. CASE d = b /\ e = c
        BY <2>2, <3>2
      <3>3. CASE d # b \/ e # c
        <4>1. e \in Calls /\ Untouched(d, e)
          BY <1>0, <2>1, <3>3 DEF Goes
        <4> QED
          BY <1>0, <1>2, <2>1, <3>1, <4>1 DEF Untouched
      <3> QED
        BY <3>2, <3>3
    <2> QED
      BY <1>0, <1>2, <1>3, <2>1, <2>3
  <1>8. ASSUME NEW b \in Batches, NEW c \in Calls, Drops(b, c) \/ Settles(b, c)
        PROVE  ApprovalsBalance'
    <2>1. UNCHANGED desk /\ ran' = ran /\ \E from : Goes(b, c, from, Ended)
      BY <1>8 DEF Drops, Settles, starts, table
    <2>2. \A d \in Batches, e \in Gated \cup Risky : step'[d][e] = "queued" => GrantIsFor(d, e)'
      <3>1. SUFFICES ASSUME NEW d \in Batches, NEW e \in Gated \cup Risky, step'[d][e] = "queued"
                     PROVE  GrantIsFor(d, e)'
        OBVIOUS
      <3>2. e \in Calls /\ Untouched(d, e)
        BY <1>0, <2>1, <3>1 DEF Goes, Ended
      <3> QED
        BY <1>0, <1>2, <2>1, <3>1, <3>2 DEF Untouched
    <2> QED
      BY <1>0, <1>2, <1>3, <2>1, <2>2
  <1>9. ASSUME NEW b \in Batches, NEW c \in Calls, Begun(b, c) PROVE ApprovalsBalance'
    <2>0. /\ Goes(b, c, "queued", {"acting"}) /\ UseGrant(b, c)
          /\ ran' = [ran EXCEPT ![c] = @ + 1]
      BY <1>9 DEF Begun
    <2>1. /\ DeskInv' /\ IdsStay /\ granted' = granted
          /\ \A q \in Proposals : IsApproved(q)' => IsApproved(q)
      <3>1. CASE grant[b][c] = 0
        <4>1. UNCHANGED desk
          BY <2>0, <3>1 DEF UseGrant
        <4>2. IdsStay
          BY <1>0, <4>1 DEF IdsStay, desk
        <4> QED
          BY <1>2, <4>1, <4>2
      <3>2. CASE grant[b][c] # 0
        <4>1. Consume(grant[b][c])
          BY <2>0, <3>2 DEF UseGrant
        <4> QED
          BY <1>0, <4>1, ConsumeKeeps DEF Consume
      <3> QED
        BY <3>1, <3>2
    <2>2. \A d \in Batches, e \in Gated \cup Risky : step'[d][e] = "queued" => GrantIsFor(d, e)'
      <3>1. SUFFICES ASSUME NEW d \in Batches, NEW e \in Gated \cup Risky, step'[d][e] = "queued"
                     PROVE  GrantIsFor(d, e)'
        OBVIOUS
      <3>2. e \in Calls /\ step[d][e] = "queued" /\ grant'[d][e] = grant[d][e]
        BY <1>0, <2>0, <3>1 DEF Goes, Untouched
      <3> QED
        BY <1>0, <2>1, <3>2, GrantStays
    <2>3. ASSUME c \in Gated \cup Risky
          PROVE  IsApproved(ProposalOf[c]) /\ ~ IsApproved(ProposalOf[c])'
      <3>1. GrantIsFor(b, c)
        BY <1>0, <2>0, <2>3 DEF Goes
      <3>2. Consume(grant[b][c])
        BY <1>0, <2>0, <3>1 DEF UseGrant, GrantIsFor
      <3>3. PICK n \in 1 .. Len(approvals) : approvals[n].id = grant[b][c]
        BY <1>0, <3>2 DEF Consume, Is, DeskInv
      <3>4. approvals[n].proposal = ProposalOf[c]
        BY <3>1, <3>3 DEF GrantIsFor
      <3>5. ProposalOf' = ProposalOf
        OBVIOUS
      <3> QED
        BY <1>0, <3>2, <3>3, <3>4, ConsumeKeeps
    <2>4. ASSUME NEW p \in Proposals PROVE Starts(p)' + One(IsApproved(p)') <= granted'[p]
      <3>1. Starts(p)' = Starts(p) + One(c \in Gated \cup Risky /\ ProposalOf[c] = p)
        BY <1>0, <2>0, StartsGrow
      <3>2. CASE c \in Gated \cup Risky /\ ProposalOf[c] = p
        <4>1. /\ One(c \in Gated \cup Risky /\ ProposalOf[c] = p) = 1
              /\ One(IsApproved(p)) = 1 /\ One(IsApproved(p)') = 0
          BY <2>3, <3>2 DEF One
        <4> QED
          BY <1>1, <2>1, <3>1, <4>1
      <3>3. CASE ~ (c \in Gated \cup Risky /\ ProposalOf[c] = p)
        <4>1. /\ One(c \in Gated \cup Risky /\ ProposalOf[c] = p) = 0
              /\ One(IsApproved(p)') <= One(IsApproved(p)) /\ One(IsApproved(p)') \in Nat
              /\ One(IsApproved(p)) \in Nat
          BY <2>1, <3>3 DEF One
        <4> QED
          BY <1>1, <2>1, <3>1, <4>1
      <3> QED
        BY <3>2, <3>3
    <2> QED
      BY <1>0, <2>1, <2>2, <2>4 DEF ApprovalsBalance
  <1> QED
    BY <1>5, <1>6, <1>7, <1>8, <1>9 DEF StepKind

-----------------------------------------------------------------------------
(* The theorems.                                                             *)

Boundary == Turn /\ ReceiptsBalance /\ Causes /\ ApprovalsBalance

LEMMA StartsWell == Init => Boundary
PROOF
  <1> SUFFICES ASSUME Init PROVE Boundary
    OBVIOUS
  <1>0. /\ receipts = << >> /\ approvals = << >> /\ created = 0 /\ now = 0
        /\ forgotten = [k \in Keys |-> 0] /\ granted = [p \in Proposals |-> 0]
        /\ ran = [c \in Calls |-> 0] /\ phase = [b \in Batches |-> "idle"]
        /\ step = [b \in Batches |-> NewBatch] /\ grant = [b \in Batches |-> NoGrants]
        /\ lapsed = [k \in Keys |-> 0] /\ taken = [k \in Keys |-> 0] /\ unused = {}
        /\ unclaimed = [c \in Calls |-> 0]
    BY DEF Init, StoreInit, DeskInit
  <1>1. Keys \subseteq Calls /\ Gated \cup Risky \subseteq Calls
    BY TurnAssumption
  <1>2. \A b \in Batches, c \in Calls : step[b][c] = "todo"
    BY <1>0 DEF NewBatch
  <1>3. Turn
    <2>1. NewBatch \in [Calls -> Steps] /\ NoGrants \in [Calls -> Nat] /\ "idle" \in Phases
      BY DEF NewBatch, NoGrants, Steps, Phases
    <2> QED
      BY <1>0, <1>2, <2>1 DEF Turn
  <1>4. ReceiptsBalance
    <2>1. Len(receipts) = 0 /\ receipts \in Seq(ExecutionAttempt) /\ DOMAIN receipts = {}
      BY <1>0
    <2>2. Table(receipts) /\ ClaimsAreHeld
      BY <2>1 DEF Table, ClaimsAreHeld
    <2>3. ASSUME NEW c \in Keys
          PROVE  /\ IsFiniteSet(Queued(c))
                 /\ ran[c] + Cardinality(Queued(c)) <= forgotten[c] + Held(c)
      <3>1. Queued(c) = {}
        BY <1>1, <1>2 DEF Queued
      <3>2. IsFiniteSet({}) /\ Cardinality({}) = 0
        BY FS_EmptySet
      <3>3. ran[c] = 0 /\ forgotten[c] = 0 /\ Held(c) = 0
        BY <1>0, <1>1, <2>1 DEF Held, KeysOf
      <3> QED
        BY <3>1, <3>2, <3>3
    <2>4. forgotten \in [Keys -> Nat]
      BY <1>0
    <2> QED
      BY <2>2, <2>3, <2>4 DEF ReceiptsBalance
  <1>6. Causes
    <2>1. Used = {} /\ KeysOf(receipts) = {}
      BY <1>0 DEF Used, KeysOf
    <2>2. ASSUME NEW c \in Keys PROVE CauseOf(c)
      <3>1. ran[c] = 0 /\ lapsed[c] = 0 /\ forgotten[c] = 0 /\ taken[c] = 0 /\ unclaimed[c] = 0
            /\ Free(c) = 1
        BY <1>0, <1>1, <2>1 DEF Free
      <3> QED
        BY <2>1, <3>1 DEF CauseOf
    <2>3. \A c \in Keys, b \in Batches : step[b][c] # "acting"
      BY <1>1, <1>2
    <2> QED
      BY <1>0, <2>1, <2>2, <2>3 DEF Causes, Counts
  <1>5. ApprovalsBalance
    <2>1. Len(approvals) = 0 /\ approvals \in Seq(ApprovalRequest)
      BY <1>0
    <2>2. DeskInv /\ granted \in [Proposals -> Nat]
      BY <1>0, <2>1 DEF DeskInv
    <2>3. ASSUME NEW p \in Proposals PROVE Starts(p) + One(IsApproved(p)) <= granted[p]
      <3> DEFINE N == Cardinality(Calls)  G == StartsOf(p)
      <3>1. N \in Nat /\ Calls = 1 .. N /\ G \in [Calls -> Nat] /\ Starts(p) = Total(G, N)
        BY <1>3, StartsCount DEF Turn
      <3>2. \A c \in Calls : G[c] = 0
        BY <1>0 DEF StartsOf
      <3> HIDE DEF N, G
      <3>3. Starts(p) = 0
        BY <3>1, <3>2, TotalOfNothing
      <3>4. One(IsApproved(p)) = 0 /\ granted[p] = 0
        BY <1>0, <2>1 DEF One, IsApproved
      <3> QED
        BY <3>3, <3>4
    <2>4. \A b \in Batches, c \in Gated \cup Risky : step[b][c] # "queued"
      BY <1>1, <1>2
    <2> QED
      BY <2>2, <2>3, <2>4 DEF ApprovalsBalance
  <1> QED
    BY <1>3, <1>4, <1>5, <1>6 DEF Boundary

LEMMA BoundaryKept == Boundary /\ [Next]_vars => Boundary'
PROOF
  <1> SUFFICES ASSUME Boundary, [Next]_vars PROVE Boundary'
    OBVIOUS
  <1>1. CASE Next
    <2>1. Turn /\ DeskInv /\ Table(receipts) /\ ReceiptsBalance /\ ApprovalsBalance
      BY DEF Boundary, ReceiptsBalance, ApprovalsBalance
    <2>2. Turn' /\ StepKind
      BY <1>1, <2>1, NextIs
    <2> QED
      BY <2>1, <2>2, BalanceKept, CausesKept, ApprovalsKept DEF Boundary
  <1>2. CASE UNCHANGED vars
    <2>1. /\ UNCHANGED <<now, table, approvals, created, granted>>
          /\ UNCHANGED <<phase, step, grant, starts>>
      BY <1>2 DEF vars, store, desk, turn, starts, table
    <2>2. Turn'
      BY <2>1 DEF Boundary, Turn, starts, table
    <2>3. Calm /\ Files
      BY <2>1 DEF Calm, Files, Clears, Untouched, desk, starts, table
    <2> QED
      BY <2>2, <2>3, BalanceKept, CausesKept, ApprovalsKept DEF Boundary, StepKind
  <1> QED
    BY <1>1, <1>2

\* What the runs check follows from the balances.
LEMMA BoundaryImplies ==
  Boundary => /\ RepeatOnlyIfForgotten /\ ClaimsAreHeld
              /\ ApprovalsCover /\ LiveRequestIsFound
PROOF
  <1> SUFFICES ASSUME Boundary
               PROVE  /\ RepeatOnlyIfForgotten /\ ClaimsAreHeld
                      /\ ApprovalsCover /\ LiveRequestIsFound
    OBVIOUS
  <1>1. ran \in [Calls -> Nat] /\ Keys \subseteq Calls
    BY TurnAssumption DEF Boundary, Turn
  <1>2. RepeatOnlyIfForgotten
    <2>1. SUFFICES ASSUME NEW c \in Keys
                   PROVE  /\ ran[c] <= 1 + (forgotten[c] - lapsed[c]) + taken[c] + unclaimed[c]
                          /\ ran[c] <= 1 + forgotten[c]
                          /\ taken[c] > 0 => forgotten[c] > 0
      BY DEF RepeatOnlyIfForgotten
    <2>2. IsFiniteSet(Queued(c)) /\ ran[c] + Cardinality(Queued(c)) <= forgotten[c] + Held(c)
      BY DEF Boundary, ReceiptsBalance
    <2>3. Cardinality(Queued(c)) \in Nat
      BY <2>2, FS_CardinalityType
    <2>4. Held(c) \in {0, 1} /\ Free(c) \in {0, 1}
      BY DEF Held, Free
    <2>5. /\ ran[c] \in Nat /\ forgotten[c] \in Nat /\ lapsed[c] \in Nat /\ taken[c] \in Nat
          /\ unclaimed[c] \in Nat
      BY <1>1 DEF Boundary, Causes, Counts
    <2>8. /\ ran[c] + lapsed[c] + Free(c) <= 1 + forgotten[c] + taken[c] + unclaimed[c]
          /\ taken[c] > 0 => forgotten[c] > 0
      BY DEF Boundary, Causes, CauseOf
    <2> DEFINE q == Cardinality(Queued(c))  h == Held(c)  r == ran[c]  f == forgotten[c]
               l == lapsed[c]  t == taken[c]  u == unclaimed[c]  n == Free(c)
    <2>6. /\ r \in Nat /\ f \in Nat /\ q \in Nat /\ h \in {0, 1} /\ r + q <= f + h
          /\ l \in Nat /\ t \in Nat /\ u \in Nat /\ n \in {0, 1} /\ r + l + n <= 1 + f + t + u
      BY <2>2, <2>3, <2>4, <2>5, <2>8
    <2> HIDE DEF q, h, r, f, l, t, u, n
    <2>7. r <= 1 + f /\ r <= 1 + (f - l) + t + u
      BY <2>6
    <2> QED
      BY <2>7, <2>8 DEF r, f, l, t, u
  <1>3. ClaimsAreHeld
    BY DEF Boundary, ReceiptsBalance
  <1>4. ApprovalsCover
    <2>1. SUFFICES ASSUME NEW p \in Proposals PROVE Starts(p) <= granted[p]
      BY DEF ApprovalsCover
    <2>2. granted \in [Proposals -> Nat] /\ Starts(p) + One(IsApproved(p)) <= granted[p]
      BY DEF Boundary, ApprovalsBalance
    <2>3. Starts(p) \in Nat
      BY <1>1, StartsCount
    <2>4. One(IsApproved(p)) \in Nat
      BY DEF One
    <2> DEFINE s == Starts(p)  o == One(IsApproved(p))  g == granted[p]
    <2>5. s \in Nat /\ o \in Nat /\ g \in Nat /\ s + o <= g
      BY <2>2, <2>3, <2>4
    <2> HIDE DEF s, o, g
    <2>6. s <= g
      BY <2>5
    <2> QED
      BY <2>6 DEF s, g
  <1>5. LiveRequestIsFound
    BY LiveIsFound DEF Boundary, ApprovalsBalance
  <1> QED
    BY <1>2, <1>3, <1>4, <1>5

LEMMA BoundaryAlways == Spec => []Boundary
PROOF
  <1> QED
    BY StartsWell, BoundaryKept, PTL DEF Spec

\* However executions of a turn overlap, fail, are cancelled and are repeated,
\* every repeat of a call of an idempotent tool is put down to what made it
\* possible (a receipt of a start lost to a lifetime or to the capacity, one
\* expired by an execution that gave up, a start whose claim was gone), and
\* there are no more repeats than receipts lost to a lifetime or the capacity.
THEOREM RepeatsAreForgotten == Spec => []RepeatOnlyIfForgotten
PROOF
  <1> QED
    BY BoundaryAlways, BoundaryImplies, PTL

\* No claim is left behind: whatever ended the call that made it (a used-up
\* approval, a full queue, a failing sibling, a cancellation), the claim was
\* taken back, or its holder may still start.
THEOREM ClaimsAreAlwaysHeld == Spec => []ClaimsAreHeld
PROOF
  <1> QED
    BY BoundaryAlways, BoundaryImplies, PTL

\* The calls of a proposal that needs approval never start more often than
\* reviewers approved it, whoever found which approval when.
THEOREM ApprovalsAlwaysCover == Spec => []ApprovalsCover
PROOF
  <1> QED
    BY BoundaryAlways, BoundaryImplies, PTL

\* A proposal's live request is the one find returns, with stores of any
\* capacity and whatever was created, decided, consumed and evicted.
THEOREM LiveRequestIsKept == Spec => []LiveRequestIsFound
PROOF
  <1> QED
    BY BoundaryAlways, BoundaryImplies, PTL

=============================================================================
