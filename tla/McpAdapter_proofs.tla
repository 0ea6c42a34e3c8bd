-------------------------- MODULE McpAdapter_proofs --------------------------
(***************************************************************************)
(* What McpAdapter keeps, for any number of callers, requests, pages and   *)
(* versions of the server's list.  The argument about the connection is    *)
(* that an id is the number of its request, so that an answer can only     *)
(* fit the request it was made for; the argument about the adapter is      *)
(* that, since the last announcement, only listings of the server's        *)
(* present list have been under way.                                       *)
(***************************************************************************)
EXTENDS McpAdapter, FiniteSetTheorems, TLAPS

Kinds == {"initialize", "list", "call"}
Answers == [n : Nat \ {0}, ok : BOOLEAN, more : BOOLEAN, version : Nat]
Requests == [id : Nat, n : Nat \ {0}, what : Kinds, answer : Answers \cup {NoAnswer}]
Sendings == [id : Nat, n : Nat \ {0}, what : Kinds]

\* The ids of a connection are the numbers of its requests.
Numbered ==
  /\ requestId = sent /\ sent \in 0 .. MaxRequests
  /\ received \subseteq Sendings
  /\ \A m \in received : m.id = m.n
  /\ \A c \in Pending : asked[c].id = asked[c].n

Waiting ==
  /\ at \in [Callers -> Places]
  /\ asked \in [Callers -> Requests \cup {NoRequest}]
  /\ \A c \in Callers : at[c] = "asking" <=> c \in Pending
  /\ Cardinality(Pending) <= MaxOutstanding

\* What is known of the callers' requests.
Book == Numbered /\ Waiting /\ AnswersMatch

\* What is known of the connection they share.
Wire ==
  /\ kind \in {"stdio", "sse"}
  /\ link \in {"none", "opening", "open", "down"}
  /\ {initialized, failed, closed, orphaned} \subseteq BOOLEAN
  /\ lock \in Callers \cup {Nobody}
  /\ NothingWaitsOnDeadLink
  /\ closed /\ link = "opening" => orphaned
  /\ \A c \in Callers : asked[c].what \in {"list", "call"} => initialized

\* What is known of the adapter's own state.
Snapshots ==
  /\ version \in 1 .. MaxVersion
  /\ announced \in BOOLEAN /\ cacheValid \in BOOLEAN /\ raced \in BOOLEAN
  /\ snapshot \subseteq 1 .. version /\ approvals \subseteq SUBSET (1 .. version)
  /\ snapshot # {} => initialized

Doings ==
  /\ entering \subseteq Callers
  /\ op \in [Callers -> Ops]
  /\ \A c \in Callers : op[c] = "none" <=> at[c] = "idle"
  /\ want \in [Callers -> SUBSET (1 .. version)]
  /\ \A c \in entering : op[c] = "enter"
  /\ \A c \in Callers : op[c] = "enter" => asked[c].what \notin {"list", "call"}
  /\ overtaken \subseteq Callers

\* A listing has pages only while the next one is awaited.
Pages ==
  /\ listing \in [Callers -> [versions : SUBSET (1 .. version), count : Nat]]
  /\ \A c \in Callers :
       /\ listing[c].count < MaxPages
       /\ asked[c].what # "list" => listing[c] = NoPages
       /\ c \in Pending /\ asked[c].answer # NoAnswer /\ asked[c].answer.ok
            => asked[c].answer.version \in 1 .. version

\* Since an announcement that met no listing, everything listed, and what the
\* cache holds, is the server's present list.
Current ==
  announced /\ ~raced =>
    /\ \A c \in Callers :
         /\ listing[c].versions \subseteq {version}
         /\ asked[c].what = "list" /\ asked[c].answer # NoAnswer /\ asked[c].answer.ok
              => asked[c].answer.version = version
    /\ cacheValid => snapshot = {version}

\* A call that was let through waits for the lock or has registered its request.
Through ==
  \A c \in Callers :
    /\ asked[c].what = "call" => op[c] = "call"
    /\ op[c] = "call" => initialized /\ (at[c] = "locking" \/ asked[c].what = "call")

\* Until it leaves, its descriptors are the server's present ones, unless a
\* change was announced meanwhile.
Checked ==
  announced /\ ~raced =>
    \A c \in Callers \ overtaken :
      op[c] = "call" /\ (at[c] = "locking" \/ Unwritten(c)) => want[c] = {version}

Inductive == Book /\ Wire /\ Snapshots /\ Doings /\ Pages /\ Current /\ Through /\ Checked
-----------------------------------------------------------------------------
(* What a caller's step does to the connection. *)

Sends(c, what) ==
  /\ ~Refuses
  /\ sent < MaxRequests
  /\ requestId' = NextId
  /\ sent' = sent + 1
  /\ asked' = [asked EXCEPT ![c] = Request(requestId', sent', what)]
  /\ at' = [at EXCEPT ![c] = "asking"]
  /\ UNCHANGED received

\* The caller leaves, sends a request, or waits for the lock or the opening.
Leaves(c) == \E p \in {"idle", "failing", "locking"} : Forget(c, p)
SendsOne(c) ==
  \E what \in Kinds :
    /\ Sends(c, what)
    /\ IF what = "initialize" THEN lock' = c ELSE Unlock(c) /\ initialized'
Waits(c) ==
  /\ at[c] \in {"idle", "locking"}
  /\ \/ Park(c, "locking") /\ lock' = lock
     \/ Park(c, "opening") /\ lock' = c

CallerMove(c) ==
  /\ UNCHANGED <<kind, failed, closed, orphaned>>
  /\ initialized' \in BOOLEAN /\ (initialized => initialized')
  /\ \/ link' = link
     \/ link' = "none"
     \/ link' = "opening" /\ ~closed
     \/ link' = "open" /\ link = "opening"
  /\ Leaves(c) \/ SendsOne(c) \/ Waits(c)

\* A caller that moves leaves the others where they are.
LEMMA OthersStay ==
  ASSUME at \in [Callers -> Places], DOMAIN asked = Callers, NEW c \in Callers, CallerMove(c)
  PROVE  /\ at' \in [Callers -> Places] /\ DOMAIN asked' = Callers
         /\ \A d \in Callers : d # c => at'[d] = at[d] /\ asked'[d] = asked[d]
PROOF
  BY DEF CallerMove, Leaves, SendsOne, Waits, Forget, Sends, Park, Places

LEMMA AsksOrRaises ==
  ASSUME NEW c \in Callers, NEW what \in Kinds, Ask(c, what)
  PROVE  \/ ~Refuses /\ Sends(c, what)
         \/ Refuses /\ Leaves(c) /\ Unlock(c)
PROOF
  BY DEF Ask, Sends, Raise, Leaves, Forget

LEMMA Initializes ==
  ASSUME NEW c \in Callers, Initialize(c)
  PROVE  Leaves(c) \/ SendsOne(c)
PROOF
  <1>1. "initialize" \in Kinds
    BY DEF Kinds
  <1> QED
    BY <1>1, AsksOrRaises DEF Initialize, SendsOne

LEMMA Requesting ==
  ASSUME NEW c \in Callers, NEW what \in {"list", "call"}, initialized',
         Ask(c, what), Unlock(c)
  PROVE  Leaves(c) \/ SendsOne(c)
PROOF
  <1>1. what \in Kinds /\ what # "initialize"
    BY DEF Kinds
  <1> QED
    BY <1>1, AsksOrRaises DEF SendsOne

LEMMA Connecting ==
  ASSUME NEW c \in Callers, at[c] \in {"idle", "locking"}, initialized \in BOOLEAN,
         Connect(c), Steady
  PROVE  CallerMove(c)
PROOF
  <1>1. CASE closed \/ failed
    <2>1. Leaves(c) /\ link' = link
      BY <1>1 DEF Connect, Raise, Leaves
    <2> QED
      BY <2>1 DEF CallerMove, Steady
  <1>2. CASE ~(closed \/ failed) /\ link = "open"
    <2>1. Initialize(c) /\ link' = link
      BY <1>2 DEF Connect
    <2> QED
      BY <2>1, Initializes DEF CallerMove, Steady
  <1>3. CASE ~(closed \/ failed) /\ link # "open"
    <2>1. Waits(c) /\ link' = "opening"
      BY <1>3 DEF Connect, Waits
    <2> QED
      BY <1>3, <2>1 DEF CallerMove, Steady
  <1> QED
    BY <1>1, <1>2, <1>3

LEMMA Reaching ==
  ASSUME NEW c \in Callers, at[c] = "idle", initialized \in BOOLEAN, Reach(c), Steady
  PROVE  CallerMove(c)
PROOF
  <1>1. CASE LockIsFree
    BY <1>1, Connecting DEF Reach
  <1>2. CASE ~LockIsFree
    <2>1. Waits(c) /\ link' = link
      BY <1>2 DEF Reach, Waits
    <2> QED
      BY <2>1 DEF CallerMove, Steady
  <1> QED
    BY <1>1, <1>2

LEMMA Starting ==
  ASSUME NEW c \in Callers, NEW o, NEW w, initialized \in BOOLEAN, Start(c, o, w)
  PROVE  CallerMove(c)
PROOF
  <1>1. CASE initialized /\ ~closed /\ ~failed /\ LockIsFree
    <2>1. RequestPage(c) /\ link' = link /\ Steady
      BY <1>1 DEF Start
    <2>2. Leaves(c) \/ SendsOne(c)
      BY <1>1, <2>1, Requesting DEF RequestPage, Steady
    <2> QED
      BY <2>1, <2>2 DEF CallerMove, Steady
  <1>2. CASE ~(initialized /\ ~closed /\ ~failed /\ LockIsFree)
    <2>1. Reach(c) /\ at[c] = "idle" /\ Steady
      BY <1>2 DEF Start
    <2> QED
      BY <2>1, Reaching
  <1> QED
    BY <1>1, <1>2

LEMMA Proceeding ==
  ASSUME NEW c \in Callers, NEW w, initialized, initialized \in BOOLEAN,
         Proceed(c, w), link' = link, Steady
  PROVE  CallerMove(c)
PROOF
  <1>1. Leaves(c) \/ RequestCall(c)
    BY DEF Proceed, Leave, Leaves
  <1>2. Leaves(c) \/ SendsOne(c)
    BY <1>1, Requesting DEF RequestCall, Steady
  <1> QED
    BY <1>2 DEF CallerMove, Steady

Acts(c) ==
  \/ Enter(c) \/ Refresh(c) \/ Invoke(c) \/ Resume(c) \/ Follow(c)
  \/ Initialized(c) \/ NextPage(c) \/ Approve(c) \/ Verified(c)
  \/ Return(c) \/ Fail(c) \/ GiveUp(c)

\* Whatever a caller does, short of giving the connection up, is one of these.
LEMMA ActsAreMoves ==
  ASSUME Inductive, NEW c \in Callers, Acts(c)
  PROVE  CallerMove(c)
PROOF
  <1>0. /\ initialized \in BOOLEAN
        /\ snapshot # {} => initialized
        /\ \A d \in Callers : asked[d].what \in {"list", "call"} => initialized
    BY DEF Inductive, Wire, Snapshots
  <1>1. CASE Enter(c)
    BY <1>0, <1>1, Reaching DEF Enter
  <1>2. CASE Refresh(c)
    BY <1>0, <1>2, Starting DEF Refresh
  <1>3. CASE Invoke(c)
    <2>1. PICK w \in approvals :
            IF cacheValid THEN Proceed(c, w) /\ UNCHANGED link /\ Steady
                          ELSE Start(c, "check", w)
      BY <1>3 DEF Invoke
    <2>2. initialized
      BY <1>0, <1>3 DEF Invoke
    <2> QED
      BY <1>0, <2>1, <2>2, Starting, Proceeding
  <1>4. CASE Resume(c)
    <2>1. CASE GetLock(c)
      BY <1>0, <2>1, Connecting DEF GetLock
    <2>2. CASE Opened(c)
      <3>1. Raise(c) => Leaves(c)
        BY DEF Raise, Leaves
      <3>2. Initialize(c) => Leaves(c) \/ SendsOne(c)
        BY Initializes
      <3>3. Leaves(c) \/ SendsOne(c)
        BY <2>2, <3>1, <3>2 DEF Opened
      <3>4. link' = link \/ (link = "opening" /\ link' = "open")
        BY <2>2 DEF Opened
      <3> QED
        BY <1>0, <2>2, <3>3, <3>4 DEF Opened, CallerMove, Steady
    <2> QED
      BY <1>4, <2>1, <2>2 DEF Resume
  <1>5. CASE Follow(c)
    <2>1. initialized /\ link' = link /\ Steady
      BY <1>5 DEF Follow
    <2>2. Leaves(c) \/ RequestPage(c) \/ RequestCall(c)
      BY <1>5 DEF Follow, Leave, Raise, Leaves
    <2>3. Leaves(c) \/ SendsOne(c)
      BY <2>1, <2>2, Requesting DEF RequestPage, RequestCall, Steady
    <2> QED
      BY <1>0, <2>1, <2>3 DEF CallerMove, Steady
  <1>6. CASE Initialized(c)
    <2>1. initialized' = TRUE /\ UNCHANGED <<kind, link, failed, closed, orphaned>>
      BY <1>6 DEF Initialized
    <2>2. Leaves(c) \/ RequestPage(c)
      BY <1>6 DEF Initialized, Leave, Leaves
    <2>3. Leaves(c) \/ SendsOne(c)
      BY <2>1, <2>2, Requesting DEF RequestPage
    <2> QED
      BY <1>0, <2>1, <2>3 DEF CallerMove
  <1>7. CASE NextPage(c)
    <2>1. RequestPage(c) /\ link' = link /\ Steady /\ initialized
      BY <1>0, <1>7 DEF NextPage, Has
    <2>2. Leaves(c) \/ SendsOne(c)
      BY <2>1, Requesting DEF RequestPage, Steady
    <2> QED
      BY <1>0, <2>1, <2>2 DEF CallerMove, Steady
  <1>8. CASE Approve(c)
    BY <1>0, <1>8 DEF Approve, Leave, Leaves, CallerMove, Steady
  <1>9. CASE Verified(c)
    <2>1. initialized
      BY <1>0, <1>9 DEF Verified, Listed, Has
    <2> QED
      BY <1>0, <1>9, <2>1, Proceeding DEF Verified
  <1>10. CASE Return(c)
    BY <1>0, <1>10 DEF Return, Leave, Leaves, CallerMove, Steady
  <1>11. CASE Fail(c)
    BY <1>0, <1>11 DEF Fail, Raise, Leaves, CallerMove, Steady
  <1>12. CASE GiveUp(c)
    BY <1>0, <1>12 DEF GiveUp, Abandon, Raise, Leaves, CallerMove, Steady
  <1> QED
    BY <1>1, <1>2, <1>3, <1>4, <1>5, <1>6, <1>7, <1>8, <1>9, <1>10, <1>11, <1>12 DEF Acts

-----------------------------------------------------------------------------
(* The requests and their answers. *)

\* The kind of a request tells whether there is one.
LEMMA PendingByKind ==
  ASSUME asked \in [Callers -> Requests \cup {NoRequest}], NEW c \in Callers
  PROVE  /\ c \in Pending <=> asked[c].what \in Kinds
         /\ c \in Pending <=> asked[c].what # "none"
         /\ c \in Pending => asked[c] \in Requests
         /\ c \notin Pending => asked[c] = NoRequest
PROOF
  BY DEF Pending, Requests, NoRequest, Kinds

LEMMA PendingIsFinite ==
  Pending \subseteq Callers /\ IsFiniteSet(Pending) /\ Cardinality(Pending) \in Nat
PROOF
  BY TransportAssumption, FS_Subset, FS_CardinalityType DEF Pending

LEMMA OneMore ==
  ASSUME NEW S, NEW T, NEW x, IsFiniteSet(S), T = S \cup {x}
  PROVE  /\ Cardinality(S) \in Nat /\ Cardinality(T) \in Nat
         /\ Cardinality(T) <= Cardinality(S) + 1
PROOF
  <1>1. Cardinality(S) \in Nat
    BY FS_CardinalityType
  <1>2. Cardinality(T) = Cardinality(S) \/ Cardinality(T) = Cardinality(S) + 1
    BY FS_AddElement
  <1> QED
    BY <1>1, <1>2

\* A caller leaves: its request is forgotten, the others are as they were.
LEMMA BookLeaves ==
  ASSUME Book, NEW c \in Callers, Leaves(c)
  PROVE  Book'
PROOF
  <1>1. PICK p \in {"idle", "failing", "locking"} : Forget(c, p)
    BY DEF Leaves
  <1>2. /\ at' = [at EXCEPT ![c] = p] /\ asked' = [asked EXCEPT ![c] = NoRequest]
        /\ UNCHANGED <<requestId, sent, received>>
    BY <1>1 DEF Forget
  <1>3. /\ at \in [Callers -> Places] /\ asked \in [Callers -> Requests \cup {NoRequest}]
        /\ \A d \in Callers : at[d] = "asking" <=> d \in Pending
        /\ Cardinality(Pending) <= MaxOutstanding
    BY DEF Book, Waiting
  <1>4. Pending' = Pending \ {c}
    BY <1>2, <1>3 DEF Pending
  <1>5. Cardinality(Pending') <= Cardinality(Pending) /\ Cardinality(Pending') \in Nat
    BY <1>4, PendingIsFinite, FS_Subset, FS_CardinalityType
  <1>6. Waiting'
    <2>1. Cardinality(Pending') <= MaxOutstanding
      BY <1>3, <1>5, PendingIsFinite, TransportAssumption
    <2>2. at' \in [Callers -> Places] /\ asked' \in [Callers -> Requests \cup {NoRequest}]
      BY <1>2, <1>3 DEF Places
    <2>3. \A d \in Callers : at'[d] = "asking" <=> d \in Pending'
      BY <1>2, <1>3, <1>4
    <2> QED
      BY <2>1, <2>2, <2>3 DEF Waiting
  <1>7. \A d \in Pending' : d \in Pending /\ asked'[d] = asked[d]
    BY <1>2, <1>3, <1>4 DEF Pending
  <1>8. Numbered' /\ AnswersMatch'
    BY <1>2, <1>7 DEF Book, Numbered, AnswersMatch
  <1> QED
    BY <1>6, <1>8 DEF Book

\* A caller waits for the connection: no request of its is outstanding.
LEMMA BookWaits ==
  ASSUME Book, NEW c \in Callers, Waits(c)
  PROVE  Book'
PROOF
  <1>1. PICK p \in {"locking", "opening"} : Park(c, p)
    BY DEF Waits
  <1>2. at' = [at EXCEPT ![c] = p] /\ UNCHANGED <<asked, requestId, sent, received>>
    BY <1>1 DEF Park
  <1>3. Pending' = Pending
    BY <1>2 DEF Pending
  <1>4. Waiting'
    BY <1>2, <1>3 DEF Book, Waiting, Waits, Places
  <1>5. Numbered' /\ AnswersMatch'
    BY <1>2, <1>3 DEF Book, Numbered, AnswersMatch
  <1> QED
    BY <1>4, <1>5 DEF Book

\* A caller sends a request, whose number is new.
LEMMA BookSends ==
  ASSUME Book, NEW c \in Callers, at[c] # "asking" \/ c \in Pending, NEW what \in Kinds, Sends(c, what)
  PROVE  Book'
PROOF
  <1> DEFINE r == Request(sent', sent', what)
  <1>1. /\ at \in [Callers -> Places] /\ asked \in [Callers -> Requests \cup {NoRequest}]
        /\ \A d \in Callers : at[d] = "asking" <=> d \in Pending
        /\ requestId = sent /\ sent \in 0 .. MaxRequests
        /\ received \subseteq Sendings
    BY DEF Book, Waiting, Numbered
  <1>2. /\ requestId' = sent' /\ sent' = sent + 1 /\ sent < MaxRequests
        /\ asked' = [asked EXCEPT ![c] = r]
        /\ received' = received
        /\ at' = [at EXCEPT ![c] = "asking"]
        /\ Cardinality(Pending) < MaxOutstanding
    BY <1>1, PendingIsFinite, TransportAssumption DEF Sends, Refuses, NextId
  <1>3. sent' \in 1 .. MaxRequests
    BY <1>1, <1>2, TransportAssumption
  <1>4. r \in Requests /\ r # NoRequest /\ r.id = r.n /\ r.answer = NoAnswer
    BY <1>3 DEF Request, Requests, NoRequest, Kinds
  <1>5. Pending' = Pending \cup {c}
    BY <1>1, <1>2, <1>4 DEF Pending
  <1>6. Cardinality(Pending') <= MaxOutstanding
    <2>1. /\ Cardinality(Pending) \in Nat /\ Cardinality(Pending') \in Nat
          /\ Cardinality(Pending') <= Cardinality(Pending) + 1
      BY ONLY <1>5, OneMore, PendingIsFinite
    <2>2. MaxOutstanding \in Nat
      BY TransportAssumption
    <2> QED
      BY <1>2, <2>1, <2>2
  <1>7. Waiting'
    BY <1>1, <1>2, <1>4, <1>5, <1>6 DEF Waiting, Places
  <1>8. Numbered'
    <2>2. received' \subseteq Sendings /\ \A m \in received' : m.id = m.n
      BY <1>1, <1>2 DEF Book, Numbered
    <2>3. \A d \in Pending' : asked'[d].id = asked'[d].n
      BY <1>1, <1>2, <1>4, <1>5 DEF Book, Numbered
    <2> QED
      BY <1>2, <1>3, <2>2, <2>3 DEF Numbered
  <1>9. AnswersMatch'
    <2>1. SUFFICES ASSUME NEW d \in Pending', asked'[d].answer # NoAnswer
                   PROVE  asked'[d].answer.n = asked'[d].n
      BY DEF AnswersMatch
    <2>2. d # c /\ d \in Pending /\ asked'[d] = asked[d]
      BY <1>1, <1>2, <1>4, <1>5, <2>1, PendingIsFinite
    <2> QED
      BY <2>1, <2>2 DEF Book, AnswersMatch
  <1> QED
    BY <1>7, <1>8, <1>9 DEF Book

LEMMA BookMoves ==
  ASSUME Book, NEW c \in Callers, CallerMove(c)
  PROVE  Book'
PROOF
  <1>1. CASE SendsOne(c)
    <2>1. PICK what \in Kinds : Sends(c, what)
      BY <1>1 DEF SendsOne
    <2>2. at[c] # "asking" \/ c \in Pending
      BY DEF Book, Waiting
    <2> QED
      BY <2>1, <2>2, BookSends
  <1> QED
    BY <1>1, BookLeaves, BookWaits DEF CallerMove

\* Requests are answered: those that match, or all that wait.
LEMMA BookAnswers ==
  ASSUME Book, UNCHANGED <<requestId, sent, received>>, NEW a \in [Callers -> Answers],
         at' \in [Callers -> Places],
         \A c \in Callers : at'[c] = "asking" <=> at[c] = "asking",
         asked' \in [Callers -> Requests \cup {NoRequest}],
         \A c \in Callers :
           \/ asked'[c] = asked[c]
           \/ /\ c \in Pending
              /\ asked'[c] = [asked[c] EXCEPT !.answer = a[c]]
              /\ a[c].n = asked[c].n
  PROVE  /\ Book' /\ Pending' = Pending
         /\ \A c \in Callers :
              /\ asked'[c].what = asked[c].what /\ asked'[c].n = asked[c].n
              /\ \/ asked'[c] = asked[c]
                 \/ c \in Pending /\ asked'[c].answer = a[c]
PROOF
  <1>1. asked \in [Callers -> Requests \cup {NoRequest}]
    BY DEF Book, Waiting
  <1>2. \A c \in Pending : asked[c] \in Requests /\ asked[c].what \in Kinds
    BY <1>1, PendingByKind DEF Pending
  <1>3. \A c \in Callers :
          \/ asked'[c] = asked[c]
          \/ /\ c \in Pending /\ c \in Pending'
             /\ asked'[c].id = asked[c].id /\ asked'[c].n = asked[c].n
             /\ asked'[c].what = asked[c].what
             /\ asked'[c].answer = a[c] /\ a[c].n = asked[c].n
    <2>1. SUFFICES ASSUME NEW c \in Callers, c \in Pending,
                          asked'[c] = [asked[c] EXCEPT !.answer = a[c]],
                          a[c].n = asked[c].n
                   PROVE  /\ c \in Pending'
                          /\ asked'[c].id = asked[c].id /\ asked'[c].n = asked[c].n
                          /\ asked'[c].what = asked[c].what
                          /\ asked'[c].answer = a[c]
      OBVIOUS
    <2>2. asked'[c].what = asked[c].what
      BY <1>2, <2>1 DEF Requests
    <2> QED
      BY <1>2, <2>1, <2>2 DEF Pending, Requests, NoRequest, Kinds
  <1>4. Pending' = Pending
    BY <1>3 DEF Pending
  <1>5. Waiting'
    BY <1>4 DEF Book, Waiting
  <1>6. Numbered'
    BY <1>3, <1>4 DEF Book, Numbered, Pending
  <1>7. AnswersMatch'
    BY <1>3, <1>4 DEF Book, AnswersMatch, Pending
  <1> QED
    BY <1>3, <1>4, <1>5, <1>6, <1>7 DEF Book

\* The reader ends: whoever waits is told, and whoever was answered stays so.
LEMMA BookFails ==
  ASSUME Book, FailAll, UNCHANGED <<requestId, sent, received>>,
         at' \in [Callers -> Places],
         \A c \in Callers : at'[c] = "asking" <=> at[c] = "asking"
  PROVE  /\ Book'
         /\ \A c \in Pending' : asked'[c].answer # NoAnswer
         /\ \A c \in Callers :
              /\ asked'[c].what = asked[c].what /\ asked'[c].n = asked[c].n
              /\ asked'[c] = asked[c] \/ (c \in Pending /\ ~asked'[c].answer.ok)
PROOF
  <1> DEFINE a == [c \in Callers |-> Error(IF c \in Pending THEN asked[c].n ELSE 1)]
  <1>1. asked \in [Callers -> Requests \cup {NoRequest}]
    BY DEF Book, Waiting
  <1>2. \A c \in Pending : c \in Callers /\ asked[c] \in Requests
    BY <1>1, PendingByKind DEF Pending
  <1>3. a \in [Callers -> Answers]
    BY <1>2 DEF Answers, Requests, Error
  <1>4. \A c \in Callers : ~a[c].ok /\ a[c].n # 0 /\ a[c] # NoAnswer
    BY <1>2 DEF Requests, Error, NoAnswer
  <1>5. \A c \in Callers :
          asked'[c] = IF c \in Pending /\ asked[c].answer = NoAnswer
                      THEN [asked[c] EXCEPT !.answer = a[c]] ELSE asked[c]
    BY DEF FailAll, Pending
  <1>6. asked' \in [Callers -> Requests \cup {NoRequest}]
    <2>1. SUFFICES ASSUME NEW c \in Callers PROVE asked'[c] \in Requests \cup {NoRequest}
      BY DEF FailAll
    <2>2. CASE c \in Pending
      <3>1. asked[c] \in Requests /\ a[c] \in Answers
        BY <1>2, <1>3, <2>2
      <3>2. [asked[c] EXCEPT !.answer = a[c]] \in Requests
        BY ONLY <3>1 DEF Requests
      <3> QED
        BY <1>5, <3>1, <3>2
    <2>3. CASE c \notin Pending
      BY <1>1, <1>5, <2>3
    <2> QED
      BY <2>2, <2>3
  <1>7. \A c \in Callers :
          \/ asked'[c] = asked[c]
          \/ /\ c \in Pending
             /\ asked'[c] = [asked[c] EXCEPT !.answer = a[c]]
             /\ a[c].n = asked[c].n
    BY <1>5 DEF Error
  <1> HIDE DEF a
  <1>8. /\ Book' /\ Pending' = Pending
        /\ \A c \in Callers :
             /\ asked'[c].what = asked[c].what /\ asked'[c].n = asked[c].n
             /\ \/ asked'[c] = asked[c]
                \/ c \in Pending /\ asked'[c].answer = a[c]
    BY <1>3, <1>6, <1>7, BookAnswers
  <1>9. \A c \in Pending' : asked'[c].answer # NoAnswer
    <2>1. SUFFICES ASSUME NEW c \in Pending, c \in Callers PROVE asked'[c].answer # NoAnswer
      BY <1>2, <1>8
    <2>2. CASE asked[c].answer = NoAnswer
      BY <1>2, <1>3, <1>4, <1>5, <2>1, <2>2 DEF Requests
    <2>3. CASE asked[c].answer # NoAnswer
      BY <1>5, <2>1, <2>3
    <2> QED
      BY <2>2, <2>3
  <1> QED
    BY <1>4, <1>8, <1>9

\* The server answers with what its list is now.
LEMMA BookReplies ==
  ASSUME Book, version \in Nat, NEW m \in received, NEW more \in BOOLEAN,
         Reply(m, more, version)
  PROVE  /\ Book' /\ Pending' = Pending
         /\ \A c \in Callers :
              /\ asked'[c].what = asked[c].what /\ asked'[c].n = asked[c].n
              /\ \/ asked'[c] = asked[c]
                 \/ /\ c \in Pending /\ asked'[c].answer # NoAnswer
                    /\ asked'[c].answer.version = version
PROOF
  <1>1. PICK ok \in BOOLEAN :
          asked' = Answered(m, [n |-> m.n, ok |-> ok, more |-> more, version |-> version])
    BY DEF Reply
  <1> DEFINE b == [n |-> m.n, ok |-> ok, more |-> more, version |-> version]
             a == [c \in Callers |-> b]
  <1>2. asked \in [Callers -> Requests \cup {NoRequest}]
    BY DEF Book, Waiting
  <1>3. \A c \in Pending : c \in Callers /\ asked[c] \in Requests /\ asked[c].id = asked[c].n
    BY <1>2, PendingByKind DEF Pending, Book, Numbered
  <1>4. m.n \in Nat \ {0} /\ m.id = m.n
    BY DEF Book, Numbered, Sendings
  <1>5. b \in Answers /\ b # NoAnswer /\ b.version = version /\ b.n = m.n
    BY <1>4 DEF Answers, NoAnswer
  <1>6. \A c \in Callers :
          asked'[c] = IF c \in Pending /\ asked[c].id = m.id /\ asked[c].answer = NoAnswer
                      THEN [asked[c] EXCEPT !.answer = b] ELSE asked[c]
    BY <1>1 DEF Answered, Pending
  <1>7. DOMAIN asked' = Callers /\ asked' = [c \in Callers |-> asked'[c]]
    BY <1>1 DEF Answered
  <1> HIDE DEF b
  <1>8. a \in [Callers -> Answers] /\ \A c \in Callers : a[c] = b
    BY <1>5
  <1>9. asked' \in [Callers -> Requests \cup {NoRequest}]
    <2>1. \A c \in Callers : asked'[c] \in Requests \cup {NoRequest}
      BY <1>2, <1>3, <1>5, <1>6 DEF Requests
    <2> QED
      BY <1>7, <2>1
  <1>10. \A c \in Callers :
          \/ asked'[c] = asked[c]
          \/ /\ c \in Pending
             /\ asked'[c] = [asked[c] EXCEPT !.answer = a[c]]
             /\ a[c].n = asked[c].n
    BY <1>3, <1>4, <1>5, <1>6, <1>8
  <1> HIDE DEF a
  <1>11. UNCHANGED <<requestId, sent, received, at>> /\ at \in [Callers -> Places]
    BY DEF Reply, Book, Waiting
  <1>12. /\ Book' /\ Pending' = Pending
         /\ \A c \in Callers :
             /\ asked'[c].what = asked[c].what /\ asked'[c].n = asked[c].n
             /\ \/ asked'[c] = asked[c]
                \/ c \in Pending /\ asked'[c].answer = a[c]
    BY <1>8, <1>9, <1>10, <1>11, BookAnswers
  <1> QED
    BY <1>5, <1>8, <1>12

-----------------------------------------------------------------------------
(* The connection. *)

LEMMA WireMoves ==
  ASSUME Book, Wire, NEW c \in Callers, CallerMove(c)
  PROVE  Wire'
PROOF
  <1>0. /\ at \in [Callers -> Places] /\ DOMAIN asked = Callers
        /\ at' \in [Callers -> Places] /\ DOMAIN asked' = Callers
        /\ \A d \in Callers : d # c => at'[d] = at[d] /\ asked'[d] = asked[d]
    BY OthersStay DEF Book, Waiting
  <1>1. /\ UNCHANGED <<kind, failed, closed, orphaned>>
        /\ initialized' \in BOOLEAN /\ (initialized => initialized')
        /\ \/ link' = link
           \/ link' = "none"
           \/ link' = "opening" /\ ~closed
           \/ link' = "open" /\ link = "opening"
    BY DEF CallerMove
  <1>2. /\ kind' \in {"stdio", "sse"} /\ link' \in {"none", "opening", "open", "down"}
        /\ {initialized, failed, closed, orphaned}' \subseteq BOOLEAN
        /\ (closed /\ link = "opening" => orphaned)'
        /\ (closed /\ link = "open" => orphaned)'
    BY <1>1 DEF Wire, NothingWaitsOnDeadLink
  <1>3. lock # c \/ at[c] \in {"opening", "asking"}
    BY TransportAssumption DEF Wire, NothingWaitsOnDeadLink
  <1>4. CASE Leaves(c)
    <2>1. Unlock(c) /\ asked'[c] = NoRequest
      BY <1>0, <1>4 DEF Leaves, Forget
    <2>2. lock' \in Callers \cup {Nobody} /\ lock' # c /\ (lock' = Nobody \/ lock' = lock)
      BY <2>1, TransportAssumption DEF Unlock, Wire
    <2>3. \A d \in Pending' : d # c /\ d \in Pending /\ asked'[d] = asked[d]
      BY <1>0, <2>1 DEF Pending
    <2>4. NothingWaitsOnDeadLink'
      <3>1. (failed \/ closed => \A d \in Pending : asked[d].answer # NoAnswer)'
        BY <1>1, <2>3 DEF Wire, NothingWaitsOnDeadLink
      <3>2. (lock # Nobody => \/ at[lock] = "opening"
                              \/ at[lock] = "asking" /\ asked[lock].what = "initialize")'
        BY <1>0, <2>2 DEF Wire, NothingWaitsOnDeadLink
      <3> QED
        BY <1>2, <3>1, <3>2 DEF NothingWaitsOnDeadLink
    <2>5. \A d \in Callers : asked'[d].what \in {"list", "call"} => initialized'
      BY <1>0, <1>1, <2>1 DEF Wire, NoRequest
    <2> QED
      BY <1>2, <2>2, <2>4, <2>5 DEF Wire
  <1>5. CASE SendsOne(c)
    <2>1. PICK what \in Kinds :
            /\ Sends(c, what)
            /\ IF what = "initialize" THEN lock' = c ELSE Unlock(c) /\ initialized'
      BY <1>5 DEF SendsOne
    <2>2. /\ ~failed /\ ~closed /\ at'[c] = "asking"
          /\ asked'[c].what = what
      BY <1>0, <2>1 DEF Sends, Refuses, Request, Places
    <2>3. lock' \in Callers \cup {Nobody}
      BY <2>1, TransportAssumption DEF Unlock, Wire
    <2>4. NothingWaitsOnDeadLink'
      <3>1. (lock # Nobody => \/ at[lock] = "opening"
                              \/ at[lock] = "asking" /\ asked[lock].what = "initialize")'
        BY <1>0, <2>1, <2>2, <2>3 DEF Unlock, Wire, NothingWaitsOnDeadLink
      <3> QED
        BY <1>1, <1>2, <2>2, <3>1 DEF NothingWaitsOnDeadLink
    <2>5. \A d \in Callers : asked'[d].what \in {"list", "call"} => initialized'
      BY <1>0, <1>1, <2>1, <2>2 DEF Wire
    <2> QED
      BY <1>2, <2>3, <2>4, <2>5 DEF Wire
  <1>6. CASE Waits(c)
    <2>1. /\ asked' = asked /\ at[c] \in {"idle", "locking"} /\ at'[c] \in {"locking", "opening"}
          /\ lock' = lock \/ (lock' = c /\ at'[c] = "opening")
      BY <1>0, <1>6 DEF Waits, Park, Places
    <2>2. Pending' = Pending
      BY <2>1 DEF Pending
    <2>3. lock' \in Callers \cup {Nobody}
      BY <2>1 DEF Wire
    <2>4. NothingWaitsOnDeadLink'
      <3>1. (lock # Nobody => \/ at[lock] = "opening"
                              \/ at[lock] = "asking" /\ asked[lock].what = "initialize")'
        BY <1>0, <1>3, <2>1, <2>3 DEF Wire, NothingWaitsOnDeadLink
      <3>2. (failed \/ closed => \A d \in Pending : asked[d].answer # NoAnswer)'
        BY <1>1, <2>1, <2>2 DEF Wire, NothingWaitsOnDeadLink
      <3> QED
        BY <1>2, <3>1, <3>2 DEF NothingWaitsOnDeadLink
    <2> QED
      BY <1>1, <1>2, <2>1, <2>3, <2>4 DEF Wire
  <1> QED
    BY <1>4, <1>5, <1>6 DEF CallerMove

\* Nothing is written but answers: what they are does not matter here.
LEMMA WireAnswers ==
  ASSUME Wire, UNCHANGED <<kind, link, initialized, failed, closed, lock, at, orphaned>>,
         Pending' = Pending,
         \A c \in Callers :
           /\ asked'[c].what = asked[c].what
           /\ asked'[c] = asked[c] \/ asked'[c].answer # NoAnswer
  PROVE  Wire'
PROOF
  <1>1. \A c \in Pending' : c \in Callers /\ c \in Pending
    BY DEF Pending
  <1>2. (failed \/ closed => \A c \in Pending : asked[c].answer # NoAnswer)'
    BY <1>1 DEF Wire, NothingWaitsOnDeadLink
  <1>3. NothingWaitsOnDeadLink'
    BY <1>2 DEF Wire, NothingWaitsOnDeadLink
  <1> QED
    BY <1>3 DEF Wire

\* The connection is given up: by its reader, by close, or by __aenter__.
LEMMA WireFails ==
  ASSUME Book, Wire, Drop \/ Close \/ \E c \in Callers : CloseOnError(c)
  PROVE  /\ Book' /\ Wire'
         /\ initialized' = initialized
         /\ \A c \in Callers :
              /\ asked'[c].what = asked[c].what /\ asked'[c].n = asked[c].n
              /\ asked'[c] = asked[c] \/ (c \in Pending /\ ~asked'[c].answer.ok)
PROOF
  <1>1. /\ FailAll /\ UNCHANGED <<kind, initialized, lock, requestId, sent, received>>
        /\ closed' \in BOOLEAN /\ orphaned' \in BOOLEAN
        /\ link' \in {"opening", "down"} /\ (link' = "opening" /\ closed' => orphaned')
    BY DEF Drop, Close, CloseOnError, Shut, Wire
  <1>2. /\ at' \in [Callers -> Places]
        /\ \A c \in Callers : at'[c] = at[c] \/ (at[c] = "failing" /\ at'[c] = "idle")
    BY DEF Drop, Close, CloseOnError, Book, Waiting, Places
  <1>3. \A c \in Callers : at'[c] = "asking" <=> at[c] = "asking"
    BY <1>2
  <1>4. /\ Book'
        /\ \A c \in Pending' : asked'[c].answer # NoAnswer
        /\ \A c \in Callers :
             /\ asked'[c].what = asked[c].what /\ asked'[c].n = asked[c].n
             /\ asked'[c] = asked[c] \/ (c \in Pending /\ ~asked'[c].answer.ok)
    BY <1>1, <1>2, <1>3, BookFails
  <1>5. NothingWaitsOnDeadLink'
    BY <1>1, <1>2, <1>4 DEF Wire, NothingWaitsOnDeadLink
  <1>6. failed' = TRUE
    BY <1>1 DEF FailAll
  <1>7. Wire'
    BY <1>1, <1>4, <1>5, <1>6 DEF Wire
  <1> QED
    BY <1>1, <1>4, <1>7

-----------------------------------------------------------------------------
(* The listings and the snapshot. *)

\* A caller that moves has no answer yet, wherever it goes.
LEMMA Unanswered ==
  ASSUME Book, NEW c \in Callers, CallerMove(c)
  PROVE  \/ asked'[c] = NoRequest
         \/ asked'[c].answer = NoAnswer
PROOF
  <1>0. /\ at \in [Callers -> Places] /\ asked \in [Callers -> Requests \cup {NoRequest}]
        /\ at[c] \in {"idle", "locking"} => asked[c] = NoRequest
    BY DEF Book, Waiting, Pending
  <1>1. CASE Leaves(c)
    BY <1>0, <1>1 DEF Leaves, Forget
  <1>2. CASE SendsOne(c)
    <2>1. PICK what \in Kinds : Sends(c, what)
      BY <1>2 DEF SendsOne
    <2> QED
      BY <1>0, <2>1 DEF Sends, Request
  <1>3. CASE Waits(c)
    BY <1>0, <1>3 DEF Waits, Park
  <1> QED
    BY <1>1, <1>2, <1>3 DEF CallerMove

\* A caller goes on with another request, or none: its listing is dropped.
LEMMA DoingKeeps ==
  ASSUME Inductive, NEW c \in Callers, CallerMove(c), version' = version,
         NEW o \in Ops, o = "none" => at'[c] = "idle",
         o = "enter" => asked'[c].what \notin {"list", "call"},
         o = "enter" \/ c \notin entering \/ at'[c] = "idle",
         NEW w \in SUBSET (1 .. version), Doing(c, o, w)
  PROVE  /\ Doings' /\ Pages'
         /\ \A d \in Callers : listing'[d].versions \subseteq listing[d].versions
         /\ \A d \in Callers : asked'[d] = asked[d] \/ asked'[d] = NoRequest
                                 \/ asked'[d].answer = NoAnswer
PROOF
  <1>0. /\ at \in [Callers -> Places] /\ DOMAIN asked = Callers
        /\ at' \in [Callers -> Places] /\ DOMAIN asked' = Callers
        /\ \A d \in Callers : d # c => at'[d] = at[d] /\ asked'[d] = asked[d]
    BY OthersStay DEF Inductive, Book, Waiting
  <1>1. asked'[c] = NoRequest \/ asked'[c].answer = NoAnswer
    BY Unanswered DEF Inductive
  <1>2. Doings'
    <2>1. /\ entering' \subseteq Callers /\ op' \in [Callers -> Ops]
          /\ want' \in [Callers -> SUBSET (1 .. version)]
          /\ \A d \in Callers : op'[d] = "none" <=> at'[d] = "idle"
      BY <1>0 DEF Inductive, Doings, Doing, Ops
    <2>2. \A d \in Callers :
            d # c => op'[d] = op[d] /\ (d \in entering' <=> d \in entering)
      BY DEF Inductive, Doings, Doing
    <2>3. /\ op'[c] = IF at'[c] = "idle" THEN "none" ELSE o
          /\ c \in entering' => (at'[c] # "idle" /\ o = "enter")
      BY DEF Inductive, Doings, Doing
    <2>4. \A d \in entering' : op'[d] = "enter"
      <3>1. SUFFICES ASSUME NEW d \in entering' PROVE op'[d] = "enter"
        OBVIOUS
      <3>2. CASE d = c
        BY <2>3, <3>1, <3>2
      <3>3. CASE d # c
        BY <2>1, <2>2, <3>1, <3>3 DEF Inductive, Doings
      <3> QED
        BY <3>2, <3>3
    <2>5. \A d \in Callers : op'[d] = "enter" => asked'[d].what \notin {"list", "call"}
      <3>1. SUFFICES ASSUME NEW d \in Callers, op'[d] = "enter"
                     PROVE  asked'[d].what \notin {"list", "call"}
        OBVIOUS
      <3>2. CASE d = c
        BY <2>3, <3>1, <3>2
      <3>3. CASE d # c
        BY <1>0, <2>2, <3>1, <3>3 DEF Inductive, Doings
      <3> QED
        BY <3>2, <3>3
    <2>6. overtaken' \subseteq Callers
      BY DEF Inductive, Doings, Doing
    <2> QED
      BY <2>1, <2>4, <2>5, <2>6 DEF Doings
  <1>3. /\ listing \in [Callers -> [versions : SUBSET (1 .. version), count : Nat]]
        /\ listing' = [listing EXCEPT ![c] = NoPages]
        /\ NoPages \in [versions : SUBSET (1 .. version), count : Nat]
        /\ NoPages.versions = {} /\ NoPages.count < MaxPages
    BY AdapterAssumption DEF Inductive, Pages, Doing, NoPages
  <1>4. Pages'
    <2>1. listing' \in [Callers -> [versions : SUBSET (1 .. version'), count : Nat]]
      BY <1>3
    <2>2. SUFFICES ASSUME NEW d \in Callers
          PROVE  /\ listing'[d].count < MaxPages
                 /\ asked'[d].what # "list" => listing'[d] = NoPages
                 /\ d \in Pending' /\ asked'[d].answer # NoAnswer /\ asked'[d].answer.ok
                      => asked'[d].answer.version \in 1 .. version
      BY <2>1 DEF Pages
    <2>3. CASE d = c
      BY <1>1, <1>3, <2>3 DEF Pending
    <2>4. CASE d # c
      BY <1>0, <1>3, <2>4 DEF Inductive, Pages, Pending
    <2> QED
      BY <2>3, <2>4
  <1> QED
    BY <1>0, <1>1, <1>2, <1>3, <1>4

\* The descriptors of a complete listing are those of the server's versions.
LEMMA ListedVersions ==
  ASSUME Inductive, NEW c \in Callers, Listed(c)
  PROVE  /\ Versions(c) \subseteq 1 .. version
         /\ announced /\ ~raced => Versions(c) = {version}
PROOF
  <1>1. c \in Pending /\ asked[c].what = "list" /\ asked[c].answer # NoAnswer /\ asked[c].answer.ok
    BY PendingByKind DEF Listed, Has, Good, Inductive, Book, Waiting, Kinds
  <1>2. /\ asked[c].answer.version \in 1 .. version
        /\ listing[c].versions \subseteq 1 .. version
    BY <1>1 DEF Inductive, Pages
  <1> QED
    BY <1>1, <1>2 DEF Versions, Inductive, Current

\* What the caller goes on with.
LEMMA ActsDo ==
  ASSUME Inductive, NEW c \in Callers, Acts(c), ~NextPage(c)
  PROVE  \E o \in Ops, w \in SUBSET (1 .. version) :
           /\ Doing(c, o, w)
           /\ o = "none" => at'[c] = "idle"
           /\ o = "enter" => asked'[c].what \notin {"list", "call"}
           /\ o = "enter" \/ c \notin entering \/ at'[c] = "idle"
PROOF
  <1>0. /\ at \in [Callers -> Places] /\ op[c] \in Ops /\ want[c] \in SUBSET (1 .. version)
        /\ asked \in [Callers -> Requests \cup {NoRequest}]
        /\ {} \in SUBSET (1 .. version) /\ approvals \subseteq SUBSET (1 .. version)
        /\ op[c] = "none" <=> at[c] = "idle"
        /\ c \in entering => op[c] = "enter"
        /\ op[c] = "enter" => asked[c].what \notin {"list", "call"}
        /\ at[c] = "asking" <=> c \in Pending
        /\ asked[c].what # "none" => c \in Pending
    BY PendingByKind DEF Inductive, Book, Waiting, Doings, Snapshots
  <1>a. \A o : Ask(c, o) => asked'[c].what \in {"none", o}
    BY <1>0 DEF Ask, Raise, Forget, Request, NoRequest
  <1>b. Connect(c) => asked'[c].what \in {"none", "initialize", asked[c].what}
    BY <1>0, <1>a DEF Connect, Raise, Forget, Initialize, Park, NoRequest
  <1>1. CASE Enter(c)
    <2>1. Doing(c, "enter", {}) /\ "enter" \in Ops /\ at[c] = "idle"
      BY <1>1 DEF Enter, Ops
    <2>2. asked'[c].what \in {"none", "initialize", asked[c].what}
      BY <1>b, <1>1 DEF Enter, Reach, Park
    <2> QED
      BY <1>0, <2>1, <2>2
  <1>2. CASE Refresh(c)
    <2>1. Doing(c, "refresh", {}) /\ "refresh" \in Ops /\ at[c] = "idle"
      BY <1>2 DEF Refresh, Start, Ops
    <2> QED
      BY <1>0, <2>1
  <1>3. CASE Invoke(c)
    <2>1. /\ \E o \in {"call", "check"}, w \in approvals : Doing(c, o, w)
          /\ at[c] = "idle"
      BY <1>3 DEF Invoke, Start, Proceed
    <2> QED
      BY <1>0, <2>1 DEF Ops
  <1>4. CASE Resume(c)
    <2>1. at[c] # "idle" /\ Doing(c, op[c], want[c])
      BY <1>4 DEF Resume, GetLock, Opened
    <2>2. Initialize(c) \/ Raise(c) => asked'[c].what \in {"none", "initialize"}
      BY <1>0, <1>a DEF Initialize, Raise, Forget, NoRequest
    <2>3. asked'[c].what \in {"none", "initialize", asked[c].what}
      BY <1>4, <1>b, <2>2 DEF Resume, GetLock, Opened
    <2> QED
      BY <1>0, <2>1, <2>3
  <1>5. CASE Follow(c)
    <2>1. at[c] = "locking" /\ Doing(c, op[c], want[c])
      BY <1>5 DEF Follow
    <2>2. op[c] = "enter" => asked'[c].what = "none"
      BY <1>0, <1>5 DEF Follow, Leave, Raise, Forget, NoRequest
    <2> QED
      BY <1>0, <2>1, <2>2
  <1>6. CASE Initialized(c)
    <2>1. at[c] = "asking" /\ Doing(c, op[c], want[c])
      BY <1>0, <1>6 DEF Initialized, Has
    <2>2. op[c] = "enter" => asked'[c].what = "none"
      BY <1>0, <1>6 DEF Initialized, Leave, Forget, NoRequest
    <2> QED
      BY <1>0, <2>1, <2>2
  <1>7. CASE Approve(c)
    <2>1. at'[c] = "idle" /\ Doing(c, "none", {}) /\ "none" \in Ops
      BY <1>0, <1>7 DEF Approve, Leave, Forget, Places, Ops
    <2> QED
      BY <1>0, <2>1
  <1>8. CASE Verified(c)
    <2>1. op[c] = "check" /\ Doing(c, "call", want[c]) /\ "call" \in Ops
      BY <1>8 DEF Verified, Proceed, Ops
    <2> QED
      BY <1>0, <2>1
  <1>9. CASE Return(c)
    <2>1. at'[c] = "idle" /\ Doing(c, "none", {}) /\ "none" \in Ops
      BY <1>0, <1>9 DEF Return, Leave, Forget, Places, Ops
    <2> QED
      BY <1>0, <2>1
  <1>10. CASE Fail(c)
    <2>1. at[c] # "idle" /\ Doing(c, op[c], {}) /\ asked'[c].what = "none"
      BY <1>0, <1>10 DEF Fail, Raise, Forget, NoRequest
    <2> QED
      BY <1>0, <2>1
  <1>11. CASE GiveUp(c)
    <2>1. at[c] # "idle" /\ Doing(c, op[c], {}) /\ asked'[c].what = "none"
      BY <1>0, <1>11 DEF GiveUp, Abandon, Raise, Forget, NoRequest
    <2> QED
      BY <1>0, <2>1
  <1> QED
    BY <1>1, <1>2, <1>3, <1>4, <1>5, <1>6, <1>7, <1>8, <1>9, <1>10, <1>11 DEF Acts

\* The cache follows a complete listing, or stays.
LEMMA ActsOnCache ==
  ASSUME Inductive, NEW c \in Callers, Acts(c)
  PROVE  /\ ServerSteady
         /\ \/ CacheSteady
            \/ /\ Listed(c) /\ initialized /\ cacheValid' = TRUE
               /\ snapshot' = Versions(c)
               /\ approvals' \in {approvals, approvals \cup {Versions(c)}}
PROOF
  <1>1. Listed(c) => initialized
    BY DEF Inductive, Wire, Listed, Has
  <1>2. CASE Approve(c)
    BY <1>1, <1>2 DEF Approve
  <1>3. CASE Verified(c)
    BY <1>1, <1>3 DEF Verified, Compare
  <1>4. CASE Invoke(c)
    BY <1>4 DEF Invoke, Start
  <1>5. CASE ~Approve(c) /\ ~Verified(c) /\ ~Invoke(c)
    BY <1>5 DEF Acts, Enter, Refresh, Start, Resume, Follow, Initialized, NextPage, Return,
                Fail, GiveUp
  <1> QED
    BY <1>2, <1>3, <1>4, <1>5

\* A caller's step says nothing about what the others do.
LEMMA OthersDo ==
  ASSUME Inductive, NEW c \in Callers, Acts(c)
  PROVE  \A d \in Callers :
           d # c => /\ at'[d] = at[d] /\ asked'[d] = asked[d]
                    /\ op'[d] = op[d] /\ want'[d] = want[d]
                    /\ d \in overtaken <=> d \in overtaken'
PROOF
  <1>1. \A d \in Callers : d # c => at'[d] = at[d] /\ asked'[d] = asked[d]
    BY ActsAreMoves, OthersStay DEF Inductive, Book, Waiting
  <1>2. op \in [Callers -> Ops] /\ want \in [Callers -> SUBSET (1 .. version)]
    BY DEF Inductive, Doings
  <1>3. CASE NextPage(c)
    BY <1>1, <1>2, <1>3 DEF NextPage
  <1>4. CASE ~NextPage(c)
    <2>1. PICK o \in Ops, w \in SUBSET (1 .. version) : Doing(c, o, w)
      BY <1>4, ActsDo
    <2> QED
      BY <1>1, <1>2, <2>1 DEF Doing
  <1> QED
    BY <1>3, <1>4

\* A call goes on, or is let through: by a cache that is trusted, or by a listing
\* that was just compared with it.
CallGoesOn(c) ==
  /\ asked'[c].what = "call" => op'[c] = "call"
  /\ op'[c] = "call" =>
       /\ initialized' /\ (at'[c] = "locking" \/ asked'[c].what = "call")
       /\ \/ /\ at[c] = "locking" /\ op[c] = "call" /\ want'[c] = want[c]
             /\ c \in overtaken <=> c \in overtaken'
          \/ announced /\ ~raced => want'[c] = {version}

LEMMA ProceedsWith ==
  ASSUME Inductive, NEW c \in Callers, NEW w, Proceed(c, w), initialized', c \notin entering,
         snapshot' = snapshot, announced /\ ~raced => snapshot = {version}
  PROVE  CallGoesOn(c)
PROOF
  <1>0. /\ at \in [Callers -> Places] /\ asked \in [Callers -> Requests \cup {NoRequest}]
        /\ op \in [Callers -> Ops] /\ want \in [Callers -> SUBSET (1 .. version)]
    BY DEF Inductive, Book, Waiting, Doings
  <1>1. /\ op'[c] = IF at'[c] = "idle" THEN "none" ELSE "call"
        /\ want'[c] = IF at'[c] = "idle" THEN {} ELSE w
    BY <1>0 DEF Proceed, Doing
  <1>2. CASE at'[c] = "idle" /\ asked'[c] = NoRequest
    BY <1>1, <1>2 DEF CallGoesOn, NoRequest
  <1>3. CASE w = snapshot /\ at'[c] # "idle" /\ asked'[c].what \in {"none", "call"}
             /\ (at'[c] = "locking" \/ asked'[c].what = "call")
    BY <1>1, <1>3 DEF CallGoesOn
  <1>4. w # snapshot => at'[c] = "idle" /\ asked'[c] = NoRequest
    BY <1>0 DEF Proceed, Leave, Forget, Places
  <1>5. w = snapshot /\ ~LockIsFree => at'[c] = "locking" /\ asked'[c].what = "none"
    BY <1>0 DEF Proceed, Forget, Places, NoRequest
  <1>6. w = snapshot /\ LockIsFree =>
          \/ at'[c] = "idle" /\ asked'[c] = NoRequest
          \/ at'[c] = "asking" /\ asked'[c].what = "call"
    BY <1>0 DEF Proceed, RequestCall, Ask, Raise, Forget, Places, Request
  <1> QED
    BY <1>2, <1>3, <1>4, <1>5, <1>6

LEMMA ActsOnCalls ==
  ASSUME Inductive, NEW c \in Callers, Acts(c)
  PROVE  CallGoesOn(c)
PROOF
  <1>0. /\ at \in [Callers -> Places] /\ asked \in [Callers -> Requests \cup {NoRequest}]
        /\ op \in [Callers -> Ops] /\ want \in [Callers -> SUBSET (1 .. version)]
        /\ at[c] = "asking" <=> c \in Pending
        /\ asked[c].what # "none" => c \in Pending
        /\ c \notin Pending => asked[c].what = "none"
        /\ c \in entering => op[c] = "enter"
        /\ op[c] = "none" <=> at[c] = "idle"
    BY PendingByKind DEF Inductive, Book, Waiting, Doings, NoRequest
  <1>1. op[c] = "call" => initialized /\ (at[c] = "locking" \/ asked[c].what = "call")
    BY DEF Inductive, Through
  <1>a. \A o : Ask(c, o) => \/ asked'[c].what = "none"
                            \/ at'[c] = "asking" /\ asked'[c].what = o
    BY <1>0 DEF Ask, Raise, Forget, Request, NoRequest, Places
  <1>b. Raise(c) \/ Leave(c) => /\ asked'[c].what = "none"
                                /\ c \notin entering => at'[c] = "idle"
    BY <1>0 DEF Raise, Leave, Forget, NoRequest, Places
  <1>c. Initialize(c) => asked'[c].what \in {"none", "initialize"}
    BY <1>a DEF Initialize
  <1>d. Connect(c) \/ Reach(c) => asked'[c].what \in {"none", "initialize", asked[c].what}
    BY <1>0, <1>b, <1>c DEF Connect, Reach, Park
  <1>e. \A o, w : Doing(c, o, w) => op'[c] = IF at'[c] = "idle" THEN "none" ELSE o
    BY <1>0 DEF Doing
  <1>f. op'[c] # "call" /\ asked'[c].what # "call" => CallGoesOn(c)
    BY DEF CallGoesOn
  <1>2. CASE Enter(c)
    BY <1>0, <1>2, <1>d, <1>e, <1>f DEF Enter
  <1>3. ASSUME NEW o, NEW w, Start(c, o, w), o # "call" PROVE CallGoesOn(c)
    <2>1. at[c] = "idle" /\ Doing(c, o, w) /\ (RequestPage(c) \/ Reach(c))
      BY <1>3 DEF Start
    <2>2. asked'[c].what # "call"
      BY <1>0, <1>a, <1>d, <2>1 DEF RequestPage
    <2> QED
      BY <1>3, <1>e, <1>f, <2>1, <2>2
  <1>4. CASE Refresh(c)
    BY <1>3, <1>4 DEF Refresh
  <1>5. CASE Invoke(c)
    <2>1. PICK w \in approvals :
            IF cacheValid THEN Proceed(c, w) /\ Steady /\ CacheSteady
                          ELSE Start(c, "check", w)
      BY <1>5 DEF Invoke
    <2>2. at[c] = "idle" /\ initialized /\ c \notin entering
      BY <1>0, <1>5 DEF Invoke, Inductive, Snapshots
    <2>3. cacheValid => (announced /\ ~raced => snapshot = {version})
      BY DEF Inductive, Current
    <2> QED
      BY <1>3, <2>1, <2>2, <2>3, ProceedsWith DEF Steady, CacheSteady
  <1>6. CASE Resume(c)
    <2>1. at[c] \in {"locking", "opening"} /\ Doing(c, op[c], want[c])
          /\ (at[c] = "locking" => ~initialized)
      BY <1>6 DEF Resume, GetLock, Opened
    <2>2. op[c] # "call" /\ asked[c].what = "none"
      BY <1>0, <1>1, <2>1
    <2>3. asked'[c].what # "call"
      BY <1>6, <1>b, <1>c, <1>d, <2>2 DEF Resume, GetLock, Opened
    <2> QED
      BY <1>e, <1>f, <2>1, <2>2, <2>3
  <1>7. CASE Follow(c)
    <2>1. at[c] = "locking" /\ initialized /\ Doing(c, op[c], want[c]) /\ Steady
      BY <1>7 DEF Follow
    <2>2. CASE op[c] # "call"
      <3>1. Raise(c) \/ Leave(c) \/ RequestPage(c)
        BY <1>7, <2>2 DEF Follow
      <3>2. asked'[c].what # "call"
        BY <1>a, <1>b, <3>1 DEF RequestPage
      <3> QED
        BY <1>e, <1>f, <2>1, <2>2, <3>2
    <2>3. CASE op[c] = "call"
      <3>1. Raise(c) \/ RequestCall(c)
        BY <1>7, <2>3 DEF Follow
      <3>2. \/ at'[c] = "idle" /\ asked'[c].what = "none"
            \/ at'[c] = "asking" /\ asked'[c].what = "call"
        BY <1>0, <1>b, <2>3, <3>1 DEF RequestCall, Ask, Request
      <3>3. /\ at'[c] # "idle" => want'[c] = want[c] /\ overtaken' = overtaken
            /\ initialized' = initialized
        BY <1>0, <2>1 DEF Doing, Steady
      <3> QED
        BY <1>e, <2>1, <2>3, <3>2, <3>3 DEF CallGoesOn
    <2> QED
      BY <2>2, <2>3
  <1>8. CASE Initialized(c)
    <2>1. asked[c].what = "initialize" /\ Doing(c, op[c], want[c])
          /\ (Leave(c) \/ RequestPage(c))
      BY <1>8 DEF Initialized, Has
    <2>2. op[c] # "call"
      BY <1>0, <1>1, <2>1
    <2>3. asked'[c].what # "call"
      BY <1>a, <1>b, <2>1 DEF RequestPage
    <2> QED
      BY <1>e, <1>f, <2>1, <2>2, <2>3
  <1>9. CASE NextPage(c)
    <2>1. asked[c].what = "list" /\ RequestPage(c) /\ op'[c] \in {"none", op[c]}
      BY <1>0, <1>9 DEF NextPage, Has
    <2>2. op[c] # "call"
      BY <1>0, <1>1, <2>1
    <2> QED
      BY <1>a, <1>f, <2>1, <2>2 DEF RequestPage
  <1>10. CASE Approve(c) \/ Return(c)
    BY <1>10, <1>b, <1>e, <1>f DEF Approve, Return
  <1>11. CASE Verified(c)
    <2>1. /\ Listed(c) /\ Versions(c) = snapshot /\ Proceed(c, want[c]) /\ op[c] = "check"
          /\ snapshot' = snapshot /\ Steady
      BY <1>11 DEF Verified, Compare
    <2>2. initialized'
      BY <2>1 DEF Inductive, Wire, Listed, Has, Steady
    <2>3. announced /\ ~raced => snapshot = {version}
      BY <2>1, ListedVersions
    <2>4. c \notin entering
      BY <1>0, <2>1
    <2> QED
      BY <2>1, <2>2, <2>3, <2>4, ProceedsWith
  <1>12. CASE Fail(c) \/ GiveUp(c)
    <2>1. Raise(c) /\ Doing(c, op[c], {})
      BY <1>12 DEF Fail, GiveUp, Abandon
    <2>2. op'[c] # "call"
      BY <1>0, <1>b, <1>e, <2>1
    <2> QED
      BY <1>b, <1>f, <2>1, <2>2
  <1> QED
    BY <1>2, <1>4, <1>5, <1>6, <1>7, <1>8, <1>9, <1>10, <1>11, <1>12 DEF Acts

LEMMA ActKeeps ==
  ASSUME Inductive, NEW c \in Callers, Acts(c)
  PROVE  Inductive'
PROOF
  <1>1. CallerMove(c)
    BY ActsAreMoves
  <1>2. Book' /\ Wire'
    BY <1>1, BookMoves, WireMoves DEF Inductive
  <1>3. /\ UNCHANGED <<version, announced, raced>>
        /\ initialized => initialized'
    BY <1>1, ActsOnCache DEF ServerSteady, CallerMove
  <1>4. /\ Snapshots'
        /\ Current => (announced /\ ~raced /\ cacheValid' => snapshot' = {version})
    <2>1. CASE CacheSteady
      BY <1>3, <2>1 DEF CacheSteady, Inductive, Snapshots, Current
    <2>2. CASE ~CacheSteady
      <3>1. /\ Listed(c) /\ initialized /\ cacheValid' = TRUE
            /\ snapshot' = Versions(c)
            /\ approvals' \in {approvals, approvals \cup {Versions(c)}}
        BY <2>2, ActsOnCache
      <3>2. Versions(c) \subseteq 1 .. version /\ (announced /\ ~raced => Versions(c) = {version})
        BY <3>1, ListedVersions
      <3> QED
        BY <1>3, <3>1, <3>2 DEF Inductive, Snapshots
    <2> QED
      BY <2>1, <2>2
  <1>5. Current
    BY DEF Inductive
  <1>8. Through' /\ Checked'
    <2>1. \A d \in Callers :
            d # c => /\ at'[d] = at[d] /\ asked'[d] = asked[d]
                     /\ op'[d] = op[d] /\ want'[d] = want[d]
                     /\ d \in overtaken <=> d \in overtaken'
      BY OthersDo
    <2>2. Through'
      BY <1>3, <2>1, ActsOnCalls DEF CallGoesOn, Inductive, Through
    <2>3. received' = received
      BY <1>1 DEF CallerMove, Leaves, SendsOne, Waits, Forget, Sends, Park
    <2>4. \A d \in Callers : d # c => (Unwritten(d)' <=> Unwritten(d))
      BY <2>1, <2>3 DEF Unwritten
    <2>5. Checked'
      BY <1>3, <2>1, <2>4, ActsOnCalls DEF CallGoesOn, Inductive, Checked
    <2> QED
      BY <2>2, <2>5
  <1>6. CASE NextPage(c)
    <2>0. /\ at \in [Callers -> Places] /\ DOMAIN asked = Callers
          /\ at' \in [Callers -> Places] /\ DOMAIN asked' = Callers
          /\ \A d \in Callers : d # c => at'[d] = at[d] /\ asked'[d] = asked[d]
          /\ asked'[c] = NoRequest \/ asked'[c].answer = NoAnswer
      BY <1>1, OthersStay, Unanswered DEF Inductive, Book, Waiting
    <2>1. /\ c \in Pending /\ asked[c].what = "list" /\ asked[c].answer # NoAnswer
          /\ asked[c].answer.ok /\ listing[c].count + 1 < MaxPages
      BY <1>6, PendingByKind DEF NextPage, Has, Good, Inductive, Book, Waiting, Kinds
    <2>2. asked[c].answer.version \in 1 .. version /\ at[c] # "idle"
      BY <2>1 DEF Inductive, Pages, Book, Waiting
    <2> DEFINE pages == [versions |-> listing[c].versions \cup {asked[c].answer.version},
                         count |-> listing[c].count + 1]
    <2>3. /\ UNCHANGED entering
          /\ op' = [op EXCEPT ![c] = IF at'[c] = "idle" THEN "none" ELSE @]
          /\ want' = [want EXCEPT ![c] = IF at'[c] = "idle" THEN {} ELSE @]
          /\ listing' = [listing EXCEPT ![c] = IF at'[c] = "idle" THEN NoPages ELSE pages]
      BY <1>6 DEF NextPage
    <2>4. Doings'
      <3>1. /\ entering' \subseteq Callers /\ op' \in [Callers -> Ops]
            /\ want' \in [Callers -> SUBSET (1 .. version)]
            /\ \A d \in Callers : op'[d] = "none" <=> at'[d] = "idle"
        BY <2>0, <2>2, <2>3 DEF Inductive, Doings, Ops
      <3>2. op[c] # "enter" /\ c \notin entering
        BY <2>1 DEF Inductive, Doings
      <3>3. \A d \in entering' : op'[d] = "enter"
        BY <2>3, <3>2 DEF Inductive, Doings
      <3>4. /\ op'[c] # "enter"
            /\ \A d \in Callers : d # c => op'[d] = op[d]
        BY <2>3, <3>2 DEF Inductive, Doings
      <3>5. \A d \in Callers : op'[d] = "enter" => asked'[d].what \notin {"list", "call"}
        BY <2>0, <3>4 DEF Inductive, Doings
      <3>6. overtaken' \subseteq Callers
        BY <1>6 DEF NextPage, Inductive, Doings
      <3> QED
        BY <1>3, <3>1, <3>3, <3>5, <3>6 DEF Doings
    <2>5. /\ listing \in [Callers -> [versions : SUBSET (1 .. version), count : Nat]]
          /\ pages \in [versions : SUBSET (1 .. version), count : Nat]
          /\ pages.count < MaxPages
          /\ NoPages \in [versions : SUBSET (1 .. version), count : Nat]
          /\ NoPages.versions = {} /\ NoPages.count < MaxPages
      BY <2>1, <2>2, AdapterAssumption DEF Inductive, Pages, NoPages
    <2>6. at'[c] = "idle" \/ asked'[c].what = "list"
      <3>1. c \notin entering
        BY <2>1 DEF Inductive, Doings
      <3> QED
        BY <1>6, <2>0, <3>1 DEF NextPage, RequestPage, Ask, Raise, Forget, Request, Places
    <2>7. /\ listing' \in [Callers -> [versions : SUBSET (1 .. version), count : Nat]]
          /\ listing'[c] \in {NoPages, pages}
          /\ asked'[c].what = "list" \/ listing'[c] = NoPages
          /\ \A d \in Callers : d # c => listing'[d] = listing[d]
      BY <2>3, <2>5, <2>6
    <2>8. Pages'
      <3>1. SUFFICES ASSUME NEW d \in Callers
            PROVE  /\ listing'[d].count < MaxPages
                   /\ asked'[d].what # "list" => listing'[d] = NoPages
                   /\ d \in Pending' /\ asked'[d].answer # NoAnswer /\ asked'[d].answer.ok
                        => asked'[d].answer.version \in 1 .. version
        BY <1>3, <2>7 DEF Pages
      <3>2. CASE d = c
        BY <2>0, <2>5, <2>7, <3>2 DEF Pending
      <3>3. CASE d # c
        BY <2>0, <2>7, <3>3 DEF Inductive, Pages, Pending
      <3> QED
        BY <3>2, <3>3
    <2>9. Current'
      <3>1. ASSUME announced, ~raced
            PROVE  \A d \in Callers :
                     /\ listing'[d].versions \subseteq {version}
                     /\ asked'[d].what = "list" /\ asked'[d].answer # NoAnswer
                        /\ asked'[d].answer.ok => asked'[d].answer.version = version
        <4>1. asked[c].answer.version = version /\ listing[c].versions \subseteq {version}
          BY <1>5, <2>1, <3>1 DEF Current
        <4>2. listing'[c].versions \subseteq {version}
          BY <2>5, <2>7, <4>1
        <4> QED
          BY <1>5, <2>0, <2>7, <3>1, <4>2 DEF Current, NoRequest
      <3> QED
        BY <1>3, <1>4, <1>5, <3>1 DEF Current
    <2> QED
      BY <1>2, <1>4, <1>8, <2>4, <2>8, <2>9 DEF Inductive
  <1>7. CASE ~NextPage(c)
    <2>1. PICK o \in Ops, w \in SUBSET (1 .. version) :
            /\ Doing(c, o, w)
            /\ o = "none" => at'[c] = "idle"
            /\ o = "enter" => asked'[c].what \notin {"list", "call"}
            /\ o = "enter" \/ c \notin entering \/ at'[c] = "idle"
      BY <1>7, ActsDo
    <2>2. /\ Doings' /\ Pages'
          /\ \A d \in Callers : listing'[d].versions \subseteq listing[d].versions
          /\ \A d \in Callers : asked'[d] = asked[d] \/ asked'[d] = NoRequest
                                  \/ asked'[d].answer = NoAnswer
      BY <1>1, <1>3, <2>1, DoingKeeps
    <2>3. Current'
      BY <1>3, <1>4, <1>5, <2>2 DEF Current, NoRequest
    <2> QED
      BY <1>2, <1>4, <1>8, <2>2, <2>3 DEF Inductive
  <1> QED
    BY <1>6, <1>7

-----------------------------------------------------------------------------
(* The steps that are no caller's, and the theorems. *)

\* Whoever keeps waiting with its call was let through as before.
LEMMA CheckedStays ==
  ASSUME Through, Checked, UNCHANGED <<version, announced, raced, initialized>>,
         received \subseteq received',
         \A c \in Callers :
           /\ asked'[c].what = asked[c].what /\ asked'[c].n = asked[c].n
           /\ \/ op'[c] = "none" /\ op[c] # "call"
              \/ /\ at'[c] = at[c] /\ op'[c] = op[c] /\ want'[c] = want[c]
                 /\ c \in overtaken <=> c \in overtaken'
  PROVE  Through' /\ Checked'
PROOF
  <1>1. \A c \in Callers : at'[c] = at[c] /\ Unwritten(c)' => Unwritten(c)
    BY DEF Unwritten
  <1> QED
    BY <1>1 DEF Through, Checked

\* Nothing but answers changes, and those that are good name the list as it is.
LEMMA ServerKeeps ==
  ASSUME Inductive, Server
  PROVE  Inductive'
PROOF
  <1>1. PICK m \in received, more \in BOOLEAN : Reply(m, more, version)
    BY DEF Server
  <1>2. /\ Book' /\ Pending' = Pending
        /\ \A c \in Callers :
             /\ asked'[c].what = asked[c].what /\ asked'[c].n = asked[c].n
             /\ \/ asked'[c] = asked[c]
                \/ /\ c \in Pending /\ asked'[c].answer # NoAnswer
                   /\ asked'[c].answer.version = version
    BY <1>1, BookReplies DEF Inductive, Snapshots
  <1>3. UNCHANGED <<kind, link, initialized, failed, closed, lock, at, entering, orphaned,
                    received>>
    BY <1>1 DEF Reply
  <1>4. UNCHANGED adapter
    BY DEF Server
  <1>5. Wire'
    BY <1>2, <1>3, WireAnswers DEF Inductive
  <1>6. Snapshots' /\ Doings'
    BY <1>2, <1>3, <1>4 DEF adapter, Inductive, Snapshots, Doings
  <1>7. Pages' /\ Current'
    BY <1>2, <1>4 DEF adapter, Inductive, Snapshots, Pages, Current
  <1>8. Through' /\ Checked'
    BY <1>2, <1>3, <1>4, CheckedStays DEF adapter, Inductive
  <1> QED
    BY <1>2, <1>5, <1>6, <1>7, <1>8 DEF Inductive

\* A request is written: what it was made for does not change.
LEMMA WriteKeeps ==
  ASSUME Inductive, NEW c \in Callers, Write(c), UNCHANGED adapter
  PROVE  Inductive'
PROOF
  <1> DEFINE m == [id |-> asked[c].id, n |-> asked[c].n, what |-> asked[c].what]
  <1>1. /\ UNCHANGED <<kind, link, initialized, failed, closed, lock, requestId, at, entering,
                       asked, sent, orphaned>>
        /\ received' = received \cup {m} /\ at[c] = "asking"
    BY DEF Write, Unwritten
  <1>2. Pending' = Pending
    BY <1>1 DEF Pending
  <1>3. c \in Pending /\ asked[c] \in Requests /\ asked[c].id = asked[c].n
    BY <1>1, PendingByKind DEF Inductive, Book, Waiting, Numbered
  <1>4. m \in Sendings /\ m.id = m.n
    BY <1>3 DEF Requests, Sendings
  <1>5. Numbered'
    BY <1>1, <1>2, <1>4 DEF Inductive, Book, Numbered
  <1>6. Book'
    BY <1>1, <1>2, <1>5 DEF Inductive, Book, Waiting, AnswersMatch
  <1>7. Wire' /\ Snapshots' /\ Doings' /\ Pages' /\ Current'
    BY <1>1, <1>2 DEF adapter, Inductive, Wire, NothingWaitsOnDeadLink, Snapshots, Doings,
                      Pages, Current
  <1>8. Through' /\ Checked'
    BY <1>1, CheckedStays DEF adapter, Inductive
  <1> QED
    BY <1>6, <1>7, <1>8 DEF Inductive

LEMMA FailureKeeps ==
  ASSUME Inductive,
         \/ (Drop \/ Close) /\ UNCHANGED adapter
         \/ \E c \in Callers : EnterFails(c)
  PROVE  Inductive'
PROOF
  <1>1. /\ Book' /\ Wire'
        /\ initialized' = initialized
        /\ \A c \in Callers :
             /\ asked'[c].what = asked[c].what /\ asked'[c].n = asked[c].n
             /\ asked'[c] = asked[c] \/ (c \in Pending /\ ~asked'[c].answer.ok)
    BY WireFails DEF Inductive, EnterFails
  <1>2. /\ UNCHANGED <<version, announced, raced, snapshot, cacheValid, approvals>>
        /\ UNCHANGED listing \/ \E c \in Callers : listing' = [listing EXCEPT ![c] = NoPages]
    BY DEF adapter, EnterFails, ServerSteady, CacheSteady, Doing
  <1>3. Snapshots'
    BY <1>1, <1>2 DEF Inductive, Snapshots
  <1>4. Doings'
    <2>1. CASE (Drop \/ Close) /\ UNCHANGED adapter
      BY <1>1, <2>1 DEF Drop, Close, adapter, Inductive, Doings
    <2>2. CASE \E c \in Callers : EnterFails(c)
      <3>1. PICK c \in Callers : EnterFails(c)
        BY <2>2
      <3>2. /\ at' = [at EXCEPT ![c] = "idle"] /\ at \in [Callers -> Places]
            /\ entering' = entering \ {c} /\ op' = [op EXCEPT ![c] = "none"]
            /\ want' = [want EXCEPT ![c] = {}] /\ overtaken' = overtaken \ {c}
        BY <3>1 DEF EnterFails, CloseOnError, Doing, Inductive, Book, Waiting, Places
      <3> QED
        BY <1>1, <1>2, <3>2 DEF Inductive, Doings, Ops
    <2> QED
      BY <2>1, <2>2
  <1>5. /\ NoPages \in [versions : SUBSET (1 .. version), count : Nat]
        /\ NoPages.versions = {} /\ NoPages.count < MaxPages
    BY AdapterAssumption DEF NoPages
  <1>6. /\ listing' \in [Callers -> [versions : SUBSET (1 .. version), count : Nat]]
        /\ \A c \in Callers : listing'[c] \in {listing[c], NoPages}
    BY <1>2, <1>5 DEF Inductive, Pages
  <1>7. Pages'
    BY <1>1, <1>2, <1>5, <1>6 DEF Inductive, Pages, Pending
  <1>8. Current'
    BY <1>1, <1>2, <1>5, <1>6 DEF Inductive, Current
  <1>9. Through' /\ Checked'
    <2>1. received' = received
      BY DEF Drop, Close, EnterFails, CloseOnError
    <2>2. CASE (Drop \/ Close) /\ UNCHANGED adapter
      <3>1. UNCHANGED <<at, op, want, overtaken>>
        BY <2>2 DEF Drop, Close, adapter
      <3> QED
        BY <1>1, <1>2, <2>1, <3>1, CheckedStays DEF Inductive
    <2>3. CASE \E c \in Callers : EnterFails(c)
      <3>1. PICK c \in Callers : EnterFails(c)
        BY <2>3
      <3>2. at[c] = "failing" /\ op[c] # "call"
        BY <3>1 DEF EnterFails, CloseOnError, Inductive, Through, Book, Waiting, Pending,
                    NoRequest
      <3>3. /\ at' = [at EXCEPT ![c] = "idle"] /\ at \in [Callers -> Places]
            /\ op' = [op EXCEPT ![c] = "none"] /\ want' = [want EXCEPT ![c] = {}]
            /\ overtaken' = overtaken \ {c}
        BY <3>1 DEF EnterFails, CloseOnError, Doing, Inductive, Book, Waiting, Places
      <3>4. \A d \in Callers :
              \/ op'[d] = "none" /\ op[d] # "call"
              \/ /\ at'[d] = at[d] /\ op'[d] = op[d] /\ want'[d] = want[d]
                 /\ d \in overtaken <=> d \in overtaken'
        BY <3>2, <3>3 DEF Inductive, Doings
      <3> QED
        BY <1>1, <1>2, <2>1, <3>4, CheckedStays DEF Inductive
    <2> QED
      BY <2>2, <2>3
  <1> QED
    BY <1>1, <1>3, <1>4, <1>7, <1>8, <1>9 DEF Inductive

\* A change that is not announced leaves everything as it was.
LEMMA ChangeKeeps ==
  ASSUME Inductive, Change
  PROVE  Inductive'
PROOF
  <1>1. /\ UNCHANGED <<transport, op, want, listing, raced, overtaken>>
        /\ UNCHANGED <<snapshot, cacheValid, approvals>>
        /\ version' = version + 1 /\ version < MaxVersion /\ announced' = FALSE
    BY DEF Change, CacheSteady
  <1>2. version' \in 1 .. MaxVersion /\ 1 .. version \subseteq 1 .. version'
    BY <1>1, AdapterAssumption DEF Inductive, Snapshots
  <1>3. Pending' = Pending
    BY <1>1 DEF Pending, transport
  <1>4. Book' /\ Wire'
    BY <1>1, <1>3 DEF transport, Inductive, Book, Numbered, Waiting, AnswersMatch, Wire,
                      NothingWaitsOnDeadLink
  <1>5. Snapshots' /\ Doings'
    BY <1>1, <1>2 DEF transport, Inductive, Snapshots, Doings
  <1>6. Pages'
    BY <1>1, <1>2, <1>3 DEF transport, Inductive, Pages
  <1>7. Current' /\ Checked'
    BY <1>1 DEF Current, Checked
  <1>8. Through'
    BY <1>1 DEF transport, Inductive, Through
  <1> QED
    BY <1>4, <1>5, <1>6, <1>7, <1>8 DEF Inductive

\* Once it is announced the cache is not trusted, and no listing is under way
\* unless the announcement is said to have met one.
LEMMA AnnounceKeeps ==
  ASSUME Inductive, Announce
  PROVE  Inductive'
PROOF
  <1>1. /\ UNCHANGED <<transport, version, snapshot, approvals, op, want, listing>>
        /\ announced' = TRUE /\ cacheValid' = FALSE
        /\ raced' = \E c \in Callers : asked[c].what = "list"
        /\ overtaken' = {c \in Callers : op[c] = "call" /\ (at[c] = "locking" \/ Unwritten(c))}
    BY DEF Announce, Invalidate
  <1>2. Pending' = Pending
    BY <1>1 DEF Pending, transport
  <1>3. Book' /\ Wire'
    BY <1>1, <1>2 DEF transport, Inductive, Book, Numbered, Waiting, AnswersMatch, Wire,
                      NothingWaitsOnDeadLink
  <1>4. Snapshots' /\ Doings'
    BY <1>1 DEF transport, Inductive, Snapshots, Doings
  <1>5. Pages'
    BY <1>1, <1>2 DEF transport, Inductive, Pages
  <1>6. Current'
    BY <1>1 DEF transport, Inductive, Pages, Current, NoPages
  <1>7. Through' /\ Checked'
    BY <1>1 DEF transport, Inductive, Through, Checked, Unwritten
  <1> QED
    BY <1>3, <1>4, <1>5, <1>6, <1>7 DEF Inductive

LEMMA StartsWell == Init => Inductive
PROOF
  <1>1. SUFFICES ASSUME Init PROVE Inductive
    OBVIOUS
  <1>2. Pending = {} /\ Cardinality(Pending) = 0
    BY <1>1, FS_EmptySet DEF Init, TransportInit, Pending
  <1>3. Book
    BY <1>1, <1>2, TransportAssumption
       DEF Init, TransportInit, Book, Numbered, Waiting, AnswersMatch, Places
  <1>4. Wire
    BY <1>1, <1>2 DEF Init, TransportInit, Wire, NothingWaitsOnDeadLink, NoRequest
  <1>5. Snapshots
    <2>1. MaxVersion \in Nat /\ MaxVersion >= 1
      BY AdapterAssumption
    <2>2. version = 1 /\ version \in 1 .. MaxVersion
      BY <1>1, <2>1 DEF Init
    <2>3. snapshot = {} /\ approvals = {} /\ {announced, cacheValid, raced} \subseteq BOOLEAN
      BY <1>1 DEF Init
    <2> QED
      BY <2>2, <2>3 DEF Snapshots
  <1>6. Doings
    <2>1. op \in [Callers -> Ops] /\ want \in [Callers -> SUBSET (1 .. version)]
      BY <1>1 DEF Init, Ops
    <2> QED
      BY <1>1, <2>1 DEF Init, TransportInit, Doings
  <1>7. Pages
    BY <1>1, <1>2, AdapterAssumption DEF Init, TransportInit, Pages, NoPages, NoRequest
  <1>8. Current
    BY <1>1 DEF Init, TransportInit, Current, NoPages, NoRequest
  <1>9. Through /\ Checked
    BY <1>1 DEF Init, TransportInit, Through, Checked, NoRequest
  <1> QED
    BY <1>3, <1>4, <1>5, <1>6, <1>7, <1>8, <1>9 DEF Inductive

LEMMA NextKeeps == Inductive /\ [Next]_vars => Inductive'
PROOF
  <1>1. SUFFICES ASSUME Inductive, [Next]_vars PROVE Inductive'
    OBVIOUS
  <1>2. CASE UNCHANGED vars
    <2>1. Pending' = Pending
      BY <1>2 DEF vars, transport, Pending
    <2>2. Book' /\ Wire'
      BY <1>1, <1>2, <2>1 DEF vars, transport, Inductive, Book, Numbered, Waiting,
                              AnswersMatch, Wire, NothingWaitsOnDeadLink
    <2> QED
      BY <1>1, <1>2, <2>1, <2>2 DEF vars, transport, adapter, Inductive, Snapshots, Doings,
                                    Pages, Current, Through, Checked, Unwritten
  <1>3. CASE \E c \in Callers : Acts(c)
    BY <1>1, <1>3, ActKeeps
  <1>4. CASE \/ (Drop \/ Close) /\ UNCHANGED adapter
             \/ \E c \in Callers : EnterFails(c)
    BY <1>1, <1>4, FailureKeeps
  <1>5. CASE Server \/ Change \/ Announce
    BY <1>1, <1>5, ServerKeeps, ChangeKeeps, AnnounceKeeps
  <1>6. CASE \E c \in Callers : Write(c) /\ UNCHANGED adapter
    BY <1>1, <1>6, WriteKeeps
  <1> QED
    BY <1>1, <1>2, <1>3, <1>4, <1>5, <1>6 DEF Next, Acts

LEMMA AlwaysInductive == Spec => []Inductive
PROOF
  BY StartsWell, NextKeeps, PTL DEF Spec

\* The state of every run is well typed; in particular no more requests are
\* outstanding than _send_request allows, and what is approved was listed.
THEOREM TypeIsKept == Spec => []TypeOK
PROOF
  <1>1. Inductive => TypeOK
    <2>1. SUFFICES ASSUME Inductive PROVE TypeOK
      OBVIOUS
    <2>2. TransportTypeOK
      BY <2>1 DEF Inductive, Book, Numbered, Waiting, Wire, Doings, TransportTypeOK
    <2> QED
      BY <2>1, <2>2 DEF Inductive, Snapshots, Doings, Pages, TypeOK
  <1> QED
    BY <1>1, AlwaysInductive, PTL

\* A late or repeated answer is never taken for another request's: _accept
\* finds the future by an id that no other request has had.
THEOREM AnswersFit == Spec => []AnswersMatch
PROOF
  <1>1. Inductive => AnswersMatch
    BY DEF Inductive, Book
  <1> QED
    BY <1>1, AlwaysInductive, PTL

\* After _fail or close everyone who waited has been told, nobody keeps _lock
\* who is not opening the connection, and no connection outlives close but the
\* child that was being started.
THEOREM DeadLinkIsLeft == Spec => []NothingWaitsOnDeadLink
PROOF
  <1>1. Inductive => NothingWaitsOnDeadLink
    BY DEF Inductive, Wire
  <1> QED
    BY <1>1, AlwaysInductive, PTL

\* "Descriptor drift blocks execution until explicitly refreshed": with any
\* number of callers, no call that was let through after the server announced a
\* change leaves with the descriptors from before it, unless the announcement
\* met a listing.
THEOREM DriftIsBlocked == Spec => DriftBlocksOutsideRace
PROOF
  <1>1. Inductive /\ [Next]_vars =>
          [\A c \in Callers : Departs(c) => ~Stale(c) \/ raced]_vars
    <2>1. SUFFICES ASSUME Inductive, NEW c \in Callers, Departs(c) PROVE ~Stale(c) \/ raced
      OBVIOUS
    <2>2. op[c] = "call" /\ Unwritten(c)
      BY <2>1 DEF Departs, Inductive, Through
    <2> QED
      BY <2>1, <2>2 DEF Inductive, Checked, Stale
  <1> QED
    BY <1>1, AlwaysInductive, PTL DEF Spec, DriftBlocksOutsideRace

=============================================================================
