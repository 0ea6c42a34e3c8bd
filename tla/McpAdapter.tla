----------------------------- MODULE McpAdapter -----------------------------
(***************************************************************************)
(* MCPAdapter over an MCP client (interfaces/mcp.py): refresh approves the *)
(* descriptors the server lists, a registered tool is invoked only while   *)
(* the approved snapshot is its own, and the server's list is compared     *)
(* with it again after a change was announced.  A descriptor is known by   *)
(* the version of the server's list it comes from, a listing by the        *)
(* versions its pages come from.                                           *)
(***************************************************************************)
EXTENDS McpTransport

CONSTANTS
  MaxVersion,   \* bound: versions of the server's list
  MaxPages      \* pages a listing may have (100)

ASSUME AdapterAssumption == {MaxVersion, MaxPages} \subseteq Nat \ {0}

VARIABLES
  version,     \* the server's list now
  announced,   \* its last change has been announced to the client
  snapshot,    \* _snapshot and _schema_fingerprint: the versions approved
  cacheValid,  \* _cache_valid
  approvals,   \* the snapshots ever approved, and made into tools
  op,          \* what each caller does
  want,        \* the snapshot the tool it invokes was made from
  listing,     \* the versions of the pages it has so far, and their number
  raced,       \* history: the last change was announced during a listing
  overtaken    \* history: callers whose call was checked before it, and not sent

adapter == <<version, announced, snapshot, cacheValid, approvals, op, want,
             listing, raced, overtaken>>
vars == <<transport, adapter>>

Ops == {"none", "enter", "refresh", "check", "call"}
NoPages == [versions |-> {}, count |-> 0]

TypeOK ==
  /\ TransportTypeOK
  /\ version \in 1 .. MaxVersion
  /\ announced \in BOOLEAN /\ cacheValid \in BOOLEAN /\ raced \in BOOLEAN
  /\ snapshot \subseteq 1 .. version /\ approvals \subseteq SUBSET (1 .. version)
  /\ op \in [Callers -> Ops] /\ \A c \in Callers : op[c] = "none" <=> at[c] = "idle"
  /\ want \in [Callers -> SUBSET (1 .. version)]
  /\ \A c \in Callers : listing[c].count < MaxPages
  /\ overtaken \subseteq Callers
  /\ snapshot # {} => initialized

Init ==
  /\ TransportInit
  /\ version = 1 /\ announced = TRUE
  /\ snapshot = {} /\ cacheValid = FALSE /\ approvals = {}
  /\ op = [c \in Callers |-> "none"]
  /\ want = [c \in Callers |-> {}]
  /\ listing = [c \in Callers |-> NoPages]
  /\ raced = FALSE /\ overtaken = {}

ServerSteady == UNCHANGED <<version, announced, raced>>
CacheSteady == UNCHANGED <<snapshot, cacheValid, approvals>>

\* The caller's operation goes on as o, or is over when the caller left.
Doing(c, o, w) ==
  /\ entering' = IF at'[c] = "idle" THEN entering \ {c}
                 ELSE IF o = "enter" THEN entering \cup {c} ELSE entering
  /\ op' = [op EXCEPT ![c] = IF at'[c] = "idle" THEN "none" ELSE o]
  /\ want' = [want EXCEPT ![c] = IF at'[c] = "idle" THEN {} ELSE w]
  /\ listing' = [listing EXCEPT ![c] = NoPages]
  /\ overtaken' = IF at'[c] = "idle" THEN overtaken \ {c} ELSE overtaken

RequestPage(c) == Ask(c, "list") /\ Unlock(c)
RequestCall(c) == Ask(c, "call") /\ Unlock(c)

\* list_tools, once the client is initialised.
Start(c, o, w) ==
  /\ at[c] = "idle"
  /\ IF initialized /\ ~closed /\ ~failed /\ LockIsFree
     THEN RequestPage(c) /\ UNCHANGED link ELSE Reach(c)
  /\ Doing(c, o, w)
  /\ Steady /\ ServerSteady /\ CacheSteady

\* __aenter__
Enter(c) ==
  /\ ~initialized /\ ~closed /\ ~failed /\ at[c] = "idle"
  /\ Reach(c)
  /\ Doing(c, "enter", {})
  /\ Steady /\ ServerSteady /\ CacheSteady

Refresh(c) == Start(c, "refresh", {})

\* A call of a tool made from snapshot w, with the cache trusted: _invoke from
\* the comparison with expected_fingerprint on, call_tool up to its first await.
Proceed(c, w) ==
  /\ IF w # snapshot THEN Leave(c)
     ELSE IF LockIsFree THEN RequestCall(c) ELSE Forget(c, "locking")
  /\ Doing(c, "call", w)

Invoke(c) ==
  /\ at[c] = "idle" /\ snapshot # {}
  /\ \E w \in approvals :
       IF cacheValid
       THEN Proceed(c, w) /\ UNCHANGED link /\ Steady /\ ServerSteady /\ CacheSteady
       ELSE Start(c, "check", w)

\* Its lock is free: the client may be initialised meanwhile.
Resume(c) ==
  /\ \/ GetLock(c)
     \/ Opened(c)
  /\ Doing(c, op[c], want[c])
  /\ ServerSteady /\ CacheSteady

\* The client is initialised by another caller: enter is done, others go on.
Follow(c) ==
  /\ at[c] = "locking" /\ lock = Nobody /\ initialized
  /\ IF closed \/ failed THEN Raise(c)
     ELSE CASE op[c] = "enter" -> Leave(c)
            [] op[c] = "call"  -> RequestCall(c)
            [] OTHER           -> RequestPage(c)
  /\ Doing(c, op[c], want[c])
  /\ UNCHANGED link /\ Steady /\ ServerSteady /\ CacheSteady

Has(c, what) == asked[c].what = what /\ asked[c].answer # NoAnswer
Good(c) == asked[c].answer.ok

\* _initialize: the protocol version is right, and the operation goes on.
Initialized(c) ==
  /\ Has(c, "initialize") /\ Good(c)
  /\ initialized' = TRUE
  /\ IF op[c] = "enter" THEN Leave(c) ELSE RequestPage(c)
  /\ Doing(c, op[c], want[c])
  /\ UNCHANGED <<kind, link, failed, closed, orphaned>>
  /\ ServerSteady /\ CacheSteady

\* list_tools asks for the next page.
NextPage(c) ==
  /\ Has(c, "list") /\ Good(c) /\ asked[c].answer.more
  /\ listing[c].count + 1 < MaxPages
  /\ RequestPage(c)
  /\ op' = [op EXCEPT ![c] = IF at'[c] = "idle" THEN "none" ELSE @]
  /\ want' = [want EXCEPT ![c] = IF at'[c] = "idle" THEN {} ELSE @]
  /\ listing' = [listing EXCEPT ![c] =
       IF at'[c] = "idle" THEN NoPages
       ELSE [versions |-> @.versions \cup {asked[c].answer.version}, count |-> @.count + 1]]
  /\ UNCHANGED <<link, entering, overtaken>> /\ Steady /\ ServerSteady /\ CacheSteady

Listed(c) == Has(c, "list") /\ Good(c) /\ ~asked[c].answer.more
Versions(c) == listing[c].versions \cup {asked[c].answer.version}

\* refresh, when the list is within the limits.
Approve(c) ==
  /\ op[c] = "refresh" /\ Listed(c)
  /\ snapshot' = Versions(c)
  /\ approvals' = approvals \cup {Versions(c)}
  /\ cacheValid' = TRUE
  /\ Leave(c) /\ Doing(c, "none", {})
  /\ UNCHANGED link /\ Steady /\ ServerSteady

\* The listing is taken for the snapshot whatever it says.
CompareNot(c) == TRUE

\* The fingerprint of the listing is the approved one.
Compare(c) == Versions(c) = snapshot

\* _invoke, after the listing it asked for.
Verified(c) ==
  /\ op[c] = "check" /\ Listed(c) /\ Compare(c)
  /\ cacheValid' = TRUE
  /\ Proceed(c, want[c])
  /\ UNCHANGED <<link, snapshot, approvals>> /\ Steady /\ ServerSteady

\* The result of the call.
Return(c) ==
  /\ Has(c, "call") /\ Good(c)
  /\ Leave(c) /\ Doing(c, "none", {})
  /\ UNCHANGED link /\ Steady /\ ServerSteady /\ CacheSteady

\* An answer that is an error or invalid, a page too many, descriptors that
\* changed or are too many.
Fail(c) ==
  /\ at[c] = "asking" /\ asked[c].answer # NoAnswer
  /\ \/ ~Good(c) \/ asked[c].what = "initialize"
     \/ asked[c].what = "list" /\ asked[c].answer.more /\ listing[c].count + 1 = MaxPages
     \/ Listed(c)
  /\ Raise(c) /\ Doing(c, op[c], {})
  /\ UNCHANGED link /\ Steady /\ ServerSteady /\ CacheSteady

GiveUp(c) == Abandon(c) /\ Doing(c, op[c], {}) /\ ServerSteady /\ CacheSteady

EnterFails(c) ==
  /\ CloseOnError(c)
  /\ Doing(c, "none", {})
  /\ ServerSteady /\ CacheSteady

\* The server's list changes; then it says so, and invalidate runs.
Change ==
  /\ version < MaxVersion
  /\ version' = version + 1
  /\ announced' = FALSE
  /\ UNCHANGED <<transport, op, want, listing, raced, overtaken>> /\ CacheSteady

Invalidate == cacheValid' = FALSE

Announce ==
  /\ link = "open" /\ ~announced
  /\ announced' = TRUE
  /\ Invalidate
  /\ raced' = \E c \in Callers : asked[c].what = "list"
  /\ overtaken' = {c \in Callers : op[c] = "call" /\ (at[c] = "locking" \/ Unwritten(c))}
  /\ UNCHANGED <<transport, version, snapshot, approvals, op, want, listing>>

Server ==
  /\ \E m \in received, more \in BOOLEAN : Reply(m, more, version)
  /\ UNCHANGED adapter

Next ==
  \/ \E c \in Callers :
       \/ Enter(c) \/ Refresh(c) \/ Invoke(c) \/ Resume(c) \/ Follow(c)
       \/ Initialized(c) \/ NextPage(c) \/ Approve(c) \/ Verified(c)
       \/ Return(c) \/ Fail(c) \/ GiveUp(c) \/ EnterFails(c)
       \/ Write(c) /\ UNCHANGED adapter
  \/ Server \/ Change \/ Announce
  \/ (Drop \/ Close) /\ UNCHANGED adapter

Spec == Init /\ [][Next]_vars

-----------------------------------------------------------------------------
\* A call leaves for the server in this step.
Departs(c) == asked[c].what = "call" /\ Unwritten(c) /\ ~Unwritten(c)' /\ asked'[c] = asked[c]

\* It was checked after the last announcement, against descriptors that the
\* server had replaced before.
Stale(c) == announced /\ c \notin overtaken /\ want[c] # {version}

\* "Tool-list changes invalidate the cache.  Descriptor drift blocks execution
\* until explicitly refreshed" (docs/integrations/mcp.md): no call that _invoke
\* lets through after a change was announced leaves with the old descriptors.
DriftBlocks == [][\A c \in Callers : Departs(c) => ~Stale(c)]_vars

\* The same, unless the announcement came while a list was being fetched.  A
\* call that was let through before it, and waits for the pipe, the POST or the
\* lock, leaves all the same: nothing looks at the cache again.
DriftBlocksOutsideRace ==
  [][\A c \in Callers : Departs(c) => ~Stale(c) \/ raced]_vars
=============================================================================
