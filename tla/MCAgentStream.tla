---------------------------- MODULE MCAgentStream ----------------------------
(***************************************************************************)
(* Instance of AgentStream: runs of each kind, streamed and not, with the  *)
(* bounds that keep each small enough for TLC.  Calls may be asked for in  *)
(* the first two turns; together in the first, their group has to go for   *)
(* the third prompt.                                                       *)
(***************************************************************************)
EXTENDS AgentStream

CONSTANTS main, aside

MCRuns == {main, aside}
MCTopics == {main, AllRuns}
MCSizes == [code |-> 2, other |-> 1]

None == <<{{}}, {{}}, {{}}>>
Pair == <<{{}, {"code", "other"}}, {{}}, {{}}>>
Once == <<{{}, {"code"}}, {{}}, {{}}>>
Twice == <<{{}, {"code", "other"}}, {{}, {"other"}}, {{}, {"code"}}>>

Asks(k, s, l, p, t, o, c, r) ==
  [kind |-> k, streaming |-> s, live |-> l, proposals |-> p,
   texts |-> t, others |-> o, cancels |-> c, resumes |-> r]

MCScopes ==
  {Asks("plain", TRUE, FALSE, Twice, 1, 0, 2, 0),
   Asks("plain", FALSE, FALSE, Twice, 0, 1, 1, 0),
   Asks("governed", TRUE, TRUE, Pair, 1, 0, 2, 0),
   Asks("governed", FALSE, FALSE, Twice, 0, 0, 2, 0),
   Asks("durable", TRUE, TRUE, Pair, 0, 0, 1, 0),
   Asks("durable", TRUE, TRUE, Pair, 0, 0, 0, 1),
   Asks("durable", TRUE, TRUE, None, 1, 0, 1, 1),
   Asks("durable", FALSE, FALSE, Once, 0, 0, 1, 1)}
=============================================================================
