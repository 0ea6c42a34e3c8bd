--------------------------- MODULE MessageHistory ---------------------------
(***************************************************************************)
(* MessageHistory and prune_history (loop/_messages.py): the messages sent *)
(* to the model, the groups they are pruned by, and the cache of their     *)
(* token counts, whose keys are the addresses of the messages: an address  *)
(* is used again once nothing holds its message.                           *)
(***************************************************************************)
EXTENDS Integers, Sequences, FiniteSets, SequencesExt, FiniteSetsExt, Lists

CONSTANT
  MaxTokens    \* max_context_tokens

ASSUME HistoryAssumption == MaxTokens \in Nat

VARIABLES
  messages,   \* _messages
  cache,      \* _token_cache: token counts by address
  kept        \* the messages of the checkpoint, which holds them until the next one

history == <<messages, cache, kept>>

\* A call message says how many results follow it.
Message(a, role, calls, size) == [at |-> a, role |-> role, calls |-> calls, size |-> size]

\* _prepare_loop: the system prompt and the objective, with the context items.
PrefixLen == 2
Prefix == <<Message(1, "system", 0, 1), Message(2, "user", 0, 1)>>

HistoryInit == messages = Prefix /\ cache = <<>> /\ kept = <<>>

AddressesOf(ms) == {ms[i].at : i \in DOMAIN ms}

\* The allocator takes the lowest address that is free: the one that was used
\* before, when there is such an address.
Lowest(used) == Min((1 .. Cardinality(used) + 1) \ used)

\* _prepare_loop: a checkpoint's messages replace the ones it built.
LoadHistory ==
  /\ messages' = IF kept = <<>> THEN Prefix ELSE kept
  /\ cache' = <<>>
  /\ kept' = messages'

\* append
Extend(ms, role, calls, size) ==
  Append(ms, Message(Lowest(AddressesOf(ms) \cup AddressesOf(kept)), role, calls, size))

\* _message_tokens of every message, by way of the cache.
Counted(ms) ==
  [a \in DOMAIN cache \cup AddressesOf(ms) |->
     IF a \in DOMAIN cache THEN cache[a]
     ELSE (CHOOSE m \in ToSet(ms) : m.at = a).size]

\* The tokens of the messages at the places I.
Tokens(ms, c, I) ==
  Total([i \in DOMAIN ms |-> IF i \in I THEN c[ms[i].at] ELSE 0], Len(ms))

\* The message at i is the result of a call: every message back to the call is.
IsResult(ms, i) ==
  \E j \in PrefixLen + 1 .. i - 1 :
    ms[j].role = "call" /\ \A k \in j + 1 .. i : ms[k].role = "tool"

\* Every message is a group of its own.
FirstsSplit(ms) == PrefixLen + 1 .. Len(ms)

\* _build_groups: where the groups start.
Firsts(ms) == {i \in PrefixLen + 1 .. Len(ms) : ~IsResult(ms, i)}

\* The group that starts at f.
Group(ms, f) == {i \in f .. Len(ms) : \A g \in Firsts(ms) : g <= i => g <= f}

\* One group alone is too large for what the prefix leaves.
TooLarge(ms, c) ==
  \E f \in Firsts(ms) :
    Tokens(ms, c, Group(ms, f)) > MaxTokens - Tokens(ms, c, 1 .. PrefixLen)

Over(ms, c) == Tokens(ms, c, DOMAIN ms) > MaxTokens

\* The oldest groups go until the rest fits: the first message that stays.
FirstKept(ms, c) ==
  Min({f \in Firsts(ms) \cup {Len(ms) + 1} :
         Tokens(ms, c, 1 .. PrefixLen \cup f .. Len(ms)) <= MaxTokens})

Overflows == Over(messages, Counted(messages)) /\ TooLarge(messages, Counted(messages))

\* prune_history, when it does not raise ContextBudgetExceeded.
Prune ==
  LET c == Counted(messages)
      stays == IF Over(messages, c) /\ Firsts(messages) # {}
               THEN SubSeq(messages, 1, PrefixLen)
                    \o SubSeq(messages, FirstKept(messages, c), Len(messages))
               ELSE messages
  IN /\ messages' = stays
     /\ cache' = [a \in DOMAIN c \ (AddressesOf(messages) \ AddressesOf(stays)) |-> c[a]]

-----------------------------------------------------------------------------
HistoryTypeOK ==
  /\ \A i, j \in DOMAIN messages : messages[i].at = messages[j].at => i = j
  /\ DOMAIN cache \subseteq AddressesOf(messages)

\* What the model is about to be sent fits its context, unless there is nothing
\* to prune; it begins with the prefix, every call is followed by all its
\* results and every result is that of a call; and a token count in the cache
\* is that of the message that has the address now, not of an earlier one.
Fits ==
  /\ Len(messages) > PrefixLen =>
       Total([i \in DOMAIN messages |-> messages[i].size], Len(messages)) <= MaxTokens
  /\ SubSeq(messages, 1, PrefixLen) = Prefix
  /\ \A i \in PrefixLen + 1 .. Len(messages) :
       IF messages[i].role = "call"
       THEN \A k \in 1 .. messages[i].calls :
              i + k <= Len(messages) /\ messages[i + k].role = "tool"
       ELSE \E j \in PrefixLen + 1 .. i - 1 :
              messages[j].role = "call" /\ i - j <= messages[j].calls

CacheIsRight ==
  \A m \in ToSet(messages) : m.at \in DOMAIN cache => cache[m.at] = m.size
=============================================================================
