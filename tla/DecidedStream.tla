---------------------------- MODULE DecidedStream ----------------------------
(***************************************************************************)
(* The handler NewStreamPublisher returns (src/exporter/api/decided/       *)
(* stream.go): it builds the key identifier:slot:len(signers), returns if  *)
(* the TTL cache holds it, else stores it and sends the entry to the       *)
(* websocket feed.  The cache is shared by every caller of the handler;    *)
(* Get, SetDefault and Send are separate steps (go-cache locks each call   *)
(* on its own), so callers interleave between them.  Any caller may be     *)
(* handed any entry: nothing in stream.go ties an identifier to a caller.  *)
(***************************************************************************)
EXTENDS Naturals, FiniteSets

CONSTANTS
  Identifiers,  \* msg.Identifier values
  Slots,        \* msg.Slot values
  Operators,    \* operator ids that can sign a decided entry
  Callers,      \* goroutines calling the handler
  UseNewAPI,    \* NewStreamPublisher's useNewAPI argument
  MaxCalls,     \* handler calls in a behaviour
  NoEntry       \* entry slot of an idle caller

ASSUME StreamAssumption ==
  /\ IsFiniteSet(Callers)
  /\ UseNewAPI \in BOOLEAN
  /\ MaxCalls \in Nat

\* qbftstorage.ParticipantsRangeEntry, abstracted to the fields the handler reads.
Entries ==
  [identifier : Identifiers, slot : Slots, signers : SUBSET Operators \ {{}}]

\* key := fmt.Sprintf("%s:%d:%d", hex(identifier), slot, len(signers)): the
\* hex identifier has no ':', so the string is determined by, and
\* determines, this triple.
Key(e) == <<e.identifier, e.slot, Cardinality(e.signers)>>

Keys == {Key(e) : e \in Entries}

\* api.NewParticipantsAPIMsg(msg) or api.NewDecidedAPIMsg(msg).
APIMsg(e) ==
  [format |-> IF UseNewAPI THEN "participants" ELSE "decided", entry |-> e]

APIMsgs == {APIMsg(e) : e \in Entries}

VARIABLES
  cache,   \* keys with an unexpired entry in the go-cache
  pc,      \* pc[c]: "Idle", "Set" (Get missed), "Send" (key stored)
  cur,     \* cur[c]: the entry c is handling
  feed,    \* feed[m]: times m was sent to the broadcast feed
  calls,   \* handler calls so far
  \* Auxiliary (history) variable, no program state: stored[k] is the set
  \* of callers whose SetDefault wrote k since k last entered the cache.
  stored

vars == <<cache, pc, cur, feed, calls, stored>>

Init ==
  /\ cache = {}
  /\ pc = [c \in Callers |-> "Idle"]
  /\ cur = [c \in Callers |-> NoEntry]
  /\ feed = [m \in APIMsgs |-> 0]
  /\ calls = 0
  /\ stored = [k \in Keys |-> {}]

\* The handler is called with e; c.Get(key) finds it and the call returns.
Hit(c, e) ==
  /\ pc[c] = "Idle" /\ calls < MaxCalls
  /\ Key(e) \in cache
  /\ calls' = calls + 1
  /\ UNCHANGED <<cache, pc, cur, feed, stored>>

\* Fault-injected variant of Miss: the cache is not consulted.
MissUnchecked(c, e) ==
  /\ pc[c] = "Idle" /\ calls < MaxCalls
  /\ pc' = [pc EXCEPT ![c] = "Set"]
  /\ cur' = [cur EXCEPT ![c] = e]
  /\ calls' = calls + 1
  /\ UNCHANGED <<cache, feed, stored>>

\* The handler is called with e and c.Get(key) misses.
Miss(c, e) ==
  /\ pc[c] = "Idle" /\ calls < MaxCalls
  /\ Key(e) \notin cache
  /\ pc' = [pc EXCEPT ![c] = "Set"]
  /\ cur' = [cur EXCEPT ![c] = e]
  /\ calls' = calls + 1
  /\ UNCHANGED <<cache, feed, stored>>

\* c.SetDefault(key, true): stores the key, or renews it when another
\* caller stored it after c's Get.
SetDefault(c) ==
  /\ pc[c] = "Set"
  /\ cache' = cache \cup {Key(cur[c])}
  /\ stored' = [stored EXCEPT ![Key(cur[c])] = @ \cup {c}]
  /\ pc' = [pc EXCEPT ![c] = "Send"]
  /\ UNCHANGED <<cur, feed, calls>>

\* feed.Send of the API message in the format useNewAPI selects.
Send(c) ==
  /\ pc[c] = "Send"
  /\ feed' = [feed EXCEPT ![APIMsg(cur[c])] = @ + 1]
  /\ pc' = [pc EXCEPT ![c] = "Idle"]
  /\ cur' = [cur EXCEPT ![c] = NoEntry]
  /\ UNCHANGED <<cache, calls, stored>>

\* An entry outlives the one-minute default expiration: Get no longer
\* returns it (the janitor's later deletion changes nothing visible).
Expire(k) ==
  /\ k \in cache
  /\ cache' = cache \ {k}
  /\ stored' = [stored EXCEPT ![k] = {}]
  /\ UNCHANGED <<pc, cur, feed, calls>>

Next ==
  \/ \E c \in Callers, e \in Entries : Hit(c, e) \/ Miss(c, e)
  \/ \E c \in Callers : SetDefault(c) \/ Send(c)
  \/ \E k \in cache : Expire(k)

Spec == Init /\ [][Next]_vars

-----------------------------------------------------------------------------
\* Type invariant.
TypeOK ==
  /\ cache \subseteq Keys
  /\ pc \in [Callers -> {"Idle", "Set", "Send"}]
  /\ cur \in [Callers -> Entries \cup {NoEntry}]
  /\ feed \in [APIMsgs -> Nat]
  /\ calls \in 0..MaxCalls
  /\ stored \in [Keys -> SUBSET Callers]

(***************************************************************************)
(* Refinement mapping.  An entry counts as broadcast from the SetDefault   *)
(* of the caller that will send it, so the abstract Publish is that       *)
(* SetDefault and the Send that follows is a stutter.  The broadcasts of  *)
(* a key in its current lifetime are the SetDefaults since it entered the *)
(* cache.                                                                  *)
(***************************************************************************)
PendingFor(e) == {c \in Callers : pc[c] = "Send" /\ cur[c] = e}

sentBar == [e \in Entries |-> feed[APIMsg(e)] + Cardinality(PendingFor(e))]

liveBar == [k \in Keys |-> Cardinality(stored[k])]

Feed == INSTANCE DecidedFeed
          WITH live <- liveBar, sent <- sentBar,
               MaxPerLifetime <- Cardinality(Callers)

ExactFeed == INSTANCE DecidedFeed
               WITH live <- liveBar, sent <- sentBar, MaxPerLifetime <- 1

\* The cache bounds the flooding by the concurrency of the callers: within
\* one cache lifetime of a key, entries of that key reach the feed at most
\* once per caller goroutine, whatever the interleaving of Get, SetDefault
\* and Send and whenever keys expire.
AbstractFeed == Feed!Spec

\* The comment at stream.go:18 read as exact de-duplication: within one
\* cache lifetime a key's entries reach the feed once (checked by the run
\* stream_exact_dedup).
ExactDedup == ExactFeed!Spec

=============================================================================
