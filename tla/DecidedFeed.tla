----------------------------- MODULE DecidedFeed -----------------------------
(***************************************************************************)
(* What the decided stream publisher of src/exporter/api/decided/stream.go *)
(* promises its websocket subscribers: messages are "cached (1m TTL) to   *)
(* avoid flooding".  Within one lifetime of a de-duplication key, entries  *)
(* of that key are broadcast at most MaxPerLifetime times; the lifetime    *)
(* starts with the first broadcast and ends when the key expires.  With    *)
(* MaxPerLifetime = 1 this is exact de-duplication.                        *)
(***************************************************************************)
EXTENDS Naturals

CONSTANTS
  Entries,         \* decided entries that can be handed to the publisher
  Key(_),          \* the de-duplication key of an entry
  MaxPerLifetime   \* broadcasts of one key allowed within one lifetime

KeySet == {Key(e) : e \in Entries}

VARIABLES
  live,      \* live[k]: broadcasts of key k in its current lifetime, 0 if none
  sent       \* sent[e]: how many times e was broadcast

vars == <<live, sent>>

Init ==
  /\ live = [k \in KeySet |-> 0]
  /\ sent = [e \in Entries |-> 0]

\* e is broadcast within the allowance of its key's lifetime.
Publish(e) ==
  /\ live[Key(e)] < MaxPerLifetime
  /\ live' = [live EXCEPT ![Key(e)] = @ + 1]
  /\ sent' = [sent EXCEPT ![e] = @ + 1]

\* The lifetime of a live key runs out.
Expire(k) ==
  /\ live[k] > 0
  /\ live' = [live EXCEPT ![k] = 0]
  /\ UNCHANGED sent

Next ==
  \/ \E e \in Entries : Publish(e)
  \/ \E k \in KeySet : Expire(k)

Spec == Init /\ [][Next]_vars

=============================================================================
