------------------------- MODULE DecidedStreamProofs -------------------------
(***************************************************************************)
(* Proof that the decided stream handler implements DecidedFeed with one  *)
(* broadcast per caller per key lifetime, for every set of identifiers,   *)
(* slots, operators and callers and every call bound.                      *)
(***************************************************************************)
EXTENDS DecidedStream, FiniteSetTheorems, TLAPS

(***************************************************************************)
(* The inductive invariant.  A key is cached exactly while some caller has *)
(* stored it in its lifetime.  A caller between Get and SetDefault has not *)
(* stored its key in the key's current lifetime: it missed the key, so the *)
(* key was not cached then, and a later expiry starts a new lifetime.     *)
(***************************************************************************)
StreamInv ==
  /\ TypeOK
  /\ \A c \in Callers : pc[c] # "Idle" => cur[c] \in Entries
  /\ \A k \in Keys : k \in cache <=> stored[k] # {}
  /\ \A c \in Callers : pc[c] = "Set" => c \notin stored[Key(cur[c])]


-----------------------------------------------------------------------------
\* Every set of callers is finite and has a natural cardinality.
LEMMA CallerSetsFinite ==
  ASSUME NEW S \in SUBSET Callers
  PROVE  IsFiniteSet(S) /\ Cardinality(S) \in Nat
BY StreamAssumption, FS_Subset, FS_CardinalityType

\* A set of callers that misses one caller has fewer members than Callers.
LEMMA FewerThanCallers ==
  ASSUME NEW S \in SUBSET Callers, NEW c \in Callers, c \notin S
  PROVE  Cardinality(S) < Cardinality(Callers)
<1>1. IsFiniteSet(Callers \ {c})
      /\ Cardinality(Callers \ {c}) = Cardinality(Callers) - 1
  BY StreamAssumption, FS_RemoveElement
<1>2. Cardinality(S) <= Cardinality(Callers \ {c})
  BY <1>1, FS_Subset
<1>3. Cardinality(Callers) \in Nat /\ Cardinality(S) \in Nat
  BY StreamAssumption, CallerSetsFinite, FS_CardinalityType
<1>4. QED
  BY <1>1, <1>2, <1>3

LEMMA InitStreamInv == Init => StreamInv
BY StreamAssumption DEF Init, StreamInv, TypeOK

LEMMA NextStreamInv == StreamInv /\ [Next]_vars => StreamInv'
<1> SUFFICES ASSUME StreamInv, [Next]_vars PROVE StreamInv'
  OBVIOUS
<1>1. ASSUME NEW c \in Callers, NEW e \in Entries, Hit(c, e)
      PROVE  StreamInv'
  BY <1>1, StreamAssumption DEF StreamInv, TypeOK, Hit
<1>2. ASSUME NEW c \in Callers, NEW e \in Entries, Miss(c, e)
      PROVE  StreamInv'
  <2>1. Key(e) \in Keys /\ stored[Key(e)] = {}
    BY <1>2 DEF StreamInv, TypeOK, Miss, Keys
  <2>2. QED
    BY <1>2, <2>1, StreamAssumption DEF StreamInv, TypeOK, Miss
<1>3. ASSUME NEW c \in Callers, SetDefault(c)
      PROVE  StreamInv'
  <2>1. cur[c] \in Entries /\ Key(cur[c]) \in Keys
    BY <1>3 DEF StreamInv, SetDefault, Keys
  <2>2. TypeOK'
    BY <1>3, <2>1 DEF StreamInv, TypeOK, SetDefault
  <2>3. \A k \in Keys : k \in cache' <=> stored'[k] # {}
    BY <1>3, <2>1 DEF StreamInv, TypeOK, SetDefault
  <2>4. ASSUME NEW d \in Callers, pc'[d] = "Set"
        PROVE  d \notin stored'[Key(cur'[d])]
    <3>1. d # c /\ pc[d] = "Set" /\ cur'[d] = cur[d] /\ cur[d] \in Entries
      BY <1>3, <2>4 DEF StreamInv, TypeOK, SetDefault
    <3>2. Key(cur[d]) \in Keys
      BY <3>1 DEF Keys
    <3>3. QED
      BY <1>3, <2>1, <3>1, <3>2 DEF StreamInv, TypeOK, SetDefault
  <2>5. QED
    BY <1>3, <2>2, <2>3, <2>4 DEF StreamInv, TypeOK, SetDefault
<1>4. ASSUME NEW c \in Callers, Send(c)
      PROVE  StreamInv'
  <2>1. APIMsg(cur[c]) \in APIMsgs
    BY <1>4 DEF StreamInv, Send, APIMsgs
  <2>2. QED
    BY <1>4, <2>1 DEF StreamInv, TypeOK, Send
<1>5. ASSUME NEW k \in cache, Expire(k)
      PROVE  StreamInv'
  <2>1. k \in Keys
    BY DEF StreamInv, TypeOK
  <2>2. QED
    BY <1>5, <2>1 DEF StreamInv, TypeOK, Expire
<1>6. CASE UNCHANGED vars
  BY <1>6 DEF StreamInv, TypeOK, vars
<1>7. QED
  BY <1>1, <1>2, <1>3, <1>4, <1>5, <1>6 DEF Next

\* The handler keeps StreamInv, whatever the interleaving of its callers.
THEOREM StreamInvHolds == Spec => []StreamInv
BY InitStreamInv, NextStreamInv, PTL DEF Spec

-----------------------------------------------------------------------------
(***************************************************************************)
(* Refinement.  Init maps to DecidedFeed's Init.  SetDefault(c) is        *)
(* Publish of c's entry: c has not stored the key in its lifetime         *)
(* (StreamInv), so fewer than all callers have, and both the key's count  *)
(* and the entry's sentBar grow by one.  Send moves c from PendingFor to  *)
(* the feed, a stutter.  Expire is Expire: a cached key has a non-empty   *)
(* stored set.  Hit and Miss change neither liveBar nor sentBar.          *)
(***************************************************************************)

\* Different entries give different API messages.
LEMMA APIMsgInjective ==
  ASSUME NEW e1 \in Entries, NEW e2 \in Entries, APIMsg(e1) = APIMsg(e2)
  PROVE  e1 = e2
BY DEF APIMsg

\* The abstract specification's keys are the handler's keys.
LEMMA FeedKeys == Feed!KeySet = Keys
BY DEF Feed!KeySet, Keys

\* A step that changes neither the feed, nor who is about to send what,
\* nor the stored sets leaves the refinement mapping alone.
LEMMA MappingUnchanged ==
  ASSUME feed' = feed, stored' = stored,
         \A e \in Entries : PendingFor(e)' = PendingFor(e)
  PROVE  sentBar' = sentBar /\ liveBar' = liveBar
BY DEF sentBar, liveBar

LEMMA InitRefines == Init => Feed!Init
<1> SUFFICES ASSUME Init PROVE Feed!Init
  OBVIOUS
<1>1. \A e \in Entries : PendingFor(e) = {}
  BY DEF Init, PendingFor
<1>2. \A e \in Entries : APIMsg(e) \in APIMsgs
  BY DEF APIMsgs
<1>3. sentBar = [e \in Entries |-> 0]
  BY <1>1, <1>2, FS_EmptySet DEF Init, sentBar
<1>4. liveBar = [k \in Keys |-> 0]
  BY FS_EmptySet DEF Init, liveBar
<1>5. QED
  BY <1>3, <1>4, FeedKeys DEF Feed!Init

LEMMA NextRefines ==
  StreamInv /\ [Next]_vars => [Feed!Next]_<<liveBar, sentBar>>
<1> SUFFICES ASSUME StreamInv, [Next]_vars
             PROVE  [Feed!Next]_<<liveBar, sentBar>>
  OBVIOUS
<1>0. /\ \A x \in Entries : APIMsg(x) \in APIMsgs /\ feed[APIMsg(x)] \in Nat
      /\ \A x \in Entries : IsFiniteSet(PendingFor(x))
                            /\ Cardinality(PendingFor(x)) \in Nat
  <2>1. \A x \in Entries : APIMsg(x) \in APIMsgs /\ feed[APIMsg(x)] \in Nat
    BY DEF APIMsgs, StreamInv, TypeOK
  <2>2. \A x \in Entries : PendingFor(x) \in SUBSET Callers
    BY DEF PendingFor
  <2>3. QED
    BY <2>1, <2>2, CallerSetsFinite
<1>1. ASSUME NEW c \in Callers, NEW e \in Entries, Hit(c, e)
      PROVE  UNCHANGED <<liveBar, sentBar>>
  <2>1. \A x \in Entries : PendingFor(x)' = PendingFor(x)
    BY <1>1 DEF Hit, PendingFor
  <2>2. QED
    BY <1>1, <2>1, MappingUnchanged DEF Hit
<1>2. ASSUME NEW c \in Callers, NEW e \in Entries, Miss(c, e)
      PROVE  UNCHANGED <<liveBar, sentBar>>
  <2>1. \A x \in Entries : PendingFor(x)' = PendingFor(x)
    BY <1>2 DEF Miss, PendingFor, StreamInv, TypeOK
  <2>2. QED
    BY <1>2, <2>1, MappingUnchanged DEF Miss
<1>3. ASSUME NEW c \in Callers, SetDefault(c)
      PROVE  Feed!Next
  <2>1. PICK e \in Entries : e = cur[c]
    BY <1>3 DEF StreamInv, SetDefault
  <2> DEFINE K == Key(e)
  <2>2. K \in Keys /\ stored[K] \in SUBSET Callers /\ c \notin stored[K]
    BY <1>3, <2>1 DEF StreamInv, TypeOK, SetDefault, Keys
  <2>3. liveBar[K] < Cardinality(Callers)
    BY <2>2, FewerThanCallers DEF liveBar
  <2>4. liveBar' = [liveBar EXCEPT ![K] = @ + 1]
    <3> SUFFICES ASSUME NEW k \in Keys
                 PROVE  liveBar'[k] = IF k = K THEN liveBar[k] + 1 ELSE liveBar[k]
      BY DEF liveBar
    <3>1. CASE k = K
      <4>1. stored'[K] = stored[K] \cup {c}
        BY <1>3, <2>1, <2>2 DEF SetDefault, StreamInv, TypeOK
      <4>2. IsFiniteSet(stored[K])
        BY <2>2, CallerSetsFinite
      <4>3. QED
        BY <2>2, <3>1, <4>1, <4>2, FS_AddElement DEF liveBar
    <3>2. CASE k # K
      BY <1>3, <2>1, <3>2 DEF SetDefault, StreamInv, TypeOK, liveBar
    <3>3. QED
      BY <3>1, <3>2
  <2>5. sentBar' = [sentBar EXCEPT ![e] = @ + 1]
    <3> SUFFICES ASSUME NEW x \in Entries
                 PROVE  sentBar'[x] = IF x = e THEN sentBar[x] + 1 ELSE sentBar[x]
      BY DEF sentBar
    <3>1. feed' = feed
      BY <1>3 DEF SetDefault
    <3>2. CASE x = e
      <4>1. PendingFor(e)' = PendingFor(e) \cup {c} /\ c \notin PendingFor(e)
        BY <1>3, <2>1 DEF SetDefault, PendingFor, StreamInv, TypeOK
      <4>2. Cardinality(PendingFor(e)') = Cardinality(PendingFor(e)) + 1
        BY <1>0, <4>1, FS_AddElement
      <4>3. QED
        BY <1>0, <3>1, <3>2, <4>2 DEF sentBar
    <3>3. CASE x # e
      <4>1. PendingFor(x)' = PendingFor(x)
        BY <1>3, <2>1, <3>3 DEF SetDefault, PendingFor, StreamInv, TypeOK
      <4>2. QED
        BY <3>1, <3>3, <4>1 DEF sentBar
    <3>4. QED
      BY <3>2, <3>3
  <2>6. Feed!Publish(e)
    BY <2>3, <2>4, <2>5 DEF Feed!Publish
  <2>7. QED
    BY <2>6 DEF Feed!Next
<1>4. ASSUME NEW c \in Callers, Send(c)
      PROVE  UNCHANGED <<liveBar, sentBar>>
  <2>1. PICK e \in Entries : e = cur[c]
    BY <1>4 DEF StreamInv, Send
  <2>2. PendingFor(e)' = PendingFor(e) \ {c} /\ c \in PendingFor(e)
    BY <1>4, <2>1 DEF Send, PendingFor, StreamInv, TypeOK
  <2>3. Cardinality(PendingFor(e)') = Cardinality(PendingFor(e)) - 1
    BY <1>0, <2>2, FS_RemoveElement
  <2>4. \A x \in Entries : x # e => PendingFor(x)' = PendingFor(x)
    BY <1>4, <2>1 DEF Send, PendingFor, StreamInv, TypeOK
  <2>5. \A x \in Entries : x # e => feed'[APIMsg(x)] = feed[APIMsg(x)]
    BY <1>4, <2>1, APIMsgInjective DEF Send
  <2>6. feed'[APIMsg(e)] = feed[APIMsg(e)] + 1
    BY <1>0, <1>4, <2>1 DEF Send, StreamInv, TypeOK
  <2>7. sentBar' = sentBar
    <3> SUFFICES ASSUME NEW x \in Entries PROVE sentBar'[x] = sentBar[x]
      BY DEF sentBar
    <3>1. CASE x = e
      <4>1. Cardinality(PendingFor(e)) \in Nat \ {0}
        BY <1>0, <2>2, FS_EmptySet
      <4>2. QED
        BY <1>0, <2>3, <2>6, <3>1, <4>1 DEF sentBar
    <3>2. CASE x # e
      BY <1>0, <2>4, <2>5, <3>2 DEF sentBar
    <3>3. QED
      BY <3>1, <3>2
  <2>8. liveBar' = liveBar
    BY <1>4 DEF Send, liveBar
  <2>9. QED
    BY <2>7, <2>8
<1>5. ASSUME NEW k \in cache, Expire(k)
      PROVE  Feed!Next
  <2>1. k \in Keys /\ stored[k] # {} /\ stored[k] \in SUBSET Callers
    BY DEF StreamInv, TypeOK
  <2>2. liveBar[k] > 0
    BY <2>1, CallerSetsFinite, FS_EmptySet DEF liveBar
  <2>3. liveBar' = [liveBar EXCEPT ![k] = 0]
    BY <1>5, <2>1, FS_EmptySet DEF Expire, liveBar, StreamInv, TypeOK
  <2>4. \A x \in Entries : PendingFor(x)' = PendingFor(x)
    BY <1>5 DEF Expire, PendingFor
  <2>5. sentBar' = sentBar
    BY <1>5, <2>4 DEF Expire, sentBar
  <2>6. Feed!Expire(k)
    BY <2>2, <2>3, <2>5 DEF Feed!Expire
  <2>7. QED
    BY <2>1, <2>6, FeedKeys DEF Feed!Next
<1>6. CASE UNCHANGED vars
  <2>1. \A x \in Entries : PendingFor(x)' = PendingFor(x)
    BY <1>6 DEF vars, PendingFor
  <2>2. QED
    BY <1>6, <2>1, MappingUnchanged DEF vars
<1>7. QED
  BY <1>1, <1>2, <1>3, <1>4, <1>5, <1>6 DEF Next

\* However its callers interleave Get, SetDefault and Send and whenever
\* keys expire, the handler broadcasts the entries of a key at most once
\* per caller goroutine within one cache lifetime of the key, for every
\* number of callers: the de-duplication loses only to concurrency.
THEOREM ImplementsFeed == Spec => AbstractFeed
<1>1. Spec => []StreamInv
  BY StreamInvHolds
<1>2. QED
  BY <1>1, InitRefines, NextRefines, PTL
  DEF Spec, AbstractFeed, Feed!Spec, Feed!vars

=============================================================================
