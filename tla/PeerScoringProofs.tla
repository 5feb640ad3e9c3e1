------------------------- MODULE PeerScoringProofs -------------------------
(***************************************************************************)
(* Proof that the score inspector never blames a peer that admission never *)
(* rejected a message from (NoFalseBlame), for every set of peers and      *)
(* topics, every inspector params table and every counter bound.           *)
(***************************************************************************)
EXTENDS PeerScoring, TLAPS

(***************************************************************************)
(* NoFalseBlame is not inductive: Inspect recomputes every tracked peer's  *)
(* record from the engine's counters, so the proof must know those         *)
(* counters are zero for a peer never charged with a reject.  Only         *)
(* InvalidDelivery raises an invalid counter, and it charges the peer;     *)
(* Forget and Decay only lower counters.                                   *)
(***************************************************************************)
CleanUnlessRejected ==
  \A p \in Peers \ rejectedFrom : \A t \in Topics : invalid[p][t] = 0

BlameInv ==
  /\ invalid \in [Peers -> [Topics -> Nat]]
  /\ CleanUnlessRejected
  /\ NoFalseBlame

-----------------------------------------------------------------------------
\* The inspector's invalid tally of a peer with no invalid delivery on any
\* topic is zero: the sum runs over the empty set of topics.
LEMMA NoInvalidNoTally ==
  ASSUME NEW p, \A t \in Topics : invalid[p][t] = 0
  PROVE  TotalInvalidMilli(p) = 0
<1>1. {t \in Topics : invalid[p][t] > 0} = {}
  OBVIOUS
<1>2. MapThenSumSet(LAMBDA t : SqrtMilli(invalid[p][t]), {}) = 0
  BY DEF MapThenSumSet, MapThenFoldSet
<1>3. QED
  BY <1>1, <1>2 DEF TotalInvalidMilli

LEMMA InitBlameInv == Init => BlameInv
BY DEF Init, BlameInv, CleanUnlessRejected, NoFalseBlame

LEMMA NextBlameInv == BlameInv /\ [Next]_vars => BlameInv'
<1> SUFFICES ASSUME BlameInv, [Next]_vars PROVE BlameInv'
  OBVIOUS
<1>1. ASSUME NEW p \in Peers, Connect(p) \/ Disconnect(p) \/ Forget(p),
             UNCHANGED <<report, gauged>>
      PROVE  BlameInv'
  <2>1. CASE Connect(p) \/ Disconnect(p)
    BY <1>1, <2>1 DEF Connect, Disconnect, BlameInv, CleanUnlessRejected,
                      NoFalseBlame
  <2>2. CASE Forget(p)
    BY <1>1, <2>2 DEF Forget, BlameInv, CleanUnlessRejected, NoFalseBlame
  <2>3. QED
    BY <1>1, <2>1, <2>2
<1>2. ASSUME NEW p \in Peers, NEW t \in Topics,
             InvalidDelivery(p, t) \/ MeshDelivery(p, t),
             UNCHANGED <<report, gauged>>
      PROVE  BlameInv'
  <2>1. CASE InvalidDelivery(p, t)
    BY <1>2, <2>1 DEF InvalidDelivery, BlameInv, CleanUnlessRejected,
                      NoFalseBlame
  <2>2. CASE MeshDelivery(p, t)
    BY <1>2, <2>2 DEF MeshDelivery, BlameInv, CleanUnlessRejected,
                      NoFalseBlame
  <2>3. QED
    BY <1>2, <2>1, <2>2
<1>3. ASSUME NEW p \in Peers, NEW t \in Topics, Decay(p, t),
             UNCHANGED <<report, gauged>>
      PROVE  BlameInv'
  <2>1. PICK i \in 0..invalid[p][t], j \in 0..mesh[p][t] :
               invalid' = [invalid EXCEPT ![p][t] = i]
    BY <1>3 DEF Decay
  <2>2. invalid' \in [Peers -> [Topics -> Nat]]
    BY <2>1 DEF BlameInv
  <2>3. CleanUnlessRejected'
    BY <1>3, <2>1 DEF Decay, BlameInv, CleanUnlessRejected
  <2>4. QED
    BY <1>3, <2>2, <2>3 DEF Decay, BlameInv, NoFalseBlame
<1>4. CASE Inspect
  <2>1. SUFFICES ASSUME NEW p \in Peers,
                        report'[p] # Nil, report'[p].totalInvalid > 0
                 PROVE  p \in rejectedFrom
    BY <1>4 DEF Inspect, engineVars, BlameInv, CleanUnlessRejected, NoFalseBlame
  <2>2. CASE p \in tracked
    <3>1. report'[p].totalInvalid = TotalInvalidMilli(p)
      BY <1>4, <2>2 DEF Inspect, PeerRecord
    <3>2. p \notin rejectedFrom => TotalInvalidMilli(p) = 0
      BY NoInvalidNoTally DEF BlameInv, CleanUnlessRejected
    <3>3. QED
      BY <2>1, <3>1, <3>2
  <2>3. CASE p \notin tracked
    BY <1>4, <2>1, <2>3 DEF Inspect, engineVars, BlameInv, NoFalseBlame
  <2>4. QED
    BY <2>2, <2>3
<1>5. CASE UNCHANGED vars
  BY <1>5 DEF vars, BlameInv, CleanUnlessRejected, NoFalseBlame
<1>6. QED
  BY <1>1, <1>2, <1>3, <1>4, <1>5 DEF Next, Engine

\* The strengthened invariant holds in every reachable state.
THEOREM BlameInvHolds == Spec => []BlameInv
BY InitBlameInv, NextBlameInv, PTL DEF Spec

\* The inspector's "peer scores" record never shows invalid messages for a
\* peer that admission never rejected a message from, whatever the engine
\* does between inspections (connects, disconnects, decay, expiry).
THEOREM NoFalseBlameHolds == Spec => []NoFalseBlame
BY BlameInvHolds, PTL DEF BlameInv

=============================================================================
