---------------------- MODULE AdmissionEvictionProofs ----------------------
(***************************************************************************)
(* What eviction on ReachedLimits keeps and what it loses.  The counter    *)
(* itself stays within its limits: the invariant IInv of the pipeline     *)
(* proofs is still inductive with Evict, because the pipeline only evicts  *)
(* while the lock is free, so no worker holds a validation Evict could     *)
(* make stale.  What breaks is the round: ReachedLimits holds as soon as   *)
(* one message of any kind but Decided is counted, so eviction forgets a   *)
(* key that is far from saturated (the run eviction_replay).               *)
(***************************************************************************)
EXTENDS AdmissionEviction, MessageAdmissionProofs

\* ReachedLimits reports a key saturated once any kind other than Decided
\* has been counted once: every limit but Decided's is 1.
LEMMA ReachedLimitsAfterOne ==
  ASSUME NEW c \in [CountedKinds -> Nat], NEW n \in Nat,
         NEW k \in CountedKinds \ {"Decided"}, c[k] >= 1
  PROVE  ReachedLimits(c, MaxMessageCounts(n))
BY DEF ReachedLimits, MaxMessageCounts

\* An eviction step keeps the pipeline's inductive invariant.
LEMMA EvictIInv == IInv /\ Evict => IInv'
<1> SUFFICES ASSUME IInv, Evict PROVE IInv'
  OBVIOUS
<1>1. \A w \in Workers : pc[w] = "Idle"
  BY WorkersAssumption DEF Evict, IInv, TypeOK
<1>2. counts' \in [CountedKinds -> 0..MaxDeliveries]
  BY MaxDeliveriesAssumption DEF Evict, ZeroCounts
<1>3. \A k \in CountedKinds : counts'[k] = 0
  BY DEF Evict, ZeroCounts
<1>4. QED
  BY <1>1, <1>2, <1>3 DEF Evict, IInv, TypeOK, InFlight, BoundedKinds

LEMMA NextWithEvictionIInv == IInv /\ [NextWithEviction]_vars => IInv'
<1> SUFFICES ASSUME IInv, [NextWithEviction]_vars PROVE IInv'
  OBVIOUS
<1>1. CASE Evict
  BY <1>1, EvictIInv
<1>2. CASE [Next]_vars
  BY <1>2, NextIInv
<1>3. QED
  BY <1>1, <1>2 DEF NextWithEviction

\* A pipeline that evicts a key whenever ReachedLimits reports it
\* saturated still never lets a bounded field of the key's MessageCounts
\* pass its limit, nor any field pass MaxDeliveries, for every committee
\* size, set of workers and number of deliveries.
THEOREM EvictionCountsWithinLimits ==
  SpecWithEviction => [](TypeOK /\ CountsWithinLimits)
<1>1. SpecWithEviction => []IInv
  BY InitIInv, NextWithEvictionIInv, PTL DEF SpecWithEviction
<1>2. IInv => TypeOK
  BY DEF IInv
<1>3. IInv => CountsWithinLimits
  BY CommitteeSizeAssumption
  DEF IInv, TypeOK, CountsWithinLimits, MaxMessageCounts, BoundedKinds,
      CountedKinds
<1>4. QED
  BY <1>1, <1>2, <1>3, PTL

=============================================================================
