-------------------------- MODULE AdmissionEviction --------------------------
(***************************************************************************)
(* The admission pipeline of MessageAdmission with the eviction spec.md    *)
(* 4.1 describes: the pipeline drops a key's MessageCounts once            *)
(* ReachedLimits reports it saturated, and the next message for the key    *)
(* finds a fresh zero counter (keys are created lazily, spec.md 3).  The   *)
(* round does not end on eviction: log keeps every message recorded for    *)
(* the signer in the round, across counter lifetimes.                      *)
(***************************************************************************)
EXTENDS MessageAdmission

\* The pipeline evicts the key while no worker holds its lock.
Evict ==
  /\ lock = NoWorker
  /\ ReachedLimits(counts, MaxMessageCounts(CommitteeSize))
  /\ counts' = ZeroCounts
  /\ UNCHANGED <<lock, pc, msg, log, delivered>>

NextWithEviction == Next \/ Evict

SpecWithEviction == Init /\ [][NextWithEviction]_vars

\* Number of messages of kind k recorded in the round.
RecordedInRound(k) == Len(SelectSeq(log, LAMBDA x : x = k))

\* Spec.md 4.1: a signer contributes at most the limit of each bounded kind
\* in a round, however often the pipeline evicts and recreates the key's
\* counter (checked by the run eviction_replay).
RoundWithinLimits ==
  \A k \in BoundedKinds : RecordedInRound(k) <= MaxMessageCounts(CommitteeSize)[k]

=============================================================================
