-------------------------- MODULE MessageAdmission --------------------------
(***************************************************************************)
(* One AdmissionKey (duty, slot, round, signer) and the message-handling   *)
(* pipeline that feeds its MessageCounts: several workers deliver          *)
(* messages for the key; each takes the per-key lock, calls Validate, and  *)
(* either drops the message or calls Record before unlocking (spec.md      *)
(* sections 5 and 9; the pipeline itself is not in src/).  Validate and    *)
(* Record are the operators of MessageCounts.                              *)
(***************************************************************************)
EXTENDS MessageCounts, Sequences

CONSTANTS
  \* Goroutines delivering gossip messages for the key.
  Workers,
  \* Lock owner when the per-key lock is free; message slot of an idle
  \* worker.
  NoWorker, NoMsg,
  \* Number of messages delivered for the key before its round ends.
  MaxDeliveries

ASSUME WorkersAssumption == NoWorker \notin Workers
ASSUME NoMsgAssumption == NoMsg \notin Messages
ASSUME MaxDeliveriesAssumption == MaxDeliveries \in Nat

VARIABLES
  counts,     \* the key's MessageCounts
  lock,       \* holder of the key's mutex, or NoWorker
  pc,         \* "Idle" or "Recording" (validated, Record not yet done)
  msg,        \* message a worker is handling
  log,        \* RecordedKind of every accepted message, in Record order
  delivered   \* messages delivered for the key so far

vars == <<counts, lock, pc, msg, log, delivered>>

Init ==
  /\ counts = ZeroCounts
  /\ lock = NoWorker
  /\ pc = [w \in Workers |-> "Idle"]
  /\ msg = [w \in Workers |-> NoMsg]
  /\ log = <<>>
  /\ delivered = 0

\* Worker w takes the key's lock and Validate accepts m.
Accept(w, m) ==
  /\ pc[w] = "Idle"
  /\ delivered < MaxDeliveries
  /\ lock = NoWorker
  /\ ~ValidateErr(counts, m)
  /\ lock' = w
  /\ pc' = [pc EXCEPT ![w] = "Recording"]
  /\ msg' = [msg EXCEPT ![w] = m]
  /\ delivered' = delivered + 1
  /\ UNCHANGED <<counts, log>>

\* Worker w takes the lock, Validate returns an error, the message is
\* dropped and the lock released.
Reject(w, m) ==
  /\ pc[w] = "Idle"
  /\ delivered < MaxDeliveries
  /\ lock = NoWorker
  /\ ValidateErr(counts, m)
  /\ delivered' = delivered + 1
  /\ UNCHANGED <<counts, lock, pc, msg, log>>

\* Worker w calls Record on the message it validated and unlocks the key.
RecordStep(w) ==
  /\ pc[w] = "Recording"
  /\ counts' = Record(counts, msg[w])
  /\ log' = Append(log, RecordedKind(msg[w]))
  /\ lock' = NoWorker
  /\ pc' = [pc EXCEPT ![w] = "Idle"]
  /\ msg' = [msg EXCEPT ![w] = NoMsg]
  /\ UNCHANGED delivered

Next ==
  \/ \E w \in Workers, m \in Messages : Accept(w, m) \/ Reject(w, m)
  \/ \E w \in Workers : RecordStep(w)

Spec == Init /\ [][Next]_vars

-----------------------------------------------------------------------------
(***************************************************************************)
(* Properties                                                              *)
(***************************************************************************)

\* Type invariant; a field of MessageCounts never exceeds the number of
\* messages delivered for the key.
TypeOK ==
  /\ counts \in [CountedKinds -> 0..MaxDeliveries]
  /\ lock \in Workers \cup {NoWorker}
  /\ pc \in [Workers -> {"Idle", "Recording"}]
  /\ msg \in [Workers -> Messages \cup {NoMsg}]
  /\ log \in Seq(CountedKinds \cup {"None"})
  /\ delivered \in 0..MaxDeliveries

\* The kinds the protocol allows at most a bounded number of from one
\* signer in one round: every field but Proposal, which Validate never
\* bounds (see the run proposal_duplicate).
BoundedKinds == CountedKinds \ {"Proposal"}

\* Validate-then-Record never lets a bounded field pass its
\* maxMessageCounts limit, whatever the interleaving of the workers
\* delivering messages for the key.
CountsWithinLimits ==
  \A k \in BoundedKinds : counts[k] <= MaxMessageCounts(CommitteeSize)[k]

\* a must come before b from one signer in one round (spec.md 4.1): a
\* Proposal or a Prepare before any Commit, Decided or PostConsensus, a
\* Commit before a Decided or PostConsensus, a Decided before PostConsensus.
MustPrecede(a, b) ==
  \/ a \in {"Proposal", "Prepare"} /\ b \in {"Commit", "Decided", "PostConsensus"}
  \/ a = "Commit" /\ b \in {"Decided", "PostConsensus"}
  \/ a = "Decided" /\ b = "PostConsensus"

\* The messages Record counted for the key are in protocol order: no
\* accepted message is one that had to precede a message accepted earlier.
OrderRespected ==
  \A i, j \in 1..Len(log) : i < j => ~MustPrecede(log[j], log[i])

\* Spec.md 4.1: at most one message of each kind per signer and round;
\* here, of Proposal (checked by the run proposal_duplicate).
AtMostOneProposal == counts.Proposal <= 1

\* Spec.md 4.1 and 8: a Decided (Commit with several signers) is accepted
\* while the Decided count is below committeeSize + 1 and no PostConsensus
\* was seen (checked by the run decided_limit).
DecidedAcceptedBelowLimit ==
  [][\A w \in Workers, m \in Messages :
       ( /\ RecordedKind(m) = "Decided"
         /\ counts.Decided < MaxMessageCounts(CommitteeSize).Decided
         /\ counts.PostConsensus = 0
         /\ lock = NoWorker /\ pc[w] = "Idle"
         /\ delivered < MaxDeliveries )
       => ~Reject(w, m)]_vars

\* Spec.md 4.1 and 7: a message kind the taxonomy does not recognise is
\* rejected, so every accepted message is counted by Record (checked by
\* the run unrecognized_rejected).
AcceptedAreRecognized ==
  [][\A w \in Workers : RecordStep(w) => RecordedKind(msg[w]) # "None"]_vars

=============================================================================
