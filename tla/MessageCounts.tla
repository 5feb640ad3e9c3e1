--------------------------- MODULE MessageCounts ---------------------------
(***************************************************************************)
(* Message taxonomy and the per-(duty, slot, round, signer) counter of     *)
(* message/validation/message_counts.go (src/unnamed/part_002):            *)
(* maxMessageCounts, MessageCounts, Validate, Record and ReachedLimits.    *)
(* The counter is a plain value; this module holds only pure operators     *)
(* over it.  The pipeline that calls them is MessageAdmission.             *)
(***************************************************************************)
EXTENDS Naturals

CONSTANTS
  \* Number of operators in the committee of the duty (maxMessageCounts'
  \* committeeSize argument).
  CommitteeSize,
  \* The partial-signature types classified as pre-consensus: Randao,
  \* SelectionProof, ContributionProofs, ValidatorRegistration.
  PreConsensusSigTypes,
  \* Largest signer count of a Commit message put to the counter.
  MaxSigners

ASSUME CommitteeSizeAssumption == CommitteeSize \in Nat \ {0}
ASSUME MaxSignersAssumption == MaxSigners \in Nat \ {0, 1}

\* The seven fields of the MessageCounts struct.
CountedKinds ==
  {"PreConsensus", "Proposal", "Prepare", "Commit", "Decided",
   "RoundChange", "PostConsensus"}

\* QBFT message types; UnknownMsgType stands for any other MsgType value.
QBFTMsgTypes ==
  {"ProposalMsgType", "PrepareMsgType", "CommitMsgType",
   "RoundChangeMsgType", "UnknownMsgType"}

\* Partial-signature message types; UnknownPartialSigType is any other.
PartialSigTypes ==
  PreConsensusSigTypes \cup {"PostConsensusPartialSig", "UnknownPartialSigType"}

\* A decoded message, abstracted to what Validate and Record look at: the
\* body's dynamic type, its message type and len(Signers).  A message with
\* no signers never reaches the counter: "0-length signers should be
\* checked before" (Record, line 122).
Messages ==
  [body : {"SignedMessage"}, type : QBFTMsgTypes, signers : 1..MaxSigners]
  \cup [body : {"SignedPartialSignatureMessage"}, type : PartialSigTypes,
        signers : {1}]
  \cup [body : {"OtherBody"}, type : {"None"}, signers : {1}]

\* maxMessageCounts(committeeSize).
MaxMessageCounts(committeeSize) ==
  [k \in CountedKinds |-> IF k = "Decided" THEN committeeSize + 1 ELSE 1]

\* The zero value MessageCounts{} a key starts from.
ZeroCounts == [k \in CountedKinds |-> 0]

(***************************************************************************)
(* Validate: ValidateErr(c, m) is TRUE when c.Validate(msg) returns an     *)
(* error.  One operator per case of the switch on the QBFT message type.   *)
(***************************************************************************)

\* Fault-injected variant of ProposalErr: a PostConsensus is not checked.
ProposalErrNoPost(c) == c.Commit > 0 \/ c.Decided > 0

\* case ProposalMsgType.
ProposalErr(c) == c.Commit > 0 \/ c.Decided > 0 \/ c.PostConsensus > 0

\* Fault-injected variant of PrepareErr: a duplicate Prepare is not checked.
PrepareErrNoDup(c) == c.Commit > 0 \/ c.Decided > 0 \/ c.PostConsensus > 0

\* case PrepareMsgType.
PrepareErr(c) ==
  c.Prepare > 0 \/ c.Commit > 0 \/ c.Decided > 0 \/ c.PostConsensus > 0

\* case CommitMsgType: two checks, each with Go's precedence (&& binds
\* tighter than ||).  The first rejects any commit once a Decided or a
\* PostConsensus was counted; the second rejects a Decided once a Decided
\* was counted.  Either check alone refuses a second Decided, whichever
\* way the first is parsed.
CommitErr(c, m) ==
  \/ (m.signers = 1 /\ c.Commit > 0) \/ c.Decided > 0 \/ c.PostConsensus > 0
  \/ (m.signers > 1 /\ c.Decided > 0) \/ c.PostConsensus > 0

\* The partial-signature cases.
PartialSigErr(c, m) ==
  \/ m.type \in PreConsensusSigTypes /\ c.PreConsensus > 0
  \/ m.type = "PostConsensusPartialSig" /\ c.PostConsensus > 0

ValidateErr(c, m) ==
  \/ m.body = "OtherBody"
  \/ /\ m.body = "SignedMessage"
     /\ \/ m.type = "ProposalMsgType" /\ ProposalErr(c)
        \/ m.type = "PrepareMsgType" /\ PrepareErr(c)
        \/ m.type = "CommitMsgType" /\ CommitErr(c, m)
        \/ m.type = "RoundChangeMsgType" /\ c.RoundChange > 0
  \/ m.body = "SignedPartialSignatureMessage" /\ PartialSigErr(c, m)

\* The field Record increments for msg, or "None" where it increments
\* nothing (a QBFT or partial-signature type it does not know).  For OtherBody Record
\* panics; the pipeline never records a message Validate refused.
RecordedKind(m) ==
  CASE m.body = "SignedMessage" /\ m.type = "ProposalMsgType" -> "Proposal"
    [] m.body = "SignedMessage" /\ m.type = "PrepareMsgType" -> "Prepare"
    [] m.body = "SignedMessage" /\ m.type = "CommitMsgType" /\ m.signers = 1
         -> "Commit"
    [] m.body = "SignedMessage" /\ m.type = "CommitMsgType" /\ m.signers > 1
         -> "Decided"
    [] m.body = "SignedMessage" /\ m.type = "RoundChangeMsgType"
         -> "RoundChange"
    [] m.body = "SignedPartialSignatureMessage"
         /\ m.type \in PreConsensusSigTypes -> "PreConsensus"
    [] m.body = "SignedPartialSignatureMessage"
         /\ m.type = "PostConsensusPartialSig" -> "PostConsensus"
    [] OTHER -> "None"

\* c.Record(msg).
Record(c, m) ==
  IF RecordedKind(m) = "None" THEN c
  ELSE [c EXCEPT ![RecordedKind(m)] = @ + 1]

\* c.ReachedLimits(limits): any field at or above its limit.
ReachedLimits(c, limits) == \E k \in CountedKinds : c[k] >= limits[k]

=============================================================================
