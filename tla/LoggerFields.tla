---------------------------- MODULE LoggerFields ----------------------------
(***************************************************************************)
(* The admission descriptor builder of src/message/validation/             *)
(* logger_fields.go: buildLoggerFields, which extracts a LoggerFields      *)
(* descriptor from a decoded message (or from none), and AsZapFields,      *)
(* which lists the log fields of a descriptor.  A message validator        *)
(* describes each message it is handed once.                               *)
(***************************************************************************)
EXTENDS Naturals

CONSTANTS
  DutyExecutorIDs,  \* GetID().GetDutyExecutorID() values
  Roles,            \* GetID().GetRoleType() values
  OperatorSets,     \* SignedSSVMessage.OperatorIDs values
  Heights,          \* specqbft.Message.Height values
  Rounds,           \* specqbft.Message.Round values (from 1)
  QBFTTypes,        \* specqbft.MessageType values; 0 is ProposalMsgType
  Slots,            \* PartialSignatureMessages.Slot values
  NilMsg,           \* decodedMessage == nil
  Unset             \* zero value of a byte slice, role or operator list

ASSUME LoggerFieldsAssumption ==
  /\ Heights \subseteq Nat /\ Rounds \subseteq Nat \ {0}
  /\ QBFTTypes \subseteq Nat /\ Slots \subseteq Nat

\* spectypes.MsgType: SSVConsensusMsgType, SSVPartialSignatureMsgType and
\* any other type, with the body the decoder yields for each (a body
\* pointer may be a typed nil).
Bodies ==
  [kind : {"QBFT"}, height : Heights, round : Rounds, type : QBFTTypes]
  \cup [kind : {"PartialSig"}, slot : Slots]
  \cup [kind : {"NilQBFT", "NilPartialSig", "Other"}]

SSVTypeOf(body) ==
  CASE body.kind \in {"QBFT", "NilQBFT"} -> "SSVConsensusMsgType"
    [] body.kind \in {"PartialSig", "NilPartialSig"} -> "SSVPartialSignatureMsgType"
    [] OTHER -> "OtherMsgType"

DecodedMessages ==
  {[id |-> i, role |-> r, operators |-> o, ssvType |-> SSVTypeOf(b), body |-> b] :
     i \in DutyExecutorIDs, r \in Roles, o \in OperatorSets, b \in Bodies}

\* &ConsensusFields{}: the zero round and message type.
ZeroConsensus == [round |-> 0, type |-> 0]

\* &LoggerFields{Consensus: &ConsensusFields{}}.
ZeroDescriptor ==
  [dutyExecutorID |-> Unset, role |-> Unset, ssvType |-> Unset, slot |-> 0,
   consensus |-> ZeroConsensus, operatorIDs |-> Unset]

\* Fault-injected variant of BodySlot: the partial-signature case does not
\* set the slot.
BodySlotQBFTOnly(body) == IF body.kind = "QBFT" THEN body.height ELSE 0

\* The slot the body switch sets: Height of a non-nil QBFT message, Slot of
\* non-nil partial signatures, else the zero value.
BodySlot(body) ==
  CASE body.kind = "QBFT" -> body.height
    [] body.kind = "PartialSig" -> body.slot
    [] OTHER -> 0

\* buildLoggerFields(decodedMessage).
BuildLoggerFields(m) ==
  IF m = NilMsg THEN ZeroDescriptor
  ELSE [dutyExecutorID |-> m.id, role |-> m.role, ssvType |-> m.ssvType,
        operatorIDs |-> m.operators, slot |-> BodySlot(m.body),
        consensus |-> IF m.body.kind = "QBFT"
                      THEN [round |-> m.body.round, type |-> m.body.type]
                      ELSE ZeroConsensus]

\* The names of the fields AsZapFields returns: the round and QBFT type
\* are added whenever d.Consensus != nil.
AsZapFields(d) ==
  {"duty_executor_id", "role", "ssv_message_type", "slot", "operator_ids"}
  \cup (IF d.consensus # Unset THEN {"round", "qbft_message_type"} ELSE {})

VARIABLES
  msg,         \* the message handed to the validator
  descriptor,  \* its LoggerFields, once built
  logged       \* the field names of the log record carrying it

vars == <<msg, descriptor, logged>>

Init ==
  /\ msg \in DecodedMessages \cup {NilMsg}
  /\ descriptor = Unset
  /\ logged = {}

\* The validator builds the descriptor and attaches it to a log record.
Describe ==
  /\ descriptor = Unset
  /\ descriptor' = BuildLoggerFields(msg)
  /\ logged' = AsZapFields(descriptor')
  /\ UNCHANGED msg

Spec == Init /\ [][Describe]_vars

-----------------------------------------------------------------------------
\* The descriptor carries what spec.md 4.2 says it extracts: the message's
\* identifier, role, SSV type and operators, and the slot of its body
\* (QBFT height or partial-signature slot); a nil message, or a body that
\* is a typed nil, gives the zero values.
DescriptorFaithful ==
  descriptor # Unset =>
    IF msg = NilMsg
    THEN descriptor.slot = 0 /\ descriptor.dutyExecutorID = Unset
    ELSE /\ descriptor.dutyExecutorID = msg.id /\ descriptor.role = msg.role
         /\ descriptor.ssvType = msg.ssvType /\ descriptor.operatorIDs = msg.operators
         /\ descriptor.slot = CASE msg.body.kind = "QBFT" -> msg.body.height
                                [] msg.body.kind = "PartialSig" -> msg.body.slot
                                [] OTHER -> 0

\* Spec.md 4.2: round and QBFT message type are logged only for consensus
\* messages (checked by the run descriptor_consensus_fields).
ConsensusFieldsOnlyForConsensus ==
  "qbft_message_type" \in logged =>
    msg # NilMsg /\ msg.body.kind = "QBFT"

=============================================================================
