------------------------- MODULE LoggerFieldsProofs -------------------------
(***************************************************************************)
(* Proof that the descriptor buildLoggerFields builds carries the message's *)
(* identity and its body's slot (DescriptorFaithful), for every set of     *)
(* identifiers, roles, operator sets, heights, rounds, types and slots.    *)
(***************************************************************************)
EXTENDS LoggerFields, TLAPS

\* The descriptor, once built, is the one buildLoggerFields returns for the
\* message, and the message is a decoded one or none.
DescribeInv ==
  /\ msg \in DecodedMessages \cup {NilMsg}
  /\ descriptor # Unset => descriptor = BuildLoggerFields(msg)

LEMMA InitDescribeInv == Init => DescribeInv
BY DEF Init, DescribeInv

LEMMA NextDescribeInv == DescribeInv /\ [Describe]_vars => DescribeInv'
BY DEF DescribeInv, Describe, vars

LEMMA DescribeInvFaithful == DescribeInv => DescriptorFaithful
<1> SUFFICES ASSUME DescribeInv, descriptor # Unset
             PROVE  DescriptorFaithful
  BY DEF DescriptorFaithful
<1>1. descriptor = BuildLoggerFields(msg)
  BY DEF DescribeInv
<1>2. CASE msg = NilMsg
  BY <1>1, <1>2 DEF DescriptorFaithful, BuildLoggerFields, ZeroDescriptor
<1>3. CASE msg # NilMsg
  <2>1. msg.body \in Bodies
    BY <1>3 DEF DescribeInv, DecodedMessages
  <2>2. QED
    BY <1>1, <1>3, <2>1 DEF DescriptorFaithful, BuildLoggerFields, BodySlot
<1>4. QED
  BY <1>2, <1>3

\* Every descriptor the validator builds carries the message's duty
\* executor, role, SSV type and operators and its body's slot (QBFT height,
\* partial-signature slot, or zero for a typed-nil or other body), and a
\* nil message gives the zero slot and no duty executor.
THEOREM DescriptorFaithfulHolds == Spec => []DescriptorFaithful
<1>1. Spec => []DescribeInv
  BY InitDescribeInv, NextDescribeInv, PTL DEF Spec
<1>2. QED
  BY <1>1, DescribeInvFaithful, PTL

=============================================================================
