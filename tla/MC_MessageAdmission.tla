------------------------ MODULE MC_MessageAdmission ------------------------
(* Model-checking instance of MessageAdmission: a committee of four, two    *)
(* workers delivering up to MaxDeliveries messages for one key.             *)
EXTENDS MessageAdmission

\* The four pre-consensus partial-signature types of message_counts.go.
MCPreConsensusSigTypes ==
  {"RandaoPartialSig", "SelectionProofPartialSig", "ContributionProofs",
   "ValidatorRegistrationPartialSig"}

=============================================================================
