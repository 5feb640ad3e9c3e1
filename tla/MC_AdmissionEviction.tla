------------------------ MODULE MC_AdmissionEviction ------------------------
EXTENDS AdmissionEviction

\* The four pre-consensus partial-signature types of message_counts.go.
MCPreConsensusSigTypes ==
  {"RandaoPartialSig", "SelectionProofPartialSig", "ContributionProofs",
   "ValidatorRegistrationPartialSig"}
=============================================================================
