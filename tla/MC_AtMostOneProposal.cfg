\* Two workers, a committee of four, Commit messages with 1 or 2
\* signers, five deliveries per key (enough for Proposal, Prepare, Commit,
\* Decided and PostConsensus in one round, or a race plus an ordering).
CONSTANTS
  Workers = {w1, w2}
  NoWorker = NoWorker
  NoMsg = NoMsg
  CommitteeSize = 4
  MaxSigners = 2
  MaxDeliveries = 5
  PreConsensusSigTypes <- MCPreConsensusSigTypes
SPECIFICATION Spec
INVARIANT
  AtMostOneProposal
CHECK_DEADLOCK FALSE
