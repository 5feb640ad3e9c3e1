\* Admission with eviction on ReachedLimits: same constants as admission_core.
CONSTANTS
  Workers = {w1, w2}
  NoWorker = NoWorker
  NoMsg = NoMsg
  CommitteeSize = 4
  MaxSigners = 2
  MaxDeliveries = 5
  PreConsensusSigTypes <- MCPreConsensusSigTypes
SPECIFICATION SpecWithEviction
INVARIANT
  RoundWithinLimits
CHECK_DEADLOCK FALSE
