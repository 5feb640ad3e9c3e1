CONSTANTS
  d1 = d1  d2 = d2  r1 = r1  r2 = r2  ops1 = ops1
  NilMsg = NilMsg  Unset = Unset
  DutyExecutorIDs <- MCDutyExecutorIDs
  Roles <- MCRoles
  OperatorSets <- MCOperatorSets
  Heights <- MCHeights
  Rounds <- MCRounds
  QBFTTypes <- MCQBFTTypes
  Slots <- MCSlots
SPECIFICATION Spec
INVARIANTS DescriptorFaithful
\* Each message is described once.
CHECK_DEADLOCK FALSE
