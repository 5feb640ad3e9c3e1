-------------------------- MODULE MC_LoggerFields --------------------------
EXTENDS LoggerFields

CONSTANTS d1, d2, r1, r2, ops1

MCDutyExecutorIDs == {d1, d2}
MCRoles == {r1, r2}
MCOperatorSets == {ops1}
MCHeights == {0, 10}
MCRounds == {1, 2}
\* ProposalMsgType (0) and CommitMsgType (2).
MCQBFTTypes == {0, 2}
MCSlots == {0, 10}
=============================================================================
