--------------------------- MODULE MC_PeerScoring ---------------------------
(* Model-checking instance of PeerScoring: two peers, two topics of which  *)
(* the inspector has params for one, and params for a third topic.        *)
EXTENDS PeerScoringProofs

CONSTANTS p1, p2, t1, t2, t3

MCPeers == {p1, p2}
MCTopics == {t1, t2}
\* peerScoreParams.Topics: a threshold of 1 mesh delivery on t1, and on
\* t3, a topic no peer is scored on.
MCInspectorParams == [t \in {t1, t3} |-> 1]

=============================================================================
