\* Two peers, two topics (the inspector has params for t1 and for t3, which
\* no snapshot has), counters
\* up to 1: enough for one peer to be blamed while the other is clean, and
\* for a disconnected peer to keep an invalid count.
CONSTANTS
  p1 = p1
  p2 = p2
  t1 = t1
  t2 = t2
  t3 = t3
  Nil = Nil
  Peers <- MCPeers
  Topics <- MCTopics
  InspectorParams <- MCInspectorParams
  MaxInvalid = 1
  MaxMesh = 1
SPECIFICATION Spec
INVARIANTS
  TypeOK
  NoFalseBlame
PROPERTIES
  InvalidEventuallyReported
