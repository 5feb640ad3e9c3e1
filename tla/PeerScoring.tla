---------------------------- MODULE PeerScoring ----------------------------
(***************************************************************************)
(* Peer reputation around the gossip engine: the periodic scoreInspector  *)
(* callback of src/network/topics/tracer.go.  The gossip engine is the     *)
(* environment: it keeps per-peer, per-topic counters that                 *)
(* admission verdicts feed (a rejected message is an invalid delivery, an  *)
(* accepted one a mesh delivery), and hands the inspector a snapshot of    *)
(* them.                                                                   *)
(***************************************************************************)
EXTENDS Integers, FiniteSets, FiniteSetsExt

CONSTANTS
  Peers,            \* peer identities
  Topics,           \* gossip topics the peers are scored on
  \* peerScoreParams.Topics as given to scoreInspector: a function from the
  \* topics it has params for to their MeshMessageDeliveriesThreshold.  It
  \* may name topics no peer snapshot has, and miss topics one has.
  InspectorParams,
  MaxInvalid,       \* bound of an InvalidMessageDeliveries counter
  MaxMesh,          \* bound of a MeshMessageDeliveries counter
  Nil               \* no record logged yet

ASSUME ParamsAssumption ==
  \A t \in DOMAIN InspectorParams : InspectorParams[t] \in Nat
ASSUME BoundsAssumption ==
  /\ MaxInvalid \in Nat /\ MaxMesh \in Nat

VARIABLES
  \* Gossip engine state (PeerScoreSnapshot of every tracked peer).
  tracked,      \* peers the engine keeps score state for
  connected,    \* peers currently connected (peerConnected)
  invalid,      \* invalid[p][t]: InvalidMessageDeliveries
  mesh,         \* mesh[p][t]: MeshMessageDeliveries
  rejectedFrom, \* peers an admission reject was ever charged to
  \* Inspector outputs.
  report,       \* report[p]: tallies of the last "peer scores" record, or Nil
  gauged        \* peers with a series in the score gauge

engineVars == <<tracked, connected, invalid, mesh, rejectedFrom>>
vars == <<tracked, connected, invalid, mesh, rejectedFrom, report, gauged>>

Init ==
  /\ tracked = {}
  /\ connected = {}
  /\ invalid = [p \in Peers |-> [t \in Topics |-> 0]]
  /\ mesh = [p \in Peers |-> [t \in Topics |-> 0]]
  /\ rejectedFrom = {}
  /\ report = [p \in Peers |-> Nil]
  /\ gauged = {}

-----------------------------------------------------------------------------
(* The gossip engine (environment).                                        *)

\* A peer connects; the engine starts (or resumes) tracking its score.
Connect(p) ==
  /\ p \notin connected
  /\ connected' = connected \cup {p}
  /\ tracked' = tracked \cup {p}
  /\ UNCHANGED <<invalid, mesh, rejectedFrom>>

Disconnect(p) ==
  /\ p \in connected
  /\ connected' = connected \ {p}
  /\ UNCHANGED <<tracked, invalid, mesh, rejectedFrom>>

\* The retention of a disconnected peer's score expires.
Forget(p) ==
  /\ p \in tracked \ connected
  /\ tracked' = tracked \ {p}
  /\ invalid' = [invalid EXCEPT ![p] = [t \in Topics |-> 0]]
  /\ mesh' = [mesh EXCEPT ![p] = [t \in Topics |-> 0]]
  /\ UNCHANGED <<connected, rejectedFrom>>

\* Admission rejected a message p relayed on t: the engine counts an
\* invalid delivery.
InvalidDelivery(p, t) ==
  /\ p \in connected
  /\ invalid[p][t] < MaxInvalid
  /\ invalid' = [invalid EXCEPT ![p][t] = @ + 1]
  /\ rejectedFrom' = rejectedFrom \cup {p}
  /\ UNCHANGED <<tracked, connected, mesh>>

\* Admission accepted a message p relayed in t's mesh.
MeshDelivery(p, t) ==
  /\ p \in connected
  /\ mesh[p][t] < MaxMesh
  /\ mesh' = [mesh EXCEPT ![p][t] = @ + 1]
  /\ UNCHANGED <<tracked, connected, invalid, rejectedFrom>>

\* The engine's periodic decay lowers a counter.
Decay(p, t) ==
  /\ invalid[p][t] + mesh[p][t] > 0
  /\ \E i \in 0..invalid[p][t], j \in 0..mesh[p][t] :
       /\ i + j < invalid[p][t] + mesh[p][t]
       /\ invalid' = [invalid EXCEPT ![p][t] = i]
       /\ mesh' = [mesh EXCEPT ![p][t] = j]
  /\ UNCHANGED <<tracked, connected, rejectedFrom>>

Engine ==
  /\ \/ \E p \in Peers : Connect(p) \/ Disconnect(p) \/ Forget(p)
     \/ \E p \in Peers, t \in Topics :
          InvalidDelivery(p, t) \/ MeshDelivery(p, t) \/ Decay(p, t)
  /\ UNCHANGED <<report, gauged>>

-----------------------------------------------------------------------------
(* scoreInspector (tracer.go 79-136).                                      *)

\* math.Sqrt(x) in thousandths, rounded down, for the counter values: the
\* model's counters are whole numbers where the engine's are decayed floats.
SqrtMilliTable ==
  [x \in 0..MaxInvalid |->
     CHOOSE r \in 0..1000 * x : r * r <= 1000000 * x /\ (r + 1) * (r + 1) > 1000000 * x]

SqrtMilli(x) == SqrtMilliTable[x]

\* Fault-injected variant of TotalInvalidMilli: the accumulator is declared
\* outside the loop over peers and carries the other peers' sums.
TotalInvalidCarried(p) ==
  MapThenSumSet(LAMBDA pt : SqrtMilli(invalid[pt[1]][pt[2]]),
                {pt \in tracked \X Topics : invalid[pt[1]][pt[2]] > 0})

\* totalInvalidMessages: sum of sqrt(InvalidMessageDeliveries) over the
\* topics where it is > 0.
TotalInvalidMilli(p) ==
  MapThenSumSet(LAMBDA t : SqrtMilli(invalid[p][t]),
                {t \in Topics : invalid[p][t] > 0})

\* Fault-injected variant of LowMeshDeliveries: the tally is not reset
\* for each peer.
LowMeshCarried(p) ==
  Cardinality({pt \in tracked \X Topics :
                 /\ pt[2] \in DOMAIN InspectorParams
                 /\ mesh[pt[1]][pt[2]] < InspectorParams[pt[2]]})

\* totalLowMeshDeliveries: topics of p's snapshot (every topic the engine
\* scores p on) found in peerScoreParams.Topics whose MeshMessageDeliveries
\* is below the topic's threshold.
LowMeshDeliveries(p) ==
  Cardinality({t \in Topics :
                 /\ t \in DOMAIN InspectorParams
                 /\ mesh[p][t] < InspectorParams[t]})

\* The tallies of the "peer scores" debug record for p.  Its other fields
\* (the invalid_messages map, the connected and low_score flags, the
\* snapshot's penalties) are logging only.
PeerRecord(p) ==
  [totalInvalid |-> TotalInvalidMilli(p), lowMesh |-> LowMeshDeliveries(p)]

\* Fault-injected variant of Inspect: peers that are not connected are
\* skipped.
InspectConnectedOnly ==
  /\ report' = [p \in Peers |-> IF p \in connected THEN PeerRecord(p) ELSE report[p]]
  /\ gauged' = gauged \cup connected
  /\ UNCHANGED engineVars

\* One call of the inspect callback on the engine's snapshot of every
\* tracked peer: a record per peer, and the peer's gauge set to its score.
Inspect ==
  /\ report' = [p \in Peers |-> IF p \in tracked THEN PeerRecord(p) ELSE report[p]]
  /\ gauged' = gauged \cup tracked
  /\ UNCHANGED engineVars

Next ==
  \/ Engine
  \/ Inspect

\* The inspector runs on the engine's fixed inspection interval.
Spec == Init /\ [][Next]_vars /\ WF_vars(Inspect)

-----------------------------------------------------------------------------
(* Properties                                                              *)

\* Type invariant; the low-mesh tally of a record counts topics of one peer.
TypeOK ==
  /\ tracked \subseteq Peers /\ connected \subseteq tracked
  /\ invalid \in [Peers -> [Topics -> 0..MaxInvalid]]
  /\ mesh \in [Peers -> [Topics -> 0..MaxMesh]]
  /\ rejectedFrom \subseteq Peers
  /\ \A p \in Peers :
       \/ report[p] = Nil
       \/ /\ report[p].totalInvalid \in Nat
          /\ report[p].lowMesh \in 0..Cardinality(Topics \cap DOMAIN InspectorParams)
  /\ gauged \subseteq Peers

\* The inspector never reports invalid messages for a peer that admission
\* never rejected a message from: the invalid tally it logs comes only from
\* the engine's invalid-delivery counters.
NoFalseBlame ==
  \A p \in Peers :
     report[p] # Nil /\ report[p].totalInvalid > 0 => p \in rejectedFrom

\* An invalid delivery the engine still counts for a peer is eventually
\* reported by the inspector, connected or not, unless it decays first.
InvalidEventuallyReported ==
  \A p \in Peers, t \in Topics :
     (invalid[p][t] > 0) ~>
        (invalid[p][t] = 0 \/ (report[p] # Nil /\ report[p].totalInvalid > 0))

=============================================================================
