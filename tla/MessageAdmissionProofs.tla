----------------------- MODULE MessageAdmissionProofs -----------------------
(***************************************************************************)
(* Proofs about MessageAdmission for every committee size, set of workers *)
(* and delivery bound: the type invariant and CountsWithinLimits.          *)
(***************************************************************************)
EXTENDS MessageAdmission, TLAPS

(***************************************************************************)
(* The inductive invariant.  CountsWithinLimits alone is not inductive: a  *)
(* worker between Validate and Record must still see the counts Validate   *)
(* accepted, which holds because the lock holder is the only worker in     *)
(* that state and counts only change when it records.  The counts are      *)
(* bounded by the log, and the log plus the in-flight message by the       *)
(* deliveries, which bounds every field by MaxDeliveries.                 *)
(***************************************************************************)
InFlight == IF lock = NoWorker THEN 0 ELSE 1

IInv ==
  /\ TypeOK
  /\ \A w \in Workers : pc[w] = "Recording" <=> lock = w
  /\ \A w \in Workers :
       pc[w] = "Recording" => msg[w] \in Messages /\ ~ValidateErr(counts, msg[w])
  /\ \A k \in CountedKinds : counts[k] <= Len(log)
  /\ Len(log) + InFlight <= delivered
  /\ \A k \in BoundedKinds : counts[k] <= 1

-----------------------------------------------------------------------------
(***************************************************************************)
(* Lemmas about the counter operators of MessageCounts.                    *)
(***************************************************************************)

\* RecordedKind names a field of MessageCounts or "None".
LEMMA RecordedKindType ==
  ASSUME NEW m
  PROVE  RecordedKind(m) \in CountedKinds \cup {"None"}
BY DEF RecordedKind, CountedKinds

\* Record bumps one field by one and leaves the others alone.
LEMMA RecordEffect ==
  ASSUME NEW c \in [CountedKinds -> Nat], NEW m
  PROVE  /\ Record(c, m) \in [CountedKinds -> Nat]
         /\ \A k \in CountedKinds :
              Record(c, m)[k] = IF k = RecordedKind(m) THEN c[k] + 1 ELSE c[k]
<1>1. RecordedKind(m) \in CountedKinds \cup {"None"}
  BY RecordedKindType
<1>2. "None" \notin CountedKinds
  BY DEF CountedKinds
<1>3. QED
  BY <1>1, <1>2 DEF Record

\* A message Validate accepts finds its own field still at zero, except a
\* Proposal (Validate never looks at c.Proposal).
LEMMA AcceptedFieldIsZero ==
  ASSUME NEW c \in [CountedKinds -> Nat], NEW m \in Messages,
         ~ValidateErr(c, m),
         RecordedKind(m) \in BoundedKinds
  PROVE  c[RecordedKind(m)] = 0
<1> DEFINE k == RecordedKind(m)
<1>1. CASE m.body = "SignedMessage"
  BY <1>1 DEF ValidateErr, PrepareErr, CommitErr, RecordedKind, BoundedKinds,
             CountedKinds
<1>2. CASE m.body = "SignedPartialSignatureMessage"
  BY <1>2 DEF ValidateErr, PartialSigErr, RecordedKind, BoundedKinds,
             CountedKinds
<1>3. CASE m.body = "OtherBody"
  BY <1>3 DEF ValidateErr
<1>4. QED
  BY <1>1, <1>2, <1>3 DEF Messages

-----------------------------------------------------------------------------
(***************************************************************************)
(* IInv is an inductive invariant of Spec.                                 *)
(***************************************************************************)

LEMMA InitIInv == Init => IInv
<1> SUFFICES ASSUME Init PROVE IInv
  OBVIOUS
<1>1. TypeOK
  BY MaxDeliveriesAssumption DEF Init, TypeOK, ZeroCounts
<1>2. QED
  BY <1>1, WorkersAssumption, MaxDeliveriesAssumption
  DEF Init, IInv, ZeroCounts, InFlight, BoundedKinds

LEMMA NextIInv == IInv /\ [Next]_vars => IInv'
<1> SUFFICES ASSUME IInv, [Next]_vars PROVE IInv'
  OBVIOUS
<1> USE MaxDeliveriesAssumption, WorkersAssumption, NoMsgAssumption
<1>1. ASSUME NEW w \in Workers, NEW m \in Messages, Accept(w, m)
      PROVE IInv'
  <2>1. \A v \in Workers : pc[v] = "Idle"
    BY <1>1 DEF Accept, IInv, TypeOK
  <2>2. TypeOK'
    BY <1>1 DEF Accept, IInv, TypeOK
  <2>3. QED
    BY <1>1, <2>1, <2>2 DEF Accept, IInv, TypeOK, InFlight
<1>2. ASSUME NEW w \in Workers, NEW m \in Messages, Reject(w, m)
      PROVE IInv'
  BY <1>2 DEF Reject, IInv, TypeOK, InFlight
<1>3. ASSUME NEW w \in Workers, RecordStep(w)
      PROVE IInv'
  <2> DEFINE k0 == RecordedKind(msg[w])
  <2>1. /\ lock = w
        /\ msg[w] \in Messages
        /\ ~ValidateErr(counts, msg[w])
        /\ counts \in [CountedKinds -> Nat]
    BY <1>3 DEF RecordStep, IInv, TypeOK
  <2>2. /\ counts' \in [CountedKinds -> Nat]
        /\ \A k \in CountedKinds :
              counts'[k] = IF k = k0 THEN counts[k] + 1 ELSE counts[k]
    BY <1>3, <2>1, RecordEffect DEF RecordStep
  <2>3. Len(log') = Len(log) + 1 /\ log' \in Seq(CountedKinds \cup {"None"})
    BY <1>3, RecordedKindType DEF RecordStep, IInv, TypeOK
  <2>4. \A k \in CountedKinds : counts'[k] <= Len(log')
    <3> SUFFICES ASSUME NEW k \in CountedKinds PROVE counts'[k] <= Len(log')
      OBVIOUS
    <3>1. counts[k] <= Len(log) /\ counts[k] \in Nat
      BY DEF IInv, TypeOK
    <3>2. QED
      BY <2>2, <2>3, <3>1
  <2>5. Len(log') + InFlight' <= delivered'
    BY <1>3, <2>1, <2>3 DEF RecordStep, IInv, TypeOK, InFlight
  <2>6. \A k \in BoundedKinds : counts'[k] <= 1
    <3> SUFFICES ASSUME NEW k \in BoundedKinds PROVE counts'[k] <= 1
      OBVIOUS
    <3>1. CASE k = k0
      <4>1. counts[k0] = 0
        BY <2>1, <3>1, AcceptedFieldIsZero
      <4>2. QED
        BY <2>2, <3>1, <4>1 DEF BoundedKinds
    <3>2. CASE k # k0
      BY <2>2, <3>2 DEF IInv, BoundedKinds
    <3>3. QED
      BY <3>1, <3>2
  <2>7. TypeOK'
    BY <1>3, <2>2, <2>3, <2>4, <2>5 DEF RecordStep, IInv, TypeOK, InFlight
  <2>8. \A v \in Workers : (pc'[v] = "Recording" <=> lock' = v)
                            /\ (pc'[v] = "Recording" =>
                                  msg'[v] \in Messages /\ ~ValidateErr(counts', msg'[v]))
    BY <1>3, <2>1 DEF RecordStep, IInv, TypeOK
  <2>9. QED
    BY <2>4, <2>5, <2>6, <2>7, <2>8 DEF IInv
<1>4. CASE UNCHANGED vars
  BY <1>4 DEF vars, IInv, TypeOK, InFlight
<1>5. QED
  BY <1>1, <1>2, <1>3, <1>4 DEF Next

\* The inductive invariant holds in every reachable state.
THEOREM IInvHolds == Spec => []IInv
BY InitIInv, NextIInv, PTL DEF Spec

\* Type correctness of the admission pipeline: every field of the key's
\* MessageCounts stays within 0..MaxDeliveries, whatever the workers do.
THEOREM TypeCorrect == Spec => []TypeOK
BY IInvHolds, PTL DEF IInv

\* Validate-then-Record under the per-key lock never lets a bounded field
\* of MessageCounts pass its maxMessageCounts limit, for every committee
\* size, set of workers and number of deliveries.
THEOREM CountsWithinLimitsHolds == Spec => []CountsWithinLimits
<1>1. IInv => CountsWithinLimits
  BY CommitteeSizeAssumption
  DEF IInv, TypeOK, CountsWithinLimits, MaxMessageCounts, BoundedKinds,
      CountedKinds
<1>2. QED
  BY <1>1, IInvHolds, PTL

-----------------------------------------------------------------------------
(***************************************************************************)
(* OrderRespected.  Its strengthening LogCounted says every kind in the   *)
(* log still has a non-zero count.  A message Validate accepts finds every *)
(* kind it must precede at zero (lemma ValidatedRespectsOrder), so such a  *)
(* kind is not in the log when the message is recorded.                   *)
(***************************************************************************)
LogCounted ==
  \A i \in 1..Len(log) : log[i] \in CountedKinds => counts[log[i]] >= 1

OInv == LogCounted /\ OrderRespected

\* A message Validate accepts must not come after any kind already counted.
LEMMA ValidatedRespectsOrder ==
  ASSUME NEW c \in [CountedKinds -> Nat], NEW m \in Messages,
         ~ValidateErr(c, m),
         NEW a \in CountedKinds, c[a] >= 1
  PROVE  ~MustPrecede(RecordedKind(m), a)
<1>1. CASE m.body = "SignedMessage"
  BY <1>1 DEF ValidateErr, ProposalErr, PrepareErr, CommitErr, RecordedKind,
             MustPrecede, CountedKinds
<1>2. CASE m.body = "SignedPartialSignatureMessage"
  BY <1>2 DEF RecordedKind, MustPrecede, CountedKinds
<1>3. CASE m.body = "OtherBody"
  BY <1>3 DEF ValidateErr
<1>4. QED
  BY <1>1, <1>2, <1>3 DEF Messages

LEMMA InitOInv == Init => OInv
BY DEF Init, OInv, LogCounted, OrderRespected

LEMMA NextOInv == IInv /\ OInv /\ [Next]_vars => OInv'
<1> SUFFICES ASSUME IInv, OInv, [Next]_vars PROVE OInv'
  OBVIOUS
<1>1. ASSUME NEW w \in Workers, NEW m \in Messages, Accept(w, m)
      PROVE OInv'
  BY <1>1 DEF Accept, OInv, LogCounted, OrderRespected
<1>2. ASSUME NEW w \in Workers, NEW m \in Messages, Reject(w, m)
      PROVE OInv'
  BY <1>2 DEF Reject, OInv, LogCounted, OrderRespected
<1>3. ASSUME NEW w \in Workers, RecordStep(w)
      PROVE OInv'
  <2> DEFINE k0 == RecordedKind(msg[w])
  <2>1. /\ msg[w] \in Messages
        /\ ~ValidateErr(counts, msg[w])
        /\ counts \in [CountedKinds -> Nat]
        /\ log \in Seq(CountedKinds \cup {"None"})
    BY <1>3 DEF RecordStep, IInv, TypeOK
  <2>2. /\ counts' \in [CountedKinds -> Nat]
        /\ \A k \in CountedKinds :
              counts'[k] = IF k = k0 THEN counts[k] + 1 ELSE counts[k]
    BY <1>3, <2>1, RecordEffect DEF RecordStep
  <2>3. /\ Len(log') = Len(log) + 1
        /\ \A i \in 1..Len(log) : log'[i] = log[i]
        /\ log'[Len(log) + 1] = k0
    BY <1>3, <2>1 DEF RecordStep
  <2>4. LogCounted'
    <3> SUFFICES ASSUME NEW i \in 1..Len(log'), log'[i] \in CountedKinds
                 PROVE  counts'[log'[i]] >= 1
      BY DEF LogCounted
    <3>1. CASE i <= Len(log)
      BY <2>1, <2>2, <2>3, <3>1 DEF OInv, LogCounted
    <3>2. CASE i = Len(log) + 1
      BY <2>1, <2>2, <2>3, <3>2
    <3>3. QED
      BY <2>1, <2>3, <3>1, <3>2
  <2>5. \A a \in CountedKinds \cup {"None"} :
          (a \in CountedKinds => counts[a] >= 1) => ~MustPrecede(k0, a)
    <3> SUFFICES ASSUME NEW a \in CountedKinds \cup {"None"},
                        a \in CountedKinds => counts[a] >= 1
                 PROVE  ~MustPrecede(k0, a)
      OBVIOUS
    <3>1. CASE a \in CountedKinds
      BY <2>1, <3>1, ValidatedRespectsOrder
    <3>2. CASE a = "None"
      BY <3>2 DEF MustPrecede
    <3>3. QED
      BY <3>1, <3>2
  <2>6. OrderRespected'
    <3> SUFFICES ASSUME NEW i \in 1..Len(log'), NEW j \in 1..Len(log'), i < j
                 PROVE  ~MustPrecede(log'[j], log'[i])
      BY DEF OrderRespected
    <3>1. i <= Len(log) /\ log'[i] = log[i] /\ log[i] \in CountedKinds \cup {"None"}
      BY <2>1, <2>3
    <3>2. CASE j <= Len(log)
      BY <2>3, <3>1, <3>2 DEF OInv, OrderRespected
    <3>3. CASE j = Len(log) + 1
      BY <2>3, <2>5, <3>1, <3>3 DEF OInv, LogCounted
    <3>4. QED
      BY <2>3, <3>2, <3>3
  <2>7. QED
    BY <2>4, <2>6 DEF OInv
<1>4. CASE UNCHANGED vars
  BY <1>4 DEF vars, OInv, LogCounted, OrderRespected
<1>5. QED
  BY <1>1, <1>2, <1>3, <1>4 DEF Next

\* Every kind in the log keeps a non-zero count and the log is in protocol
\* order: the strengthening of OrderRespected holds in every state the
\* locked pipeline reaches.
THEOREM OInvHolds == Spec => []OInv
<1>1. Spec => []IInv
  BY IInvHolds
<1>2. QED
  BY <1>1, InitOInv, NextOInv, PTL DEF Spec

\* The messages Record counts for a key are in protocol order (no Commit,
\* Decided or PostConsensus before a Proposal or Prepare, and so on),
\* for every committee size, set of workers and number of deliveries.
THEOREM OrderRespectedHolds == Spec => []OrderRespected
<1>1. Spec => []OInv
  BY OInvHolds
<1>2. QED
  BY <1>1, PTL DEF OInv

=============================================================================
