# Formal models of the SSV message-admission and gossip-scoring core

This directory holds TLA+ models of the parts of the repository that decide
whether an inbound gossip message is admitted and how peers are scored. TLC
model-checks them on small instances, and TLAPS proves the main admission
invariants for every value of the constants. `PROJECT.json` lists the
following, in machine-readable form:

- the components
- the runs
- the mutants that show each property can fail
- the map from every definition to the source lines it models
- the findings
- the hazards
- the theorems

## 1. The system and its parts

| Part | Source | State and operations | Model |
|---|---|---|---|
| Message taxonomy and limits | `src/unnamed/part_002` 15-47 (`maxMessageCounts`, `MessageCounts`) | Seven counters per admission key: PreConsensus, Proposal, Prepare, Commit, Decided, RoundChange, PostConsensus. Decided's limit is committeeSize+1; every other limit is 1. | `MessageCounts` |
| Admission counter | `part_002` 49-150 (`Validate`, `Record`, `ReachedLimits`) | `Validate` is a pure check of a message against the counts. `Record` increments one field. `ReachedLimits` compares every field with its limit. | `MessageCounts` (pure operators) |
| Admission pipeline (the caller) | not under `src/`; spec.md 5, 9 | Serialises validate-then-record per key with a per-key lock. Several goroutines deliver messages. | `MessageAdmission` (spec-modelled) |
| Peer score inspector | `src/network/topics/tracer.go` 79-136 (`scoreInspector`) | A periodic callback over the engine's snapshot of every tracked peer. Per peer it computes the sqrt-sum of invalid deliveries and the low-mesh-delivery tally, writes a debug record and sets a gauge. | `PeerScoring` |
| Topic score parameterizer | `tracer.go` 139-157 (`topicScoreParams`) | Reads validator stats, derives topic params, and returns nil on either failure. | not modelled: a stateless function of the stats provider and of `params.TopicParams` (not under `src/`) |
| Event tracer | `tracer.go` 11-50 (`psTracer`) | Counts every event by type, and logs the event unless the tracer state is below "with logging". | not modelled: a sequential counter and logger with no state another part reads |
| Decided stream publisher | `src/exporter/api/decided/stream.go` 17-40 (`NewStreamPublisher`) | A handler called for each newly decided entry. It builds a key from identifier, slot and signer count, returns if the key is in a 1-minute TTL cache, otherwise sets it and sends one API message on the websocket feed. | `DecidedStream`, abstract spec `DecidedFeed` |
| Admission descriptor builder | `src/message/validation/logger_fields.go` (`buildLoggerFields`, `AsZapFields`) | A projection of a decoded message into the descriptor logged with every verdict: duty executor, role, slot, and for consensus messages height, round and QBFT type. | `LoggerFields` |
| Beacon client, eth1 interface | `src/unnamed/part_000`, `part_001` | RPC wrappers and types. | not modelled: I/O against external nodes |

How the parts interact:

- Admission verdicts feed the gossip engine. A rejected message counts as an
  invalid delivery for the peer that relayed it. An accepted message in a
  topic's mesh counts as a mesh delivery.
- The engine hands snapshots of these counters to the inspector on a timer.
- The engine asks `topicScoreParams` for each topic's parameters and calls
  the tracer on every internal event; neither feeds back into admission or
  the inspector's state.

The behaviours that make this code hard to test:

- Several goroutines deliver messages for the same key. Correctness rests on
  the caller's lock: the counter has no check-then-increment of its own.
- Validate's switch has missing default cases, and its Commit/Decided
  check refuses a second Decided long before the Decided limit.
- The inspector reads every tracked peer, including peers that have
  disconnected.
- The decided handler reads the cache and writes it in two separate calls,
  and may be called concurrently.

## 2. Modules

- **`MessageCounts`** (constants: `CommitteeSize`, `PreConsensusSigTypes`,
  `MaxSigners`). These are pure operators.
  - A message is a record holding the body's dynamic type, its message type
    and `len(Signers)`.
  - `ValidateErr(c, m)` is TRUE exactly when `c.Validate(msg)` returns an
    error. There is one operator per case: `ProposalErr`, `PrepareErr`,
    `CommitErr`, `PartialSigErr`.
  - `CommitErr` keeps Go's precedence literally, as two disjunctions.
  - `RecordedKind(m)` is the field `Record` increments, or `"None"` where it
    increments nothing: a QBFT or partial-signature type it does not know.
  - Every message has at least one signer: `Record` says zero-length signers
    are checked before it is called (line 122).
  - `Record(c, m)` adds one to that field.
- **`MessageAdmission`** (adds: `Workers`, `MaxDeliveries`). One admission
  key and the workers delivering its messages.
  - `Accept(w, m)`: the worker takes the key's lock and Validate passes.
  - `Reject(w, m)`: the worker takes the lock, Validate fails, the message is
    dropped and the lock released, all in one step.
  - `RecordStep(w)`: `Record`, then unlock.
  - `log` is the sequence of recorded kinds. It is a history variable that the
    ordering property reads.
  - The pipeline is not under `src/`, so these actions are spec-modelled from
    spec.md sections 5 and 9. Validate and Record inside them are the code's.
- **`PeerScoring`** (constants: `Peers`, `Topics`, `InspectorParams`,
  `MaxInvalid`, `MaxMesh`).
  - The gossip engine is the environment. Its actions are `Connect`,
    `Disconnect`, `Forget` (score retention expires), `InvalidDelivery` (an
    admission reject, which also records the peer in `rejectedFrom`),
    `MeshDelivery` and `Decay`.
  - `Inspect` is one call of the inspect callback over every tracked peer.
    - `TotalInvalidMilli` is the sum of `sqrt` over the topics with a count
      > 0, in thousandths.
    - `LowMeshDeliveries` counts the snapshot's topics that have params in
      `peerScoreParams.Topics` (`InspectorParams`) and are below their
      threshold.
    - `gauged` is the set of peers that have a gauge series.
  - The filtered map, the penalties, the `connected` and `low_score` flags and
    the record's wording are logging only and left out.
- **`AdmissionEviction`** extends `MessageAdmission` with `Evict`: when no
  worker holds the lock and `ReachedLimits` reports the key saturated, the
  pipeline drops the key's counters and the next message meets a fresh one
  (spec.md 3 and 4.1, spec-modelled). The history `log` is kept, so
  `RoundWithinLimits` can count what the round really recorded.
- **`DecidedFeed`** (constants: `Entries`, `Key(_)`, `MaxPerLifetime`) is
  the promise of the decided stream. `live[k]` counts the broadcasts of key
  `k` in its current lifetime, and `sent[e]` the broadcasts of entry `e`.
  `Publish(e)` is allowed while `live[Key(e)] < MaxPerLifetime`; `Expire(k)`
  ends a live key's lifetime. With `MaxPerLifetime = 1` it is exact
  de-duplication.
- **`DecidedStream`** (constants: `Identifiers`, `Slots`, `Operators`,
  `Callers`, `UseNewAPI`, `MaxCalls`).
  - Each caller is a goroutine calling the handler; any caller may be handed
    any entry. An entry is a record of identifier, slot and a non-empty
    signer set; `Key(e)` is the cache key of line 25, with the hex
    formatting abstracted to the tuple it distinguishes.
  - One handler call is split at the cache calls, because `go-cache` locks
    each call separately: `Hit` (Get finds the key, return), `Miss` (Get
    misses), `SetDefault`, `Send` (`feed.Send` of the participants or the
    decided API message, chosen by `UseNewAPI`).
  - `Expire(k)` is the cache's janitor or lazy expiry: the TTL may run out
    at any step.
  - `feed` counts the messages sent, per API message.
  - `stored[k]` is a history variable, no program state: the callers whose
    `SetDefault` wrote `k` since `k` last entered the cache.
  - The refinement mapping: `liveBar[k]` is `Cardinality(stored[k])`, and
    `sentBar[e]` is the messages sent for `e` plus the callers between
    `SetDefault` and `Send` with `e`. So `SetDefault` is the abstract
    `Publish`, and `Send` is a stutter. `Feed` instantiates `DecidedFeed`
    with `MaxPerLifetime = Cardinality(Callers)` (`AbstractFeed`), and
    `ExactFeed` with 1 (`ExactDedup`).
- **`LoggerFields`** (constants: duty executor IDs, roles, operator sets,
  heights, rounds, QBFT types, slots). `BuildLoggerFields(m)` follows
  `buildLoggerFields` branch by branch: nil message, identity, then the body
  switch (QBFT, partial signature, typed nil, other). `AsZapFields(d)` is the
  set of field names `AsZapFields` emits: a field is a name here because only
  its presence matters to the properties. `Describe` builds and logs one
  descriptor.
- **`MessageAdmissionProofs`**, **`AdmissionEvictionProofs`**,
  **`DecidedStreamProofs`**, **`PeerScoringProofs`**, **`LoggerFieldsProofs`**:
  the TLAPS proofs, each with the inductive invariant its theorems rest on
  (`IInv`/`OInv`, `IInv` again, `StreamInv`, `BlameInv`, `DescribeInv`).
- **`MC_*`**: the TLC instantiations. Model values stand for workers, peers,
  topics, callers and operators, and the definitions that a `.cfg` cannot hold live
  here.

## 3. Runs

| Run | cfg | Checks | Shows |
|---|---|---|---|
| `admission_core` | `MC_MessageAdmission.cfg` | `CountsWithinLimits`, `OrderRespected` | Two workers and 5 deliveries of any message (committee 4, up to 2 signers): no bounded field passes its limit, and recorded kinds follow protocol order. |
| `proposal_duplicate` | `MC_AtMostOneProposal.cfg` | `AtMostOneProposal` (violation) | A second Proposal from one signer in one round is accepted. |
| `decided_limit` | `MC_DecidedAcceptedBelowLimit.cfg` | `DecidedAcceptedBelowLimit` (violation) | A second Decided is rejected far below the limit of committeeSize+1. |
| `unrecognized_rejected` | `MC_AcceptedAreRecognized.cfg` | `AcceptedAreRecognized` (violation) | A QBFT or partial-signature type the code does not know passes Validate and is counted nowhere. |
| `peer_scoring` | `MC_PeerScoring.cfg` | `TypeOK`, `NoFalseBlame`, `InvalidEventuallyReported` | A logged invalid tally always belongs to a peer admission rejected. A counted invalid delivery is eventually reported, even for a disconnected peer. |
| `eviction_replay` | `MC_AdmissionEviction.cfg` | `RoundWithinLimits` (violation) | Evicting on `ReachedLimits` lets a second Prepare of the same signer and round through. |
| `stream_core` | `MC_DecidedStream.cfg` | `AbstractFeed` | Two callers sharing the handler: within one cache lifetime of a key, its entries reach the feed at most once per caller. |
| `stream_exact_dedup` | `MC_DecidedStreamExact.cfg` | `ExactDedup` (violation) | Both callers miss the same key before either stores it, and the key's entries reach the feed twice in one lifetime. |
| `descriptor_core` | `MC_LoggerFields.cfg` | `DescriptorFaithful` | Every decoded message gets its own identity and its body's slot in the descriptor. |
| `descriptor_consensus_fields` | `MC_LoggerFieldsConsensus.cfg` | `ConsensusFieldsOnlyForConsensus` (violation) | A nil or partial-signature message is logged with a round and a QBFT type. |

Why the bounds are enough:

- **`admission_core`.**
  - Five deliveries cover every ordering chain: Proposal, Prepare, Commit,
    Decided, PostConsensus.
  - Two workers are enough for one to validate while the other waits on the
    lock.
  - `MaxSigners = 2` separates Commit (one signer) from Decided (more than
    one).
  - With committee 4, the Decided limit of 5 lies beyond what the code lets
    through. That is what `decided_limit` exhibits.
- **`peer_scoring`.**
  - Two peers are needed: one mutant carries a sum from one peer into the
    next.
  - Two snapshot topics, only one of which has params, cover both
    `topicFound` branches; a third topic has params but is in no snapshot.
  - The counter bounds of 1 keep the state space to about 67k states. The
    properties are about whether a counter is zero, not its size.
- **`stream_core`.** Two callers, one identifier and slot, and two
  operators give three entries and two keys (`{o1}` and `{o2}` share one).
  Four calls let both callers miss one key before either stores it, a key
  expire while a caller is between Get and Send, and a key be stored again
  after it expired. `UseNewAPI` is TRUE here and FALSE in the violation
  run, so both branches of the send run. More callers only raise the bound
  the theorem already proves for any number.
- **`descriptor_core`.** Two duty executors, two roles, heights, rounds,
  types and slots with a zero and a non-zero value each: the zero values
  are what the allocated-but-empty `Consensus` shows.

`CHECK_DEADLOCK FALSE` is set where the model really can stop:

- In the admission runs, deliveries for a key stop after `MaxDeliveries`.
  This is the end of the round.
- In `stream_core`, the calls run out once every key has expired.
- `descriptor_core` describes one message and stops.
- `peer_scoring` always has a step left, and is checked for deadlock.

## 4. Fairness

- **`MessageAdmission`** has none: its properties are safety.
- **`PeerScoring`** has weak fairness on `Inspect`, because the engine calls
  the inspector on a fixed interval (spec.md 5).
- The engine's own actions get no fairness.
- **`DecidedStream`** and **`DecidedFeed`** have none: the properties are
  safety, and whether `feed.Send` returns depends on the websocket
  subscribers (see the hazards).

## 5. What is proved

`MessageAdmissionProofs` proves the following for all constants satisfying
these assumptions:

- `CommitteeSize >= 1`
- `MaxSigners >= 2`
- `MaxDeliveries \in Nat`
- `NoWorker`/`NoMsg` are fresh

The theorems:

- `CountsWithinLimitsHolds`: `Spec => []CountsWithinLimits`. This is the
  same property the `admission_core` run checks.
- `OrderRespectedHolds`: `Spec => []OrderRespected`, the ordering property
  of `admission_core`.
- The supporting results `IInvHolds`, `TypeCorrect` and `OInvHolds`.

`CountsWithinLimits` is not inductive on its own: a worker could hold a
message whose validation is stale. The strengthening `IInv` adds the
following:

1. The lock holder is exactly the worker in state `Recording`.
2. That worker's message is a valid message that still passes Validate
   against the current counts. This holds because only the lock holder
   changes the counts.
3. Every count is at most `Len(log)`, and `Len(log)` plus the in-flight
   message is at most `delivered`. This is what gives `TypeOK` its bound.
4. Every bounded field is at most 1.

How the facts are used:

- From (2), `AcceptedFieldIsZero` shows that a message passing Validate has a
  zero target field for every bounded kind.
- So `Record` only ever raises a bounded field from 0 to 1.
- Lemmas `RecordEffect` and `RecordedKindType` say what `Record` changes.

The step proof has one case per action, and under `RecordStep` one step per
conjunct.

`OrderRespected` is not inductive either: a recorded Prepare needs a Proposal
earlier in the log, and the step proof must know the counts reflect the log.
`OInv` adds `LogCounted`: every counted kind in the log has a count of at
least 1. With `IInv`, a message passing Validate whose kind requires a
predecessor (lemma `ValidatedRespectsOrder`, one case per body) finds that
predecessor's count positive, hence the predecessor in the log.

`DecidedStreamProofs` assumes only `StreamAssumption`: `Callers` is finite,
`UseNewAPI` is Boolean and `MaxCalls \in Nat`. Nothing restricts which
caller gets which entry. It proves `ImplementsFeed`: `Spec => AbstractFeed`,
the property of `stream_core`, for every number of callers. It rests on
`StreamInv` (`StreamInvHolds`):

1. A caller that is not idle holds an entry.
2. A key is cached exactly when `stored[k]` is non-empty.
3. A caller between `Get` and `SetDefault` is not in `stored` for its key.
   It missed the key, so the key had no lifetime then, and an expiry
   since then emptied `stored`.

The refinement argument:

- Initial states map to the abstract initial state.
- `Hit` and `Miss` change neither the cache, `stored` nor `sentBar`
  (`MappingUnchanged`).
- `SetDefault` is `Publish(e)`. By (3) the caller is not yet in
  `stored[Key(e)]`, so `FewerThanCallers` gives `liveBar < Cardinality(Callers)`.
  Adding the caller raises `liveBar` by one (`FS_AddElement`), and the
  caller becomes pending, so `sentBar[e]` grows by one.
- `Send` moves one from pending to `feed`, so `sentBar` is unchanged
  (`APIMsgInjective`).
- `Expire(k)` is the abstract `Expire`: by (2) `stored[k]` is non-empty, so
  `liveBar[k] > 0`.

`PeerScoringProofs` needs no assumption beyond those of `PeerScoring`.
`NoFalseBlameHolds` (`Spec => []NoFalseBlame`) rests on `BlameInv`, which
adds `CleanUnlessRejected`: a peer never charged with a reject has every
invalid counter at zero. Only `InvalidDelivery` raises a counter, and it
charges the peer; `Forget` and `Decay` only lower counters. `Inspect` then
computes a tally over the empty set of topics for such a peer. Lemma
`NoInvalidNoTally` proves that sum is zero by unfolding the fold of
`FiniteSetsExt` on the empty set, which needs no induction.

`AdmissionEvictionProofs` proves `EvictionCountsWithinLimits`
(`SpecWithEviction => [](TypeOK /\ CountsWithinLimits)`) under the
assumptions of `MessageAdmission`. It rests on the same `IInv`: `Evict`
keeps it because it fires only while every worker is Idle, so no worker
holds a validation that the reset could make stale, and `ZeroCounts` meets
every bound. So eviction never lets a counter pass its limit. What it breaks
is the round (finding 6), and lemma `ReachedLimitsAfterOne` states why:
once any kind other than Decided is counted once, `ReachedLimits` holds.

`LoggerFieldsProofs` proves `DescriptorFaithfulHolds`
(`Spec => []DescriptorFaithful`) from `DescribeInv`: the message is a
decoded one or none, and a built descriptor is `BuildLoggerFields(msg)`.
The proof takes each branch of `buildLoggerFields`: nil message, then each
kind of body.

Left to TLC alone:

- `InvalidEventuallyReported`, a liveness property: TLAPS has no support
  for fairness and `ENABLED` here.
- The violation runs' properties, which are false.
- `PeerScoring`'s `TypeOK`. Its `totalInvalid \in Nat` says a fold over a
  non-empty set of topics is a natural number, which needs induction over
  finite sets. The library states that with an operator parameter
  (`NEW P(_)`), which the installed provers cannot instantiate.
  In the code the tally is a float sum, so its typing is a model artefact.
  What the proofs use of it, the sum over an empty set, is proved.

## 6. Findings

The first three findings were met while modelling `Validate` from the code,
the others while modelling the stream, the descriptor and the eviction. Each
is a violation run.

1. **Duplicate Proposal** (`part_002:54`).
   - The Proposal case never checks `c.Proposal`, so a second Proposal from
     one signer in one round is accepted.
   - spec.md 4.1 says at most one of each kind, and `maxMessageCounts` sets
     Proposal to 1.
2. **Decided limit unreachable** (`part_002:71`).
   - The Commit case refuses any Commit-typed message once `c.Decided > 0`
     (line 71), so the first Decided blocks every later one. The `&&`/`||`
     precedence question spec.md 9 raises at line 66 does not matter here:
     line 71 refuses a second Decided under either parse.
   - The limit committeeSize+1 that spec.md 8 expects is never reached.
3. **Unrecognised kinds accepted** (`part_002:97`, `82`, `121`).
   - A partial-signature type the code does not know passes Validate (the
     TODO default), as does a QBFT type it does not know (no default).
     Neither is counted.
   - spec.md 7 says an unrecognised kind is rejected.

4. **Decided stream de-duplication is not atomic** (`stream.go:26`).
   - `c.Get` and `c.SetDefault` are two calls. Two concurrent handler calls
     for the same key both miss and both broadcast.
   - The comment at line 18 says entries are cached to avoid flooding.
     What the cache does guarantee (proved for any number of callers) is
     at most one broadcast per caller goroutine per key lifetime; exact
     de-duplication (`ExactDedup`) fails with two callers.
5. **Consensus fields on every descriptor** (`logger_fields.go:54`).
   - `buildLoggerFields` always allocates `Consensus`, so `AsZapFields` logs
     round 0 and QBFT type 0 (Proposal) for nil and partial-signature
     messages.
   - spec.md 4.2 says these fields are extracted for consensus messages only.
6. **Eviction on `ReachedLimits` re-admits** (`part_002:143`).
   - `ReachedLimits` is TRUE once any field reaches its limit, and most limits
     are 1. A pipeline that evicts on it, as spec.md 4.1 describes, gives
     the next Prepare of the same signer and round a fresh counter.

## 7. Not modelled, and the plan for later sittings

Not modelled:

- **The beacon and eth1 clients**: I/O against external nodes, with no
  protocol logic of this repository.
- **Log wording, metric label strings and float arithmetic beyond the sqrt
  table**: no property tells them apart.
- **The websocket server behind `feed`**: not under `src/`. A slow subscriber
  blocking `feed.Send` is listed as a hazard without a property.

Planned:

1. **A round-level abstraction of admission**, so that finding 6 can be
   stated as a theorem about the abstract round rather than only as a
   violation run.
2. **The tracer and `topicScoreParams`**, if a property relating them to the
   inspector's state turns up: today they hold no state another part reads.
