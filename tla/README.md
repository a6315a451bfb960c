# BLOC in TLA+

BLOC lets a group of operators agree, slot by slot, on a set of *encrypted*
transactions and decrypt them together only after the set is fixed. This
directory models the parts of it that are hard to get right, checks them with
TLC on small instances, and proves the properties that matter most with TLAPS
for every number of nodes, goroutines and slots, every threshold and every
budget.

## The system

A node runs one *slot* at a time:

1. it builds an inclusion list of ciphertexts and puts it into the slot's ACS;
2. **ACS** (asynchronous common subset) runs one reliable broadcast (**RBC**)
   and one binary agreement (**BBA**) per proposer, and yields the same set of
   at least N - F lists at every correct node;
3. the lists are merged, the ciphertexts arranged in sub-batches, and every
   node sends one decryption share per sub-batch;
4. any threshold of right shares decrypts a sub-batch. The node tries subsets
   of the shares it has, within a budget, and publishes the result.

| Component | State | Operations | Interacts with |
|---|---|---|---|
| RBC (`sbc/hbbft/rbc.go`) | echoes and Readys by sender, `echoSent`, `readySent`, output | `InputValue`, proof, echo and Ready handlers, decoding | ACS drains its messages and output after each call |
| BBA (`bba.go`) | epoch, estimate, BVAL and AUX messages of the epoch, delayed messages, decision, `done` | `InputValue`, BVAL and AUX handlers, `tryOutputAgreement`, replay | ACS gives inputs, takes one output |
| ACS (`acs.go`), slot adapter (`bloc_slot.go`) | batches, agreement results, output, outgoing queue | `InputValue`, `HandleMessage`, `tryCompleteAgreement`, `maybeBuildOutput` | the node drives it under `acsMu` |
| Node, slot (`bloc-node/internal/app/node.go`) | `slotState`: phase, result, failure, plan, share candidates, budget | `startConsensus`, `handleEnvelope`, `handleACSOutput`, `addShare`, `tryCombine` | transport goroutines call in concurrently |
| Node, lifecycle (`node.go`) | active `slotState`, `lifecycleMu`, HTTP handlers | `prepareSlot`, `handleStart`, `handleSubmitTx`, sends | evaluators, transport |
| BTE (`bte/btd-impl-main/be`) | none (pure) | `arrangeBatch`, `CombineSharesBounded` | called by the node |
| Transport (`transport_libp2p*.go`, `codec.go`) | a writer, its queue and its stream per peer and lane; a reader, a dispatcher and a queue per inbound stream | `Send`, `run`, prewarming, dialing, stream handlers, `Close` | node, libp2p |
| Traces (`trace.go`, `trace_outbound.go`) | counters of scheduled and finished sends | begin, complete, seal | ACS, node |
| Inclusion lists (`inclusion/merge.go`, `provider.go`, `corpus_config.go`) | none | `buildInclusionList`, `fetchMempoolInclusionList`, `Merge` | sidecar, node |
| HoneyBadger driver (`honey_badger.go`) | ACS per epoch, buffer | `HandleMessage`, `maybeProcessOutput`, `removeOldEpochs` | not used by BLOC |
| mempool-il | filter, cache of pending transactions, store; a loaded corpus; replay cursor | `PollOnce`, `Fetch`, `ReplaceAll`, `GenerateEncryptedCorpus`, `LoadEncryptedCorpus`, `/inclusion-list` | Ethereum endpoint; the node fetches its list |
| Evaluation (`eval*.go`) | plan, cluster and its generation, recorded runs, manifest | `evalSuite`, `runPersistentSuite`, `evalRemote`, polling, recovery | the nodes' HTTP interface |

What is hard here: messages are delayed, reordered and repeated, and up to
F < N/3 nodes need not follow the protocol (`acs.go:23-26`); thresholds fire
on *equality* in several places, so an order of messages nobody tested may
step over one; handlers of one slot run in concurrent goroutines and meet only
under `slotState.mu`; shares arrive before the plan they belong to; attempts
to combine fail, are retried and spend a budget; the state of a slot is swapped
for the next one while HTTP handlers, envelopes and sends are under way;
connections break under queued writes, and the transport is closed while all of
that goes on; a sidecar polls an endpoint that forgets and loses answers; and a
campaign goes on over nodes that fail, die or answer late. `PROJECT.json` lists
these hazards at their lines together with the properties that watch them.

## Modules

| Module | Models | Proofs |
|---|---|---|
| `RBC` | one broadcast instance at every node, with the network | `RBCProof` |
| `BBA` | one agreement instance at every node, with the network | `BBAProof` |
| `ReliableBroadcast` | what one broadcast promises, as an abstract specification | |
| `BinaryAgreement` | what one agreement promises, as an abstract specification | |
| `CommonSubset` | what ACS promises, as an abstract specification | |
| `ACS` | N broadcasts and N agreements as services, and the rules between them | `ACSProof` |
| `SlotOutcome` | what a node promises of its slots, as an abstract specification | |
| `ShareCombine` | one node from the ACS output to the slot's outcome | `ShareCombineProof` |
| `SlotLifecycle` | one node's slots: start, submissions, sends, results, replacement | `SlotLifecycleProof` |
| `Transport` | sends, writers, prewarming, inbound streams and `Close` of all nodes, in three stream modes, with the lock that handlers, sends and `/slot/prepare` share | `TransportProof` |
| `Placeholder` | an encrypted placeholder, when it is well formed, and what sorting returns | |
| `MempoolView` | the sidecar's view of an endpoint's pending transactions | |
| `ProposalSource` | extends it: the corpus, `/inclusion-list` and the provider's checks | |
| `AgreedMerge` | every node from the accepted lists to the plan of the batch | |
| `Inclusion` | composes the last two: sidecar, provider, acceptance, merge, plan | `InclusionProof` |
| `Evaluation` | a campaign over a cluster of nodes | `EvaluationProof` |
| `MC*` | constants, message sets and scheduling bounds for TLC | |

Operators named "Variant for mutation" are deliberate mistakes. Nothing uses
them: a run with one of them in place of the definition it follows has to fail,
which shows that the property can.

### RBC

`net` is the set of messages that correct nodes have sent; it is never emptied,
so a message may come late, twice or never. Faulty nodes may send any message
of the constant `FaultyMessage`. A Merkle root stands for the batch it commits
to, and a proof that verifies is a pair of root and leaf index. Whether a set
of shards rebuilds a root is the constant `Decodable`: any N - 2F shards of a
root made by a correct proposer do, and a root of a faulty one may need a
particular shard. Leaf indexes are those of participants. Every handler is one
action, with the ready it emits and the decoding it ends in (`Proceed`). ACS
drains a broadcast's messages and output within the same handler, so there is
no queue.

### BBA

Handlers of `bba.go` call each other, and the replay of delayed messages at the
start of an epoch re-enters them. Because the interesting behaviour is exactly
there, a handler is not one action: `call` is the call being executed and
`loops` the stack of unfinished replay loops; the other nodes wait, as messages
leave only when the handler has returned. `loopEnd` empties the queue of
delayed messages as the code does. The coin is the parity of the epoch, as in
the code. `MaxEpoch` bounds the epochs: a node that would leave the last one
stays there.

### ACS and CommonSubset

ACS uses the two protocols as services. A broadcast that came out at a node
puts its proposer into `rbcResults`; an agreement yields one value, some value
a correct node put in (`given`, `agreed`). What a service promises is a module
of its own, `ReliableBroadcast` and `BinaryAgreement`, and both sides are tied to
it: `RBC` and `BBA` implement it (`KeepsPromise`), and every step of ACS is a step
of each of its N broadcasts and N agreements or leaves it alone (`UsesServices`),
so that ACS assumes of the protocols no more than they keep. The other way round,
whatever output a service may give next, a handler of ACS takes it
(`AdmitsServicesTheorem`). One handler of `acs.go` is one step,
including the loop that gives FALSE to the remaining agreements and whatever
they yield at once (`got`). `CommonSubset` states the promise of
`acs.go:26-28`; `KeepsPromise` is the refinement.

### ShareCombine

Every section under `slotState.mu` is one step. A handler that is about to call
`tryCombine` is counted in `waking`; the combination itself takes two steps
(computing and recording, then publishing or giving up) during which shares
keep coming in. A share is its operator, batch identity, sub-batch and whether
its point is right. The subsets that `combineSubBatch` tries are counted from
their lexicographic order without enumerating them step by step (`Visited`). A
subset decrypts if all its shares are right and the sub-batch is one of `opens`,
those whose ciphertexts all open, which are any and stay the same; an entry that
does not open fails every subset (`cluster.go:540`). `arrived` and `spent` are
history variables.

The slot it follows is one of `SlotOutcome` (`KeepsPromise`): it ends once, a
result comes only after its plan is fixed and its shares are made, or with an
empty plan, and nothing is planned in a slot that has ended.

### SlotLifecycle

One node and its active `slotState`. Goroutines that serve `/start` and `/tx`
or deliver envelopes are at a place `pc`; those at a `ReadPlace` hold
`lifecycleMu`'s read lock, and so do the sends counted in `flying`.
`/slot/prepare` waits (`prep`), gets the write lock when nobody reads
(`NoReaders`), and keeps readers out meanwhile (`MayRead`). It checks and swaps
in two steps, because `handleStart` uses `n.mu` without `lifecycleMu` between
them. `mu` is a variable for that reason only; every other section under it is
one step. A `/tx` is two steps, index and append, around the encryption; a
start is `startOnce`, `buildInclusionList`, `inputBatch` and the handling of an
output. What ACS yields, whether lists decode and whether shares combine are
free choices, limited only by `Output` handing out a slot's result once.
`SlotLifecycle` implements `SlotOutcome` too, with the replacement of slots:
both modules see the same slot, one from its shares and one from its users.

The trace of a slot outlives it in the tokens of its sends, so `scheduled`,
`terminal`, `sealed` and `finalized` are kept per slot, summed over the message
subtypes. A stale send completes its token without sending. What a trace records
of receptions and of RBC and BBA milestones is one counter, `observed`, capped by
`MaxObserved`: it grows from the moment the trace begins, with every ACS envelope,
sealed or not (`Observe`). `published` collects the answers of `/result` and of
the result file; each carries the trace of the moment it is given.

### Transport

A step is what a goroutine does between two operations on a channel, a stream
or a lock that another goroutine can see. `spc` is the place of each call of
`Send`, `wpc` of each `peerStreamWriter.run`, `ppc` of each prewarm loop, `ipc`
of each inbound handler; a dispatcher is `deliveries` and `handling`. Where a Go
select finds several cases ready, any may be taken. A context is done from the
moment its caller returns. A stream (external) is a sequence of frames that may
be reset at any time; its reader may still find what it had buffered. A frame
carries the call it comes from, so that a frame written twice is seen. The
codec is modelled by which payloads it encodes and decodes and by the checks of
`validateEnvelopePayload` and `validateAuthenticatedEnvelope`; a faulty sender
(`Missend`) may put anything of `Forged` on its streams, and what fails a check
resets the stream. `t.handler` is `handleEnvelope`, which waits for the read lock
of the node's `lifecycleMu` and for nothing else; a call of `Send` holds that lock
until it returns (`sendEnvelopeTracked`), and a `/slot/prepare` (`prepare`) waits
for those calls and keeps new readers out meanwhile. So a handler may wait for the
sends of its own node.

### MempoolView, ProposalSource, AgreedMerge and Inclusion

`MempoolView` is one poller against an endpoint that announces hashes, expires
filters and loses answers; a step is one call to the endpoint. The filter source
keeps a cache in two maps, `byHash` and `bySenderNonce`, which `upsert` and
`expire` change one after the other; the other sources replace the store as a
whole. `ProposalSource` adds the encrypted corpus: a tool generates it, the file
may be another one, the sidecar loads and serves a prefix of it, and the node
asks with the identity, prefix and limit it was bound to. A hash is modelled by
what is hashed: `encryptedCandidateSetID` is the sequence of candidates without
the gas noted beside them, as in the code.

`AgreedMerge` is `handleACSOutput` up to the plan: decode the accepted lists,
`Merge` (duplicates, order, both limits), decode the batch, arrange it. The map
that holds the candidates returns them in any order and `sort.Slice` is not
stable, so `Orders` is the set of all sequences the comparison allows.
`arrangeBatch` tries round robin and falls back to the greedy arrangement.
`Inclusion` composes both sides over one slot: the followed operator's proposal
and any lists of the others, of which ACS accepts at least n - f.

### Evaluation

The evaluator is one process with its place `pc`; nodes go on by themselves, may
die, and may handle a request the evaluator has given up (`late`). A stage
(prepare, submit, start) asks all nodes and fails when one does. A poll goes
round the nodes until all have a final result, one has failed or the deadline
has passed. `recordRun` is the rest of the three loops: what is retained, whether
the cluster is kept, replaced or recovered, and which planned run is next.

## Runs

| Run | Instance | Shows |
|---|---|---|
| `rbc_correct_proposer` | 4 nodes, faulty follower, 2 roots, fairness | only the proposer's batch comes out, at everyone; no threshold stepped over; refinement of the broadcast service |
| `rbc_faulty_proposer` | 4 nodes, faulty proposer of 2 roots, one not a code word | agreement on batches |
| `bba_node_down` | 4 nodes, one down, all orders, 4 epochs, fairness | nothing left undone, everyone decides |
| `bba_dissenter` | 4 nodes, one sides with FALSE | refinement of the agreement service (same decision, and of a correct input); a node that stopped is needed by nobody |
| `bba_lagging_node` | 4 correct nodes, one slow | **violation**: delayed messages are lost (below) |
| `acs_common_subset` | 4 nodes, faulty proposer with a malformed batch | refinement of the promise, services used as they promise, same slot output, nothing missed, everyone outputs |
| `share_combine` | 4 operators, threshold 3, 2 sub-batches, 6 attempts, one operator wrong, any sub-batches that open, fairness | refinement of the slot's promise, shares kept, no lost wakeup, no result without all sub-batches decrypted, conclusion |
| `slot_lifecycle` | 2 slots, 1 start, 2 submitters, 1 inbound, BMax 2, 2 traced and 1 other send, 1 reception recorded | replacement waits, distinct indexes, frozen proposal, answers that agree on the end and the sends, sealed traces settle, completed slots drain, refinement of the slot's promise |
| `slot_start_race` | 2 slots, 1 start | **violation**: a slot is replaced under `handleStart` (below) |
| `transport` | 1 sender, 1 receiver, 2 calls, 2 streams, queues of one, 1 lost connection, 1 Close, prepares at the receiver, fresh and lane modes | faithful, ordered, at most one delivery; silence after Close; nobody stuck |
| `inclusion` | 4 transactions (3 of one nonce), 5 sources, 4 corpus files, 4 operators, batches of up to 6 | fresh store, better transaction kept, exact corpus prefix, same and correct batch and plan |
| `evaluation` | 6 campaigns of 1 to 3 planned runs, clusters of 1 and 2 nodes, 2 restarts, fairness | runs retained in order and attributable, the summary exact, recovered clusters proved, restarts bounded, the campaign ends |

A run asks all questions that one instance can answer together.

Four nodes with F = 1 is the least instance in which quorums overlap in a
faulty node, and equality thresholds (F + 1 = 2, 2F + 1 = 3 = N - F) can be
reached and passed. Two roots are what an equivocating proposer needs. Four
epochs give the coin both values twice: decide, confirm, and a node that lags
one behind. Three sub-batch ids for two sub-batches and two batch identities
exercise the pruning. Every set of sub-batches that open is tried: where one does
not, its budget is spent to the end while the other one decrypts. Six attempts per
sub-batch cover all four subsets of
three out of four operators and let a second attempt run out of budget;
`MaxWaking` = 2 is the least with which two handlers compete for the claim.
Two slots are one replacement; a late message or send of the first meets the
second. Two submitters compete for an index and BMax = 2 is reached and refused.
Two traced sends let one end before the seal and one after it, and one recorded
reception makes two answers of a slot differ in it. A prepare sets the limit 1 or
replaces the slot.

In `transport`, capacities of one make a queue, an inbound queue and a stream
full with one frame each, so every wait of the code happens; two calls are a
request behind another one, two streams a stream and its replacement. One lane
is followed, since lanes share nothing but the peer; `persistent` is the same
code with one lane. One direction cannot close a circle of waits: that takes
five calls each way, one for each place a frame can stop at, which is beyond
TLC; the proof covers any links. In `inclusion`, three transactions of one
sender and nonce, two of equal fee, cover every branch of `upsert`; the lists of
the other operators contain repeated ciphertexts with other fees and gas,
malformed items, a list in another's name, and six ciphertexts whose indexes
collide in round robin. Only corpus proposals are followed into the batch
(`Followed`), since the merge does not see where a list came from. In
`evaluation`, a group of two scenarios is the least in which one good recovery
run is not enough, and two restarts the least with which a failure count can be
reset in between.

Four runs bound the interleavings with an action constraint, each named and
explained in its MC module: `PromptNode` (one node is handed its messages at
once, the other two in any order), `Schedule` (the slow node's order of
delivery), `ProposalsFirst`, `LateNode`, `LeavesUnheard` (one node lags
behind the other two), and `PrepareMeetsHandler` (a prepare comes while a handler
waits, since at other times it holds up nobody in that instance). The proofs do
not depend on them. Symmetry is used in safety runs only. Deadlock checking is
off because these systems end.

**Fairness.** RBC and BBA: a message from one correct node to another is
delivered eventually (the usual assumption of reliable channels; the node does
not send an envelope again that failed, `bloc-node.md:202`); the application
gives its input; a handler runs to its end. Nothing is assumed of faulty nodes.
BBA's `Termination` is checked with the faulty node down: with a predictable
coin an unlucky schedule and a dissenting node can prolong the epochs beyond
every bound. ShareCombine: handlers run to their end, nothing is assumed of the
arrival of shares. Evaluation: the evaluator runs on (requests time out) and the
deadline of a poll passes; nothing is assumed of the nodes. Two liveness
questions are invariants instead, which need no fairness: `SealSettles` (a
sealed trace without waiting sends is finalized; a send ends by the deadline
`Send` sets) and, of the transport, `NothingStuck`: as long as anybody waits,
some goroutine is ready, by the condition it waits for (`SomebodyMoves`, which
is proved), and a goroutine that is ready can take a step. The deadlines of
sends and prewarms count as no step there; a circle of prepares, in which they
are the only way out, is named (`Circle`). ACS termination is an invariant too:
its steps only add to the state, so it is enough that no correct node still
waits once the services have settled (`EveryoneOutputs`).

## Findings

- **Delayed messages are lost** (`bba.go:375`). The replay at the start of an
  epoch queues messages of a still later epoch again, and then the queue is
  emptied. A node two epochs behind loses what it holds for the last one. In
  `bba_lagging_node` every message arrives exactly once and the slow node never
  decides, against `bba.go:251` and `bba_test.go:54`.
- **A start races a replacement** (`node.go:215`). A `/start` that ends in an
  error locks and unlocks `n.mu` after it gave up `lifecycleMu`. A
  `/slot/prepare` that has done its checks installs the next `slotState` in
  between, and the unlock hits a mutex that is not locked, which ends the
  process; against `docs/modules/bloc-node.md:490`. The model ends
  there (`up` is FALSE), and the other properties hold up to that point.

Met on the way, without a run of their own:

- Nodes that prepare the next slot while sends are under way can wait for one
  another in a circle. A handler waits behind its node's `/slot/prepare`
  (`node.go:561`, `298`), that waits for the node's sends (`1237`), and these wait
  for room at a node whose handlers wait alike. Only the ten seconds `Send` is
  given end it; `node.go:1208` says that the goroutine of a send keeps ACS from
  being blocked by network I/O. `SomebodyMovesTheorem` shows that nothing else
  needs the deadline.
- `bloc-node.md:88` calls the success `Result` stable. Its end and the sends of its
  trace are (`PublishedStable`, and `hbbft.md:202-210`), but an ACS envelope that
  comes after the answer still changes the receptions and milestones of the trace
  it carries (`node.go:577`, `trace.go:420-438`: no look at the seal).
- `eval-suite` accepts isolated runs of an encrypted corpus. They submit synthetic
  transactions (`eval.go:204-222`), and the number of selected ciphertexts, which
  persistent and remote runs compare with the scenario, is not looked at.

Not contradicted by any document: any handler that reaches
`claimCombine` after a failed attempt may spend budget on the same shares
(`node.go:992`); a slot with a ciphertext that does not open spends its budget,
publishes nothing and records no failure either, so it stays "running"
(`node.go:1004`); a filter id that reads "0x" is reported as an error and yet
kept (`alchemy_pending.go:110`) until the endpoint says that there is no such
filter; a pending transaction whose lookup fails is not looked up again
(`alchemy_pending.go:79`); a campaign whose outputs cannot be written leaves a
manifest that says "running" (`eval_suite.go:335`); `bindEncryptedCorpus` writes
its files one after the other (`corpus_config.go:67`).

## Proofs

Each proof module states an inductive invariant `IInv`, proves that `Init`
implies it and every action keeps it, and derives the theorems.

- **RBC**: `Invariance`, `TypeCorrectness`, `AgreementTheorem`,
  `ReadyAgreementTheorem`, `ValidityTheorem`, `LocalOnceTheorem`,
  `NothingMissedTheorem`. Agreement is not inductive: the invariant records
  that every Ready a correct node sent is backed by a quorum of echoes of one
  root, that what a node recorded of a correct sender is what that sender sent,
  and that an output had more than 2F Readys. Two quorums of N - F meet in a
  correct node (`QuorumsMeet`), which echoes once. `Refinement`: RBC implements
  `ReliableBroadcast`. The service lets a batch of a correct proposer out only after
  that proposer put it in, so the invariant adds that before its input there is
  no proof and nobody has echoed (`InputFirst`).
- **BBA**: `Invariance`, `TypeCorrectness`, `AgreementTheorem`,
  `ValidityTheorem`, `NothingMissedTheorem`, `NobodyLeftBehindTheorem`. The
  invariant relates what each node sent per epoch to what others recorded,
  including messages sitting in delayed queues and in unfinished loops, and says
  that once a value is decided in an epoch whose coin it is, no correct node
  carries the other value into a later epoch. `MissedInv` adds what the
  thresholds need: each call counts at most one more sender, so the equality
  tests in the code meet every threshold they pass, and whenever a live node has
  an AUX quorum the call that tries it is pending. `BehindInv` adds that a node
  which left an epoch undecided saw a vote for the value the coin did not show,
  which a decision of an earlier epoch rules out. `Refinement`: BBA implements
  `BinaryAgreement`.
- **ACS**: `Invariance`, `TypeCorrectness`, `SlotAgreementTheorem`,
  `TrueIsHeldTheorem`, `NothingMissedTheorem`, `EveryoneOutputsTheorem` and
  `Refinement`, the whole specification implementing `CommonSubset`.
  `UsesServicesTheorem`: seen from one proposer, ACS runs an instance of
  `ReliableBroadcast` and one of `BinaryAgreement`; an agreement's value is fixed
  when the first node gets it, which takes the invariant that a value agreed on was
  yielded at some node (`YieldedSomewhere`). `AdmitsServicesTheorem`: a step such an
  instance may take next is part of a step of ACS.
- **ShareCombine**: `Invariance`, `TypeCorrectness`, `OneOutcomeTheorem`,
  `RightSharesKeptTheorem`, `NothingMissedTheorem`, `BudgetHeldTheorem`. The
  invariant says that a failed attempt whose version is current failed because
  some sub-batch lacks right shares or because a budget is used up; the first
  failing sub-batch (`FirstSubBatch`) and the existence of subsets of a given
  size (`SubsetOfSize`) carry it. `ResultBackedTheorem`: a published result has, of
  every sub-batch, threshold many right shares among those received and ciphertexts
  that open; `BackedInv` says so of an attempt that succeeded and is not yet
  published. `Refinement`: ShareCombine implements `SlotOutcome`. `SharingInv` is
  what completing needs: an attempt exists only once shares were made, and while
  they are being made there is no result.
- **SlotLifecycle**: `Invariance`, `TypeCorrectness`, `ReplacementWaitsTheorem`,
  `DistinctIndexesTheorem`, `ProposalFrozenTheorem`, `PublishedStableTheorem`,
  `SealSettlesTheorem`, and the action properties `EndStaysTheorem` and
  `CompletedDrainsTheorem`. The invariant keeps the account of each trace
  (ended, in flight and queued sends add up to the scheduled ones), says that
  from the checks of `prepareSlot` to the swap nobody reads and the slot stays
  replaceable, that at most one submission is between index and append and none
  once the start has begun, so that item i has index i - 1, and that what was
  published says of the end and of the sends what would be published now.
  `Refinement`: SlotLifecycle implements `SlotOutcome`; `SharesInv` says that at
  most one goroutine makes shares, for the slot whose plan it stored, and none
  in a slot that ended empty. `SealSettles` needs one more conjunct
  (`SettledInv`): a sealed trace whose counters are equal is finalized.
- **Inclusion**: `Invariance`, `TypeCorrectness`, `CacheConsistentTheorem`,
  `StoreFreshTheorem`, `CorpusPrefixTheorem`, `MergeAgreementTheorem`,
  `MergeCorrectTheorem`, `PlanSoundTheorem` and the action property
  `OnlyForBetterTheorem`, all of the composed specification.
  - *Sidecar.* The invariant adds that the cache has every transaction under its
    own sender and nonce (`KeyInv`) and that both maps hold the same
    transactions; without it `upsert` could drop a transaction of another sender.
  - *Loops.* The builder, the provider, `Merge` and `arrangeBatch` are loops over
    lists of any length, written as recursive functions of the number of steps.
    `LoopExists` shows that such a loop has a run, `UpTo` is induction over its
    steps; both rest on `Least`, that a set of naturals has a least element, which
    takes a set and not an operator and so is within the provers' reach.
  - *Corpus.* A loop that drops nothing returns its input (`BuildResult`,
    `PlaceholdersResult`). The counts the provider compares therefore leave it no
    choice: what it accepts is the page, and the page is the prefix.
  - *Merge.* Sorting returns one sequence if the order tells any two elements
    apart (`OrdersUnique`), each element once and none before one that precedes it
    (`OrdersSorted`). The candidates have different hashes, which break ties
    (`CandidatesOrdered`), so the order in which the map is read is forgotten.
    `Collected` says what `unique` and `validated` hold of the items seen;
    `Settled` says of every candidate passed by the selection that it was taken,
    that the batch is full, or that what precedes it leaves too little gas.
  - *Plan.* `Placed` says of the first k positions, in either arrangement, that
    each is in one place of one sub-batch and that the first k sub-batches are not
    empty: an empty sub-batch is free and the shortest. The search never fails
    (`FreeSome`): if every sub-batch had the index of the next position, it would
    occur more often than there are sub-batches, and there are at least as many
    as any index occurs (`AlphaBound`).
- **Transport**: `Invariance`, `TypeCorrectness`, `FaithfulDeliveryTheorem`,
  `ExactlyOnceTheorem`, `QuietAfterCloseTheorem`, for any nodes, links, lanes,
  calls and capacities. The invariant says of every call where it is (with its
  caller, in a queue, in a writer's hand, written) and that this place tells
  whether its frame was written; of every stream that what was handled, is being
  handled, waits in the inbound queue, is held by the reader and is on the wire,
  in this order, begins what was written to it; and of every writer that one that
  has stopped has no stream and that a live prewarm request is waited for.
  `SomebodyMovesTheorem`: while anybody waits, somebody can go on without a deadline,
  or calls wait in a circle of prepares. `WaitInv` gives the facts a chain of waits
  rests on: a writer ends only when it was stopped (`WriterLives`), a waiting call of
  a writer that was not is in its queue or in its hand (`CallServed`), a writer's
  stream is one of its channel (`StreamOf`), a fresh stream is one call's own and
  empty before its write (`FreshInv`), and a stream that is not broken has both hosts
  up, a reader and, in fresh mode, the call that writes to it (`StreamLives`). From a
  call that waits the chain leads to its writer, to a full stream (`WriterHeldUp`),
  to the reader and dispatcher at its other end, to a prepare there and to a call of
  that node which waits itself (`CallsInCircle`); if no call waits, nobody does.
- **Evaluation**: `Invariance`, `TypeCorrectness`, `RetainedInOrderTheorem`,
  `SummaryExactTheorem`, `AttributableTheorem`, `CleanClusterTheorem`,
  `RestartBudgetTheorem`, for any campaign, node counts and MaxRestarts; the
  exact count in `Attributable` is that of persistent and remote campaigns.
  Results are of different nodes not yet asked in this round, so that as many
  results as nodes are one of each (`ResultInv`, and a counting theorem); in an
  isolated run, where the poll does not name a slot, every node and every late
  request is of the run's own (`NodeInv`). The number of planned runs retained
  is the place in the plan (`RunInv`). The summary is exact because runs and
  pairs of scenario and round are in bijection (`EveryRoundOnce`): no two runs
  share a pair and there are as many of both; the ranks of the retained runs are
  the second bijection (`WholePlanMeasured`). For the cluster, `ClusterInv` says
  of the present group what `CleanCluster` says of a run still to come: an
  unproved generation is either the group's first or in recovery, and whatever
  the recovery has passed was recorded after every planned run so far.
  `BudgetInv` ties the generation to the last one with a planned run and the
  failures since.

Assumptions are the named `ASSUME`s of the models: finitely many nodes, at most
F < N/3 of them faulty, faulty senders known by name (the transport
authenticates), code words decodable from N - 2F shards, share operators equal
to the envelope's sender, proposal limits up to BMax, disjoint kinds of
goroutines, `None` not being a call of BBA's loop, finitely many transactions and
operators, and natural numbers for gas, nonces and limits. TLC evaluates them in
the runs of these models.

Only model-checked, since outside the prover's reach: liveness (`Totality`,
`Termination`, `Concludes`, `CampaignEnds`) and, of `NothingStuck`, that a goroutine
that is ready can take a step, which speaks of ENABLED. Every other property of a
passing run is a theorem. Some theorems have no property of their own
in a run. A refinement the run checks implies validity of RBC, agreement and
validity of BBA and `EndStays` of SlotLifecycle; `OneOutcome` and `BudgetHeld` of
ShareCombine and `TrueIsHeld` of ACS are left to the proofs; `SummaryExact` of
Evaluation is a part of `RetainedInOrder`.

## Plan

1. *(done)* RBC, BBA, ACS with its abstract specification, ShareCombine,
   SlotLifecycle with the outbound accounting of traces, with proofs.
2. *(done)* Transport; the inclusion lists from mempool and corpus to the plan of
   the batch; Evaluation.
3. *(done)* Proofs of the safety of Transport and of Evaluation, of
   `NothingMissed` and `NobodyLeftBehind` of BBA, and of the way from a mempool or
   a corpus to the plan of a batch (Inclusion).
4. *(done)* Abstract specifications of the two services, tied to the protocols
   and to ACS, and of the slot, implemented by ShareCombine and SlotLifecycle;
   `ResultBacked`; of the transport, that while anybody waits somebody is ready, but
   for a circle of prepares.

## Not modelled

Cryptography and erasure coding (algebra); metrics, logging and timings; the
trace recorder's single milestones and artefact files and the evaluator's
statistics and output files, which are measurements and formatting;
configuration checks of one value at a time; generated protocol buffers; charts,
scripts and deployment. The HoneyBadger epoch driver, its buffer, and the local
transport and simulation of `sbc/hbbft` are not part of a BLOC node, which
drives `SlotACS` directly. A leaf index beyond the number of shards, an empty
subset of configured nodes and the fault switches of the evaluator
(`OmitProposal`, `WithholdShare`, `CorruptShare`) are outside the models.
