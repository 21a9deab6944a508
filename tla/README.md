# TLA+ specifications of Chain-in-the-Box

Chain-in-the-Box (CBox) emulates blockchain nodes. A node is a row of stages
(`src/src/node.rs`), each a tokio task with its own state, joined by mpsc pipes:

```
clients, peers -> txn_validation -> txn_dissemination -> block_management
    -> block_dissemination -> decide -> commit -> client
                pacemaker -> block_management,  decide -> pacemaker (feedback)
```

The chain in use (Avalanche, Bitcoin, chain replication, dummy) chooses the
implementation of every stage. The stages share a `VCoreGroup`, a semaphore that
stands for the node's cores, and reach other nodes through `PeerMessenger`.

These modules model the stages with protocol state, from the source. TLC checks
them on small instances, and TLAPS proves the safety invariants of seven of them for
every value of the constants. Paths below are relative to the repository.

## 1. The system

| Part | State | Operations | What makes it hard |
|---|---|---|---|
| Pacemaker (`src/stage/pacemaker`) | quota of blocks in flight | propose, feedback | quota travels through four stages and two pipes before it comes back |
| Block management, Avalanche | pool, DAG of unbatched transactions, frontier, batch, blocks of peers waiting for ancestors | record, prepare, propose, validate, serve requests | transactions in any order; ancestors missing at several depths |
| Block management, Bitcoin | mempool, block tree, orphans, UTXO set, block under construction | record, prepare, propose, validate with reorganisation | undo and redo of blocks whose transactions depend on one another |
| Block management, chain replication | mempool, current batch | record, prepare, propose | sleeping and waking on `blk_state` |
| Transaction validation | `txns_seen` (shared), pool, transactions waiting for inputs | batch, check, record, validate | concurrent tasks check and then insert, and hold a core while they wait for the stage; inputs come last |
| Transaction dissemination, peer messenger | batch of validated transactions | batch, gossip or broadcast, pass on | cycles in the topology, several sources, sends that fail half way |
| Block dissemination | none | send to peers, pass to decide | the peers get the block before the node's own decide stage; sends fail |
| Decide, Avalanche (basic, Blizzard, VoteNo) | pool, DAG, conflict sets, confidence, preference cache, polls, votes, timers, commit queue | new_tail, votes, timer, commit | votes early, late or never; the timer against the last vote; polls that reach the same ancestor |
| Decide, Bitcoin | heights, undecided chain | new_tail, commit | gaps left by failed sends; deep reorganisations |
| Decide, chain replication | blocks in flight, acked ids, next to commit | new_tail, ack, commit | the tail's ack may overtake the head's own stage |
| Virtual cores (`src/vcores.rs`) | semaphore, packed word of time and tickets, utilization | acquire, release, get_utilization | lock-free update of two values in one word; a reader that loads them apart |
| Load generators and driver (`copycat_flowgen`, `copycat_cluster`) | unspent outputs, transactions in flight, pairs of rivals, counts per height | wait_next, next_txn_batch, txn_committed | several nodes commit the same transaction, or both of two rivals; forks |

What correctness means here: quota is conserved and comes back; each poll closes
once; confidence, preference and conflict sets agree; a transaction is accepted,
batched, let through or committed once and after its inputs; the UTXO set is
always a replay of the chain; replicas commit in order and only what all of them
have; nothing sleeps with work left; the cores' account is exact; transactions
reach every node and no link twice; the generator's counters, from which results
are reported, are exact, and it stops only for conflicts that nobody decides.

Signatures, hashes, emulated delays, logging and reports are left out
everywhere; hashes are identities. Section 5 says what else is not modelled, and
`PROJECT.json` lists every part.

## 2. Modules

| Module | Models |
|---|---|
| `AvalanchePipeline` | the ring pacemaker, block management, dissemination, decide of one Avalanche node: quota, polls, votes, timers, commit entries |
| `PollRounds` | abstract: what decide promises about polls (open once, close once, handed over in order) |
| `AvalancheDag` | operators on the transaction DAG and preference that decide uses |
| `AvalancheVotes` | what decide does with the transactions of a block: record, vote, support, accept |
| `AvalancheDecide` | decide in its variants basic, Blizzard and VoteNo: every handler with its tables |
| `AvalancheBlockManagement` | block management of an Avalanche node |
| `TxnValidation` | the txn_validation stage with its concurrent tasks, their permits and the pipe between them |
| `TxnNetwork` | the txn_dissemination stages and messengers of all nodes |
| `ChainReplication` | a cluster of N replicas, each with block management, dissemination and decide |
| `BitcoinBlockManagement`, `BitcoinNode` | block management of a Bitcoin node, and its composition with dissemination and decide |
| `VCores` | `VCoreGroup`, one step per load, clock reading and atomic operation |
| `FlowGen` | the three load generators and the loop of `copycat_cluster` that drives them |
| `Flatten`, `Summation`, `Folding` | the concatenation of a sequence of sequences, the sum of a function over a finite set, a loop over a sequence |
| `AvalancheDag_proofs`, `AvalancheDecide_proofs`, `FlowGen_proofs`, `TxnValidation_proofs` | theorems about one component each |
| `NetworkAndPipeline_proofs`, `CoresAndReplication_proofs` | theorems about `TxnNetwork` and `AvalanchePipeline`, and about `VCores` and `ChainReplication`; the two parts of each share no state |
| `InductionLemmas` | what the proofs use: induction over numbers, sequences and finite sets, and what follows from it about sums, concatenations, listings and loops |
| `MC*` | instances for TLC |

Correspondence. A variable has the name of the field or pipe it stands for. An
action is one arm of a stage's `tokio::select!` loop with everything the arm
calls: a stage owns its state and an arm runs to its end before the next begins,
so an arm is one step. Two places are finer: validation tasks, which are spawned
and share a concurrent map (`TxnValidation`, the `validating` set of
`ChainReplication`), and `VCores`, where threads meet on atomics. Error paths that
log and continue are actions of their own (`DisseminateFails`, `NewTailAckFails`,
failing requests), limited by `MaxDrops`, `MaxLosses` or `MaxFailures`. A panic is modelled by a
flag (`panicked`) and a loop that does not return by `spinning`. Pipes hold
0x100000 entries or more in the code and are unbounded here, except `pending_txns` of
`TxnValidation`, whose capacity is a constant because tasks wait for room in it
while they hold a core. `FlowGen` makes one transaction or one conflict of
`next_txn_batch` a step of its own, between which nothing else runs.

`decide/avalanche/basic.rs` and `blizzard.rs` are the same text but for the fields of a
conflict set, the test for acceptance and what a failed poll does. `AvalancheVotes` has
two definitions for each of these (`CountSuccess`, `BlizzardCountSuccess` and so on) and
one for the rest; `variant`, chosen at the start as `decide/avalanche/mod.rs` does,
selects between them.

Transactions are their inputs: a constant maps each to the transactions it
spends. Votes are arbitrary. `polled`, `lost`, `dropped`, `drops`, `emitted`,
`proposed`, `pruned`, `from_blocks` and the like record history or the
environment, and no guard of a stage reads them, apart from bounds.

## 3. Runs

| Run | Instance | Shows |
|---|---|---|
| `avalanche_pipeline` | 2 in flight of 3 blocks, 3 votes a poll, 2 failed sends | `QuotaConserved`, `PollBookkeeping`; refinement of `PollRounds` with progress (`PollsKept`); every block settles; quota returns unless failed sends burnt it all |
| `avalanche_decide` | basic: two rivals, a descendant with a decided and an undecided parent, 4 own blocks, 1 of a peer, k = 3; Blizzard: two rivals with a chain of descendants on one, k = 2; VoteNo | the preferred spender has most confidence, ancestors lead, a transaction is accepted once, refinement of `PollRounds`; in Blizzard `total_rounds` is the sum of the spenders' confidence and two accepted rivals are `beta2` apart |
| `avalanche_blocks` | 5 transactions, one incorrect, 2 blocks of peers, 1 failed request | batching in order and once; peers' blocks reach decide with the right verdicts; nothing stays at the frontier |
| `txn_validation` | 3 transactions, one in two copies and in a block, 3 tasks, 2 cores, a pipe of one batch | each let through once and after its inputs; what waits is woken; all arrive in the end unless a block brought an ancestor first or tasks and stage wait for one another |
| `txn_network` | 3 nodes in a cycle, 2 transactions, one from two clients, 1 failure, all three patterns | no link carries a transaction twice; gossip leaves no neighbour out and goes round a failure; broadcast reaches all unless it failed |
| `chain_replication` | 3 replicas, 4 transactions, 1 failed send | commits in order, only what is replicated, no missed wake-up, every block commits unless one was lost |
| `bitcoin_node` | 3 transactions with a double spend, 4 blocks of peers, 2 own, 1 failed send | UTXO set and block under construction are replays; heights; mempool; decide follows the chain and its commits skip no height; nothing recorded is forgotten |
| `vcores` | 3 tasks, 2 cores, a reader, clock up to 2 | tickets exact, utilization bounded, what the reader can be wrong by, no deadlock |
| `flowgen` | each generator, 2 clients with a node each, 2 in flight, 2 conflicts with a successor on each side, heights up to 2 | counters exact, only rivals conflict, inputs before spenders at every node, counts without gap, generation goes on unless undecided conflicts use up `max_inflight` |

Three runs expect a violation. Each states what a comment of the code says and
shows a behaviour that differs:

* `avalanche_cache`: `ct.pref` is overwritten before the preference cache of
  "ct.pref, next_txn and their offsprings" is invalidated, so the displaced
  spender's cached answer stays (`decide/avalanche/basic.rs:262`).
* `avalanche_frontier`: `num_parents` counts inputs that were batched before, so
  their spender is never freed (`block_management/avalanche/basic.rs:202`).
* `bitcoin_spin`: a transaction pushed back to "retry later" is retried at once
  for ever (`block_management/bitcoin/basic.rs:282`).

The passing properties are stated so that they allow for these behaviours, and
for those that no comment speaks of, and say so:

* `FrontierLeaves` speaks of what is at the frontier.
* `CommitsUnlessLost` counts an ack as lost that reaches the head's decide stage
  before the block does: it is dropped with an error, and that block and those
  behind it never commit (`decide/chain_replication.rs:142`). It is about two replicas
  or more; a head that is its own tail sends no ack and commits nothing.
* `ReleasedInTheEnd` excepts a circular wait: validation tasks hold every core
  while they wait for room in a pipe that the stage empties only with a core
  (`txn_validation/mod.rs:212`). It takes a full pipe, 0x100000 batches in the
  code.
* `BroadcastReachesAll` excepts a transaction that some node does not hand on, because
  its broadcast failed half way or a block had brought it first: nobody repeats it.
* `UnusedWithinMove` bounds what `get_utilization`, a read its comment calls sloppy,
  may count twice. It does not make the proof-of-work timer safe: `get_unused`, which
  that divides by, may be zero or, when the word moves, negative.
* `KeepsGenerating` excepts `max_inflight` pairs of rivals of which no side is
  committed. The generator makes such pairs itself: the last outputs of both sides of
  a conflict are offered to later conflicts (`copycat_flowgen/src/avalanche.rs:374`),
  no side of a conflict about the loser's output can be committed, and its pairs are
  counted for ever. In the instance one such conflict stops generation.

Bounds. Two blocks in flight let two polls interleave, a third reuses returned
quota; three votes give an early, a timely and a late one. The decide instances
hold a conflict with a descendant on one side, and a child with a decided and an
undecided parent. Peers' blocks miss ancestors two levels deep. Three replicas are
head, intermediate and tail. The peers' Bitcoin chain of three outgrows an own
chain of two, so a reorganisation undoes two blocks. Three tasks on two cores make
one wait while two exchange. A cycle of three nodes brings a gossiped transaction
back from the other side. The second conflict of `flowgen` is about an output of
the first. Deadlock is checked only for `vcores`: the other
systems stop when the bounded input is used up.

Fairness. A stage is a task that tokio keeps polling, an armed timer expires, and
the models' weak fairness says no more. Peers owe no votes, so `EveryBlockSettles`
rests on the timer; clients owe no transactions, so `GetNewBlock` of the pipeline
is not fair. `tokio::select!` takes a ready arm at random, so in `FlowGen` an arm
that is ready again and again (`wait_next`) is taken: strong fairness; the chain is
assumed to commit every transaction that has no rival, and nothing is assumed of
rivals. Where a disjunction stands under one fairness condition
(dissemination that succeeds or fails) the failing outcome is allowed every time
within its bound. In `AvalancheBlockManagement` and `TxnValidation` two conditions
are written out as "infinitely often not enabled, or infinitely often taken",
which is weak fairness without the cost of ENABLED.

## 4. Theorems

`NetworkAndPipeline_proofs`, about `AvalanchePipeline`, for every `MaxInflight`,
`K`, finite `Peers`, `MaxBlk` and `MaxDrops` with `K - 1 <= Cardinality(Peers)`
(what `NodeConfig::validate` ensures):

* `QuotaIsConserved`, `PollsAreConsistent`, `TypesHold`: `Spec => []` of
  `QuotaConserved`, `PollBookkeeping`, `TypeOK`.
* `CommitsAreUnique`: the commit stage gets each closed poll once.
* `PollsRefined`: `Spec => PollsMapped!PollSafety`.

The conserved sum is not inductive: opening a poll of a block that was already
polled would not change `Cardinality(query_pool)`. `IInv` therefore adds `Placed`
(no pipe holds a block twice and a block is in one place only) and `VotesBounded`
(votes received and votes still out leave room for the node's own vote until
decide has seen the block; timers and open polls agree). There is one lemma per
action. Uniqueness and the refinement add `LogOnce`, which says that the commit
queue and pipe list `finished_query` without repetition; with `Placed` it shows
that the block `new_tail` takes was never polled.

`AvalancheDecide_proofs`, for any transactions and senders, own and peers' blocks, `k`,
`alpha`, `beta1`, `beta2` and votes, in every variant:

* `PrefHasMaxConfidenceHolds`, `AncestorsLeadHolds`, `AcceptedOnceHolds`,
  `RoundsSumConfidenceHolds`, `AcceptedRivalsFarApartHolds`: `Spec => []` of the
  properties of these names.
* `PollsKeptHolds`: `Spec => PollsKept`, the safety part of `PollRounds`.

The assumptions: a transaction lists each input once, inputs form no cycle
(`AcyclicAssumption`: an input is named by its hash), and own blocks hold valid
transactions only. `AvalancheDag_proofs` first shows that `Ancestry` is a walk over
undecided ancestors, each met once and after its undecided parents (`WalkOf`), and
then what one visit does to a view: all conflict sets of a visited transaction
prefer it or someone at least as confident (`PrefMax`). Within a walk the parents
need not lead; `Along` says which transactions were met and so have one unit more. A
walk is closed under undecided parents, so at its end they lead again (`Leads`), and
it meets nobody twice, so nothing is accepted twice (`ListOK`).

In Blizzard, `FarApart` (accepted rivals) rests on `Counted` (`total_rounds` is a
sum): `conflict_count` is at least the confidence of each rival because
`total_rounds` is the sum over all spenders, and a conflict set with two spenders is
marked (`Conflicting`), so `beta2` is what the second of them has to lead by. What was
accepted has left the DAG and gains no more confidence.

`AvalancheDecide_proofs` shows that every handler takes a step of one of five kinds
(`Kinds`: vote, open a poll, close one, both at once, hand over), which keep
`DecideInv`: the view is right, open and closed polls are of blocks that have come, and
what the closed ones list is what was decided (`PollsOK`). The same kinds are the steps
of `PollRounds`.

`CoresAndReplication_proofs`, about `VCores`, for every finite set of tasks,
`max_cores` and clock bound:

* `TicketsAreExact`, `UtilizationIsBounded`, `UnusedIsWithinMove`: `CoresSpec => []` of
  `TicketsExact`, `UtilizationBounded`, `UnusedWithinMove`.
* `TypesHold`: permits within `max_cores`, no negative window.

The inductive invariant adds that permits and holders sum to `max_cores` (those
counted hold a permit, which bounds the tickets), and that times are ordered: what
a task has read of the word is no later than its clock reading whenever it tries
the exchange. That is why a failed exchange reads the clock again. `Account` counts
what tasks have yet to add as added already: an exchange then moves the bound by
the tickets it found times the time that passed, and an addition changes nothing.
`Reading` follows the reader's loads: what it has added up is bounded by the time of
the word when it loaded the sum, not when it loaded the word.

`NetworkAndPipeline_proofs`, about `TxnNetwork`, for every finite set of nodes,
topology, set of transactions, pattern, batch size and bound on failures:

* `LinksCarryOnce`, `GossipReachesNeighbours`, `BroadcastCovers`: `NetSpec => []` of
  `OncePerLink`, `NoNeighbourLeftOut`, `BroadcastReachesAll`.

The inductive invariant adds that a seen transaction is in one place, waiting,
handed on or given up (`Parted`), that a node it came from has finished with it
(`Sourced`), and that what was sent is finished with (`SentOnce`). Gossip skips the
source of a transaction; `Sourced` is why that leaves nobody out.

`CoresAndReplication_proofs`, about `ChainReplication`, for every number of
replicas, workload, block size and bound on losses:

* `CommitsAreReplicated`, `CommitsInOrder`: `Spec => []` of `CommittedIsReplicated`,
  `CommittedInOrder`.

The argument follows a block down the chain. Whatever a replica holds, in
whichever stage, pipe or validation task, the replicas before it have met
(`Descending`), so what the tail acknowledges all have met (`Acknowledged`). For the
order of transactions the invariant remembers where the head cut its pool into
blocks (`Cuts`): a block that a failed send lost is in no stage any more, and yet
the blocks after it begin where it ended.

`FlowGen_proofs`, for any number of clients, nodes and conflicts, more than two
accounts, and any depth of conflicts:

* `RivalsOnly`: `Spec => []OnlyRivalsConflict`.
* `CountsHaveNoGap`, `CountersAreExact`: `Spec => []` of `HeightsCounted`,
  `CountersExact`.
* `InputsAreSentFirst`: `Spec => []SentAfterInputs`.

The first needs that every output on offer is unspent and offered once
(`UtxosUnspent`, `OffersUnspent`), that it is the output of an older transaction of
the right kind (`Known`), and that the two receivers chosen for rivals differ
(`ReceiversDiffer`). With two accounts, which the generator's assertion allows, the
second receiver is chosen modulo zero; the assumption excludes that.

The counters rest on which rivals are in flight and which lost to a committed one
(`Fighting`, `Counting`): a commit then changes one pair, and the counters are
cardinalities of sets of pairs. For the order of sending, the nodes of a client have
been sent whatever the client's outputs on offer come from (`Given`); a conflict
sends one level after another, and the proof is an induction on the levels.

`TxnValidation_proofs`, for any transactions and inputs, tasks, cores, batch size
and capacity of the pipe:

* `ReleasesOnceInOrder`, `NoneForgotten`: `Spec => []` of `ReleasedOnceInOrder`,
  `WaitsForMissing`.

`validate` calls `validate_inner` for each transaction and again for what it wakes.
`Loop` is what each call keeps, for any order in which the hash map lists the woken;
`Left`, the calls that are due and those that can still be caused, falls with each
call, so the bound on the calls in the model cuts nothing off. `WaitsForMissing` is
not inductive: a task drops a transaction that another has put into `txns_seen`, so
what is in `txns_seen` has to be downstream of the tasks, released or waiting
(`Kept`).

Induction. The library's induction theorems take the property as an operator, which
the provers cannot instantiate. `InductionLemmas` states them with the set of values
that have the property, from the well-foundedness of `<` on the naturals; sums over
finite sets, `FlattenSeq` and the loop of `validate` are reasoned about that way. The
loops of decide are instances of `Folding`, whose body is a constant operator: its one
lemma, that `Fold` is the last of a sequence of states, each obtained from the one
before, then holds of every loop.

Only model-checked: the liveness properties and progress of `PollRounds` (the
prover has no fairness or ENABLED), and everything about block management of Avalanche
and Bitcoin and Bitcoin's decide, whose operators are recursive.

## 5. Not modelled

* `bitcoin/eager.rs` does not run: `validate_block` is `todo!()`, and the first
  preparation of a block unwraps a UTXO set that does not exist yet.
* Commit forwards what decide commits, in order, and keeps nothing; what its client
  asserts of the heights (`copycat_flowgen/src/bitcoin.rs:227`) is in `DecideFollows`.
* The dummy chain forwards and keeps nothing.
* Time: a vote timer may fire as soon as it is armed. The order is the code's, the
  oldest first; `AvalancheDecide` keeps the queue, `AvalanchePipeline` the set of its
  entries, which are in the order of their ids.
* Parsing, start-up and reports of the programs, and the external mailbox, which is
  seen as delivery in any order and sends that fail.
* Peers' decide stages: votes are arbitrary, so agreement between Avalanche nodes,
  which holds only with high probability, is not asked about.
* Emulated delays and floating-point time: of `wait_to_propose` only the account it
  divides by (`VCores`).
