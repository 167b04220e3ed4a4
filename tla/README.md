# CHAINNAME in TLA+

A TLA+ development of the chain in `src/`: a proof-of-work block DAG ordered by
GHOSTDAG, whose selected chain is executed by an EVM. The modules are written
from the Rust source, checked by TLC on small instances, and partly proved for
every instance with TLAPS. `PROJECT.json` maps every definition to the lines it
models.

Contents: [the system](#1-the-system) ·
[the modules](#2-the-modules) · [the runs](#3-the-runs) ·
[findings](#4-where-the-code-and-its-documentation-disagree) ·
[the proofs](#5-what-is-proved) ·
[what is left out](#6-what-is-not-modelled-and-why) ·
[what could come next](#7-what-could-come-next)

## 1. The system

A Rust workspace, `src/crates/*` and one binary. Blocks name several parents;
GHOSTDAG picks for every block one *selected parent*, colours the rest of what
the block merges blue or red, and so turns the DAG into a chain of chain blocks,
each with an ordered merge set. The transactions of a chain block and its merge
set are deduplicated, put in a canonical order, and executed. When a heavier tip
arrives, execution is undone to the fork and redone along the new chain.

```
        p2p / transport ── DagSync ──┐                 RPC server ─┐   mining loop
        (tasks, channels)  (orphans, │                             │   (dev.rs)
                            requests)│                             │      │
                                     ▼                             ▼      ▼
  validate ──► DagStore ◄──── add_block ───────────────────── Backend (one RwLock)
               │  is_ancestor_of (memo table)                   │        │
               │                                                │        ├─ TxPool
               ▼                                                │        ├─ tx_index, tx_bytes
        base_sequence ──► layer_and_sort ──► ChainExecutor ◄────┘        └─ BodyStore
                          partition_rounds    journal, compute_reorg
                                              World (state), EVM (revm)
```

### Inventory

| Component (code) | State | Operations | What makes it correct |
|---|---|---|---|
| DAG store, GHOSTDAG (`ghostdag/src/dag.rs`, `work.rs`) | headers, per-block `GhostdagData`, children, tips | `new`, `add_block` (selected parent, merge set, topological sort, colouring, score and work), queries | a block's data depends on its past alone; every block is merged exactly once along a chain, parents first; the head is the heaviest block; blue sets are k-clusters |
| Reachability (`dag.rs`: `is_ancestor_of`, `remember`) | memo table behind a `Mutex`, shared by readers | search, hit, remember, drop | answers are membership in the past, at any time after they were computed |
| Canonical order (`ordering.rs`, `bodies.rs`, `parallel.rs: partition_rounds`) | none beyond its loops | layer, sort, partition | conflicting transactions keep their order; rounds are conflict-free and as early as possible; the two computations of the rounds agree |
| Chain executor (`chain/src/executor.rs`, `journal.rs`, `reorg.rs`) | world state, results by height, undo journal, height, tip | `apply_reorg`, `undo_one`, `execute_chain_block`, `prune_journal`, `compute_reorg` | state is a function of the selected chain; no transaction is executed twice; what may be reorged can be undone |
| Parallel rounds (`parallel.rs`, `executor.rs: execute_rounds_parallel`) | speculative results per round | speculate, validate, merge or fall back | same result as sequential execution |
| Transaction pool (`pool/src/lib.rs`) | two indexes, arrival counter | `add`, replace, evict, `remove`, `prune`, `best_transactions` | indexes agree, limits hold, only better transactions displace others, nothing obsolete stays |
| Backend (`rpc/src/backend.rs`) | all of the above plus `tx_index`, `tx_bytes`, one lock | `submit_raw`, `add_block`, `advance`, queries | the index names what the chain executed; the pool follows the state through reorgs |
| Block synchronisation (`net/src/sync.rs`, `peer.rs`) | peers and what they are known to have, requests in flight, orphans, bodies, retry cursor | handshake, inventory, request, answer, timeout, relay, ban | every block reachable from an honest peer is eventually held, after its parents |
| P2p driver, transport (`net/src/p2p.rs`, `transport.rs`) | a sender per connected peer, tasks, timers | connect, read, dispatch, drop a stuck peer, dial, tick | what the machine returns is sent in order; the end of a connection is noticed on both sides |
| Wire format (`net/src/message.rs`) | none | encode, decode | limits on counts are respected on both sides |
| Difficulty (`difficulty/src/*`) | none | ASERT, compact codec | no later timestamp is harder, every chain can be extended, a chain on schedule has the anchor's target; the codec rounds down |
| Validation, miner, genesis (`consensus/src/*`) | none | header checks, nonce search | what the miner finds the validator takes |
| Chain parameters (`primitives/src/params.rs`) | none | `validate`, derivations; the fee market they steer | no derivation of a valid set rounds; the base fee follows the gas target |
| World state and EVM (`execution/src/*`) | accounts, storage, code | read, commit, insert, remove, `transact` | commit and undo are inverse; one map for each observable state; every code resolves |
| Block storage (`storage/src/lib.rs`) | redb tables, schema version | open, put, get | what is acknowledged survives crashes; no build reads what another version wrote |
| RPC API, server (`rpc/src/eth.rs`, `dag_api.rs`, `server.rs`) | none of its own | queries and formatting, each under one or several read locks | answers that fit together; no call blocks the node |
| Dev node (`node/src/*`, `bin/`) | mining loop, template | `mine_once` in two lock sections, boot, shutdown | headers publish what the chain holds; nothing accepted is lost; the height advances |
| Simulator (`testkit/src/sim.rs`) | event queue, nodes | deliver or lose, mine, tick, `advance_execution`, `quiesce` | nodes converge |

Components meet in four ways: plain calls under the backend's lock; the shared
memo table, the one place where several threads write without excluding each
other; messages between nodes (`Action`s carried out by the driver); and the
mining loop, which releases the lock between making a template and adding the
block.

### What is hard in it

- **Many arrival orders.** Every node receives the DAG in its own order and must
  compute the same data from it (`dag.rs:358`, `:393`, `:481`).
- **Incremental state.** Tips, blue totals, anticone sizes, the pool's second
  index, the transaction index, all maintained by deltas and all compared by
  somebody with a value computed another way.
- **Reorgs.** Undo records, a journal bounded by height while height goes down,
  a failure half way (`executor.rs:248`), a pool and an index that must follow.
- **Shared readers.** The memo lock is released during a search (`dag.rs:529`).
- **Two computations of one thing.** Rounds from the ordering and rounds from
  the order (`parallel.rs:107`).
- **Loss, disconnection and timeouts** in synchronisation: what is dropped or
  evicted has to be brought up again by something (`sync.rs:225`, `:500`, `:601`).
- **Speculation.** A round is executed on the state before it, its fees are
  credited after it, and one that turns out dependent is executed again
  (`executor.rs:459`, `:481`).
- **One lock, taken several times** in a call, or inside itself (`eth.rs:510`),
  and let go between a template and its block (`dev.rs:142`).
- **Crashes and upgrades** between the steps of a write (`storage/src/lib.rs:115`).
- **Rounding** in fixed-point powers, compact targets and per-block shares of
  per-second parameters (`asert.rs:113`, `compact.rs:97`, `params.rs:213`).

The full list, with lines and the properties that cover each, is `hazards` in
`PROJECT.json`.

## 2. The modules

```
Reachability ◄─ MCReachability

DagStore ◄─ ChainExecutor ◄─ Backend ◄─ DevNode ◄─ Rpc ◄─ MCNode
   ▲              ▲             │
MCDagStore  MCChainExecutor     └─INSTANCE─► TxPool

Layering ◄─ ParallelRounds ◄─ MCParallelRounds

DagSync ◄─ Network ◄─ MCNetwork

TxPool, NodeLock, Store, WorldState, Difficulty, Params ◄─ MCParts
             ▲      └─INSTANCE─► DurableMap
         MCNodeLock

DagStoreProofs ◄─ ChainExecutorProofs ◄─ NodeProofs
ReachabilityProofs, TxPoolProofs, ParallelRoundsProofs, NetworkProofs, PartsProofs
```

An arrow points to the module that is extended; a `...Proofs` module extends the
one it is named after, NodeProofs the module Rpc with all below it, and PartsProofs
the five of NodeLock, Store, WorldState, Params and Difficulty. The theorems about
Layering are in ParallelRoundsProofs, those about DagSync in NetworkProofs.

Conventions. A refusal that changes nothing is a stuttering step, so an action
is the accepted call. An operator called `Mut...` is the wrong version of the
operator after it; no action uses it, and it records a slip that the named
property detects. `external` entries of the map stand for what is not under
`src/` (revm, redb, parking_lot, alloy's fee formula, TCP), modelled from how the
code uses it.

**Reachability** – `is_ancestor_of`. A reader is a little program counter:
`Ask` is the entry (equal blocks, memo hit, height prune, or a search), `Visit`
one turn of the search loop, `Exhaust` the empty queue, `Remember` the second
acquisition of the memo lock with the drop-when-full rule. Any number of readers
interleave between these steps. `AddBlock` needs `&mut self`, so it waits for
all of them. The queue is a set: which block is popped next is left open, a
superset of the code's first-in-first-out order. The answer is compared with
`Reaches`, the least-fixed-point definition of ancestry, which mentions no
height, queue or table.

**DagStore** – `add_block` in one action. `Accepts` has the four refusals;
`ComputeGhostdag` is `compute_ghostdag` with `Mergeset`, `TopologicalSort` (its
passes), `Colour` (the loop and the anticone sizes it reads and writes),
`BlueWork` with saturation. Operators take headers and data as parameters, so
that a block can be re-evaluated against its past alone. A hash is a natural
number (ordered, like a hash); the work of a header is a small number instead of
the quotient `2^256 / (target + 1)`, which is in Difficulty; ancestry is taken from
`PastIn`, which Reachability justifies. `BaseSequence` and `ExecutionOrder` are what
the executor runs.

**Layering** – `layer_and_sort` and `partition_rounds`, one action per loop
iteration, so that loop invariants are state invariants. `Sort` takes the
permutation sorted by `(round, index)`. Access sets come from `AccessKeys`
(`TxAccessSet::of`).

**ParallelRounds** – `execute_rounds_parallel` on the rounds that Layering formed.
`Carry` lets the transactions do anything: pay an account, directly or through a
contract, and a tip to the miner of the block that carried them. `Speculate`
evaluates a round on the state before it (`speculate_one`, with the miner's account
taken out of the diff when nothing but the fee touched it) and `Independent` is
`validate`. `CommitOne` and `Credit` are the loop over a round that passed and the
fees after it; `FallBackOne` and `Absorb` the sequential execution of one that did
not, with the receipts rebased. The history variable `reference` is what
`execute_sequentially` does with the same transactions, one step for each. `exempt`
notes that one of three cases was met in which the two differ: `ExemptSender` (a
transaction's sender is paid by an earlier one of its committed round), `ExemptLook`
(a transaction reads an account that an earlier one of its committed round pays a
fee: the fee is taken out of the diff that `validate` compares, `parallel.rs:213-217`,
and credited after the round, `executor.rs:493-502`) and `ExemptGas` (a transaction fits
in the gas of a round that fell back, whose budget starts again, and not in the
block's). What the EVM does is external; a transaction looks at the balance of any one
account (`look`), and reverts, paying its fee only, if it is below `least`.

**ChainExecutor** – extends DagStore with bodies and the executor record.
`Receive` is a block with its body; `AdvanceExecution` is the simulator's
`advance_execution`: compute the reorg from the executor's tip to the head and
apply it. Several blocks may arrive before execution advances, so one advance may
undo and execute many blocks. `ComputeReorg` is the lockstep walk;
`ExecuteSequentially` skips what does not fit or does not execute; `Note`,
`Restored`, `UndoOne`, `Pruned` are the journal. The simulator panics on a failed
reorg, so there `AdvanceExecution` requires success; the node does not, see
Backend. A transaction's effect is reduced to nonce, balance and a constant fee
for the miner of the block that carried it, which is enough for transactions to
depend on and to exclude each other. The state root is the state itself.

**TxPool** – the pool as a record of two indexes and the arrival counter. `Add`
is the accepting path of `add` with replacement and eviction, `RefuseReplacement`
the one refusal that changes something (the counter was already drawn), `Advance`
the pool part of the backend's `advance` under any movement of nonces, balances
and base fee, forwards or back. `well_formed` stands for the checks that look at
the transaction alone (chain id, type, gas limit).

**Backend** – composes DAG, executor and pool under the write lock: `SubmitRaw`,
`SubmitRefused`, `AddBlockAndAdvance`. A failed reorg leaves the index trimmed,
the pool as it was and the executor where the failure left it, as the early return
does. `Pool == INSTANCE TxPool` is both the source of its operators and, in
`PoolIsImplemented`, the specification its steps are shown to implement: the base
fee and accounts TxPool lets move at will are here those of the executed state.

**DevNode** – `mine_once` over the backend, in its two lock sections: `TakeTemplate`
(heaviest tips, best transactions, the deferred result) and `AddMined`, or `GiveUp`
when no nonce is found or the block is refused. Submissions come in between. The
ticker that starts a round is left to chance.

**Rpc** – operators over DevNode's state, one for each answer whose fields come from
more than one place: receipt with its logs, transaction, block by height and by hash, tips,
chain membership, depth, logs. A read section is evaluated in one state. Two calls with
several sections are taken section by section, with blocks in between: `AskBlock` finds the
height of a hash and `Answered` renders what is there by then (`eth.rs:661`, `:232`);
`AskReceipt` copies the result, `ReadSender` reads the encoding and `Answered` the depth
(`eth.rs:556`, `:560`, `:591`). `asked` is what the client's call has read so far; a call
changes nothing, so one at a time stands for any number.

**NodeLock** – the lock itself. A call is the sequence of its lock operations,
`Read(inner)` and `Write(inner)`, taken from each RPC method that enters the lock
more than once, and `MineOnce`. A writer claims the lock, which shuts out new
readers, and then waits for those inside: parking_lot's rule, by which a reader that
asks again behind a waiting writer waits for itself. `Paired` says what guards as scopes
mean for such a sequence; TLC evaluates it on the calls of the code. What is done under the lock is
left out but for one bit, that the chain has grown.

**Store** – the redb block store: `Open` with `init_schema`'s version check,
`BeginHeader`/`BeginBody`, `Commit`, `Fail` (an error before the commit), `Stop`
(shutdown, or a crash between any two steps), by processes of builds with different
schema versions. **DurableMap** is what the trait `BlockStore` promises, two maps
that only grow, one entry at a time; `ImplementsMap` maps the committed tables to it.

**WorldState** – `StateStore` with storage and code: `load_genesis`, `commit` of a
transaction under any changes the EVM may report (created, destroyed, emptied, slots
written), the block's undo record and `undo_one`. A code stands for its hash. The
genesis allocation is anything: `load_genesis` checks nothing, so an account may be
listed empty, or with code and without a nonce.

**Difficulty** – the compact codec, ASERT's `next_target` (truncating division,
clamp, floor, the cubic, shifts with their direction, bounds), `work_for_target`, and
a chain that `Miner::mine` extends and `validate_header` checks, from a genesis with
any bits that decode, whether `from_target` would write them or not. Every width is a constant.

**Params** – `ChainParams::validate`, the derived parameters, and a node that boots
with a set and then executes blocks that use any gas up to the limit, with alloy's
base fee formula called the way `next_base_fee` calls it. A set without a gas target is
valid; the fee after the first block that uses gas then divides by zero (`NoFee`), and the
chain ends.

**DagSync** – the synchronisation state machine of one node. As in the code it is
sans-I/O: `OnConnect`, `OnDisconnect`, `OnMessage`, `OnTick` and `OnLocalBlock`
are operators from the machine's state (a record with the code's fields) to the
state it leaves and the actions it returns, in order. `Both` joins what two handlers
return one after another; a loop is a function of the number of its turns, each turn an
operator with a name (`MakeRoom`, `ResolveChild`, `OnNextBlock`, `AskNext`).
`request_from`, `announce`, `store_orphan`, `resolve_orphans_of` and `admit` keep their
names. What is abstracted: a hash
stands for its block and DagStore for the set of blocks present; tips come in the
order of hashes (in the code heaviest first); nodes are honest and of one network,
so nobody is penalised, and no block exceeds the merge limit; `in_flight`, `score`
and `accepted`, which steer nothing here, are left out, and so is the cap of 8192
known blocks, past which announcements are only repeated. Time is a flag: the timer's
period is the timeout (`p2p.rs:65`, `sync.rs:105`), so a request that was there at
one tick has timed out at the next, and a younger one may have if the timer is late.

**Network** – several machines, their registries of senders, and a channel for
each direction of each connection. `Receive` is one turn of a read loop, `Hangup`
its end, `Connect` the dialer and both ends' handshake, `Tick` the timer, `MineBlock`
a local block. Three things go wrong: a message is lost (`Lose`, the simulator's
link), a connection breaks with what is on it (`Break`), or a full queue makes
`dispatch` drop a peer's sender (`DropStuck`), after which the other end reads what
was queued, closes, and only then does this end notice. A handler and the dispatch
of its actions are one step; channels are first-in-first-out, as TCP's are (the
simulator's random latency also reorders, which is left out).

## 3. The runs

`expect: pass` runs; all are exhaustive for their constants. Where a run covers
several questions, the driver chooses at the start which of them a behaviour is
about (`drive`, `part`), so their state spaces add up and do not multiply.

| Run | Instance | Shows |
|---|---|---|
| `race` | 4 blocks, 2 readers, a table of 2 entries, symmetric | whatever the interleaving of readers, drops of the table and insertions, every answer is true when it is given (`AnswersAreTrue`) |
| `dag`, growth | every DAG of 6 blocks on genesis, k = 2; number of blocks, works and hashes disagree about which parent is ahead | `DataIsPureInThePast` (insertion-order independence), `PastIsExecutedOnce` (along a chain each block of the past once, parents first), `MergedBluesCluster`, `HeadIsHeaviest` (the best tip is the best block of the store, by work counted afresh), the tips and children of `TypeOK` |
| `dag`, chain | 4 blocks on genesis, 3 bodies, competing and dependent transactions | `StateIsReplay` (after any reorgs the state is that of a fresh execution of the tip's chain), `ReorgIsExact` for every pair of blocks |
| `rounds` | every list of up to 4 transactions over 3 accounts, symmetric; lists of up to 3 are executed with 2 coins in each account | `ConflictsKeepBaseOrder`; `partition_rounds` recovers the rounds (`PartitionRecoversRounds`); executing them in parallel agrees with the sequential execution in accounts, receipts, gas and undo but for the three exempt cases (`ExecutionAgrees`), and can be undone in all (`UndoRestores`) |
| `node`, peers | 3 blocks on genesis on any parents, 3 bodies, 3 submissions | `TxIndexIsExact`, `PoolIsPending`, `PoolIsImplemented`; what RPC clients see: `ServedChainFits` (the answers about blocks, transactions, receipts and logs fit together), `DepthCountsBlues` |
| `node`, mining | 3 blocks mined by the node, submissions between template and block | `HeadersTellHistory`, `NothingIsLost`, and the properties above |
| `node`, calls | the same blocks, between the sections of `getBlockByHash` and `getTransactionReceipt` | `TornOnlyByReorg` (a receipt is of one block, whichever reorgs come in between; only a reorg makes an answer differ from one given at once) |
| `parts`, pool | limit 3, 2 per sender, 7 admissible transactions of 2 senders | `IndexesAgree`, `SelectionIsExecutable`, `DisplacedByBetter` |
| `parts`, lock | the mining loop and two workers with eight kinds of call | `StuckOnlyByReentry` |
| `parts`, store | 2 keys, 3 schema versions | `AcknowledgedSurvives`, `NeverReinterpreted`, `ImplementsMap` |
| `parts`, world | 2 addresses, 1 slot, 1 code; a genesis with an account without code, or none, and a contract, or none | `AccountsAreSound` (no zero slot, no account emptied, every code resolves), `UndoIsExact` |
| `parts`, difficulty | 8-bit targets, chains of 3 blocks on every genesis bits that decode, every sequence of timestamps | `CompactRoundsDown`, `ChainGrows` (always mineable, by work without loss), `LaterIsNoHarder`, `OnScheduleIsAnchor` |
| `parts`, params | 48 sets of parameters over a second of 6 ms, some without a gas target | `DerivedAreExact`, `FeeSteersToTarget` |
| `network` | 3 nodes in a line, a chain of 3 blocks found at one end, 1 fault, room for 1 orphan, answers of 1 block | `OrphansWait` (the pool's three records agree and stay within the limit), `RequestsAreOwed`, `BodiesArePresent`, `LossForgetsNothing` (without a disconnection a parent is forgotten only by eviction, as long as one request can name all that is asked for: `MaxInvEntries` covers every block here, 512 hashes in the code, `sync.rs:612`), `SettledUnlessForgotten` (liveness) |

The six `violation` runs are section 4. The type invariants and auxiliary invariants of
the modules with proofs are left to section 5, where they are shown for every instance.

### Bounds, and why they suffice

- *Arrival.* `dag` fixes one order of arrival, 3 1 5 2 6 4, and one work for each
  hash (`MixedOrder`, `MixedWork`), so that a late block may win or lose a tie by
  hash and a short branch may outweigh a long one; `kcluster` has blocks arrive
  by ascending hash. Every DAG of that size is built, up to the naming of its blocks;
  other assignments of hashes and works to the same DAG are not. That a block's
  data do not depend on arrival is checked by recomputing them from its past alone.
- *Blocks.* Four blocks on genesis have every shape that matters to one block's
  merge set: a red block, a merge of two branches, a head that is not the latest
  arrival. Six are the first at which a chain blue's recorded anticone size is
  stale, and `dag` and `kcluster` explore exactly that size. Three, in `node`, are
  the fewest with a reorg and a merge set behind it.
- `MaxParents = 2` – blocks with three or more parents are not explored. The code
  takes the parents as a set throughout: the best of them, and the union of pasts.
- `MergesetSizeLimit = 2` in `dag` (some merges are refused); above what occurs in
  the other runs.
- `WorkMax = 100` – above anything a run accumulates; saturation, which needs
  2^256 work, is in the definition and not reached.
- `PruningWindow = 10` in `dag` and `node` – no reorg there exceeds the window:
  `StateIsReplay`, `TxIndexIsExact` and `ServedChainFits` are claims about reorgs a
  node can undo. In `deep` the window is 1 and is exceeded.
- `GasLimit = 2` with gas 1 or 2 – a chain block with a merge set does run out, and
  the skipped transaction stays eligible; in `rounds` a round that falls back does.
- *Transactions of `rounds`.* One or two do anything of interest: any miner, any
  account reached, two values, two tips, two amounts of gas (`MCCarriable`). Three pay the
  miner they name, for a round of several miners; four are only layered and
  partitioned. The proofs of section 5 have no such limit.
- `SequenceMax` – how many additions to the pool are looked at (5 in `parts`,
  3 in `node`); the code's counter is a `u64`.
- `DeferredLag = 1`, `TemplateTxs = 3` – a chain of three blocks publishes results
  above and below the lag; a template can hold what the pool selects.
- `CacheCapacity = 2` (32 768 in the code, `dag.rs:579`) – so that the table is dropped while
  other readers search.
- *Lock.* Three threads: one writer that waits, one reader inside, one that asks
  again. More add no kind of wait. `grown` counts the height modulo 2, enough to see
  it change.
- *Store.* Two keys and three versions: an upgrade, a downgrade, and an entry other
  than the one in flight. Processes come one after another without bound.
- *Difficulty.* `Width = 8`, `DigitBits = 2`, `RadixBits = 4` stand for 256, 8 and 16;
  the cubic's coefficients 2849, 58 and 1 are fitted to 2^x - 1 at that width. The
  clamp (`MaxHalflives = 3`), both bounds and every exponent are reached.
  `StampMax = 18` is four half-lives after the anchor; `MsPerSecond = 2`, so that
  timestamps fall within seconds.
- *Params.* A second of 6 ms has divisors and non-divisors; `FeeMax = 40` stops the
  chain when the fee has grown fourfold.
- `MaxOrphans = 1` in `network` (4096 in the code) – a second orphan evicts the
  first, be it its own parent; `MaxBlockBatch = 1` (128) – a request for two blocks
  is answered in part.
- `MaxFaults = 1` on the link of `Fragile`, between the node that finds blocks and
  the next – one fault of any kind at any moment.
- `QueueBound = 1` – a timer fires when its node's channels are empty: two seconds
  are long next to a message on the way. Faults and connections come at any time.
- `CursorPeriod = 2` – the retry cursor, a `u64` in the code, only matters modulo
  the number of ready peers.
- *Early blocks.* In `network`, blocks 1 and 2 are found and the sound link is up
  before the rest begins (`MCNext`), so that the other nodes start behind; block 3
  comes at any time.
- `RoundMax` – `u32::MAX` in the code; the assumption `MaxTxs <= RoundMax` says a
  chain block has fewer than 2^32 transactions.

`CHECK_DEADLOCK FALSE` is set where a run ends because all blocks of `Hash` have
arrived, the loops are done or a bound is met; a real node then simply has nothing to
do. In `parts` and `lock` calls can also wait for each other: `StuckOnlyByReentry`
says exactly when. In `race`, `network` and `stall` deadlock is checked.

### Fairness

Two modules have liveness properties.

*Network.* `Fairness` is weak fairness of each read loop (`Receive`, `Hangup`: a task
woken while its socket has data or is at its end), of each pair's `Connect` (the
dialer loops for ever, `p2p.rs:182-211`) and of each node's timer (`p2p.rs:213-229`).
Timers have one period, so in `Network` they fire in rounds: no timer fires twice
before every other has (`ticked`). Nothing is fair about faults or mining. Weak
fairness is enough: a message at the head of a channel stays there until it is read,
lost or the connection breaks, and the faults are bounded. The runs state the same
fairness with ENABLED written out for `Receive` and `Tick` (`MCFairness`: a message and
a peer are there, the round and the bound allow a tick), because TLC evaluates those
handlers many times over to find ENABLED by itself.

`SettledUnlessForgotten` says `[]NothingForgotten => <>[]Settled`: a run that never
reaches a state in which an orphan's parent is neither held nor asked for ends with
all nodes at the same blocks. Its antecedent is met by the runs in which the fault
hits anything but such a request and no orphan evicts its own parent. That it cannot
be dropped is what `stall` shows.

*NodeLock.* `FairLockSpec` has weak fairness of each thread's next lock operation (the
runtime runs a thread that can go on) and of the miner's next round (the ticker of
`dev.rs`). Nothing makes a client call. The lock's counterexample ends in a state in
which no operation is enabled, so no fairness would remove it.

## 4. Where the code and its documentation disagree

| Run | What the documentation says | What the code does |
|---|---|---|
| `kcluster` | "a block stays blue only if adding it keeps every blue block's blue-anticone below `k`" (`dag.rs:8`) | the size read for a blue of an earlier chain block is the one recorded when that block was merged; later increases are in other blocks' data. With k = 2 and six blocks on genesis a blue ends with three blues in its anticone. `MergedBluesCluster` states what does hold: the blues a block merges *itself* obey the rule, with exact sizes |
| `deep` | `height` and `tip` are those "of the current chain tip" (`executor.rs:117,119`); proceeding silently "would corrupt state in a way no later check would catch" (`:265`) | a reorg deeper than the journal stops at the first refused undo, with tip set to genesis and height above 0; `Backend::advance` returns the error and the node goes on from there |
| `returns` | transactions of the losing chain "did not return to the pool automatically, because they were never removed from it" (`backend.rs:185`) | `advance` removes what a chain executes, so when that block loses they are neither executed nor pending |
| `stall` | `on_disconnect` releases what a peer owed "so those blocks can be requested from someone else" (`sync.rs:221`); tip reconciliation "is what makes convergence *eventual* rather than merely likely" (`sync.rs:299`) | when the connection ends while an orphan's parent is asked for, the request is dropped and nothing asks again: tips that are held as orphans are filtered out of what is requested (`sync.rs:602`). Two nodes reconnect, exchange tips for ever and never agree. Lost messages do no such harm, as long as no request would have to name more than 512 hashes (the rest is cut off without a trace, `sync.rs:612`, which the runs do not reach): the request stays, times out and goes to another peer |
| `split` | "Whatever `execute_rounds_parallel` does, it must produce exactly this" (`executor.rs:380`) | fees are credited after a round (`:481`), so a miner who sends in the round in which it is paid, and needs the fee, is executed sequentially and deferred in parallel; a transaction that only reads the balance of such a miner sees it without the fee, and `validate` passes the round; and a round that falls back starts its gas budget again (`:459`). Nodes run the sequential path; only tests switch the other on. `ExecutionAgrees` states what holds without these three cases |
| `lock` | the mining loop runs "so a chain with no traffic still advances and clients polling `eth_blockNumber` see progress" (`dev.rs:243`) | `eth_feeHistory` asks for the read lock while it holds it (`eth.rs:510`), and so does the rendering of a block (`eth.rs:305`). When the miner claims the lock in between, call and miner wait for each other, and everybody else for them. `StuckOnlyByReentry` says that this is the only way to get stuck |

Smaller ones, without a run. `dag.rs:36` calls a block's merge set "inclusive of
itself" where the code, and this model, leave the block out. `prune_journal` discards
what "can no longer be reorged" (`executor.rs:508`) by height, which goes down in a
reorg to a heavier, shorter chain: fewer blocks than the window can be undone then.

## 5. What is proved

The theorems below hold for every value of the constants that satisfies the named
`ASSUME`s of the module, with no bound on blocks, readers, transactions or steps
other than those constants. Each follows the pattern of `Init => IInv`,
`IInv /\ [Next]_vars => IInv'`, and `IInv` implies the property; the step
lemma has one case for each action.

**ReachabilityProofs** – `TypeCorrect`, `AnswersCorrect` (*AnswersAreTrue*),
`CacheCorrect`, `HeightsRise`, `CacheBounded`. A property of answers is not
inductive: a search in progress has to be known to be complete so far. `Searching`
says that no block seen is the ancestor and that the parents of every seen block
that is not in the queue have been seen or are too low to matter; `DagShape` says
that parents are in the store and lower than their children. When the queue is empty, the seen
blocks with everything no deeper than the ancestor are closed under parents, so the
past of the start is among them and the ancestor is not. Ancestry is a least fixed point
by definition, so closure does what induction would. A memo entry
stays true because `AddBlock` leaves the past of every old block as it was.

**ParallelRoundsProofs**, for Layering – `TypeCorrect`, `ConflictsLayered`, `RoundsTight`,
`OrderKeepsConflicts` (*ConflictsKeepBaseOrder*), `OrderKeepsSenders`,
`RoundsDisjoint`, `RoundsRecovered` (*PartitionRecoversRounds*). `LayerInv` adds that
`last_touch` is exactly the highest round of an earlier transaction that touches the
address, and that rounds are smaller than the position, which keeps them below
saturation (`MaxTxs <= RoundMax`). That `partition_rounds` finds the rounds again is the
deepest part: `RecoverInv` says that the groups closed are rounds 0, 1, ... in full and
the open one a part of the next. A transaction of the next round conflicts with one of the
round before it, all of which have been taken by then, and with none of its own.

For ParallelRounds – `RoundsAreLayered` (the module's steps are steps of Layering,
whose invariants therefore carry over), `ParallelAgrees` (*ExecutionAgrees*) and
`ParallelIsUndoable` (*UndoRestores*). A transaction adds to accounts amounts that
depend on the state only by whether it finds the balance it looks for
(`TransactAdds`). While a round is committed, the sequential
execution has in its accounts what the round has plus the fees it still owes
(`CommitInv`); the sender of the next transaction, and the account it looks at, are found as
the round found them (`SenderIsUntouched`, `FoundAlike`), because nothing in a validated
round writes what a later one loads and, outside `exempt`, nobody in it is owed a fee
there. `AgreeInv` says what the two have in common at each
stage, `UndoInv` that what is not in the undo record is as it was before the block.

**DagStoreProofs** – `TypeCorrect` (*TypeOK*), `DataIsPure` (*DataIsPureInThePast*),
`WorkIsExact`, `ForkChoiceIsHeaviest` (*HeadIsHeaviest*), `LedgerIsComplete`
(*PastIsExecutedOnce*), `BluesCluster` (*MergedBluesCluster*). `DagInv` says that headers
are closed under parents and below their children in height (`Dag`), that every
selected parent is a parent, and that the tips are what nothing builds on. `Pure` says
of every block that its data are what `compute_ghostdag` gives on its past alone. That is
inductive because an added block is in nobody's past, so that restricting headers and
data to a past gives the same functions before and after (`Agree`). Two tools carry the
rest. A function defined by recursion over blocks is a `CHOOSE`; that one exists is shown
by gluing the functions of the blocks below, by height (`HeightInduction`, from the
well-foundedness of the naturals, applied to sets so that no operator is passed to a
theorem). And a loop is a function of the number of its turns with an invariant of its
own: the topological sort takes every block of the merge set once and after its
ancestors in it, because some block of what is left has the least height; the colouring
keeps the exact anticone size of every block it has made blue, given that the sizes
read along the chain are stale only for blocks that it does not change.
`LedgerIsComplete` adds that a chain's merge sets partition the past (`PastSplits`):
what a block merges is what its past has and its selected parent's has not.
`ForkChoiceIsHeaviest` has the hypothesis that no block's total work reaches
`WorkMax`. `blue_work` saturates there, and of two saturated tips the hash decides,
heavier or not; `WorkIsExact` is the general statement, cap included.

**ChainExecutorProofs** – `StateIsReplayed` (*StateIsReplay*) and `ReorgExact`
(*ReorgIsExact*). The walk of `compute_reorg` leaves a `Trail` from each tip to its
cursor, the two trails have no block in common (`Apart`), and the sum of the cursors'
chain lengths falls with each step (`Falls`), from at most twice the number of blocks,
so it meets within the bound the model gives it: on a store built by `add_block` the
walk always ends by itself. A journal
record is right for its own hash, wherever in the journal it is: undoing it on the state
of a fresh execution of that block gives the state of a fresh execution of its selected
parent (`GoodRecord`). Pruning only drops records and undoing only takes the last,
so `GoodJournal` is inductive whatever was pruned, and an undo that is not refused is
right (`UndoesTo`). `StandsAt` says that execution is the replay of some block, and
`ReorgStands` that a reorg that is not refused moves it to the replay of the new tip.
When a block arrives nothing that was replayed changes (`ReplayAgrees`). What can be undone
is a matter of `Unbroken`: the journal's records are those of the topmost chain blocks,
one after another, because pruning drops records from its far end only (`PrunedIsTail`).
So a reorg that removes no more blocks than there are records is not refused
(`ReorgIsUnbroken`), nor is any while the journal is `Whole`. What a block executes is, in
the order of `layer_and_sort`, some of what its merge set's bodies carry: the order is a
permutation of positions (`OrderIsPermutation`, from `RanksList` of DagStoreProofs), and
tagging, deduplication and execution add nothing (`ExecutedIsCarried`).

**NodeProofs** – for Backend, DevNode and Rpc; for Backend and Rpc, `TxIndexExact` (*TxIndexIsExact*), `PoolPending`
(*PoolIsPending*), `PoolImplemented` (*PoolIsImplemented*), `DepthCounts`
(*DepthCountsBlues*), `AnswersHold` (*TornOnlyByReorg*), `ServedChain`
(*ServedChainFits*). The index is keyed by
transaction, and several blocks may carry one; it is exact only because no chain executes a
transaction twice. `BlockAdvances` shows that a block leaves the sender of each
transaction it executes beyond that transaction's nonce, and no nonce goes back;
`Ledger` extends it along the chain: all that a chain executed has been passed, so
`Executable` refuses it above. `IndexOf` says the index is that of the chain at the tip,
and `IndexFollows` that trimming and extending it by a reorg's blocks gives the
index of the new one. `Pending` says that pooled nonces are not behind the state: `prune`
by the new state restores that, forwards or back, and with `Ledger` nothing pooled is in
the index. For the depth, `ScoreCounts` says that a blue score is a number of
blocks, and `ChainsNest` that what is blue below a chain block stays blue above it.
`AnswersHold` is about calls under way: what replaying a block gives does not change while
the node goes on (`ReplaysStay`), so what a section has copied of a block stays what that block
recorded (`AskedInv`), on the chain or off it; and if the block is on the chain in the end, the
index and the results have the same (`AnswersAreOfOneBlock`).
`ServedChain` (*ServedChainFits*) puts all of this together for what a client sees.
`Recorded` says which chain block each height is about, `ListingsHold` that a block
executes transactions of the store's bodies and none of them twice, which makes a place in
a block unique, and `BytesKept` that the encodings of all that is pooled or carried are kept.
The numbers of logs are running totals: one is in exactly one transaction's part
(`TotalsRise`, `TotalsCover`), so a block's logs are numbered without a gap (`LogsCount`),
and a receipt's own, which start at zero, differ from them by the total before
(`LogsAreCounted`).
It has a hypothesis of its own, `Unsaturated`: where `blue_work` stands at its
ceiling, it does not rise any more.
Each of the six has the hypothesis `[][ReorgSucceeds]_backendVars`: no reorg fails.
Without it they are false, as run `deep` shows, and nothing in the code prevents a
failure. Two theorems say what is enough for it: `ShallowReorgsSucceed`, that no reorg
removes more blocks than the journal has records, and `YoungReorgsSucceed`, that
no more blocks exist than the pruning window is long.

For DevNode nothing has to be assumed of reorgs: `HeadersAreHistory` (*HeadersTellHistory*) and
`DevNodeIsExact` (*TxIndexIsExact*, *PoolIsPending*, and that every reorg succeeds),
and with `Unsaturated` alone `DevChainServed` (*ServedChainFits*). `DevInv` says that
there is one tip, that a template names it and carries the result due at the
next height, and that a mined header's deferred result is the one its own replay
has at the lag. The miner alone adds blocks, each on that tip (`LoneTip`), so between the
template and the block only submissions happen, `MinedIsShallow` finds nothing to remove, and
the old block's results are the new one's, height by height. For that the template's
body has to consist of transactions: of finitely many candidates one is best (`BestIsPooled`).
`NothingGetsLost` (*NothingIsLost*) has one hypothesis, `Room`: the pool has room for every
transaction there is, so nothing is evicted. What is replaced shares its slot, sender and
nonce, with its successor (`Slotted`). What `prune` drops has a nonce the account has passed, and
`Gapless` says that a chain executes an account's nonces one after another from
its genesis nonce on, so one of that nonce was executed and is in the index.

**TxPoolProofs** – `TypeCorrect`, `IndexesCorrect` (*IndexesAgree*), `LimitsCorrect`,
`ArrivalsCorrect`, `NothingObsoleteStays`, `DisplacedByBetterOnly`
(*DisplacedByBetter*, an action property), `SelectionExecutable`
(*SelectionIsExecutable*). The operations are lemmas about any sound pool
(`RemovedSound`, `InsertedSound`, `FittedSound`, `AddedSound`), so that `Add`, `prune` and
the backend's `advance` share them. That there is a worst transaction to evict, and
a best one to select, is proved from the order: it is strict and a pool is finite. The
selection is a loop whose invariant says that what is taken of each sender is the
first of its queue, so while anything is left there is a candidate, and with room for
all it takes all.

**NetworkProofs** – `NetworkIsSound`, from which `OrphansAlwaysWait` (*OrphansWait*),
`RequestsAreAlwaysOwed` (*RequestsAreOwed*) and `BodiesAreAlwaysPresent`
(*BodiesArePresent*) follow, and `LossNeverForgets` (*LossForgetsNothing*); for any nodes,
links, blocks, limits and number of faults. The proof goes by handler. `Steady(s, H)` says
that a machine which has heard of the hashes in H is at rest: its fields have their
types, the pool's three records agree, requests are owed, bodies are present. Every handler
takes a steady machine to a steady machine and returns actions that name hashes in H only
(`MessageIsSteady`, `TickIsSteady` and the others). The one place where that is not enough is
`resolve_orphans_of`: while it runs, blocks have joined whose waiting children are still
to be looked at. `Resolving(s, H, Q, C)` weakens the agreement by exactly that: Q are
the blocks still in the queue, C the children of the present one still to come, and
each orphan whose parents are all there is in C or waits on a block of Q
(`Noticed`). At the end Q and C are empty, which is `Steady` again; and the loop
ends, because each turn lowers `Size`, the queue and the pool together. A loop is a function
of its turns; that the function exists is one lemma about counting (`Counting`), and its
invariant is then proved by induction over the turns.

Between the nodes `Sound` says that what a machine or a channel names has been found:
its finder has it in its DAG. A block cannot be found twice, and the finder has its
parents. That is what makes the pool's invariant survive a local block: a block its
finder has not yet made is nobody's orphan.

`LossNeverForgets` has two hypotheses. No block has more parents than a `GetBlocks`
names (`MAX_INV_ENTRIES`, 512), and no node ever has more hashes in flight than that
(`FewRequests`). Both are about one truncation: `request_from` takes the first 512 hashes
(`sync.rs:612`) and says nothing of the rest. An orphan with more missing parents would
have the rest of them never requested; and a tick with one ready peer and more than 512
requests that have timed out removes them all and asks again for 512. Nothing enforces
either bound. The merge set limit keeps a block that joins below 182 parents at the
default rate, but below 1512 at ten blocks a second (`ten_bps.rs:46`), and `requested`
has no limit of its own. `LossInv`
adds that without a break every peer has a sender for this node (`Linked`), so that no
connection ends, and that every orphan's parents are `Minded`: held, asked for, or stored
once. A parent leaves that set only through a tick, which asks again.

**PartsProofs** – the theorems of five small modules.

*NodeLock:* `StuckByReentry` (*StuckOnlyByReentry*), for any number of threads and
any calls that are `Paired`. `LockInv` says that a thread holds as many guards as the
operations of its call so far have left it, and that the claim is with the one thread
whose next operation is one of writing. If nobody can go on, that thread waits to enter,
so somebody holds a guard; between guards a call neither ends nor claims the lock, and
dropping one is always possible, so what that reader asks for is another guard.

*Store:* `AcknowledgedStays`, `VersionsStayApart`, and the refinement
`StoreIsMap` (*ImplementsMap*): every step of the store, crashes and upgrades included,
is a `put` of DurableMap or changes nothing there. `StoreInv` adds that a file with entries has a version
recorded, that all its entries were written by that version, and that a write
transaction is the committed tables with one entry more.

*WorldState:* `AccountsSound` (*AccountsAreSound*) with its parts
`MapCanonical` and `CodesResolve`, and `UndoExact` (*UndoIsExact*). That no block leaves an
account empty that was not empty in the map before it rests on what the EVM may report
(`Plausible`: an account loses its balance only by sending, which raises its nonce, or by
its code) and on `commit` taking away what was not there and is empty. `WorldInv` adds
that the state before the block has no zero slots and its codes, and that the record names
everything in which the two differ: an undo restores a map only because neither map has an entry for
an account that does not exist.

*Params:* `DerivedExact` (*DerivedAreExact*) and `FeeSteers`
(*FeeSteersToTarget*): once `validate` accepts a set, no derived parameter has been rounded,
and, if it has a gas target, the base fee rises exactly when more gas is used than the
target, and never falls to zero. The products and quotients are lemmas of their own.

*Difficulty:* `CompactIsExact` (*CompactRoundsDown*), `ChainAlwaysGrows` (*ChainGrows*),
`LaterNeverHarder` (*LaterIsNoHarder*) and `OnScheduleExact` (*OnScheduleIsAnchor*), for
integers, digits and fixed point of any width, so for 256, 8 and 16 bits too. The provers
know nothing of `^`: that powers of two double, grow and multiply by adding exponents is
derived from the number of subsets of a set of `n` elements (`PowerCounts`), a theorem of
the library. The codec's lemma is `CodedAndDecoded`: a target of `b` bits comes
back with its lowest `Cut(b)` bits cleared. `Cut` grows with `b`, so what comes back is
rounded down and in order. What any bits decode to is a mantissa without the sign bit, times
whole digits (`DecodedIsMultiple`), so it comes back unchanged (`DecodedIsStable`); and since
rounding keeps the order, none of these targets lies between a target and what
`from_target` makes of it: it finds the largest not above. For the
rule, the exponent is split into a shift and a fraction. Within a half-life the cubic
grows with the fraction, its coefficients being positive; from one half-life to the next
the shift doubles the product, and `CubicAssumption` says that the fraction had at most
doubled it before. That is the bound the code asserts (`asert.rs:111`, where
`debug_assert!` is left out of release builds); TLC evaluates it for the instance, and
the code's coefficients satisfy it: the largest factor is 131071 of 131072. `DifficultyInv`
adds only that the anchor is a target that the codec keeps, and that the last header's bits
decode to one.

Only model-checked: `SettledUnlessForgotten`, the one liveness property, because the
prover has no ENABLED. Every other property of a passing run is stated by a theorem.

## 6. What is not modelled, and why

- *Answers under several locks.* Rpc takes the sections of `getBlockByHash` and
  `getTransactionReceipt` one by one. The others that have several (`getBlockByNumber` with a
  tag, `feeHistory`, the range of `getLogs`, `render_block`'s parameters) fix a height, a fee or
  a constant first; their locks are in NodeLock and their answers are left out.
- *Two properties clients may expect and the code does not have.* A log's `logIndex` starts
  again at zero in each receipt (`eth.rs:598`) and runs through the block in `getLogs`
  (`eth.rs:704`), so the two disagree from the second transaction with logs on;
  `ServedChainFits` states how they relate. And `getBlockByHash` answers with another block
  than the one it was asked for, or none, when a reorg comes between its sections;
  `TornOnlyByReorg` states when it does not. No document or test says otherwise, so neither is
  a finding of section 4.
- *Merge limit.* Two branches each longer than the limit can never be merged
  (`dag.rs:362`), and a miner that names every tip has its blocks refused from then on.
  DagStore has the refusal; no composition here builds branches that long.
- *Dispatch out of turn.* The lock on the state machine is released before its actions
  are sent (`p2p.rs:273`). Network makes a handler and its dispatch one step.
- *Other peers.* Penalties, bans, peers of other networks, transaction relay, malformed
  frames and blocks that the gate refuses: nodes in Network are honest.
- *Overtaking messages.* The simulator's random latency reorders; the node's TCP
  connections do not, and Network is about the node.
- *Bytes.* Encodings, framing, hashes, signatures, state, receipt and transaction roots,
  the EVM itself. An operator stands for each where something depends on its result.
- *`k`.* The parameter is computed by a floating-point Poisson tail; here it is a constant.
- *Widths.* 256-bit targets and works are scaled down. The model keeps every truncation.
- *Whole seconds.* ASERT reads timestamps in seconds, and blocks come every tenth of
  one. Difficulty has that division; a running node keeps its genesis target (`dev.rs`)
  and does not retarget.
- *Base fee.* It is constant in ChainExecutor and its extensions, and moves in TxPool and
  Params. Its composition with reorgs is not explored.
- *Empty genesis accounts.* `load_genesis` inserts an account that the allocation lists
  as empty, and `commit` removes what is empty only if it was not there when it was loaded
  (`state.rs:215`), although the comment above says that "an account that is empty after
  execution is removed outright". Such an account stays until something is created and
  destroyed at its address, and counts in the root. All nodes of a network
  agree on it; the development node and the simulator fund every account they list.
- *`BLOCKHASH`.* `insert_block_hash` has no caller (`state.rs:114`), so nothing is there to
  model.
- *`MAX_REORG_WALK`.* A guard of 10^8 steps against a corrupt store.
- *Storage.* No running node reads it back (`OPEN-PROBLEMS.md`, P-017), so Store is
  composed with nothing; likewise the p2p driver is not wired into the binary.
- *The outer layers.* Configuration, logging, the RPC server, parsing, formatting and
  filters, and the methods that return one field.

## 7. What could come next

1. DagSync among strangers: penalties, bans, and dispatch as a step of its own, on an
   instance with two nodes.
2. The remaining calls of several sections in Rpc: a tag resolved in one section and used in
   the next, the range of `getLogs`, `feeHistory`.
