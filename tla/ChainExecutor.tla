--------------------------- MODULE ChainExecutor ---------------------------
(***************************************************************************)
(* Execution along the selected chain: ChainExecutor                       *)
(* (crates/chain/src/executor.rs) with its undo journal (journal.rs), the  *)
(* reorg computation (reorg.rs) and the order it executes in (ordering.rs, *)
(* bodies.rs), driven as the simulator drives it (crates/testkit/src/      *)
(* sim.rs): blocks join the DAG and their bodies are stored, one or, when  *)
(* orphans resolve, several at a time; then execution is brought up to the *)
(* new head.  Module Backend is the node that also keeps a pool and a      *)
(* transaction index.                                                      *)
(*                                                                         *)
(* The EVM is external.  What execution needs of it is that a transaction  *)
(* is executable in some states and not in others, and that its effect     *)
(* depends on the state: a transfer with a nonce, a balance check and a    *)
(* fee for the miner of the block that carried it.                         *)
(*                                                                         *)
(* Operators named Mut... are wrong on purpose and in no action.           *)
(***************************************************************************)
EXTENDS DagStore

CONSTANTS
    Account,        \* addresses
    Tx,             \* transactions: [id, sender, nonce, to, value, gas]
    Fee,            \* what a transaction pays the miner
    Bodies,         \* the bodies a block may carry: sequences over Tx
    Miner,          \* block hash -> the miner its header names
    GasLimit,       \* block_gas_limit
    PruningWindow,  \* pruning_window_blocks
    GenesisState    \* the allocation: account -> [nonce, balance]

ASSUME ExecutorAssumption ==
    /\ Bodies \subseteq Seq(Tx)
    /\ Miner \in [Hash -> Account]
    /\ GasLimit \in Nat /\ PruningWindow \in Nat
    /\ \E allocated \in SUBSET Account :
           GenesisState \in [allocated -> [nonce : Nat, balance : Nat]]

VARIABLES
    bodies,     \* BodyStore: block -> transactions
    executor    \* ChainExecutor: [state, results, journal, height, tip]

allVars == <<vars, bodies, executor>>

-----------------------------------------------------------------------------
(* The world state and the transactions (external: revm).                  *)
NoAccount == [nonce |-> 0, balance |-> 0]

AccountOf(state, a) == IF a \in DOMAIN state THEN state[a] ELSE NoAccount

Executable(state, tx) ==
    /\ AccountOf(state, tx.sender).nonce = tx.nonce
    /\ AccountOf(state, tx.sender).balance >= tx.value + Fee

Debited(state, a, n) ==
    Extend(state, a, [nonce   |-> AccountOf(state, a).nonce + 1,
                      balance |-> AccountOf(state, a).balance - n])

Credited(state, a, n) ==
    Extend(state, a, [AccountOf(state, a) EXCEPT !.balance = @ + n])

Touched(tx, miner) == {tx.sender, tx.to, miner}

Transact(state, tx, miner) ==
    Credited(Credited(Debited(state, tx.sender, tx.value + Fee), tx.to, tx.value), miner, Fee)

-----------------------------------------------------------------------------
(* The canonical order of a chain block's transactions.  The base sequence *)
(* tags each transaction with the miner of the block that carried it; a    *)
(* transaction several blocks carry is kept where it occurs first.         *)
Tagged(dt, bs, hash) ==
    FlattenSeq([i \in 1..Len(Append(dt[hash].mergeset_ordered, hash)) |->
        LET source == Append(dt[hash].mergeset_ordered, hash)[i]
        IN  [j \in 1..Len(bs[source]) |-> [miner |-> Miner[source], tx |-> bs[source][j]]]])

KeepFirst(kept, t) ==
    IF \E i \in DOMAIN kept : kept[i].tx = t.tx THEN kept ELSE Append(kept, t)

Deduplicated(tagged) ==
    LET kept[n \in 0..Len(tagged)] ==
            IF n = 0 THEN <<>> ELSE KeepFirst(kept[n - 1], tagged[n])
    IN  kept[Len(tagged)]

(* layer_and_sort: see module Layering, where the loop is taken apart.     *)
AccessOf(t) == {t.tx.sender, t.tx.to}

Rounds(tagged) ==
    LET round[n \in DOMAIN tagged] ==
            Max({0} \cup {round[k] + 1 :
                    k \in {k \in 1..(n - 1) : AccessOf(tagged[k]) \cap AccessOf(tagged[n]) # {}}})
    IN  round

LayerAndSort(tagged) ==
    LET rounds == Rounds(tagged)
        Before(j) == {i \in DOMAIN tagged :
                         rounds[i] < rounds[j] \/ (rounds[i] = rounds[j] /\ i < j)}
    IN  [n \in 1..Len(tagged) |-> CHOOSE j \in DOMAIN tagged : Cardinality(Before(j)) = n - 1]

-----------------------------------------------------------------------------
(* UndoRecord: the accounts noted, and the value each had then; one that   *)
(* is noted without a value did not exist (the code's None).               *)
NoUndo == [noted |-> {}, prior |-> [a \in {} |-> NoAccount]]

(* `f` where it has a value, `g` elsewhere. *)
Over(f, g) == [x \in DOMAIN f \cup DOMAIN g |-> IF x \in DOMAIN f THEN f[x] ELSE g[x]]

(* UndoRecord::note: the first value noted for an account wins.            *)
Note(undo, accounts, state) ==
    [noted |-> undo.noted \cup accounts,
     prior |-> Over(undo.prior, Restrict(state, (accounts \ undo.noted) \cap DOMAIN state))]

(* UndoRecord::apply: noted accounts get their value back or are removed.  *)
(* Mutant: accounts that did not exist are left behind.                    *)
MutRestored(state, undo) == Over(undo.prior, state)

Restored(state, undo) == Over(undo.prior, Restrict(state, DOMAIN state \ undo.noted))

(* execute_sequentially: a transaction that does not fit in the block's    *)
(* gas, or that the EVM refuses, is skipped and stays eligible; gas is     *)
(* used in full.                                                           *)
ExecuteOne(block, t) ==
    IF block.gasUsed + t.tx.gas <= GasLimit /\ Executable(block.state, t.tx)
    THEN [state    |-> Transact(block.state, t.tx, t.miner),
          undo     |-> Note(block.undo, Touched(t.tx, t.miner), block.state),
          gasUsed  |-> block.gasUsed + t.tx.gas,
          executed |-> Append(block.executed, t.tx)]
    ELSE block

ExecuteSequentially(tagged, order, state) ==
    LET after[n \in 0..Len(order)] ==
            IF n = 0 THEN [state |-> state, undo |-> NoUndo, gasUsed |-> 0, executed |-> <<>>]
                     ELSE ExecuteOne(after[n - 1], tagged[order[n]])
    IN  after[Len(order)]

(* prune_journal: records below the window are discarded.                  *)
KeepRecent(kept, r, below) == IF r.height >= below THEN Append(kept, r) ELSE kept

Pruned(journal, height) ==
    LET kept[n \in 0..Len(journal)] ==
            IF n = 0 THEN <<>>
                     ELSE KeepRecent(kept[n - 1], journal[n], height - PruningWindow)
    IN  kept[Len(journal)]

(* execute_chain_block. *)
ExecuteChainBlock(dt, bs, ex, hash) ==
    LET height == ex.height + 1
        tagged == Deduplicated(Tagged(dt, bs, hash))
        block  == ExecuteSequentially(tagged, LayerAndSort(tagged), ex.state)
        record == [height |-> height, hash |-> hash, undo |-> block.undo]
    IN  [state   |-> block.state,
         results |-> Extend(ex.results, height,
                            [hash |-> hash, executed |-> block.executed,
                             state_root |-> block.state]),
         journal |-> Pruned(Append(ex.journal, record), height),
         height  |-> height,
         tip     |-> hash]

(* undo_one refuses when the journal is empty or its last record is not    *)
(* the block expected; otherwise it restores the state and steps back.     *)
CanUndo(ex, expected) == ex.journal # <<>> /\ Last(ex.journal).hash = expected

UndoOne(ex) ==
    LET record == Last(ex.journal)
        rest   == Front(ex.journal)
        left   == [h \in DOMAIN ex.results \ {record.height} |-> ex.results[h]]
    IN  [state   |-> Restored(ex.state, record.undo),
         results |-> left,
         journal |-> rest,
         height  |-> record.height - 1,
         tip     |-> IF rest # <<>> THEN Last(rest).hash
                     ELSE IF 0 \in DOMAIN left THEN left[0].hash ELSE record.hash]

-----------------------------------------------------------------------------
(* compute_reorg: the cursors walk back in lockstep, the deeper one first, *)
(* until they meet; the walk is also ended by a cursor on genesis.         *)
(* Mutant: the cursor with more blue work moves first, deeper or not.      *)
MutOldCursorMoves(dt, w) == dt[w.old].blue_score <= dt[w.new].blue_score

OldCursorMoves(dt, w) == dt[w.old].topological_height >= dt[w.new].topological_height

WalkStep(dt, w) ==
    IF w.met \/ w.old = w.new THEN [w EXCEPT !.met = TRUE]
    ELSE IF OldCursorMoves(dt, w)
         THEN [w EXCEPT !.removed = Append(@, w.old),
                        !.met = (w.old = dt[w.old].selected_parent),
                        !.old = dt[w.old].selected_parent]
         ELSE [w EXCEPT !.added = Append(@, w.new),
                        !.met = (w.new = dt[w.new].selected_parent),
                        !.new = dt[w.new].selected_parent]

FirstCursors(oldTip, newTip) ==
    [old |-> oldTip, new |-> newTip, met |-> FALSE, removed |-> <<>>, added |-> <<>>]

Walk(dt, oldTip, newTip, steps) ==
    LET after[n \in 0..steps] ==
            IF n = 0 THEN FirstCursors(oldTip, newTip) ELSE WalkStep(dt, after[n - 1])
    IN  after[steps]

ComputeReorg(dt, oldTip, newTip) ==
    LET end == Walk(dt, oldTip, newTip, 2 * Cardinality(DOMAIN dt))
    IN  [removed |-> end.removed, added |-> Reverse(end.added)]

(* apply_reorg: undo the removed blocks, tip first, then execute the added *)
(* ones, oldest first.  A failing undo leaves what was undone undone and   *)
(* executes nothing.                                                       *)
UndoNext(acc, hash) ==
    IF acc.ok /\ CanUndo(acc.ex, hash) THEN [ok |-> TRUE, ex |-> UndoOne(acc.ex)]
                                       ELSE [ok |-> FALSE, ex |-> acc.ex]

Undone(ex, removed) ==
    LET after[n \in 0..Len(removed)] ==
            IF n = 0 THEN [ok |-> TRUE, ex |-> ex] ELSE UndoNext(after[n - 1], removed[n])
    IN  after[Len(removed)]

Redone(dt, bs, ex, added) ==
    LET after[n \in 0..Len(added)] ==
            IF n = 0 THEN ex ELSE ExecuteChainBlock(dt, bs, after[n - 1], added[n])
    IN  after[Len(added)]

ApplyReorg(dt, bs, ex, reorg) ==
    LET undone == Undone(ex, reorg.removed)
    IN  IF undone.ok THEN [ok |-> TRUE, ex |-> Redone(dt, bs, undone.ex, reorg.added)]
                     ELSE undone

-----------------------------------------------------------------------------
GenesisExecutor ==
    [state   |-> GenesisState,
     results |-> [h \in {0} |-> [hash |-> Genesis, executed |-> <<>>,
                                 state_root |-> GenesisState]],
     journal |-> <<>>,
     height  |-> 0,
     tip     |-> Genesis]

ExecInit ==
    /\ Init
    /\ bodies = [b \in {Genesis} |-> <<>>]
    /\ executor = GenesisExecutor

(* note_changes: a block the DAG accepted has its body stored.             *)
Receive(b, ps, w, body) ==
    /\ AddBlock(b, ps, w)
    /\ bodies' = Extend(bodies, b, body)
    /\ UNCHANGED executor

(* advance_execution: nothing to do on the head, else a reorg from where   *)
(* execution stands.  If the reorg fails the simulator panics: there is no *)
(* next state.                                                             *)
AdvanceExecution ==
    LET applied == ApplyReorg(data, bodies, executor,
                              ComputeReorg(data, executor.tip, VirtualSelectedParent))
    IN  /\ executor.tip # VirtualSelectedParent
        /\ applied.ok
        /\ executor' = applied.ex
        /\ UNCHANGED <<vars, bodies>>

ExecNext ==
    \/ \E b \in Hash, ps \in ParentSets(Present), w \in Work, body \in Bodies :
           Receive(b, ps, w, body)
    \/ AdvanceExecution

ExecSpec == ExecInit /\ [][ExecNext]_allVars

-----------------------------------------------------------------------------
(* What executing the selected chain of `b` afresh, with no reorg on the   *)
(* way, leaves.                                                            *)
Replay(b) ==
    LET fresh[c \in Present] ==
            IF c = Genesis THEN GenesisExecutor
            ELSE ExecuteChainBlock(data, bodies, fresh[data[c].selected_parent], c)
    IN  fresh[b]

(* However many reorgs led here, and however many blocks each spanned, the *)
(* state, the recorded results and the height are those of a node that     *)
(* executed the tip's selected chain from genesis and never saw another    *)
(* branch.                                                                 *)
StateIsReplay ==
    LET fresh == Replay(executor.tip)
    IN  /\ executor.state = fresh.state
        /\ executor.results = fresh.results
        /\ executor.height = fresh.height

(* compute_reorg finds exactly the blocks on which two chains differ, in   *)
(* undo order and in execution order, between any two blocks.              *)
Rising(chain) == \A i \in 1..Len(chain) - 1 : data[chain[i + 1]].selected_parent = chain[i]

ReorgIsExact ==
    \A a, b \in Present :
        LET reorg == ComputeReorg(data, a, b)
        IN  /\ Range(reorg.removed) = Chain(a) \ Chain(b)
            /\ Range(reorg.added) = Chain(b) \ Chain(a)
            /\ Rising(Reverse(reorg.removed)) /\ Rising(reorg.added)

(* The executor's tip is the block its last result is about (the fields    *)
(* `height` and `tip` of ChainExecutor: height and hash of the current     *)
(* chain tip).                                                             *)
TipMatchesHeight ==
    /\ executor.height \in DOMAIN executor.results
    /\ executor.results[executor.height].hash = executor.tip
=============================================================================
