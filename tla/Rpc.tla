-------------------------------- MODULE Rpc --------------------------------
(***************************************************************************)
(* What the RPC server answers from the node's state: the eth_ namespace   *)
(* (crates/rpc/src/eth.rs), the chainname_ namespace (dag_api.rs) and the  *)
(* backend's queries they rest on.  A read section is evaluated in one     *)
(* state.  A call that has several of them is an operator for each, and    *)
(* one client's such call is under way here, `asked`, while the node goes  *)
(* on; what is named after the call is its answer when nothing comes in    *)
(* between.  Module NodeLock has the locks themselves.                     *)
(*                                                                         *)
(* An answer is the record of the fields that are derived from more than   *)
(* one place.  Operators named Mut... are wrong on purpose and in no       *)
(* action.                                                                 *)
(***************************************************************************)
EXTENDS DevNode

CONSTANT Logs   \* transaction -> how many logs it emits

ASSUME LogsAssumption == Logs \in [Tx -> Nat]

VARIABLE asked      \* what a call has read in the sections behind it, or NoCall

rpcVars == <<backendVars, asked>>

NoCall == [call |-> "none"]

NoAnswer == [found |-> FALSE]

(* What the first n of a sequence of amounts come to. *)
RunningTotal(amounts, n) ==
    LET total[i \in 0..Len(amounts)] == IF i = 0 THEN 0 ELSE total[i - 1] + amounts[i]
    IN  total[n]

(* ExecutedBlock::record: what a receipt says was used, cumulatively. *)
Cumulative(executed, n) ==
    RunningTotal([i \in 1..Len(executed) |-> executed[i].gas], n)

(* get_confidence and the receipt's blueScoreDepth.                        *)
(* Mutant: the depth is counted in blocks from genesis.                    *)
MutBlueDepth(block) ==
    data[VirtualSelectedParent].topological_height - data[block].topological_height

BlueDepth(block) ==
    LET tip_score == data[VirtualSelectedParent].blue_score
    IN  IF tip_score > data[block].blue_score THEN tip_score - data[block].blue_score ELSE 0

(* get_transaction_by_hash: pooled as well as mined. *)
TransactionByHash(tx) ==
    IF tx \notin tx_bytes THEN NoAnswer
    ELSE [found |-> TRUE,
          place |-> IF tx \in DOMAIN tx_index
                    THEN <<tx_index[tx].height, tx_index[tx].chain_block, tx_index[tx].index>>
                    ELSE <<>>]

(* render_block, the block at a selected-chain height: the hashes of its   *)
(* transactions; in full, those whose encoding is kept, each with its      *)
(* index.                                                                  *)
(* Mutant: the parent is one of the header's, the lowest.                  *)
MutParentHash(block) == Min(headers[block].parents \cup {Genesis})

ParentHash(block) == data[block].selected_parent

RenderBlock(height) ==
    IF height \notin DOMAIN executor.results THEN NoAnswer
    ELSE LET outcome == executor.results[height]
         IN  [found            |-> TRUE,
              hash             |-> outcome.hash,
              parent           |-> ParentHash(outcome.hash),
              total_difficulty |-> data[outcome.hash].blue_work,
              hashes           |-> outcome.executed,
              transactions     |-> [i \in {i \in DOMAIN outcome.executed :
                                               outcome.executed[i] \in tx_bytes}
                                       |-> outcome.executed[i]]]

(* get_block_by_hash.  The first section finds the height whose result is  *)
(* the block, the second renders the block that has it by then.            *)
NoHeight == -1

HeightOf(hash) ==
    LET heights == {h \in 0..executor.height :
                       h \in DOMAIN executor.results /\ executor.results[h].hash = hash}
    IN  IF heights = {} THEN NoHeight ELSE Min(heights)

BlockAnswer(height) == IF height = NoHeight THEN NoAnswer ELSE RenderBlock(height)

BlockByHash(hash) == BlockAnswer(HeightOf(hash))

(* Backend::receipt, the first section of get_transaction_receipt: the     *)
(* place in the index and a copy of the result it points to.               *)
Located(tx) ==
    IF \/ tx \notin DOMAIN tx_index
       \/ tx_index[tx].height \notin DOMAIN executor.results
       \/ tx_index[tx].index \notin DOMAIN executor.results[tx_index[tx].height].executed
    THEN NoAnswer
    ELSE [found |-> TRUE, at |-> tx_index[tx], outcome |-> executor.results[tx_index[tx].height]]

(* The second section: the sender, from the encoding. *)
NoSender == "zero address"

SenderOf(tx) == IF tx \in tx_bytes THEN tx.sender ELSE NoSender

(* The third section and the answer.  The transaction's logs are numbered  *)
(* from zero.                                                              *)
(* Mutant: the block is read again, by its height.                         *)
ReceiptWith(at, outcome, from) ==
    [found    |-> TRUE,
     number   |-> at.height,
     hash     |-> outcome.hash,
     index    |-> at.index,
     from     |-> from,
     gas_used |-> Cumulative(outcome.executed, at.index)
                  - Cumulative(outcome.executed, at.index - 1),
     logs     |-> {[number |-> at.height, transaction |-> at.index, position |-> n,
                    logIndex |-> n - 1] : n \in 1..Logs[outcome.executed[at.index]]},
     depth    |-> BlueDepth(outcome.hash)]

MutReceiptAnswer(located, from) ==
    IF ~ located.found THEN NoAnswer
    ELSE ReceiptWith(located.at,
                     [located.outcome EXCEPT !.hash = RenderBlock(located.at.height).hash], from)

ReceiptAnswer(located, from) ==
    IF ~ located.found THEN NoAnswer ELSE ReceiptWith(located.at, located.outcome, from)

Receipt(tx) == ReceiptAnswer(Located(tx), SenderOf(tx))

(* get_dag_tips. *)
DagTips ==
    [tips |-> tips, virtual_selected_parent |-> VirtualSelectedParent,
     blue_score |-> data[VirtualSelectedParent].blue_score,
     executed_height |-> executor.height]

(* get_block_dag_info: is_chain_block is asked of the DAG. *)
IsChainBlock(hash) == hash \in Chain(DagTips.virtual_selected_parent)

(* get_logs, without a filter: a log's index counts through its block from *)
(* zero.                                                                   *)
LogBase(executed, i) ==
    RunningTotal([j \in 1..Len(executed) |-> Logs[executed[j]]], i - 1)

GetLogs(from, to) ==
    UNION {UNION {{[number |-> h, transaction |-> i, position |-> n,
                    logIndex |-> LogBase(executor.results[h].executed, i) + n - 1] :
                       n \in 1..Logs[executor.results[h].executed[i]]} :
                  i \in DOMAIN executor.results[h].executed} :
           h \in (from..to) \cap DOMAIN executor.results}

-----------------------------------------------------------------------------
(* A call up to the end of its first section; one that finds nothing there *)
(* has its answer.                                                         *)
AskBlock(hash) ==
    /\ asked = NoCall
    /\ HeightOf(hash) # NoHeight
    /\ asked' = [call |-> "block", hash |-> hash, height |-> HeightOf(hash)]
    /\ UNCHANGED backendVars

AskReceipt(tx) ==
    /\ asked = NoCall
    /\ Located(tx).found
    /\ asked' = [call |-> "located", tx |-> tx, located |-> Located(tx)]
    /\ UNCHANGED backendVars

ReadSender ==
    /\ asked.call = "located"
    /\ asked' = [call |-> "receipt", tx |-> asked.tx, located |-> asked.located,
                 from |-> SenderOf(asked.tx)]
    /\ UNCHANGED backendVars

(* The last section, and the client has its answer. *)
Answered ==
    /\ asked.call \in {"block", "receipt"}
    /\ asked' = NoCall
    /\ UNCHANGED backendVars

CallNext ==
    \/ \E hash \in Hash : AskBlock(hash)
    \/ \E tx \in Tx : AskReceipt(tx)
    \/ ReadSender
    \/ Answered

RpcNext ==
    \/ BackendNext /\ UNCHANGED asked
    \/ CallNext

RpcSpec == BackendInit /\ asked = NoCall /\ [][RpcNext]_rpcVars

-----------------------------------------------------------------------------
(* No two logs of a block are given the same index, and together they are  *)
(* numbered without a gap, in the order of execution.                      *)
LogsAreNumbered ==
    \A h \in 0..executor.height :
        LET found == GetLogs(h, h)
        IN  /\ {l.logIndex : l \in found} = 0..(Cardinality(found) - 1)
            /\ \A l, m \in found : l.transaction < m.transaction => l.logIndex < m.logIndex

(* What a wallet is shown fits together, after any reorg: the executed     *)
(* chain is the one the DAG selects and ends where the DAG says, every     *)
(* block names the one below it as its parent and is found by its own      *)
(* hash, work rises; a block in full has the transactions whose hashes it  *)
(* lists; a transaction that is executed or pending is found by its hash   *)
(* (backend.rs:46), and one that a block lists is found, by hash and by    *)
(* receipt, at the very place where the block lists it.  Its logs are the  *)
(* ones getLogs lists for that place, under other numbers: a receipt       *)
(* counts its own from zero (eth.rs:598), getLogs through the block        *)
(* (eth.rs:700), so they differ by the logs of the transactions before.    *)
ServedChainFits ==
    /\ RenderBlock(DagTips.executed_height).hash = DagTips.virtual_selected_parent
    /\ \A b \in Present : IsChainBlock(b) <=> BlockByHash(b).found
    /\ \A h \in 0..executor.height :
           LET block == RenderBlock(h)
           IN  /\ block.found /\ BlockByHash(block.hash) = block
               /\ h > 0 => /\ block.parent = RenderBlock(h - 1).hash
                           /\ block.total_difficulty > RenderBlock(h - 1).total_difficulty
               /\ block.transactions = block.hashes
               /\ \A i \in DOMAIN block.transactions :
                      LET tx == block.transactions[i]
                      IN  /\ TransactionByHash(tx) = [found |-> TRUE, place |-> <<h, block.hash, i>>]
                          /\ Receipt(tx).number = h /\ Receipt(tx).hash = block.hash
                          /\ Receipt(tx).index = i /\ Receipt(tx).gas_used = tx.gas
                          /\ Receipt(tx).from = tx.sender
                          /\ {[l EXCEPT !.logIndex = @ + LogBase(block.hashes, i)] :
                                 l \in Receipt(tx).logs}
                                 = {l \in GetLogs(h, h) : l.transaction = i}
    /\ \A tx \in DOMAIN tx_index \cup Pool!Pooled(pool) : TransactionByHash(tx).found
    /\ LogsAreNumbered

(* The depth reported for a transaction is the number of blue blocks the   *)
(* chain has gained since the block that executed it ("how buried is this" *)
(* in a DAG, eth.rs:9), whichever branch the head is on.                   *)
DepthCountsBlues ==
    \A tx \in DOMAIN tx_index :
        Receipt(tx).depth =
            Cardinality(BluePast(VirtualSelectedParent) \ BluePast(tx_index[tx].chain_block))

(* A call answers what it would have in one section, however many blocks   *)
(* came in between, as long as the block it found is on the chain, or on   *)
(* it again.  If a reorg took that block away getBlockByHash answers with  *)
(* the one that has its height by then, under another hash than asked for, *)
(* or with none; but a receipt never mixes two blocks: the number and the  *)
(* index are those at which the block it names executes the transaction.   *)
TornOnlyByReorg ==
    /\ asked.call = "block" /\ IsChainBlock(asked.hash) =>
           /\ BlockAnswer(asked.height).found /\ BlockAnswer(asked.height).hash = asked.hash
           /\ BlockAnswer(asked.height) = BlockByHash(asked.hash)
    /\ asked.call = "receipt" =>
           LET answer == ReceiptAnswer(asked.located, asked.from)
               fresh  == Replay(answer.hash)
               listed == fresh.results[fresh.height].executed
           IN  /\ answer.found /\ answer.from = asked.tx.sender
               /\ answer.number = fresh.height
               /\ answer.index \in DOMAIN listed /\ listed[answer.index] = asked.tx
               /\ IsChainBlock(answer.hash) => answer = Receipt(asked.tx)
=============================================================================
