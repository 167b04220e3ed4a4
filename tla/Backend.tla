------------------------------ MODULE Backend ------------------------------
(***************************************************************************)
(* The node behind the RPC server (crates/rpc/src/backend.rs): the DAG,    *)
(* the bodies and the executor of module ChainExecutor, the pool of module *)
(* TxPool and the index that says where a transaction executed, all behind *)
(* one lock.  A call is one step, since it holds the write lock            *)
(* throughout.                                                             *)
(*                                                                         *)
(* The base fee stays put here; module TxPool moves it.  Operators named   *)
(* Mut... are wrong on purpose and in no action.                           *)
(***************************************************************************)
EXTENDS ChainExecutor

CONSTANTS
    MaxTransactions, MaxPerSender,      \* PoolConfig
    NextBaseFee,                        \* the base fee
    SequenceMax                         \* bound: how many submissions are looked at

ASSUME BackendAssumption ==
    /\ \A tx \in Tx : /\ tx.sender \in Account /\ tx.nonce \in Nat
                      /\ tx.max_fee \in Nat /\ tx.priority \in Nat
                      /\ tx.gas \in Nat /\ tx.value \in Nat
                      /\ tx.well_formed \in BOOLEAN
    /\ MaxTransactions \in Nat \ {0} /\ MaxPerSender \in Nat \ {0}
    /\ NextBaseFee \in Nat /\ SequenceMax \in Nat

VARIABLES
    pool,       \* TxPool
    tx_index,   \* transaction -> [height, chain_block, index]
    tx_bytes,   \* the transactions whose encoding is kept
    accepted    \* history: the transactions submit_raw returned Ok for

backendVars == <<data, headers, children, tips, bodies, executor,
                 pool, tx_index, tx_bytes, accepted>>

(* What the pool is told of an account. *)
Accounts == [a \in Account |-> AccountOf(executor.state, a)]

Pool == INSTANCE TxPool WITH
    Sender <- Account, base_fee <- NextBaseFee, account <- Accounts,
    BaseFee <- {NextBaseFee}, Nonce <- Nat, Balance <- Nat

-----------------------------------------------------------------------------
(* submit_raw, when the pool takes the transaction (it may be the one the  *)
(* pool evicts at once) and when it refuses a replacement.                 *)
Offered(tx) ==
    /\ pool.sequence < SequenceMax
    /\ Pool!Admissible(pool, tx, Accounts[tx.sender])

SubmitRaw(tx) ==
    /\ Offered(tx)
    /\ Pool!Outbids(pool, tx, NextBaseFee)
    /\ pool' = Pool!Added(pool, tx, NextBaseFee)
    /\ tx_bytes' = tx_bytes \cup {tx}
    /\ accepted' = accepted \cup {tx}
    /\ UNCHANGED <<allVars, tx_index>>

SubmitRefused(tx) ==
    /\ Offered(tx)
    /\ ~ Pool!Outbids(pool, tx, NextBaseFee)
    /\ pool' = [pool EXCEPT !.sequence = @ + 1]
    /\ UNCHANGED <<allVars, tx_index, tx_bytes, accepted>>

(* The index without the blocks leaving the chain.                         *)
(* Mutant: it is kept as it is.                                            *)
MutRetained(index, removed) == index

Retained(index, removed) ==
    Restrict(index, {tx \in DOMAIN index : index[tx].chain_block \notin removed})

(* The index with the transactions of the blocks that joined the chain;    *)
(* what is inserted replaces an older entry.                               *)
Indexed(index, ex, heights) ==
    LET new == UNION {ToSet(ex.results[h].executed) : h \in heights}
    IN  Over([tx \in new |->
                 LET h == Max({i \in heights : tx \in ToSet(ex.results[i].executed)})
                 IN  [height |-> h, chain_block |-> ex.results[h].hash,
                      index |-> CHOOSE i \in DOMAIN ex.results[h].executed :
                                    ex.results[h].executed[i] = tx]], index)

(* The pool once execution stands at ex.                                   *)
(* Mutant: the nonces are read before the reorg is applied.                *)
MutSettled(p, ex, executed) ==
    Pool!Pruned(Pool!Removed(p, executed), [a \in Account |-> Accounts[a].nonce])

(* Mutant: all that an executed sender has pooled is removed. *)
MutSettledSenders(p, ex, executed) ==
    Pool!Removed(p, {tx \in Pool!Pooled(p) : \E done \in executed : done.sender = tx.sender})

Settled(p, ex, executed) ==
    Pool!Pruned(Pool!Removed(p, executed), [a \in Account |-> AccountOf(ex.state, a).nonce])

(* add_block and advance.  The index is trimmed before the reorg is        *)
(* applied; the rest of the index and the pool follow only if it succeeds. *)
AdvanceBackend(head) ==
    LET reorg   == ComputeReorg(data', executor.tip, head)
        applied == ApplyReorg(data', bodies', executor, reorg)
        kept    == Retained(tx_index, ToSet(reorg.removed))
        heights == {h \in DOMAIN applied.ex.results :
                        applied.ex.results[h].hash \in ToSet(reorg.added)}
        executed == UNION {ToSet(applied.ex.results[h].executed) : h \in heights}
    IN  IF head = executor.tip THEN UNCHANGED <<executor, tx_index, pool>>
        ELSE /\ executor' = applied.ex
             /\ tx_index' = IF applied.ok THEN Indexed(kept, applied.ex, heights) ELSE kept
             /\ pool' = IF applied.ok THEN Settled(pool, applied.ex, executed) ELSE pool

AddBlockAndAdvance(b, ps, w, body) ==
    /\ AddBlock(b, ps, w)
    /\ tx_bytes' = tx_bytes \cup ToSet(body)
    /\ bodies' = Extend(bodies, b, body)
    /\ AdvanceBackend(Heaviest(data', tips'))
    /\ UNCHANGED accepted

BackendInit ==
    /\ ExecInit
    /\ pool = Pool!EmptyPool
    /\ tx_index = <<>>
    /\ tx_bytes = {}
    /\ accepted = {}

BackendNext ==
    \/ \E tx \in Tx : SubmitRaw(tx) \/ SubmitRefused(tx)
    \/ \E b \in Hash, ps \in ParentSets(Present), w \in Work, body \in Bodies :
           AddBlockAndAdvance(b, ps, w, body)

BackendSpec == BackendInit /\ [][BackendNext]_backendVars

(* The reorg to the head is undone and executed in full: the journal still *)
(* holds every block that leaves the chain.  Run `deep` of MCNode shows    *)
(* what is left otherwise.                                                 *)
ReorgSucceeds ==
    executor.tip # VirtualSelectedParent' =>
        ApplyReorg(data', bodies', executor,
                   ComputeReorg(data', executor.tip, VirtualSelectedParent')).ok

-----------------------------------------------------------------------------
(* The index names exactly the transactions the current chain executed,    *)
(* each where the recorded results have it: a receipt is found through it  *)
(* and never resolves to a block that left the chain.                      *)
TxIndexIsExact ==
    LET chain == 1..executor.height
    IN  /\ DOMAIN tx_index = UNION {ToSet(executor.results[h].executed) : h \in chain}
        /\ \A tx \in DOMAIN tx_index :
               LET at == tx_index[tx]
               IN  /\ at.height \in chain
                   /\ executor.results[at.height].hash = at.chain_block
                   /\ executor.results[at.height].executed[at.index] = tx

(* The node uses the pool the way module TxPool says it is used: every     *)
(* call is an addition, a refusal, or an advance that removes executed     *)
(* transactions whose nonces the new state has passed, and prunes by that  *)
(* state, forwards or back.                                                *)
PoolIsImplemented ==
    [][\/ \E tx \in Tx : Pool!Add(tx) \/ Pool!RefuseReplacement(tx)
       \/ \E executed \in SUBSET Pool!Pooled(pool) :
              Pool!Advance(executed, NextBaseFee, Accounts')]_<<pool, Accounts>>

(* No pooled transaction was executed already, and none has a nonce the    *)
(* chain has passed, after any reorg.                                      *)
PoolIsPending ==
    \A tx \in Pool!Pooled(pool) : tx \notin DOMAIN tx_index /\
        tx.nonce >= AccountOf(executor.state, tx.sender).nonce

(* "Those the old chain executed and the new one did not return to the     *)
(* pool automatically" (backend.rs:185): a transaction the node accepted,  *)
(* whose block left the chain and whose nonce is still to come, is pending *)
(* again.                                                                  *)
ReorgedReturnToPool ==
    [][\A tx \in accepted \cap (DOMAIN tx_index \ DOMAIN tx_index') :
           tx.nonce >= Accounts'[tx.sender].nonce => tx \in Pool!Pooled(pool')]_backendVars
=============================================================================
