------------------------------ MODULE DevNode ------------------------------
(***************************************************************************)
(* The development chain (crates/node/src/dev.rs): a miner over the        *)
(* backend of module Backend.  mine_once takes a template under the lock,  *)
(* looks for a nonce without it, and takes the lock again to add the       *)
(* block; submissions arrive in between.  Nothing else adds blocks.        *)
(*                                                                         *)
(* Proof of work is the choice of the hash, the timer that starts a round  *)
(* is left to chance.  Operators named Mut... are wrong on purpose and in  *)
(* no action.                                                              *)
(***************************************************************************)
EXTENDS Backend

CONSTANTS
    DeferredLag,    \* deferred_state_root_lag
    TemplateTxs     \* MAX_TXS

(* Parameters that ChainParams::validate accepts have a lag (Params). *)
ASSUME DevAssumption == DeferredLag \in Nat \ {0} /\ TemplateTxs \in Nat

VARIABLES
    template,       \* what mine_once took: [parents, body, deferred], or NoTemplate
    deferred        \* block -> the deferred fields of its header, of mined blocks

devVars == <<backendVars, template, deferred>>

NoTemplate == [parents |-> {}]

-----------------------------------------------------------------------------
(* The heaviest tips; a block names at most MaxParents. *)
TopTips ==
    {b \in tips : Cardinality({c \in tips : Heavier(data, c, b)}) < MaxParents}

(* deferred_result_for: the result a block at `height` publishes.          *)
(* Mutant: the lag is counted from the block before.                       *)
MutDeferredResultFor(ex, height) ==
    ex.results[IF height - 1 < DeferredLag THEN 0 ELSE height - 1 - DeferredLag]

DeferredResultFor(ex, height) ==
    ex.results[IF height < DeferredLag THEN 0 ELSE height - DeferredLag]

TakeTemplate ==
    /\ template = NoTemplate
    /\ template' = [parents  |-> TopTips,
                    body     |-> Pool!BestTransactions(pool, NextBaseFee, TemplateTxs),
                    deferred |-> DeferredResultFor(executor, executor.height + 1)]
    /\ UNCHANGED <<backendVars, deferred>>

(* A nonce is found, and the block is added.                               *)
AddMined(b, w) ==
    /\ template # NoTemplate
    /\ AddBlockAndAdvance(b, template.parents, w, template.body)
    /\ deferred' = Extend(deferred, b, template.deferred)
    /\ template' = NoTemplate

(* No nonce is found within MAX_ATTEMPTS, or the block is refused. *)
GiveUp ==
    /\ template # NoTemplate
    /\ template' = NoTemplate
    /\ UNCHANGED <<backendVars, deferred>>

(* DevNode::new, and mining_loop with RPC clients next to it. *)
DevInit == BackendInit /\ template = NoTemplate /\ deferred = [b \in {} |-> 0]

DevNext ==
    \/ \E tx \in Tx : (SubmitRaw(tx) \/ SubmitRefused(tx)) /\ UNCHANGED <<template, deferred>>
    \/ TakeTemplate
    \/ \E b \in Hash, w \in Work : AddMined(b, w)
    \/ GiveUp

DevSpec == DevInit /\ [][DevNext]_devVars

-----------------------------------------------------------------------------
(* A mined header publishes the result of the chain block DeferredLag      *)
(* heights below it, as that height has it now: although the result is     *)
(* read under one lock and the block joins the chain under another, no     *)
(* header commits to something the chain does not hold (dev.rs:143-210).   *)
HeadersTellHistory ==
    \A h \in DOMAIN executor.results :
        executor.results[h].hash \in DOMAIN deferred =>
            deferred[executor.results[h].hash] =
                executor.results[IF h > DeferredLag THEN h - DeferredLag ELSE 0]

(* Nothing a client was promised is lost between submission, replacement,  *)
(* template and block: an accepted transaction, or another one of its      *)
(* sender and nonce, is pending or executed.  (No eviction: the pool has   *)
(* room for everything; no reorg: see ReorgedReturnToPool.)                *)
NothingIsLost ==
    DOMAIN deferred = Present \ {Genesis} =>
        \A tx \in accepted : \E other \in Pool!Pooled(pool) \cup DOMAIN tx_index :
            other.sender = tx.sender /\ other.nonce = tx.nonce
=============================================================================
