------------------------------- MODULE TxPool -------------------------------
(***************************************************************************)
(* The transaction pool (crates/pool/src/lib.rs): admission, replacement,  *)
(* eviction, removal and pruning over its two indexes, and the selection   *)
(* miners take from it.                                                    *)
(*                                                                         *)
(* Whoever holds the pool (crates/rpc/src/backend.rs) passes it the base   *)
(* fee and the sender's account as the executed state has them.  They may  *)
(* move either way between two calls, since a reorg takes execution back:  *)
(* here they are the variables `base_fee` and `account`.                   *)
(*                                                                         *)
(* A transaction stands for its hash.  Operators named Mut... are wrong on *)
(* purpose and in no action.                                               *)
(***************************************************************************)
EXTENDS Integers, FiniteSets, Sequences, SequencesExt

CONSTANTS
    Sender,             \* addresses
    Tx,                 \* [sender, nonce, max_fee, priority, gas, value, well_formed]
    MaxTransactions,    \* PoolConfig::max_transactions
    MaxPerSender,       \* PoolConfig::max_per_sender
    BaseFee,            \* the base fees that occur
    Nonce, Balance,     \* the account nonces and balances that occur
    SequenceMax         \* bound: how many additions are looked at

ASSUME PoolAssumption ==
    /\ \A tx \in Tx : /\ tx.sender \in Sender /\ tx.nonce \in Nat
                      /\ tx.max_fee \in Nat /\ tx.priority \in Nat
                      /\ tx.gas \in Nat /\ tx.value \in Nat
                      /\ tx.well_formed \in BOOLEAN
    /\ MaxTransactions \in Nat \ {0} /\ MaxPerSender \in Nat \ {0}
    /\ BaseFee \subseteq Nat /\ Nonce \subseteq Nat /\ Balance \subseteq Nat
    /\ SequenceMax \in Nat

VARIABLES
    pool,       \* TxPool: [by_hash, by_sender, sequence]
    base_fee,   \* the base fee of the next block
    account     \* sender -> [nonce, balance] in the executed state

vars == <<pool, base_fee, account>>

-----------------------------------------------------------------------------
(* PooledTx::effective_tip: what the miner earns per gas, not the maximum  *)
(* declared.                                                               *)
EffectiveTip(tx, fee) ==
    LET headroom == tx.max_fee - fee
    IN  IF headroom <= 0 THEN 0 ELSE IF tx.priority < headroom THEN tx.priority ELSE headroom

MaxCost(tx) == tx.max_fee * tx.gas + tx.value

Pooled(p) == DOMAIN p.by_hash

Queue(p, s) == IF s \in DOMAIN p.by_sender THEN p.by_sender[s] ELSE <<>>

Occupied(p, tx) == tx.nonce \in DOMAIN Queue(p, tx.sender)

(* TxPool::remove, of every transaction in `gone`; a sender whose last     *)
(* transaction goes is dropped from the index.                             *)
Left(p, gone, s) ==
    {n \in DOMAIN p.by_sender[s] :
        \A tx \in gone \cap Pooled(p) : tx.sender = s => tx.nonce # n}

(* Mutant: the sender index is not told. *)
MutRemoved(p, gone) ==
    [p EXCEPT !.by_hash = [tx \in Pooled(p) \ gone |-> @[tx]]]

Removed(p, gone) ==
    [p EXCEPT
        !.by_hash   = [tx \in Pooled(p) \ gone |-> @[tx]],
        !.by_sender = [s \in {q \in DOMAIN @ : Left(p, gone, q) # {}} |->
                          [n \in Left(p, gone, s) |-> @[s][n]]]]

(* TxPool::prune: what the executed nonces have passed is dropped.         *)
Pruned(p, nonceOf) == Removed(p, {tx \in Pooled(p) : tx.nonce < nonceOf[tx.sender]})

(* evict_worst: the lowest tip goes, of equal tips the latest arrival.     *)
(* Mutant: what is declared counts, not what is earned. *)
MutWorse(p, fee, a, b) ==
    \/ a.priority < b.priority
    \/ a.priority = b.priority /\ p.by_hash[a] > p.by_hash[b]

Worse(p, fee, a, b) ==
    \/ EffectiveTip(a, fee) < EffectiveTip(b, fee)
    \/ EffectiveTip(a, fee) = EffectiveTip(b, fee) /\ p.by_hash[a] > p.by_hash[b]

Worst(p, fee) ==
    CHOOSE tx \in Pooled(p) : \A other \in Pooled(p) \ {tx} : Worse(p, fee, tx, other)

EvictWorst(p, fee) == Removed(p, {Worst(p, fee)})

-----------------------------------------------------------------------------
(* TxPool::add.  The checks before the one on replacement leave the pool   *)
(* as it was; `well_formed` stands for those on chain id, transaction type *)
(* and gas limit, which look at the transaction alone.                     *)
(* Mutant: the per-sender limit is off by one. *)
MutAdmissible(p, tx, acc) ==
    /\ tx \notin Pooled(p)
    /\ tx.well_formed
    /\ tx.nonce >= acc.nonce
    /\ acc.balance >= MaxCost(tx)
    /\ Occupied(p, tx) \/ Cardinality(DOMAIN Queue(p, tx.sender)) <= MaxPerSender

Admissible(p, tx, acc) ==
    /\ tx \notin Pooled(p)
    /\ tx.well_formed
    /\ tx.nonce >= acc.nonce
    /\ acc.balance >= MaxCost(tx)
    /\ Occupied(p, tx) \/ Cardinality(DOMAIN Queue(p, tx.sender)) < MaxPerSender

(* A replacement pays strictly more. *)
(* Mutant: a replacement may pay the same. *)
MutOutbids(p, tx, fee) ==
    Occupied(p, tx) =>
        EffectiveTip(tx, fee) >= EffectiveTip(Queue(p, tx.sender)[tx.nonce], fee)

Outbids(p, tx, fee) ==
    Occupied(p, tx) =>
        EffectiveTip(tx, fee) > EffectiveTip(Queue(p, tx.sender)[tx.nonce], fee)

(* The arrival number of the next transaction.                             *)
Arrival(p) == p.sequence + 1

(* The insertion into both indexes. *)
Inserted(p, tx) ==
    [by_hash   |-> [t \in Pooled(p) \cup {tx} |->
                       IF t = tx THEN Arrival(p) ELSE p.by_hash[t]],
     by_sender |-> [s \in DOMAIN p.by_sender \cup {tx.sender} |->
                       IF s = tx.sender
                       THEN [n \in DOMAIN Queue(p, s) \cup {tx.nonce} |->
                                IF n = tx.nonce THEN tx ELSE Queue(p, s)[n]]
                       ELSE p.by_sender[s]],
     sequence  |-> p.sequence + 1]

(* What is kept once a transaction is in. *)
Fitted(p, fee) == IF Cardinality(Pooled(p)) > MaxTransactions THEN EvictWorst(p, fee) ELSE p

Added(p, tx, fee) ==
    LET kept == IF Occupied(p, tx)
                THEN Removed(p, {Queue(p, tx.sender)[tx.nonce]}) ELSE p
    IN  Fitted(Inserted(kept, tx), fee)

-----------------------------------------------------------------------------
(* best_transactions: one candidate per sender, its lowest nonce not taken *)
(* yet; the highest tip is taken, of equal tips the earliest arrival.      *)
(* Mutant: every transaction is a candidate. *)
MutCandidates(p, out) == Pooled(p) \ ToSet(out)

Candidates(p, out) ==
    {tx \in Pooled(p) \ ToSet(out) :
        \A n \in DOMAIN p.by_sender[tx.sender] :
            n < tx.nonce => p.by_sender[tx.sender][n] \in ToSet(out)}

Best(p, fee, out) ==
    CHOOSE tx \in Candidates(p, out) :
        \A other \in Candidates(p, out) \ {tx} : ~ Worse(p, fee, tx, other)

Taken(p, fee, out) ==
    IF Candidates(p, out) = {} THEN out ELSE Append(out, Best(p, fee, out))

BestTransactions(p, fee, limit) ==
    LET out[n \in 0..limit] == IF n = 0 THEN <<>> ELSE Taken(p, fee, out[n - 1])
    IN  out[limit]

-----------------------------------------------------------------------------
EmptyPool == [by_hash |-> <<>>, by_sender |-> <<>>, sequence |-> 0]

Init ==
    /\ pool = EmptyPool
    /\ base_fee \in BaseFee
    /\ account \in [Sender -> [nonce : {0}, balance : Balance]]

(* submit_raw and add: the transaction is taken. *)
Add(tx) ==
    /\ pool.sequence < SequenceMax
    /\ Admissible(pool, tx, account[tx.sender])
    /\ Outbids(pool, tx, base_fee)
    /\ pool' = Added(pool, tx, base_fee)
    /\ UNCHANGED <<base_fee, account>>

(* A replacement that pays too little is refused after its arrival number  *)
(* was drawn.                                                              *)
RefuseReplacement(tx) ==
    /\ pool.sequence < SequenceMax
    /\ Admissible(pool, tx, account[tx.sender])
    /\ ~ Outbids(pool, tx, base_fee)
    /\ pool' = [pool EXCEPT !.sequence = @ + 1]
    /\ UNCHANGED <<base_fee, account>>

(* Backend::advance, as far as the pool goes: what was executed is         *)
(* removed, and what the new nonces have passed is pruned.  Executing a    *)
(* transaction takes its sender's nonce past it.                           *)
Advance(executed, fee, acc) ==
    /\ \A tx \in executed : tx.nonce < acc[tx.sender].nonce
    /\ pool' = Pruned(Removed(pool, executed), [s \in Sender |-> acc[s].nonce])
    /\ base_fee' = fee
    /\ account' = acc

Next ==
    \/ \E tx \in Tx : Add(tx) \/ RefuseReplacement(tx)
    \/ \E executed \in SUBSET Pooled(pool), fee \in BaseFee,
          acc \in [Sender -> [nonce : Nonce, balance : Balance]] :
           Advance(executed, fee, acc)

Spec == Init /\ [][Next]_vars

-----------------------------------------------------------------------------
Typed(p) ==
    /\ DOMAIN p = {"by_hash", "by_sender", "sequence"}
    /\ Pooled(p) \subseteq Tx
    /\ p.sequence \in Nat
    /\ \A tx \in Pooled(p) : p.by_hash[tx] \in 1..p.sequence
    /\ DOMAIN p.by_sender \subseteq Sender
    /\ \A s \in DOMAIN p.by_sender : DOMAIN p.by_sender[s] \subseteq Nat

(* The pool is a pool over Tx with arrival numbers it has given out, and   *)
(* the account nonces and the base fee are values that occur.              *)
TypeOK ==
    /\ Typed(pool)
    /\ base_fee \in BaseFee
    /\ account \in [Sender -> [nonce : Nonce \cup {0}, balance : Balance]]

Agree(p) ==
    /\ \A tx \in Pooled(p) :
           /\ tx.sender \in DOMAIN p.by_sender
           /\ tx.nonce \in DOMAIN p.by_sender[tx.sender]
           /\ p.by_sender[tx.sender][tx.nonce] = tx
    /\ \A s \in DOMAIN p.by_sender :
           /\ DOMAIN p.by_sender[s] # {}
           /\ \A n \in DOMAIN p.by_sender[s] :
                  /\ p.by_sender[s][n] \in Pooled(p)
                  /\ p.by_sender[s][n].sender = s
                  /\ p.by_sender[s][n].nonce = n

(* The two indexes hold the same transactions, one per sender and nonce,   *)
(* and no sender is listed without one: best_transactions walks by_sender  *)
(* and looks up by_hash, add indexes by_hash with what by_sender says.     *)
IndexesAgree == Agree(pool)

From(p, s) == {tx \in Pooled(p) : tx.sender = s}

Limited(p) ==
    /\ Cardinality(Pooled(p)) <= MaxTransactions
    /\ \A s \in Sender : Cardinality(From(p, s)) <= MaxPerSender

(* Neither limit of PoolConfig is exceeded, whatever the order of          *)
(* additions, replacements and removals.                                   *)
LimitsHold == Limited(pool)

Distinct(p) == \A a, b \in Pooled(p) : p.by_hash[a] = p.by_hash[b] => a = b

(* Arrival numbers are never shared, so ties are broken the same way by    *)
(* eviction and by selection, refused replacements notwithstanding.        *)
ArrivalsAreDistinct == Distinct(pool)

(* Nothing in the pool has a nonce the executed state has passed, even     *)
(* after a reorg brought nonces back and forth.                            *)
NothingObsolete ==
    \A tx \in Pooled(pool) : tx.nonce >= account[tx.sender].nonce

(* What a miner gets is in nonce order per sender, and with room for       *)
(* everything leaves nothing out.                                          *)
SelectionIsExecutable ==
    LET best == BestTransactions(pool, base_fee, Cardinality(Pooled(pool)))
    IN  /\ ToSet(best) = Pooled(pool)
        /\ \A i, j \in DOMAIN best :
               i < j /\ best[i].sender = best[j].sender => best[i].nonce < best[j].nonce

(* While the chain stands still, a transaction is only displaced by a      *)
(* better one: one in its own slot that pays more, or, if the slot is      *)
(* left empty, by an addition after which nobody left pays less.           *)
DisplacedByBetter ==
    [][UNCHANGED <<base_fee, account>> =>
           \A tx \in Pooled(pool) \ Pooled(pool') :
               \/ \E other \in Pooled(pool') \ Pooled(pool) :
                      /\ other.sender = tx.sender /\ other.nonce = tx.nonce
                      /\ EffectiveTip(other, base_fee) > EffectiveTip(tx, base_fee)
               \/ \A other \in Pooled(pool') :
                      EffectiveTip(other, base_fee) >= EffectiveTip(tx, base_fee)]_vars
=============================================================================
