--------------------------- MODULE ParallelRounds ---------------------------
(***************************************************************************)
(* Parallel execution of a chain block: execute_rounds_parallel            *)
(* (crates/chain/src/executor.rs) over speculate and validate              *)
(* (crates/chain/src/parallel.rs), on the rounds module Layering forms.    *)
(* Alongside runs `reference`, what execute_sequentially does with the     *)
(* same transactions in the same order: the two are meant to be identical. *)
(*                                                                         *)
(* The EVM is external.  What matters of it here is which accounts a       *)
(* transaction loads beyond those it declares, that what it does depends   *)
(* on them, and that it can be refused: a transaction looks at the balance *)
(* of one account, pays `value` to another, directly or through a          *)
(* contract, or reverts if it found less than `least`, and pays `tip` to   *)
(* the miner of the block that carried it.  Gas is used in full.           *)
(*                                                                         *)
(* Operators named Mut... are wrong on purpose and in no action.           *)
(***************************************************************************)
EXTENDS Layering

CONSTANTS
    Carriable,      \* length of the base sequence -> what its transactions may do
    Funds,          \* balance of every account before the block
    GasLimit        \* block_gas_limit

Carried == [miner : Address, look : Address, reach : Address, nonce : Nat,
            least : Nat, value : Nat, tip : Nat, gas : Nat]

ASSUME ParallelAssumption ==
    /\ Funds \in Nat /\ GasLimit \in Nat
    /\ \A n \in 0..MaxTxs : Carriable[n] \subseteq Carried

VARIABLES
    carried,    \* what each transaction does
    world,      \* ChainExecutor::state
    block,      \* ExecutedBlock: [undo, gas_used, receipts]
    stage,      \* "order", "idle", "commit", "fallback"
    round,      \* rounds begun
    at,         \* transactions of the round dealt with
    base,       \* the state the round was speculated on
    pending,    \* credited: account -> fees to be added after the round
    fallback,   \* the ExecutedBlock of a round that fell back
    reference,  \* history: [world, block] of execute_sequentially
    exempt      \* history: one of the three cases Exempt... was met

roundVars == <<carried, world, block, stage, round, at, base, pending, fallback,
               reference, exempt>>

allVars == <<vars, roundVars>>

-----------------------------------------------------------------------------
(* The EVM (external): revm's transact, as far as accounts go. *)
Executable(w, i) ==
    /\ w[txs[i].sender].nonce = carried[i].nonce
    /\ w[txs[i].sender].balance >= carried[i].value + carried[i].tip

Succeeds(w, i) == w[carried[i].look].balance >= carried[i].least

Payment(w, i) == IF Succeeds(w, i) THEN carried[i].value ELSE 0

Charged(w, i) ==
    [w EXCEPT ![txs[i].sender] = [nonce   |-> @.nonce + 1,
                                  balance |-> @.balance - (Payment(w, i) + carried[i].tip)]]

Paid(w, a, n) == [w EXCEPT ![a] = [nonce |-> @.nonce, balance |-> @.balance + n]]

Transact(w, i) ==
    Paid(Paid(Charged(w, i), carried[i].reach, Payment(w, i)),
         carried[i].miner, carried[i].tip)

(* What ends up in the EVM's cache and in its state diff. *)
Loaded(i) == Keys(i) \cup {carried[i].look, carried[i].reach, carried[i].miner}

-----------------------------------------------------------------------------
EmptyBlock == [undo |-> [a \in {} |-> 0], gas_used |-> 0, receipts |-> <<>>]

Fits(b, i) == b.gas_used + carried[i].gas <= GasLimit

(* UndoRecord::note and merge: the first value noted wins.                 *)
(* Mutant: the last one wins.                                              *)
MutNoted(undo, w, accounts) ==
    [a \in DOMAIN undo \cup accounts |-> IF a \in accounts THEN w[a] ELSE undo[a]]

Noted(undo, w, accounts) ==
    [a \in DOMAIN undo \cup accounts |-> IF a \in DOMAIN undo THEN undo[a] ELSE w[a]]

(* ExecutedBlock::record: a receipt tells whether its transaction went     *)
(* through, and the gas used up to and including it.                       *)
Recorded(b, w, i, status) ==
    [undo     |-> Noted(b.undo, w, Loaded(i)),
     gas_used |-> b.gas_used + carried[i].gas,
     receipts |-> Append(b.receipts, [tx |-> i, status |-> status,
                                      cumulative |-> b.gas_used + carried[i].gas])]

(* One transaction of execute_sequentially. *)
Included(b, w, i) == Fits(b, i) /\ Executable(w, i)

SequentialBlock(b, w, i) == IF Included(b, w, i) THEN Recorded(b, w, i, Succeeds(w, i)) ELSE b

SequentialWorld(b, w, i) == IF Included(b, w, i) THEN Transact(w, i) ELSE w

(* ExecutedBlock::absorb: the gas in the receipts of a round that fell     *)
(* back is counted from zero, and is rebased here.                         *)
Absorbed(b, f) ==
    [undo     |-> Noted(b.undo, f.undo, DOMAIN f.undo),
     gas_used |-> b.gas_used + f.gas_used,
     receipts |-> b.receipts \o
                  [n \in 1..Len(f.receipts) |->
                      [f.receipts[n] EXCEPT !.cumulative = b.gas_used + @]]]

-----------------------------------------------------------------------------
(* speculate_one: run on the state before the round, is the miner's        *)
(* account changed by the fee and nothing else?  Then it is taken out of   *)
(* the diff.  A transaction that is refused leaves no trace.               *)
OnlyCredited(w, i) ==
    Transact(w, i)[carried[i].miner] =
        [nonce   |-> w[carried[i].miner].nonce,
         balance |-> w[carried[i].miner].balance + carried[i].tip]

TouchesBeneficiary(w, i) == Executable(w, i) /\ ~ OnlyCredited(w, i)

Reads(w, i) == IF Executable(w, i) THEN Loaded(i) ELSE {}

Writes(w, i) ==
    IF Executable(w, i)
    THEN Loaded(i) \ (IF OnlyCredited(w, i) THEN {carried[i].miner} ELSE {})
    ELSE {}

Speculation(w, i) ==
    [reads |-> Reads(w, i), writes |-> Writes(w, i),
     touched_beneficiary |-> TouchesBeneficiary(w, i)]

(* speculate: every transaction of the round sees the state before it. *)
Speculations(w, layer) == [q \in DOMAIN layer |-> Speculation(w, layer[q])]

(* validate: no miner is touched beyond a fee, and no transaction wrote    *)
(* what a later one loaded.                                                *)
(* Mutant: the declared accounts being disjoint, only miners are looked at. *)
MutIndependent(speculations) ==
    \A q \in DOMAIN speculations : ~ speculations[q].touched_beneficiary

Independent(speculations) ==
    \A q \in DOMAIN speculations :
        /\ ~ speculations[q].touched_beneficiary
        /\ \A p \in 1..(q - 1) :
               speculations[p].writes
                   \cap (speculations[q].reads \cup speculations[q].writes) = {}

(* A transaction whose sender an earlier one of its round pays: as the     *)
(* miner, or through a call, the declared accounts being disjoint.         *)
Gains(i) ==
    {txs[i].sender} \cup (IF carried[i].value > 0 THEN {carried[i].reach} ELSE {})
                    \cup (IF carried[i].tip > 0 THEN {carried[i].miner} ELSE {})

ExemptSender(layer) ==
    \E q \in DOMAIN layer : \E p \in 1..(q - 1) : txs[layer[q]].sender \in Gains(layer[p])

(* A transaction that looks at an account which an earlier one of its      *)
(* round pays a fee, as its miner: the fee is in no diff, and not yet in   *)
(* the account.                                                            *)
ExemptLook(layer) ==
    \E q \in DOMAIN layer : \E p \in 1..(q - 1) :
        carried[layer[p]].tip > 0 /\ carried[layer[q]].look = carried[layer[p]].miner

(* A transaction that fits in its round's gas and not in the block's. *)
ExemptGas(i) == Fits(fallback, i) /\ ~ Fits(reference.block, i)

-----------------------------------------------------------------------------
Credits == [a \in Address |-> 0]

Genesis == [a \in Address |-> [nonce |-> 0, balance |-> Funds]]

RoundsInit ==
    /\ Init
    /\ carried = [i \in {} |-> 0]
    /\ world = Genesis
    /\ block = EmptyBlock
    /\ stage = "order"
    /\ round = 0
    /\ at = 0
    /\ base = Genesis
    /\ pending = Credits
    /\ fallback = EmptyBlock
    /\ reference = [world |-> Genesis, block |-> EmptyBlock]
    /\ exempt = FALSE

(* The order is there; what the transactions do is anything. *)
Carry ==
    /\ stage = "order"
    /\ phase = "done"
    /\ carried' \in [Index -> Carriable[Len(txs)]]
    /\ stage' = "idle"
    /\ UNCHANGED <<vars, world, block, round, at, base, pending, fallback, reference, exempt>>

Speculate ==
    /\ stage = "idle"
    /\ round < Len(groups)
    /\ round' = round + 1
    /\ at' = 0
    /\ base' = world
    /\ fallback' = EmptyBlock
    /\ stage' = IF Independent(Speculations(world, groups[round + 1])) THEN "commit" ELSE "fallback"
    /\ exempt' = (exempt \/ (stage' = "commit" /\ (\/ ExemptSender(groups[round + 1])
                                                 \/ ExemptLook(groups[round + 1]))))
    /\ UNCHANGED <<vars, carried, world, block, pending, reference>>

(* What execute_sequentially does with the same transaction. *)
Referred(i) ==
    reference' = [world |-> SequentialWorld(reference.block, reference.world, i),
                  block |-> SequentialBlock(reference.block, reference.world, i)]

(* A transaction's diff, less the fee. *)
Committed(i) ==
    [a \in Address |-> IF a \in Writes(base, i) THEN Transact(base, i)[a] ELSE world[a]]

(* One transaction of a round that validated. *)
CommitOne ==
    /\ stage = "commit"
    /\ at < Len(groups[round])
    /\ LET i == groups[round][at + 1]
       IN  /\ Referred(i)
           /\ IF Fits(block, i) /\ Executable(base, i)
              THEN /\ world' = Committed(i)
                   /\ block' = Recorded(block, world, i, Succeeds(base, i))
                   /\ pending' = [pending EXCEPT ![carried[i].miner] = @ + carried[i].tip]
              ELSE UNCHANGED <<world, block, pending>>
    /\ at' = at + 1
    /\ UNCHANGED <<vars, carried, stage, round, base, fallback, exempt>>

(* The fees, once the round is committed. *)
Credited == [a \in Address |-> Paid(world, a, pending[a])[a]]

Credit ==
    /\ stage = "commit"
    /\ at = Len(groups[round])
    /\ world' = Credited
    /\ pending' = Credits
    /\ stage' = "idle"
    /\ UNCHANGED <<vars, carried, block, round, at, base, fallback, reference, exempt>>

(* One transaction of a round that fell back. *)
FallBackOne ==
    /\ stage = "fallback"
    /\ at < Len(groups[round])
    /\ LET i == groups[round][at + 1]
       IN  /\ Referred(i)
           /\ world' = SequentialWorld(fallback, world, i)
           /\ fallback' = SequentialBlock(fallback, world, i)
           /\ exempt' = (exempt \/ ExemptGas(i))
    /\ at' = at + 1
    /\ UNCHANGED <<vars, carried, block, stage, round, base, pending>>

Absorb ==
    /\ stage = "fallback"
    /\ at = Len(groups[round])
    /\ block' = Absorbed(block, fallback)
    /\ stage' = "idle"
    /\ UNCHANGED <<vars, carried, world, round, at, base, pending, fallback, reference, exempt>>

RoundsNext ==
    \/ Next /\ UNCHANGED roundVars
    \/ Carry
    \/ Speculate \/ CommitOne \/ Credit \/ FallBackOne \/ Absorb

RoundsSpec == RoundsInit /\ [][RoundsNext]_allVars

-----------------------------------------------------------------------------
(* Between rounds, and so at the end, the state and the block - its gas,   *)
(* its undo record, its receipts and the gas they accumulate - are those   *)
(* of sequential execution, however rounds were committed or fell back,    *)
(* outside the three cases ExemptSender, ExemptLook and ExemptGas: the     *)
(* argument of parallel.rs:17-25, with what it leaves out made explicit.   *)
ExecutionAgrees ==
    stage = "idle" /\ ~ exempt => world = reference.world /\ block = reference.block

(* The undo record covers whatever changed and holds the values from       *)
(* before the block, also where execution differs from the sequential one: *)
(* undo_one restores the state exactly.                                    *)
UndoRestores ==
    stage = "idle" =>
        Genesis = [a \in Address |-> IF a \in DOMAIN block.undo THEN block.undo[a] ELSE world[a]]

(* "Whatever execute_rounds_parallel does, it must produce exactly this"   *)
(* (executor.rs:380), with no exemption.                                   *)
ParallelIsSequential ==
    stage = "idle" => world = reference.world /\ block = reference.block
=============================================================================
