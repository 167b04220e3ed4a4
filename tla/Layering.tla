------------------------------ MODULE Layering ------------------------------
(***************************************************************************)
(* The canonical execution order of one chain block's transactions:        *)
(* layer_and_sort (crates/ghostdag/src/ordering.rs), over the access sets  *)
(* of TxAccessSet (crates/chain/src/bodies.rs), and partition_rounds       *)
(* (crates/chain/src/parallel.rs), which recovers the rounds from the      *)
(* order for the parallel executor.                                        *)
(*                                                                         *)
(* The three loops are modelled iteration by iteration, so that what they  *)
(* establish can be proved for every list of transactions.                 *)
(*                                                                         *)
(* Operators named Mut... are wrong on purpose and in no action.           *)
(***************************************************************************)
EXTENDS Integers, Sequences, FiniteSets

CONSTANTS
    Address,    \* accounts a transaction may declare
    MaxTxs,     \* most transactions in the base sequence
    RoundMax    \* u32::MAX, where round numbers saturate

ASSUME LayeringAssumption ==
    /\ MaxTxs \in Nat /\ RoundMax \in Nat /\ MaxTxs <= RoundMax
    /\ -1 \notin Address

VARIABLES
    txs,        \* the deduplicated base sequence
    lastTouch,  \* address -> round of the last transaction to touch it
    rounds,     \* rounds assigned so far
    order,      \* the canonical order: indices into txs
    taken,      \* how much of the order partition_rounds has consumed
    touched,    \* addresses touched by the round it is collecting
    current,    \* that round
    groups,     \* the rounds it has closed
    phase       \* "layer", "partition", "done"

vars == <<txs, lastTouch, rounds, order, taken, touched, current, groups, phase>>

Untouched == -1

Index == 1..Len(txs)

Transaction == [sender : Address, declared : SUBSET Address]

(* TxAccessSet::of: the sender, then the destination and the access list.  *)
AccessKeys(tx) == {tx.sender} \cup tx.declared

Keys(i) == AccessKeys(txs[i])

Conflict(i, j) == Keys(i) \cap Keys(j) # {}

Init ==
    /\ \E n \in 0..MaxTxs : txs \in [1..n -> Transaction]
    /\ lastTouch = [a \in Address |-> Untouched]
    /\ rounds = <<>>
    /\ order = <<>>
    /\ taken = 0
    /\ touched = {}
    /\ current = <<>>
    /\ groups = <<>>
    /\ phase = "layer"

-----------------------------------------------------------------------------
SaturatingSucc(n) == IF n >= RoundMax THEN RoundMax ELSE n + 1

(* The rounds a transaction with these keys has to be at or above.         *)
Floors(keys) ==
    {0} \cup {SaturatingSucc(lastTouch[a]) : a \in {k \in keys : lastTouch[k] # Untouched}}

Touch(keys, round) == [a \in Address |-> IF a \in keys THEN round ELSE lastTouch[a]]

(* One transaction of the layering loop. *)
Layer ==
    /\ phase = "layer"
    /\ Len(rounds) < Len(txs)
    /\ LET keys == Keys(Len(rounds) + 1)
       IN  \E round \in Floors(keys) :
             /\ \A f \in Floors(keys) : f <= round
             /\ lastTouch' = Touch(keys, round)
             /\ rounds' = Append(rounds, round)
    /\ UNCHANGED <<txs, order, taken, touched, current, groups, phase>>

(* The sort key (round, index) is a strict total order.                    *)
(* Mutant: the rounds are sorted in descending order.                      *)
MutPrecedes(i, j) == rounds[i] > rounds[j] \/ (rounds[i] = rounds[j] /\ i < j)

Precedes(i, j) == rounds[i] < rounds[j] \/ (rounds[i] = rounds[j] /\ i < j)

Sort ==
    /\ phase = "layer"
    /\ Len(rounds) = Len(txs)
    /\ order' \in [Index -> Index]
    /\ \A p, q \in Index : p < q => Precedes(order'[p], order'[q])
    /\ phase' = "partition"
    /\ UNCHANGED <<txs, lastTouch, rounds, taken, touched, current, groups>>

(* One transaction of partition_rounds: it joins the round being collected *)
(* unless it conflicts with it.                                            *)
(* Mutant: the touched addresses are not cleared when a round is closed.   *)
MutTouchedAfter(keys, closes) == touched \cup keys

TouchedAfter(keys, closes) == IF closes THEN keys ELSE touched \cup keys

Closes(keys) == keys \cap touched # {} /\ current # <<>>

Collect ==
    /\ phase = "partition"
    /\ taken < Len(order)
    /\ LET i    == order[taken + 1]
           keys == Keys(i)
       IN  /\ groups' = IF Closes(keys) THEN Append(groups, current) ELSE groups
           /\ current' = IF Closes(keys) THEN <<i>> ELSE Append(current, i)
           /\ touched' = TouchedAfter(keys, Closes(keys))
    /\ taken' = taken + 1
    /\ UNCHANGED <<txs, lastTouch, rounds, order, phase>>

(* The last round is closed by the end of the list. *)
CloseLast ==
    /\ phase = "partition"
    /\ taken = Len(order)
    /\ groups' = IF current # <<>> THEN Append(groups, current) ELSE groups
    /\ current' = <<>>
    /\ phase' = "done"
    /\ UNCHANGED <<txs, lastTouch, rounds, order, taken, touched>>

Next == Layer \/ Sort \/ Collect \/ CloseLast

Spec == Init /\ [][Next]_vars

-----------------------------------------------------------------------------
TypeOK ==
    /\ txs \in Seq(Transaction)
    /\ lastTouch \in [Address -> Nat \cup {Untouched}]
    /\ rounds \in Seq(Nat)
    /\ Len(txs) <= MaxTxs
    /\ Len(rounds) <= Len(txs)
    /\ phase \in {"layer", "partition", "done"}

(* Two transactions that declare a common account never share a round, and *)
(* the one that comes first in the base sequence is in the earlier round.  *)
ConflictsAreLayered ==
    \A i, j \in 1..Len(rounds) : i < j /\ Conflict(i, j) => rounds[i] < rounds[j]

(* Layering delays nothing without cause: a transaction in round r > 0     *)
(* conflicts with an earlier one in round r - 1.  Rounds have no gaps.     *)
RoundsAreTight ==
    \A j \in 1..Len(rounds) :
        rounds[j] > 0 => \E i \in 1..(j - 1) : Conflict(i, j) /\ rounds[i] = rounds[j] - 1

(* The canonical order never swaps two transactions that conflict; in      *)
(* particular the transactions of one sender run in the order they came,   *)
(* which is what keeps nonces valid (ARCHITECTURE.md 6.4, P2).             *)
ConflictsKeepBaseOrder ==
    \A p, q \in 1..Len(order) :
        p < q /\ Conflict(order[p], order[q]) => order[p] < order[q]

SendersKeepBaseOrder ==
    \A p, q \in 1..Len(order) :
        p < q /\ txs[order[p]].sender = txs[order[q]].sender => order[p] < order[q]

(* What the parallel executor relies on: partition_rounds, which never     *)
(* sees a round number, cuts the order into exactly the rounds that        *)
(* layer_and_sort assigned, each in base order.                            *)
PartitionRecoversRounds ==
    phase = "done" =>
        /\ \A g \in 1..Len(groups) :
             /\ {groups[g][p] : p \in 1..Len(groups[g])} = {i \in Index : rounds[i] = g - 1}
             /\ \A p, q \in 1..Len(groups[g]) : p < q => groups[g][p] < groups[g][q]
        /\ \A i \in Index : rounds[i] < Len(groups)

(* The transactions of one round declare disjoint accounts. *)
RoundsAreDisjoint ==
    \A g \in 1..Len(groups) : \A p, q \in 1..Len(groups[g]) :
        p # q => ~ Conflict(groups[g][p], groups[g][q])

-----------------------------------------------------------------------------
(* The strengthening the layering properties rest on: for every address    *)
(* the loop has met, `lastTouch` is the highest round among the            *)
(* transactions that declare it, and some transaction is in that round.    *)
LastTouchIsExact ==
    \A a \in Address :
        IF lastTouch[a] = Untouched
        THEN \A i \in 1..Len(rounds) : a \notin Keys(i)
        ELSE /\ \A i \in 1..Len(rounds) : a \in Keys(i) => rounds[i] <= lastTouch[a]
             /\ \E i \in 1..Len(rounds) : a \in Keys(i) /\ rounds[i] = lastTouch[a]

(* No round number is near the saturation point. *)
RoundsAreSmall == \A i \in 1..Len(rounds) : rounds[i] < i

(* Once sorted, the order is sorted for good. *)
OrderIsSorted ==
    IF phase = "layer"
    THEN order = <<>>
    ELSE /\ Len(rounds) = Len(txs)
         /\ order \in [Index -> Index]
         /\ \A p, q \in Index : p < q => Precedes(order[p], order[q])

LayerInv ==
    /\ TypeOK
    /\ LastTouchIsExact
    /\ RoundsAreSmall
    /\ ConflictsAreLayered
    /\ RoundsAreTight
    /\ OrderIsSorted

(* The round being collected, and its addresses. *)
PartitionInv ==
    /\ current \in Seq(Index) /\ groups \in Seq(Seq(Index)) /\ taken \in Nat
    /\ \A p \in 1..Len(current) : Keys(current[p]) \subseteq touched
    /\ \A p, q \in 1..Len(current) : p # q => ~ Conflict(current[p], current[q])
    /\ RoundsAreDisjoint
=============================================================================
