------------------------ MODULE ParallelRoundsProofs ------------------------
(***************************************************************************)
(* Executing a block in rounds gives what executing it sequentially gives, *)
(* outside the two cases ExemptSender and ExemptGas; and in every case the *)
(* undo record takes the block back exactly.  For all transactions, any    *)
(* accounts and any gas limit.                                             *)
(*                                                                         *)
(* First that the canonical execution order keeps conflicting transactions *)
(* in the order they came, for every list of transactions and every set of *)
(* accounts; and that the rounds handed to the parallel executor are       *)
(* disjoint and are those the order was made from.                         *)
(*                                                                         *)
(* The argument: a transaction adds to accounts what does not depend on    *)
(* them (TransactAdds).  So while a round is committed, the accounts the   *)
(* sequential execution has are those of the round with the fees owed      *)
(* added, and what the round has yet to commit finds its sender as the     *)
(* round found it (CommitAgrees).                                          *)
(***************************************************************************)
EXTENDS ParallelRounds, FiniteSetTheorems, TLAPS

(* A key set is not empty and holds addresses only. *)
LEMMA KeysType ==
    ASSUME TypeOK, NEW i \in Index
    PROVE  Keys(i) \subseteq Address /\ txs[i] \in Transaction
<1>1. txs[i] \in Transaction
    BY DEF TypeOK, Index
<1> QED
    BY <1>1 DEF Keys, AccessKeys, Transaction

(* Nothing is layered yet.                                                 *)
LEMMA InitLayerInv == Init => LayerInv
<1> SUFFICES ASSUME Init PROVE LayerInv
    OBVIOUS
<1>1. PICK n \in 0..MaxTxs : txs \in [1..n -> Transaction]
    BY DEF Init
<1>2. txs \in Seq(Transaction) /\ Len(txs) = n /\ Len(rounds) = 0
    BY <1>1, LayeringAssumption DEF Init
<1>3. TypeOK
    BY <1>2, LayeringAssumption DEF Init, TypeOK
<1>4. LastTouchIsExact /\ RoundsAreSmall /\ ConflictsAreLayered /\ RoundsAreTight
    BY <1>2 DEF Init, LastTouchIsExact, RoundsAreSmall, ConflictsAreLayered, RoundsAreTight
<1>5. OrderIsSorted
    BY DEF Init, OrderIsSorted
<1> QED
    BY <1>3, <1>4, <1>5 DEF LayerInv

(* The round the loop picks: above the last touch of every key, and if it  *)
(* is not 0, just above the last touch of one of them.                     *)
LEMMA FloorsBound ==
    ASSUME LayerInv, NEW keys \in SUBSET Address, NEW chosen \in Floors(keys),
           \A f \in Floors(keys) : f <= chosen
    PROVE  /\ chosen \in Nat /\ chosen <= Len(rounds)
           /\ \A a \in keys : lastTouch[a] # Untouched => lastTouch[a] < chosen
           /\ chosen > 0 => \E a \in keys : lastTouch[a] # Untouched /\ lastTouch[a] = chosen - 1
<1>1. ASSUME NEW a \in keys, lastTouch[a] # Untouched
      PROVE  /\ lastTouch[a] \in Nat
             /\ lastTouch[a] < Len(rounds)
             /\ SaturatingSucc(lastTouch[a]) = lastTouch[a] + 1
    <2>1. lastTouch[a] \in Nat
        BY <1>1 DEF LayerInv, TypeOK
    <2>2. PICK i \in 1..Len(rounds) : rounds[i] = lastTouch[a]
        BY <1>1 DEF LayerInv, LastTouchIsExact
    <2>3. rounds[i] < i /\ Len(rounds) \in Nat /\ Len(rounds) <= MaxTxs /\ Len(txs) \in Nat
        BY <2>2, LayeringAssumption DEF LayerInv, RoundsAreSmall, TypeOK
    <2> QED
        BY <2>1, <2>2, <2>3, LayeringAssumption DEF SaturatingSucc
<1>2. Len(rounds) \in Nat
    BY DEF LayerInv, TypeOK
<1>3. chosen \in Nat /\ chosen <= Len(rounds)
    BY <1>1, <1>2 DEF Floors
<1>4. \A a \in keys : lastTouch[a] # Untouched => lastTouch[a] < chosen
    BY <1>1, <1>3 DEF Floors
<1>5. chosen > 0 => \E a \in keys : lastTouch[a] # Untouched /\ lastTouch[a] = chosen - 1
    BY <1>1, <1>3 DEF Floors
<1> QED
    BY <1>3, <1>4, <1>5

(* One turn of the layering loop keeps the invariant.                      *)
LEMMA LayerStep == ASSUME LayerInv, Layer PROVE LayerInv'
<1> DEFINE n == Len(rounds) + 1
           keys == Keys(n)
<1>1. PICK chosen \in Floors(keys) :
        /\ \A f \in Floors(keys) : f <= chosen
        /\ lastTouch' = Touch(keys, chosen)
        /\ rounds' = Append(rounds, chosen)
    BY DEF Layer
<1>2. /\ TypeOK /\ Len(rounds) \in Nat /\ n \in Index /\ keys \subseteq Address
      /\ txs' = txs /\ phase' = phase /\ order' = order /\ phase = "layer" /\ Index' = Index
    BY KeysType DEF LayerInv, Layer, TypeOK, Index
<1>3. /\ chosen \in Nat /\ chosen <= Len(rounds)
      /\ \A a \in keys : lastTouch[a] # Untouched => lastTouch[a] < chosen
      /\ chosen > 0 => \E a \in keys : lastTouch[a] # Untouched /\ lastTouch[a] = chosen - 1
    BY <1>1, <1>2, FloorsBound
<1>4. /\ Len(rounds') = n /\ rounds'[n] = chosen /\ rounds' \in Seq(Nat)
      /\ \A i \in 1..Len(rounds) : rounds'[i] = rounds[i]
      /\ \A i : Keys(i)' = Keys(i)
    BY <1>1, <1>2, <1>3 DEF TypeOK, Keys
<1>5. /\ lastTouch' \in [Address -> Nat \cup {Untouched}]
      /\ \A a \in keys : lastTouch'[a] = chosen
      /\ \A a \in Address \ keys : lastTouch'[a] = lastTouch[a]
    BY <1>1, <1>2, <1>3 DEF Touch, TypeOK
<1>6. TypeOK'
    BY <1>2, <1>4, <1>5 DEF TypeOK, Index
<1>7. LastTouchIsExact'
    <2> SUFFICES ASSUME NEW a \in Address
                 PROVE  IF lastTouch'[a] = Untouched
                        THEN \A i \in 1..n : a \notin Keys(i)
                        ELSE /\ \A i \in 1..n : a \in Keys(i) => rounds'[i] <= lastTouch'[a]
                             /\ \E i \in 1..n : a \in Keys(i) /\ rounds'[i] = lastTouch'[a]
        BY <1>4 DEF LastTouchIsExact
    <2>1. CASE a \in keys
        <3>1. lastTouch'[a] = chosen /\ rounds'[n] = chosen /\ chosen # Untouched /\ a \in Keys(n)
            BY <1>3, <1>4, <1>5, <2>1 DEF Untouched
        <3>2. \A i \in 1..Len(rounds) : a \in Keys(i) => rounds[i] <= chosen
            <4> SUFFICES ASSUME NEW i \in 1..Len(rounds), a \in Keys(i)
                         PROVE  rounds[i] <= chosen
                OBVIOUS
            <4>1. lastTouch[a] # Untouched /\ rounds[i] <= lastTouch[a]
                BY DEF LayerInv, LastTouchIsExact
            <4>2. lastTouch[a] \in Nat /\ rounds[i] \in Nat
                BY <4>1, <1>2 DEF TypeOK
            <4> QED
                BY <1>3, <2>1, <4>1, <4>2
        <3> QED
            BY <1>2, <1>3, <1>4, <3>1, <3>2
    <2>2. CASE a \notin keys
        <3>1. lastTouch'[a] = lastTouch[a] /\ a \notin Keys(n)
            BY <1>5, <2>2
        <3>2. \A i \in 1..n : a \in Keys(i) => i \in 1..Len(rounds) /\ rounds'[i] = rounds[i]
            BY <1>2, <1>4, <3>1
        <3>3. CASE lastTouch[a] = Untouched
            <4>1. \A i \in 1..Len(rounds) : a \notin Keys(i)
                BY <3>3 DEF LayerInv, LastTouchIsExact
            <4> QED
                BY <3>1, <3>2, <3>3, <4>1
        <3>4. CASE lastTouch[a] # Untouched
            <4>1. \A i \in 1..Len(rounds) : a \in Keys(i) => rounds[i] <= lastTouch[a]
                BY <3>4 DEF LayerInv, LastTouchIsExact
            <4>2. PICK i \in 1..Len(rounds) : a \in Keys(i) /\ rounds[i] = lastTouch[a]
                BY <3>4 DEF LayerInv, LastTouchIsExact
            <4>3. i \in 1..n /\ rounds'[i] = lastTouch'[a]
                BY <1>2, <1>4, <3>1, <4>2
            <4> QED
                BY <3>1, <3>2, <3>4, <4>1, <4>2, <4>3
        <3> QED
            BY <3>3, <3>4
    <2> QED
        BY <2>1, <2>2
<1>8. RoundsAreSmall'
    BY <1>2, <1>3, <1>4 DEF LayerInv, RoundsAreSmall
<1>9. ConflictsAreLayered'
    <2> SUFFICES ASSUME NEW i \in 1..n, NEW j \in 1..n, i < j, Conflict(i, j)
                 PROVE  rounds'[i] < rounds'[j]
        BY <1>4 DEF ConflictsAreLayered, Conflict
    <2>1. CASE j # n
        BY <1>2, <1>4, <2>1 DEF LayerInv, ConflictsAreLayered
    <2>2. CASE j = n
        <3>1. PICK a \in keys : a \in Keys(i)
            BY <2>2 DEF Conflict
        <3>2. i \in 1..Len(rounds) /\ a \in Address
            BY <1>2, <2>2
        <3>3. lastTouch[a] # Untouched /\ rounds[i] <= lastTouch[a]
            BY <3>1, <3>2 DEF LayerInv, LastTouchIsExact
        <3>4. lastTouch[a] \in Nat /\ rounds[i] \in Nat
            BY <1>2, <3>2, <3>3 DEF TypeOK
        <3> QED
            BY <1>3, <1>4, <2>2, <3>1, <3>2, <3>3, <3>4
    <2> QED
        BY <2>1, <2>2
<1>10. RoundsAreTight'
    <2> SUFFICES ASSUME NEW j \in 1..n, rounds'[j] > 0
                 PROVE  \E i \in 1..(j - 1) : Conflict(i, j) /\ rounds'[i] = rounds'[j] - 1
        BY <1>4 DEF RoundsAreTight, Conflict
    <2>1. CASE j # n
        <3>1. PICK i \in 1..(j - 1) : Conflict(i, j) /\ rounds[i] = rounds[j] - 1
            BY <1>2, <1>4, <2>1 DEF LayerInv, RoundsAreTight
        <3>2. i \in 1..Len(rounds) /\ j \in 1..Len(rounds)
            BY <1>2, <2>1, <3>1
        <3> QED
            BY <1>4, <3>1, <3>2
    <2>2. CASE j = n
        <3>1. PICK a \in keys : lastTouch[a] # Untouched /\ lastTouch[a] = chosen - 1
            BY <1>3, <1>4, <2>2
        <3>2. PICK i \in 1..Len(rounds) : a \in Keys(i) /\ rounds[i] = lastTouch[a]
            BY <1>2, <3>1 DEF LayerInv, LastTouchIsExact
        <3> QED
            BY <1>2, <1>4, <2>2, <3>1, <3>2 DEF Conflict
    <2> QED
        BY <2>1, <2>2
<1>11. OrderIsSorted'
    BY <1>2 DEF LayerInv, OrderIsSorted
<1> QED
    BY <1>6, <1>7, <1>8, <1>9, <1>10, <1>11 DEF LayerInv

(* Sorting leaves the rounds as they are.                                  *)
LEMMA SortStep == ASSUME LayerInv, Sort PROVE LayerInv'
<1>1. TypeOK'
    BY DEF LayerInv, Sort, TypeOK
<1>2. LastTouchIsExact'
    BY DEF LayerInv, Sort, LastTouchIsExact, Keys
<1>3. RoundsAreSmall' /\ ConflictsAreLayered' /\ RoundsAreTight'
    BY DEF LayerInv, Sort, RoundsAreSmall, ConflictsAreLayered, RoundsAreTight, Conflict, Keys
<1>4. OrderIsSorted'
    BY DEF LayerInv, Sort, OrderIsSorted, Precedes, Index
<1> QED
    BY <1>1, <1>2, <1>3, <1>4 DEF LayerInv

(* The loops after the sort leave the layering alone. *)
LEMMA FrameStep ==
    ASSUME LayerInv, UNCHANGED <<txs, lastTouch, rounds, order>>,
           phase' = phase \/ (phase = "partition" /\ phase' = "done")
    PROVE  LayerInv'
<1>1. TypeOK'
    BY DEF LayerInv, TypeOK
<1>2. LastTouchIsExact'
    BY DEF LayerInv, LastTouchIsExact, Keys
<1>3. RoundsAreSmall' /\ ConflictsAreLayered' /\ RoundsAreTight'
    BY DEF LayerInv, RoundsAreSmall, ConflictsAreLayered, RoundsAreTight, Conflict, Keys
<1>4. OrderIsSorted'
    BY DEF LayerInv, OrderIsSorted, Precedes, Index
<1> QED
    BY <1>1, <1>2, <1>3, <1>4 DEF LayerInv

(* Every step keeps the layering invariant.                                *)
LEMMA LayerInvStep == LayerInv /\ [Next]_vars => LayerInv'
<1> SUFFICES ASSUME LayerInv, [Next]_vars PROVE LayerInv'
    OBVIOUS
<1>1. CASE Layer
    BY <1>1, LayerStep
<1>2. CASE Sort
    BY <1>2, SortStep
<1>3. CASE Collect
    BY <1>3, FrameStep DEF Collect
<1>4. CASE CloseLast
    BY <1>4, FrameStep DEF CloseLast
<1>5. CASE UNCHANGED vars
    BY <1>5, FrameStep DEF vars
<1> QED
    BY <1>1, <1>2, <1>3, <1>4, <1>5 DEF Next

(* Throughout layer_and_sort the last touch of an account is exact and the *)
(* rounds are layered and tight: the invariant its properties follow from. *)
THEOREM LayeringInvariance == Spec => []LayerInv
<1> QED
    BY InitLayerInv, LayerInvStep, PTL DEF Spec

(* The types of the layering loop's state. *)
THEOREM TypeCorrect == Spec => []TypeOK
<1>1. LayerInv => TypeOK
    BY DEF LayerInv
<1> QED
    BY <1>1, LayeringInvariance, PTL

(* layer_and_sort puts transactions that declare a common account in       *)
(* strictly increasing rounds, in the order of the base sequence.          *)
THEOREM ConflictsLayered == Spec => []ConflictsAreLayered
<1>1. LayerInv => ConflictsAreLayered
    BY DEF LayerInv
<1> QED
    BY <1>1, LayeringInvariance, PTL

(* layer_and_sort delays no transaction further than a conflict demands.   *)
THEOREM RoundsTight == Spec => []RoundsAreTight
<1>1. LayerInv => RoundsAreTight
    BY DEF LayerInv
<1> QED
    BY <1>1, LayeringInvariance, PTL

(* The order layer_and_sort returns never swaps two conflicting            *)
(* transactions.                                                           *)
LEMMA SortedKeepsConflicts == LayerInv => ConflictsKeepBaseOrder
<1> SUFFICES ASSUME LayerInv, NEW p \in 1..Len(order), NEW q \in 1..Len(order), p < q,
                    Conflict(order[p], order[q])
             PROVE  order[p] < order[q]
    BY DEF ConflictsKeepBaseOrder
<1>1. phase # "layer"
    BY DEF LayerInv, OrderIsSorted
<1>2. /\ order \in [Index -> Index] /\ Len(txs) \in Nat /\ Len(rounds) = Len(txs)
      /\ \A x, y \in Index : x < y => Precedes(order[x], order[y])
    BY <1>1 DEF LayerInv, OrderIsSorted, TypeOK
<1>3. Len(order) = Len(txs)
    BY <1>2 DEF Index
<1>4. p \in Index /\ q \in Index /\ Precedes(order[p], order[q])
    BY <1>2, <1>3 DEF Index
<1> DEFINE i == order[p]
           j == order[q]
<1>5. i \in 1..Len(rounds) /\ j \in 1..Len(rounds) /\ Len(rounds) \in Nat
    BY <1>2, <1>4 DEF Index
<1>6. rounds[i] \in Nat /\ rounds[j] \in Nat
    BY <1>5 DEF LayerInv, TypeOK
<1>7. j < i => rounds[j] < rounds[i]
    BY <1>5, SMTT(30) DEF LayerInv, ConflictsAreLayered, Conflict
<1> QED
    BY <1>4, <1>5, <1>6, <1>7 DEF Precedes

(* The order the executor runs never swaps two transactions that conflict. *)
THEOREM OrderKeepsConflicts == Spec => []ConflictsKeepBaseOrder
<1> QED
    BY SortedKeepsConflicts, LayeringInvariance, PTL

(* One sender's transactions always conflict, so they run in the order     *)
(* they came: nonces stay valid through the reordering.                    *)
THEOREM OrderKeepsSenders == Spec => []SendersKeepBaseOrder
<1>1. ConflictsKeepBaseOrder => SendersKeepBaseOrder
    BY DEF ConflictsKeepBaseOrder, SendersKeepBaseOrder, Conflict, Keys, AccessKeys
<1> QED
    BY <1>1, OrderKeepsConflicts, PTL

-----------------------------------------------------------------------------
(* The rounds partition_rounds hands to the parallel executor.             *)
LEMMA CollectStep == ASSUME LayerInv, PartitionInv, Collect PROVE PartitionInv'
<1> DEFINE i == order[taken + 1]
           keys == Keys(i)
<1>1. /\ txs' = txs /\ Index' = Index /\ \A x : Keys(x)' = Keys(x)
      /\ \A x, y : Conflict(x, y)' <=> Conflict(x, y)
    BY DEF Collect, Index, Keys, Conflict
<1>2. i \in Index /\ taken' \in Nat
    <2>1. order \in [Index -> Index] /\ Len(txs) \in Nat
        BY DEF LayerInv, OrderIsSorted, TypeOK, Collect
    <2>2. Len(order) = Len(txs)
        BY <2>1 DEF Index
    <2>3. taken \in Nat /\ taken < Len(order) /\ taken' = taken + 1
        BY DEF Collect, PartitionInv
    <2>4. taken + 1 \in Index
        BY <2>1, <2>2, <2>3 DEF Index
    <2> QED
        BY <2>1, <2>3, <2>4
<1>3. CASE Closes(keys)
    <2>1. groups' = Append(groups, current) /\ current' = <<i>> /\ touched' = keys
        BY <1>3 DEF Collect, TouchedAfter
    <2>2. current' \in Seq(Index) /\ groups' \in Seq(Seq(Index)) /\ Len(current') = 1
        BY <1>2, <2>1 DEF PartitionInv
    <2>3. \A p \in 1..Len(current') : current'[p] = i
        BY <2>1
    <2>4. RoundsAreDisjoint'
        <3> SUFFICES ASSUME NEW g \in 1..Len(groups'), NEW p \in 1..Len(groups'[g]),
                            NEW q \in 1..Len(groups'[g]), p # q
                     PROVE  ~ Conflict(groups'[g][p], groups'[g][q])
            BY <1>1 DEF RoundsAreDisjoint
        <3>1. Len(groups') = Len(groups) + 1 /\ Len(groups) \in Nat
            BY <2>1 DEF PartitionInv
        <3>2. CASE g = Len(groups) + 1
            BY <2>1, <3>1, <3>2 DEF PartitionInv
        <3>3. CASE g # Len(groups) + 1
            BY <2>1, <3>1, <3>3 DEF PartitionInv, RoundsAreDisjoint
        <3> QED
            BY <3>2, <3>3
    <2> QED
        BY <1>1, <1>2, <2>1, <2>2, <2>3, <2>4 DEF PartitionInv
<1>4. CASE ~ Closes(keys)
    <2>1. groups' = groups /\ current' = Append(current, i) /\ touched' = touched \cup keys
        BY <1>4 DEF Collect, TouchedAfter
    <2>2. /\ current' \in Seq(Index) /\ groups' \in Seq(Seq(Index))
          /\ Len(current') = Len(current) + 1 /\ Len(current) \in Nat
          /\ current'[Len(current) + 1] = i
          /\ \A p \in 1..Len(current) : current'[p] = current[p]
        BY <1>2, <2>1 DEF PartitionInv
    <2>3. \A p \in 1..Len(current) : ~ Conflict(current[p], i) /\ ~ Conflict(i, current[p])
        <3> SUFFICES ASSUME NEW p \in 1..Len(current)
                     PROVE  ~ Conflict(current[p], i) /\ ~ Conflict(i, current[p])
            OBVIOUS
        <3>1. keys \cap touched = {}
            BY <1>4, <2>2 DEF Closes
        <3>2. Keys(current[p]) \subseteq touched
            BY DEF PartitionInv
        <3> QED
            BY <3>1, <3>2 DEF Conflict
    <2>4. \A p \in 1..Len(current') : Keys(current'[p]) \subseteq touched'
        BY <2>1, <2>2 DEF PartitionInv
    <2>5. \A p, q \in 1..Len(current') : p # q => ~ Conflict(current'[p], current'[q])
        <3> SUFFICES ASSUME NEW p \in 1..Len(current'), NEW q \in 1..Len(current'), p # q
                     PROVE  ~ Conflict(current'[p], current'[q])
            OBVIOUS
        <3>1. CASE p \in 1..Len(current) /\ q \in 1..Len(current)
            BY <2>2, <3>1 DEF PartitionInv
        <3>2. CASE p = Len(current) + 1
            <4>1. q \in 1..Len(current) /\ current'[p] = i /\ current'[q] = current[q]
                BY <2>2, <3>2
            <4> QED
                BY <2>3, <4>1
        <3>3. CASE q = Len(current) + 1
            <4>1. p \in 1..Len(current) /\ current'[q] = i /\ current'[p] = current[p]
                BY <2>2, <3>3
            <4> QED
                BY <2>3, <4>1
        <3> QED
            BY <2>2, <3>1, <3>2, <3>3
    <2>6. RoundsAreDisjoint'
        BY <1>1, <2>1 DEF PartitionInv, RoundsAreDisjoint
    <2> QED
        BY <1>1, <1>2, <2>2, <2>4, <2>5, <2>6 DEF PartitionInv
<1> QED
    BY <1>3, <1>4

(* Closing the last round keeps the rounds disjoint.                       *)
LEMMA CloseLastStep == ASSUME PartitionInv, CloseLast PROVE PartitionInv'
<1>1. /\ Index' = Index /\ \A x : Keys(x)' = Keys(x)
      /\ \A x, y : Conflict(x, y)' <=> Conflict(x, y)
      /\ current' = <<>> /\ taken' = taken
    BY DEF CloseLast, Index, Keys, Conflict
<1>2. groups' \in Seq(Seq(Index))
    BY DEF CloseLast, PartitionInv
<1>3. RoundsAreDisjoint'
    <2> SUFFICES ASSUME NEW g \in 1..Len(groups'), NEW p \in 1..Len(groups'[g]),
                        NEW q \in 1..Len(groups'[g]), p # q
                 PROVE  ~ Conflict(groups'[g][p], groups'[g][q])
        BY <1>1 DEF RoundsAreDisjoint
    <2>1. CASE g \in 1..Len(groups) /\ groups'[g] = groups[g]
        BY <2>1 DEF PartitionInv, RoundsAreDisjoint
    <2>2. CASE groups'[g] = current
        BY <2>2 DEF PartitionInv
    <2>3. groups \in Seq(Seq(Index)) /\ current \in Seq(Index)
        BY DEF PartitionInv
    <2>4. (g \in 1..Len(groups) /\ groups'[g] = groups[g]) \/ groups'[g] = current
        BY <2>3 DEF CloseLast
    <2> QED
        BY <2>1, <2>2, <2>4
<1> QED
    BY <1>1, <1>2, <1>3 DEF PartitionInv

(* Every step keeps the partition invariant.                               *)
LEMMA PartitionInvStep == LayerInv /\ PartitionInv /\ [Next]_vars => PartitionInv'
<1> SUFFICES ASSUME LayerInv, PartitionInv, [Next]_vars PROVE PartitionInv'
    OBVIOUS
<1>1. ASSUME UNCHANGED <<txs, taken, touched, current, groups>> PROVE PartitionInv'
    BY <1>1 DEF PartitionInv, RoundsAreDisjoint, Index, Keys, Conflict
<1>2. CASE Layer
    BY <1>1, <1>2 DEF Layer
<1>3. CASE Sort
    BY <1>1, <1>3 DEF Sort
<1>4. CASE Collect
    BY <1>4, CollectStep
<1>5. CASE CloseLast
    BY <1>5, CloseLastStep
<1>6. CASE UNCHANGED vars
    BY <1>1, <1>6 DEF vars
<1> QED
    BY <1>2, <1>3, <1>4, <1>5, <1>6 DEF Next

(* What the rounds are while they are being collected.                     *)
THEOREM PartitionInvariance == Spec => []PartitionInv
<1>1. Init => PartitionInv
    BY DEF Init, PartitionInv, RoundsAreDisjoint
<1> QED
    BY <1>1, PartitionInvStep, LayeringInvariance, PTL DEF Spec

(* No two transactions of a round handed to the parallel executor declare  *)
(* a common account.                                                       *)
THEOREM RoundsDisjoint == Spec => []RoundsAreDisjoint
<1>1. PartitionInv => RoundsAreDisjoint
    BY DEF PartitionInv
<1> QED
    BY <1>1, PartitionInvariance, PTL

-----------------------------------------------------------------------------
(* partition_rounds sees the order only.  Its rounds are those of the      *)
(* layering because a transaction of the next round conflicts with one of  *)
(* the round before it (RoundsAreTight), all of which is collected by      *)
(* then, and with none of its own (ConflictsAreLayered).                   *)

(* The round numbered n, and what the collected one has of it, in order. *)
Members(s) == {s[p] : p \in 1..Len(s)}

Ascending(s) == \A p, q \in 1..Len(s) : p < q => s[p] < s[q]

InRound(n) == {i \in Index : rounds[i] = n}

Seen == {order[p] : p \in 1..taken}

RecoverInv ==
    /\ taken \in Nat
    /\ current \in Seq(Index) /\ groups \in Seq(Seq(Index))
    /\ phase = "layer" => current = <<>> /\ groups = <<>> /\ touched = {} /\ taken = 0
    /\ phase = "partition" =>
           /\ taken <= Len(order)
           /\ taken = 0 => current = <<>> /\ groups = <<>>
           /\ taken > 0 => current # <<>>
           /\ \A a \in touched : \E p \in 1..Len(current) : a \in Keys(current[p])
           /\ \A p \in 1..Len(current) : Keys(current[p]) \subseteq touched
           /\ \A i \in Seen : rounds[i] <= Len(groups)
           /\ Members(current) = InRound(Len(groups)) \cap Seen
           /\ Ascending(current)
           /\ \A g \in 1..Len(groups) :
                  Members(groups[g]) = InRound(g - 1) /\ Ascending(groups[g])
    /\ phase = "done" => PartitionRecoversRounds

(* Every transaction is somewhere in the order.                            *)
LEMMA OrderIsOnto ==
    ASSUME LayerInv, phase # "layer"
    PROVE  \A i \in Index : \E p \in Index : order[p] = i
<1>1. Len(txs) \in Nat /\ order \in [Index -> Index] /\ Len(rounds) = Len(txs)
      /\ \A p, q \in Index : p < q => Precedes(order[p], order[q])
    BY DEF LayerInv, TypeOK, OrderIsSorted
<1>2. IsFiniteSet(Index)
    BY <1>1, FS_Interval DEF Index
<1>3. \A p, q \in Index : order[p] = order[q] => p = q
    <2> SUFFICES ASSUME NEW p \in Index, NEW q \in Index, order[p] = order[q], p < q PROVE FALSE
        <3>1. \A p, q \in Index : p < q \/ q < p \/ p = q
            BY <1>1 DEF Index
        <3> QED
            BY <3>1
    <2>1. Precedes(order[p], order[p])
        BY <1>1
    <2>2. order[p] \in 1..Len(rounds) /\ rounds \in Seq(Nat)
        BY <1>1 DEF Index, LayerInv, TypeOK
    <2>3. rounds[order[p]] \in Nat /\ order[p] \in Nat
        BY <1>1, <2>2
    <2> QED
        BY <2>1, <2>3 DEF Precedes
<1>4. order \in Injection(Index, Index)
    BY <1>1, <1>3 DEF Injection, IsInjective
<1>5. order \in Surjection(Index, Index)
    BY <1>2, <1>4, FS_Injection
<1> QED
    BY <1>5 DEF Surjection

(* How two positions of the order compare.                                 *)
LEMMA OrderCompares ==
    ASSUME LayerInv, phase # "layer", NEW p \in Index, NEW q \in Index
    PROVE  /\ order[p] \in Index /\ rounds[order[p]] \in Nat
           /\ p <= q => rounds[order[p]] <= rounds[order[q]]
           /\ p < q /\ rounds[order[p]] = rounds[order[q]] => order[p] < order[q]
<1>1. /\ Len(txs) \in Nat /\ order \in [Index -> Index] /\ Len(rounds) = Len(txs)
      /\ rounds \in Seq(Nat)
    BY DEF LayerInv, TypeOK, OrderIsSorted
<1>2. order[p] \in Index /\ order[q] \in Index
    BY <1>1
<1>3. rounds[order[p]] \in Nat /\ rounds[order[q]] \in Nat
    BY <1>1, <1>2 DEF Index
<1>4. p \in Nat /\ q \in Nat
    BY DEF Index
<1>5. p < q => Precedes(order[p], order[q])
    BY DEF LayerInv, OrderIsSorted
<1> QED
    BY <1>2, <1>3, <1>4, <1>5 DEF Precedes

(* The next transaction: of the round being collected, or of the one after *)
(* it, and then it conflicts with the collected one, which is complete.    *)
LEMMA NextOfOrder ==
    ASSUME LayerInv, RecoverInv, phase = "partition", taken < Len(order)
    PROVE  LET i == order[taken + 1]
           IN  /\ i \in Index /\ rounds[i] \in Nat /\ i \notin Seen
               /\ Closes(Keys(i)) => /\ rounds[i] = Len(groups) + 1
                                     /\ Members(current) = InRound(Len(groups))
               /\ ~ Closes(Keys(i)) => /\ rounds[i] = Len(groups)
                                       /\ \A j \in Members(current) : j < i
<1> DEFINE i == order[taken + 1]
           R == Len(groups)
<1>1. /\ taken \in Nat /\ R \in Nat /\ current \in Seq(Index) /\ Len(current) \in Nat
      /\ Members(current) = InRound(R) \cap Seen
      /\ \A j \in Seen : rounds[j] <= R
    BY DEF RecoverInv
<1>2. Len(order) = Len(txs) /\ Len(txs) \in Nat /\ Len(rounds) = Len(txs) /\ Index = 1..Len(txs)
    BY DEF LayerInv, TypeOK, OrderIsSorted, Index
<1>3. taken + 1 \in Index /\ \A p \in 1..taken : p \in Index /\ p < taken + 1
    BY <1>1, <1>2
<1>4. i \in Index /\ rounds[i] \in Nat
    BY <1>3, OrderCompares
<1>5. \A p \in 1..taken : /\ rounds[order[p]] <= rounds[i]
                          /\ rounds[order[p]] = rounds[i] => order[p] < i
                          /\ rounds[order[p]] \in Nat /\ order[p] \in Index
    BY <1>1, <1>3, OrderCompares
<1> HIDE DEF i, R
<1>6. i \notin Seen
    <2> SUFFICES ASSUME NEW p \in 1..taken, order[p] = i PROVE FALSE
        BY DEF Seen
    <2> QED
        BY <1>2, <1>4, <1>5
<1>7. \A j \in Index : rounds[j] < rounds[i] => j \in Seen
    <2> SUFFICES ASSUME NEW j \in Index, rounds[j] < rounds[i] PROVE j \in Seen
        OBVIOUS
    <2>1. PICK q \in Index : order[q] = j
        BY OrderIsOnto
    <2>2. ~ taken + 1 <= q
        <3>1. taken + 1 <= q => rounds[i] <= rounds[j]
            BY <1>3, <2>1, OrderCompares DEF i
        <3>2. rounds[j] \in Nat
            BY <2>1, OrderCompares
        <3> QED
            BY <1>4, <3>1, <3>2
    <2>3. q \in 1..taken
        BY <1>1, <1>2, <2>2
    <2> QED
        BY <2>1, <2>3 DEF Seen
<1>8. rounds[i] > 0 =>
          \E j \in Index : Conflict(j, i) /\ rounds[j] = rounds[i] - 1 /\ j \in Seen
    <2> SUFFICES ASSUME rounds[i] > 0
                 PROVE  \E j \in Index : Conflict(j, i) /\ rounds[j] = rounds[i] - 1 /\ j \in Seen
        OBVIOUS
    <2>1. i \in 1..Len(rounds)
        BY <1>2, <1>4
    <2>2. PICK j \in 1..(i - 1) : Conflict(j, i) /\ rounds[j] = rounds[i] - 1
        BY <2>1 DEF LayerInv, RoundsAreTight
    <2>3. j \in Index /\ rounds[j] < rounds[i]
        BY <1>2, <1>4, <2>2
    <2> QED
        BY <1>7, <2>2, <2>3
<1>9. rounds[i] <= R + 1
    <2>1. CASE rounds[i] = 0
        BY <1>1, <2>1
    <2>2. CASE rounds[i] > 0
        <3>1. PICK j \in Index : rounds[j] = rounds[i] - 1 /\ j \in Seen
            BY <1>8, <2>2
        <3> QED
            BY <1>1, <1>4, <3>1
    <2> QED
        BY <1>4, <2>1, <2>2
<1>10. rounds[i] >= R
    <2>1. CASE taken = 0
        BY <1>1, <1>4, <2>1 DEF RecoverInv, R
    <2>2. CASE taken > 0
        <3>1. current # <<>>
            BY <2>2 DEF RecoverInv
        <3>2. 1 \in 1..Len(current)
            BY <1>1, <3>1
        <3>3. current[1] \in Seen /\ rounds[current[1]] = R
            BY <1>1, <3>2 DEF Members, InRound
        <3>4. PICK p \in 1..taken : order[p] = current[1]
            BY <3>3 DEF Seen
        <3> QED
            BY <1>5, <3>3, <3>4
    <2> QED
        BY <1>1, <2>1, <2>2
<1>11. rounds[i] = R => ~ Closes(Keys(i)) /\ \A j \in Members(current) : j < i
    <2> SUFFICES ASSUME rounds[i] = R
                 PROVE  ~ Closes(Keys(i)) /\ \A j \in Members(current) : j < i
        OBVIOUS
    <2>1. ASSUME NEW j \in Members(current) PROVE j < i /\ ~ Conflict(j, i)
        <3>1. j \in Index /\ rounds[j] = R /\ j \in Seen
            BY <1>1, <2>1 DEF InRound
        <3>2. j < i
            BY <1>5, <3>1 DEF Seen
        <3>3. i \in 1..Len(rounds) /\ j \in 1..Len(rounds)
            BY <1>2, <1>4, <3>1
        <3> QED
            BY <1>1, <3>1, <3>2, <3>3 DEF LayerInv, ConflictsAreLayered
    <2>2. Keys(i) \cap touched = {}
        <3> SUFFICES ASSUME NEW a \in touched, a \in Keys(i) PROVE FALSE
            OBVIOUS
        <3>1. PICK p \in 1..Len(current) : a \in Keys(current[p])
            BY DEF RecoverInv
        <3> QED
            BY <2>1, <3>1 DEF Members, Conflict
    <2> QED
        BY <2>1, <2>2 DEF Closes
<1>12. rounds[i] = R + 1 => Closes(Keys(i)) /\ Members(current) = InRound(R)
    <2> SUFFICES ASSUME rounds[i] = R + 1
                 PROVE  Closes(Keys(i)) /\ Members(current) = InRound(R)
        OBVIOUS
    <2>1. PICK j \in Index : Conflict(j, i) /\ rounds[j] = R /\ j \in Seen
        BY <1>1, <1>8
    <2>2. PICK p \in 1..Len(current) : current[p] = j
        BY <1>1, <2>1 DEF Members, InRound
    <2>3. Keys(j) \subseteq touched /\ current # <<>>
        BY <1>1, <2>2 DEF RecoverInv
    <2>4. Closes(Keys(i))
        BY <2>1, <2>3 DEF Closes, Conflict
    <2>5. InRound(R) \subseteq Seen
        BY <1>1, <1>7 DEF InRound
    <2> QED
        BY <1>1, <2>4, <2>5
<1>13. rounds[i] = R \/ rounds[i] = R + 1
    BY <1>1, <1>4, <1>9, <1>10
<1> QED
    BY <1>4, <1>6, <1>11, <1>12, <1>13 DEF i, R

(* One transaction more is collected.                                      *)
LEMMA CollectRecovers == ASSUME LayerInv, RecoverInv, Collect PROVE RecoverInv'
<1> DEFINE i == order[taken + 1]
           R == Len(groups)
<1>1. /\ UNCHANGED <<txs, rounds, order, phase>> /\ phase = "partition" /\ taken < Len(order)
      /\ taken' = taken + 1
      /\ groups' = IF Closes(Keys(i)) THEN Append(groups, current) ELSE groups
      /\ current' = IF Closes(Keys(i)) THEN <<i>> ELSE Append(current, i)
      /\ touched' = IF Closes(Keys(i)) THEN Keys(i) ELSE touched \cup Keys(i)
    BY DEF Collect, TouchedAfter
<1>2. /\ i \in Index /\ rounds[i] \in Nat /\ i \notin Seen
      /\ Closes(Keys(i)) => rounds[i] = R + 1 /\ Members(current) = InRound(R)
      /\ ~ Closes(Keys(i)) => rounds[i] = R /\ \A j \in Members(current) : j < i
    BY <1>1, NextOfOrder
<1>3. /\ taken \in Nat /\ R \in Nat /\ current \in Seq(Index) /\ Len(current) \in Nat
      /\ groups \in Seq(Seq(Index)) /\ touched = touched
      /\ Members(current) = InRound(R) \cap Seen /\ Ascending(current)
      /\ \A j \in Seen : rounds[j] <= R
      /\ \A a \in touched : \E p \in 1..Len(current) : a \in Keys(current[p])
      /\ \A p \in 1..Len(current) : Keys(current[p]) \subseteq touched
      /\ \A g \in 1..R : Members(groups[g]) = InRound(g - 1) /\ Ascending(groups[g])
    BY <1>1 DEF RecoverInv
<1>4. /\ Index' = Index /\ Seen' = Seen \cup {i}
      /\ \A n : InRound(n)' = InRound(n)
      /\ \A j : Keys(j)' = Keys(j)
    <2>1. Index' = Index /\ (\A j : Keys(j)' = Keys(j))
        BY <1>1 DEF Index, Keys
    <2>2. \A n : InRound(n)' = InRound(n)
        BY <1>1, <2>1 DEF InRound
    <2>3. 1..(taken + 1) = 1..taken \cup {taken + 1}
        BY <1>3
    <2>4. Seen' = {order[p] : p \in 1..(taken + 1)}
        BY <1>1 DEF Seen
    <2> QED
        BY <2>1, <2>2, <2>3, <2>4 DEF Seen
<1>5. taken' \in Nat /\ taken' <= Len(order') /\ taken' > 0
    <2>1. Len(order) \in Nat
        BY <1>1 DEF LayerInv, TypeOK, OrderIsSorted, Index
    <2> QED
        BY <1>1, <1>3, <2>1
<1>8. Seen \subseteq Index /\ \A j \in Index : rounds[j] \in Nat
    <2>1. Len(rounds) = Len(txs) /\ rounds \in Seq(Nat) /\ order \in [Index -> Index]
          /\ Index = 1..Len(txs) /\ Len(txs) \in Nat
        BY <1>1 DEF LayerInv, TypeOK, OrderIsSorted, Index
    <2>2. \A p \in 1..taken : p \in Index
        BY <1>1, <1>3, <2>1
    <2> QED
        BY <2>1, <2>2 DEF Seen
<1> HIDE DEF i
<1>6. CASE Closes(Keys(i))
    <2>1. /\ groups' = Append(groups, current) /\ current' = <<i>> /\ touched' = Keys(i)
        BY <1>1, <1>6
    <2>2. /\ groups' \in Seq(Seq(Index)) /\ Len(groups') = R + 1
          /\ current' \in Seq(Index) /\ current' # <<>> /\ Len(current') = 1 /\ current'[1] = i
          /\ \A g \in 1..R : groups'[g] = groups[g]
          /\ groups'[R + 1] = current
        BY <1>2, <1>3, <2>1
    <2>3. \A j \in Seen' : rounds[j] <= R + 1
        <3>1. \A j \in Seen : rounds[j] <= R + 1
            BY <1>3, <1>8
        <3> QED
            BY <1>2, <1>3, <1>4, <1>6, <3>1
    <2>4. Members(current') = InRound(R + 1) \cap Seen'
        <3>1. Members(current') = {i}
            BY <2>2 DEF Members
        <3>2. InRound(R + 1) \cap Seen = {}
            BY <1>3 DEF InRound
        <3>3. i \in InRound(R + 1)
            BY <1>2, <1>6 DEF InRound
        <3> QED
            BY <1>4, <3>1, <3>2, <3>3
    <2>5. Ascending(current')
        BY <2>2 DEF Ascending
    <2>6. \A g \in 1..(R + 1) : Members(groups'[g]) = InRound(g - 1) /\ Ascending(groups'[g])
        <3> SUFFICES ASSUME NEW g \in 1..(R + 1)
                     PROVE  Members(groups'[g]) = InRound(g - 1) /\ Ascending(groups'[g])
            OBVIOUS
        <3>1. CASE g = R + 1
            <4>1. g - 1 = R
                BY <1>3, <3>1
            <4> QED
                BY <1>2, <1>3, <1>6, <2>2, <3>1, <4>1
        <3>2. CASE g \in 1..R
            BY <1>3, <2>2, <3>2
        <3> QED
            BY <1>3, <3>1, <3>2
    <2>7. \A a \in touched' : \E p \in 1..Len(current') : a \in Keys(current'[p])
        BY <2>1, <2>2
    <2>8. \A p \in 1..Len(current') : Keys(current'[p]) \subseteq touched'
        BY <2>1, <2>2
    <2> HIDE DEF R
    <2> QED
        BY <1>1, <1>4, <1>5, <2>2, <2>3, <2>4, <2>5, <2>6, <2>7, <2>8,
           SMTT(30) DEF RecoverInv, Members, Ascending
<1>7. CASE ~ Closes(Keys(i))
    <2>1. /\ groups' = groups /\ current' = Append(current, i) /\ touched' = touched \cup Keys(i)
        BY <1>1, <1>7
    <2>2. /\ current' \in Seq(Index) /\ current' # <<>> /\ Len(current') = Len(current) + 1
          /\ current'[Len(current) + 1] = i
          /\ \A p \in 1..Len(current) : current'[p] = current[p]
        BY <1>2, <1>3, <2>1
    <2>3. \A j \in Seen' : rounds[j] <= R
        BY <1>2, <1>3, <1>4, <1>7
    <2>4. Members(current') = InRound(R) \cap Seen'
        <3>1. Members(current') = Members(current) \cup {i}
            <4>1. 1..Len(current') = 1..Len(current) \cup {Len(current) + 1}
                BY <1>3, <2>2
            <4> QED
                BY <2>2, <4>1 DEF Members
        <3>2. i \in InRound(R)
            BY <1>2, <1>7 DEF InRound
        <3> QED
            BY <1>3, <1>4, <3>1, <3>2
    <2>5. Ascending(current')
        <3> SUFFICES ASSUME NEW p \in 1..Len(current'), NEW q \in 1..Len(current'), p < q
                     PROVE  current'[p] < current'[q]
            BY DEF Ascending
        <3>1. p \in 1..Len(current) /\ current'[p] = current[p] /\ current[p] \in Members(current)
            BY <1>3, <2>2 DEF Members
        <3>2. CASE q = Len(current) + 1
            BY <1>2, <1>7, <2>2, <3>1, <3>2
        <3>3. CASE q \in 1..Len(current)
            BY <1>3, <2>2, <3>1, <3>3 DEF Ascending
        <3> QED
            BY <1>3, <2>2, <3>2, <3>3
    <2>6. \A a \in touched' : \E p \in 1..Len(current') : a \in Keys(current'[p])
        <3> SUFFICES ASSUME NEW a \in touched'
                     PROVE  \E p \in 1..Len(current') : a \in Keys(current'[p])
            OBVIOUS
        <3>1. CASE a \in touched
            <4>1. PICK p \in 1..Len(current) : a \in Keys(current[p])
                BY <1>3, <3>1
            <4>2. p \in 1..Len(current') /\ current'[p] = current[p]
                BY <1>3, <2>2
            <4> QED
                BY <4>1, <4>2
        <3>2. CASE a \in Keys(i)
            <4>1. Len(current) + 1 \in 1..Len(current')
                BY <1>3, <2>2
            <4> QED
                BY <2>2, <3>2, <4>1
        <3> QED
            BY <2>1, <3>1, <3>2
    <2>7. \A p \in 1..Len(current') : Keys(current'[p]) \subseteq touched'
        BY <1>3, <2>1, <2>2
    <2> HIDE DEF R
    <2>8. Len(groups') = R
        BY <2>1 DEF R
    <2>9. \A g \in 1..Len(groups') :
              Members(groups'[g]) = InRound(g - 1)' /\ Ascending(groups'[g])
        BY <1>3, <1>4, <2>1, <2>8
    <2>10. \A j \in Seen' : rounds'[j] <= Len(groups')
        BY <1>1, <2>3, <2>8
    <2>11. Members(current') = InRound(Len(groups))' \cap Seen'
        <3>1. InRound(Len(groups))' = InRound(R)
            BY <1>1, <1>4, <2>8 DEF InRound
        <3> QED
            BY <2>4, <3>1
    <2>12. \A a \in touched' : \E p \in 1..Len(current') : a \in Keys(current[p])'
        BY <1>4, <2>6
    <2>13. \A p \in 1..Len(current') : Keys(current[p])' \subseteq touched'
        BY <1>4, <2>7
    <2>14. groups' \in Seq(Seq(Index))' /\ current' \in Seq(Index)'
        BY <1>3, <1>4, <2>1, <2>2
    <2> QED
        BY <1>1, <1>3, <1>5, <2>2, <2>5, <2>9, <2>10, <2>11, <2>12, <2>13, <2>14,
           SMTT(30) DEF RecoverInv, Ascending
<1> QED
    BY <1>6, <1>7

(* The last round is complete when the order is exhausted.                 *)
LEMMA CloseLastRecovers == ASSUME LayerInv, RecoverInv, CloseLast PROVE RecoverInv'
<1> DEFINE R == Len(groups)
<1>1. /\ UNCHANGED <<txs, rounds, order, taken, touched>>
      /\ phase = "partition" /\ phase' = "done" /\ taken = Len(order) /\ current' = <<>>
      /\ groups' = IF current # <<>> THEN Append(groups, current) ELSE groups
    BY DEF CloseLast
<1>2. /\ taken \in Nat /\ R \in Nat /\ current \in Seq(Index) /\ groups \in Seq(Seq(Index))
      /\ taken = 0 => current = <<>> /\ groups = <<>>
      /\ taken > 0 => current # <<>>
      /\ Members(current) = InRound(R) \cap Seen /\ Ascending(current)
      /\ \A j \in Seen : rounds[j] <= R
      /\ \A g \in 1..R : Members(groups[g]) = InRound(g - 1) /\ Ascending(groups[g])
    BY <1>1 DEF RecoverInv
<1>3. /\ Index' = Index /\ Index = 1..Len(txs) /\ Len(txs) \in Nat
      /\ Len(order) = Len(txs) /\ \A j \in Index : rounds[j] \in Nat
    <2>1. Len(rounds) = Len(txs) /\ rounds \in Seq(Nat) /\ order \in [Index -> Index]
          /\ Index = 1..Len(txs) /\ Len(txs) \in Nat /\ Index' = Index
        BY <1>1 DEF LayerInv, TypeOK, OrderIsSorted, Index
    <2> QED
        BY <2>1
<1>4. Seen = Index
    <2>1. \A j \in Index : \E p \in Index : order[p] = j
        BY <1>1, OrderIsOnto
    <2>2. \A p \in Index : order[p] \in Index
        BY <1>1, OrderCompares
    <2> QED
        BY <1>1, <1>3, <2>1, <2>2 DEF Seen
<1>5. InRound(R) \subseteq Index
    BY DEF InRound
<1> HIDE DEF R
<1>6. /\ groups' \in Seq(Seq(Index)) /\ Len(groups') \in Nat
      /\ \A g \in 1..Len(groups') : Members(groups'[g]) = InRound(g - 1) /\ Ascending(groups'[g])
      /\ \A j \in Index : rounds[j] < Len(groups')
    <2>1. CASE current = <<>>
        <3>1. taken = 0 /\ groups' = groups /\ groups = <<>>
            BY <1>1, <1>2, <2>1
        <3>2. Index = {}
            BY <1>1, <1>3, <3>1
        <3> QED
            BY <3>1, <3>2
    <2>2. CASE current # <<>>
        <3>1. groups' = Append(groups, current)
            BY <1>1, <2>2
        <3>2. /\ groups' \in Seq(Seq(Index)) /\ Len(groups') = R + 1
              /\ groups'[R + 1] = current
              /\ \A g \in 1..R : groups'[g] = groups[g]
            BY <1>2, <3>1 DEF R
        <3>3. Members(current) = InRound(R)
            BY <1>2, <1>4, <1>5
        <3>4. ASSUME NEW g \in 1..(R + 1)
              PROVE  Members(groups'[g]) = InRound(g - 1) /\ Ascending(groups'[g])
            <4>1. CASE g = R + 1
                <5>1. g - 1 = R
                    BY <1>2, <4>1
                <5> QED
                    BY <1>2, <3>2, <3>3, <4>1, <5>1
            <4>2. CASE g \in 1..R
                BY <1>2, <3>2, <4>2
            <4> QED
                BY <1>2, <4>1, <4>2
        <3>5. \A j \in Index : rounds[j] < R + 1
            BY <1>2, <1>3, <1>4
        <3> QED
            BY <1>2, <3>2, <3>4, <3>5
    <2> QED
        BY <2>1, <2>2
<1>7. PartitionRecoversRounds'
    <2>1. \A g \in 1..Len(groups') :
              {groups'[g][p] : p \in 1..Len(groups'[g])} = {j \in Index : rounds[j] = g - 1}
        BY <1>6 DEF Members, InRound
    <2>2. \A g \in 1..Len(groups') :
              \A p, q \in 1..Len(groups'[g]) : p < q => groups'[g][p] < groups'[g][q]
        BY <1>6 DEF Ascending
    <2> QED
        BY <1>1, <1>3, <1>6, <2>1, <2>2 DEF PartitionRecoversRounds
<1>8. current' \in Seq(Index)
    BY <1>1
<1> QED
    BY <1>1, <1>2, <1>3, <1>6, <1>7, <1>8 DEF RecoverInv

(* Every step keeps what the partition has recovered.                      *)
LEMMA RecoverInvStep == LayerInv /\ RecoverInv /\ [Next]_vars => RecoverInv'
<1> SUFFICES ASSUME LayerInv, RecoverInv, [Next]_vars PROVE RecoverInv'
    OBVIOUS
<1>1. CASE Layer
    <2>1. Index' = Index /\ UNCHANGED <<current, groups, touched, taken, phase>>
          /\ phase = "layer"
        BY <1>1 DEF Layer, Index
    <2> QED
        BY <2>1 DEF RecoverInv
<1>2. CASE Sort
    <2>1. /\ UNCHANGED <<txs, rounds, current, groups, touched, taken>>
          /\ phase = "layer" /\ phase' = "partition" /\ Index' = Index
        BY <1>2 DEF Sort, Index
    <2>2. current = <<>> /\ groups = <<>> /\ touched = {} /\ taken = 0
        BY <2>1 DEF RecoverInv
    <2>3. Len(order') \in Nat
        <3>1. order' \in [Index -> Index] /\ Len(txs) \in Nat /\ Index = 1..Len(txs)
            BY <1>2 DEF Sort, LayerInv, TypeOK, Index
        <3> QED
            BY <3>1
    <2>4. Seen' = {} /\ Members(current') = {} /\ Len(groups') = 0 /\ Len(current') = 0
        BY <2>1, <2>2 DEF Seen, Members
    <2>5. /\ Ascending(current') /\ taken' <= Len(order')
          /\ current' \in Seq(Index') /\ groups' \in Seq(Seq(Index'))
        BY <2>1, <2>2, <2>3 DEF Ascending
    <2>6. Members(current') = InRound(Len(groups))' \cap Seen'
        BY <2>4
    <2>7. \A i \in Seen' : rounds'[i] <= Len(groups')
        BY <2>4
    <2>8. /\ \A a \in touched' : \E p \in 1..Len(current') : a \in Keys(current[p])'
          /\ \A p \in 1..Len(current') : Keys(current[p])' \subseteq touched'
          /\ \A g \in 1..Len(groups') :
                 Members(groups'[g]) = InRound(g - 1)' /\ Ascending(groups'[g])
        BY <2>1, <2>2, <2>4
    <2> QED
        BY <2>1, <2>2, <2>5, <2>6, <2>7, <2>8 DEF RecoverInv
<1>3. CASE Collect
    BY <1>3, CollectRecovers
<1>4. CASE CloseLast
    BY <1>4, CloseLastRecovers
<1>5. CASE UNCHANGED vars
    BY <1>5 DEF vars, RecoverInv, Index, Keys, Seen, InRound, PartitionRecoversRounds
<1> QED
    BY <1>1, <1>2, <1>3, <1>4, <1>5 DEF Next

(* The rounds partition_rounds recovers from the order are those           *)
(* layer_and_sort assigned, each complete and in base order.               *)
THEOREM RoundsRecovered == Spec => []PartitionRecoversRounds
<1>1. Init => RecoverInv
    BY DEF Init, RecoverInv
<1>2. LayerInv /\ RecoverInv => PartitionRecoversRounds
    <2> SUFFICES ASSUME LayerInv, RecoverInv PROVE PartitionRecoversRounds
        OBVIOUS
    <2>1. CASE phase = "done"
        BY <2>1 DEF RecoverInv
    <2>2. CASE phase # "done"
        BY <2>2 DEF PartitionRecoversRounds
    <2> QED
        BY <2>1, <2>2
<1> QED
    BY <1>1, <1>2, RecoverInvStep, LayeringInvariance, PTL DEF Spec

-----------------------------------------------------------------------------
Account == [nonce : Int, balance : Int]

World == [Address -> Account]

Receipt == [tx : Index, status : BOOLEAN, cumulative : Int]

IsBlock(b) ==
    /\ b = [undo |-> b.undo, gas_used |-> b.gas_used, receipts |-> b.receipts]
    /\ b.undo \in [DOMAIN b.undo -> Account] /\ DOMAIN b.undo \subseteq Address
    /\ b.gas_used \in Nat
    /\ b.receipts \in Seq(Receipt)

RoundTypes ==
    /\ stage \in {"order", "idle", "commit", "fallback"}
    /\ round \in Nat /\ at \in Nat
    /\ stage # "order" => phase = "done" /\ carried \in [Index -> Carried]
    /\ stage \in {"commit", "fallback"} => round \in 1..Len(groups) /\ at <= Len(groups[round])
    /\ world \in World /\ base \in World /\ reference.world \in World
    /\ pending \in [Address -> Int]
    /\ stage # "commit" => pending = Credits
    /\ IsBlock(block) /\ IsBlock(fallback) /\ IsBlock(reference.block)

-----------------------------------------------------------------------------
(* Every behaviour of the executor forms its rounds as module Layering     *)
(* says (layer_and_sort, partition_rounds).                                *)
THEOREM RoundsAreLayered == RoundsSpec => Spec
<1>1. RoundsInit => Init
    BY DEF RoundsInit
<1>2. [RoundsNext]_allVars => [Next]_vars
    BY DEF RoundsNext, allVars, Carry, Speculate, CommitOne, Credit, FallBackOne, Absorb
<1> QED
    BY <1>1, <1>2, PTL DEF RoundsSpec, Spec

-----------------------------------------------------------------------------
(* What a transaction adds to an account: a balance it finds too small     *)
(* makes it pay nothing.                                                   *)
Once(i, a) == IF a = txs[i].sender THEN 1 ELSE 0

Delta(w, i, a) ==
    (IF a = carried[i].reach THEN Payment(w, i) ELSE 0)
    + (IF a = carried[i].miner THEN carried[i].tip ELSE 0)
    - (IF a = txs[i].sender THEN Payment(w, i) + carried[i].tip ELSE 0)

Plus(acc, nonces, funds) == [nonce |-> acc.nonce + nonces, balance |-> acc.balance + funds]

(* What an account becomes by an addition has its type. *)
LEMMA PlusType ==
    ASSUME NEW acc \in Account, NEW nonces \in Int, NEW funds \in Int
    PROVE  /\ acc.nonce \in Int /\ acc.balance \in Int
           /\ Plus(acc, nonces, funds) \in Account
           /\ Plus(acc, 0, 0) = acc
BY DEF Account, Plus

(* Paying adds to one account. *)
LEMMA PaidAdds ==
    ASSUME NEW v, NEW b, NEW n, v \in World, b \in Address, n \in Int
    PROVE  /\ Paid(v, b, n) \in World
           /\ \A a \in Address : Paid(v, b, n)[a] = Plus(v[a], 0, IF a = b THEN n ELSE 0)
<1>1. Paid(v, b, n) = [a \in Address |-> Paid(v, b, n)[a]]
    BY DEF Paid, World
<1>2. ASSUME NEW a \in Address
      PROVE  /\ Paid(v, b, n)[a] = Plus(v[a], 0, IF a = b THEN n ELSE 0)
             /\ Paid(v, b, n)[a] \in Account
    <2>1. v[a] \in Account /\ v[a].nonce \in Int
        BY PlusType DEF World
    <2>2. CASE a = b
        <3>1. Paid(v, b, n)[a] = Plus(v[a], 0, n)
            BY <2>1, <2>2 DEF Paid, World, Plus
        <3> QED
            BY <2>1, <2>2, <3>1, PlusType
    <2>3. CASE a # b
        <3>1. Paid(v, b, n)[a] = v[a]
            BY <2>3 DEF Paid, World
        <3> QED
            BY <2>1, <2>3, <3>1, PlusType
    <2> QED
        BY <2>2, <2>3
<1> QED
    BY <1>1, <1>2 DEF World

(* The sender pays, and its nonce rises. *)
LEMMA ChargedAdds ==
    ASSUME NEW i, txs[i] \in Transaction, carried[i] \in Carried, NEW w \in World
    PROVE  /\ Charged(w, i) \in World
           /\ \A a \in Address :
                  Charged(w, i)[a] = Plus(w[a], Once(i, a),
                      IF a = txs[i].sender THEN -(Payment(w, i) + carried[i].tip) ELSE 0)
<1>1. /\ txs[i].sender \in Address
      /\ Payment(w, i) \in Int /\ carried[i].tip \in Int
    BY DEF Transaction, Carried, Payment
<1>2. Charged(w, i) = [a \in Address |-> Charged(w, i)[a]]
    BY DEF Charged, World
<1> DEFINE cost == Payment(w, i) + carried[i].tip
<1>3. cost \in Int
    BY <1>1
<1>4. ASSUME NEW a \in Address
      PROVE  /\ Charged(w, i)[a] = Plus(w[a], Once(i, a),
                                        IF a = txs[i].sender THEN -cost ELSE 0)
             /\ Charged(w, i)[a] \in Account
    <2>1. w[a] \in Account /\ w[a].nonce \in Int /\ w[a].balance \in Int
        BY PlusType DEF World
    <2>2. CASE a = txs[i].sender
        <3>1. Charged(w, i)[a] = [nonce |-> w[a].nonce + 1, balance |-> w[a].balance - cost]
            BY <2>2 DEF Charged, World
        <3>2. Charged(w, i)[a] = Plus(w[a], 1, -cost)
            BY <1>3, <2>1, <3>1 DEF Plus
        <3> QED
            BY <1>3, <2>1, <2>2, <3>2, PlusType DEF Once
    <2>3. CASE a # txs[i].sender
        <3>1. Charged(w, i)[a] = w[a]
            BY <2>3 DEF Charged, World
        <3> QED
            BY <2>1, <2>3, <3>1, PlusType DEF Once
    <2> QED
        BY <2>2, <2>3
<1> QED
    BY <1>2, <1>4 DEF World

(* A transaction adds to every account what depends on the state only by   *)
(* whether it found what it looks for.                                     *)
LEMMA TransactAdds ==
    ASSUME NEW i, txs[i] \in Transaction, carried[i] \in Carried, NEW w \in World
    PROVE  /\ Transact(w, i) \in World
           /\ \A a \in Address :
                  /\ Once(i, a) \in Int /\ Delta(w, i, a) \in Int
                  /\ Transact(w, i)[a] = Plus(w[a], Once(i, a), Delta(w, i, a))
<1>1. /\ txs[i].sender \in Address /\ carried[i].reach \in Address /\ carried[i].miner \in Address
      /\ Payment(w, i) \in Int /\ carried[i].tip \in Int
    BY DEF Transaction, Carried, Payment
<1>2. Charged(w, i) \in World
    BY ChargedAdds
<1> DEFINE r == Paid(Charged(w, i), carried[i].reach, Payment(w, i))
           m == Paid(r, carried[i].miner, carried[i].tip)
<1>3. /\ r \in World
      /\ \A a \in Address : r[a] = Plus(Charged(w, i)[a], 0,
                              IF a = carried[i].reach THEN Payment(w, i) ELSE 0)
    BY <1>1, <1>2, PaidAdds
<1> HIDE DEF r
<1>4. /\ m \in World
      /\ \A a \in Address : m[a] = Plus(r[a], 0,
                              IF a = carried[i].miner THEN carried[i].tip ELSE 0)
    BY <1>1, <1>3, PaidAdds
<1>5. Transact(w, i) = m
    BY DEF Transact, r
<1> HIDE DEF m
<1>6. ASSUME NEW a \in Address
      PROVE  /\ Once(i, a) \in Int /\ Delta(w, i, a) \in Int
             /\ m[a] = Plus(w[a], Once(i, a), Delta(w, i, a))
    <2>1. Once(i, a) \in Int /\ Delta(w, i, a) \in Int
        BY <1>1 DEF Once, Delta
    <2>2. w[a].nonce \in Int /\ w[a].balance \in Int
        BY PlusType DEF World
    <2>3. m[a] = Plus(r[a], 0, IF a = carried[i].miner THEN carried[i].tip ELSE 0)
        BY <1>4
    <2>4. r[a] = Plus(Charged(w, i)[a], 0,
                      IF a = carried[i].reach THEN Payment(w, i) ELSE 0)
        BY <1>3
    <2>5. Charged(w, i)[a] = Plus(w[a], Once(i, a),
              IF a = txs[i].sender THEN -(Payment(w, i) + carried[i].tip) ELSE 0)
        BY ChargedAdds
    <2> QED
        BY <1>1, <2>1, <2>2, <2>3, <2>4, <2>5 DEF Plus, Delta
<1> QED
    BY <1>4, <1>5, <1>6

(* Only accounts it loads change; the others among them gain nothing; and  *)
(* the fee is what the miner's account tells.                              *)
LEMMA WhatChanges ==
    ASSUME NEW i, txs[i] \in Transaction, carried[i] \in Carried, NEW w \in World,
           NEW a \in Address
    PROVE  /\ a \notin Loaded(i) => Transact(w, i)[a] = w[a]
           /\ a \notin Gains(i) => Transact(w, i)[a] = w[a]
           /\ a \notin Loaded(i) => Once(i, a) = 0 /\ Delta(w, i, a) = 0
           /\ OnlyCredited(w, i) => Once(i, carried[i].miner) = 0
                                    /\ Delta(w, i, carried[i].miner) = carried[i].tip
           /\ carried[i].miner \in Address /\ carried[i].tip \in Nat
           /\ Loaded(i) \subseteq Address
<1>1. /\ txs[i].sender \in Address /\ carried[i].reach \in Address /\ carried[i].miner \in Address
      /\ carried[i].value \in Nat /\ carried[i].tip \in Nat /\ txs[i].declared \subseteq Address
      /\ carried[i].look \in Address
    BY DEF Transaction, Carried
<1>2. /\ Once(i, a) \in Int /\ Delta(w, i, a) \in Int
      /\ Transact(w, i)[a] = Plus(w[a], Once(i, a), Delta(w, i, a))
    BY TransactAdds
<1>3. w[a] \in Account /\ Plus(w[a], 0, 0) = w[a]
    BY PlusType DEF World
<1>4. a \notin Loaded(i) => Once(i, a) = 0 /\ Delta(w, i, a) = 0
    BY <1>1 DEF Loaded, Keys, AccessKeys, Once, Delta, Payment
<1>5. a \notin Gains(i) => Once(i, a) = 0 /\ Delta(w, i, a) = 0
    BY <1>1 DEF Gains, Once, Delta, Payment
<1>6. OnlyCredited(w, i) => Once(i, carried[i].miner) = 0
                            /\ Delta(w, i, carried[i].miner) = carried[i].tip
    <2>1. /\ Once(i, carried[i].miner) \in Int /\ Delta(w, i, carried[i].miner) \in Int
          /\ Transact(w, i)[carried[i].miner] =
                 Plus(w[carried[i].miner], Once(i, carried[i].miner), Delta(w, i, carried[i].miner))
        BY <1>1, TransactAdds
    <2>2. w[carried[i].miner].nonce \in Int /\ w[carried[i].miner].balance \in Int
        <3>1. w[carried[i].miner] \in Account
            BY <1>1 DEF World
        <3> QED
            BY <3>1 DEF Account
    <2> QED
        BY <1>1, <2>1, <2>2 DEF OnlyCredited, Plus
<1>7. Loaded(i) \subseteq Address
    BY <1>1 DEF Loaded, Keys, AccessKeys
<1> QED
    BY <1>1, <1>2, <1>3, <1>4, <1>5, <1>6, <1>7

-----------------------------------------------------------------------------
(* Blocks: what recording and absorbing make of them. *)

(* The empty block is one.                                                 *)
LEMMA EmptyIsBlock == IsBlock(EmptyBlock) /\ Genesis \in World /\ Credits \in [Address -> Int]
<1>1. IsBlock(EmptyBlock)
    BY DEF IsBlock, EmptyBlock
<1>2. Genesis \in World /\ Credits \in [Address -> Int]
    BY ParallelAssumption DEF Genesis, Credits, World, Account
<1> QED
    BY <1>1, <1>2

(* Recording a transaction gives a block.                                  *)
LEMMA RecordedIsBlock ==
    ASSUME NEW b, IsBlock(b), NEW w \in World, NEW i \in Index,
           txs[i] \in Transaction, carried[i] \in Carried, NEW status \in BOOLEAN
    PROVE  IsBlock(Recorded(b, w, i, status))
<1>1. Loaded(i) \subseteq Address
    BY DEF Loaded, Keys, AccessKeys, Transaction, Carried
<1>2. carried[i].gas \in Nat /\ b.gas_used + carried[i].gas \in Nat
    BY DEF Carried, IsBlock
<1>3. Recorded(b, w, i, status).undo = Noted(b.undo, w, Loaded(i))
    BY DEF Recorded
<1>4. Noted(b.undo, w, Loaded(i)) \in [DOMAIN b.undo \cup Loaded(i) -> Account]
    BY <1>1 DEF Noted, IsBlock, World
<1>5. [tx |-> i, status |-> status, cumulative |-> b.gas_used + carried[i].gas] \in Receipt
    BY <1>2 DEF Receipt
<1>6. Append(b.receipts, [tx |-> i, status |-> status,
                          cumulative |-> b.gas_used + carried[i].gas]) \in Seq(Receipt)
    BY <1>5 DEF IsBlock
<1>7. DOMAIN Noted(b.undo, w, Loaded(i)) = DOMAIN b.undo \cup Loaded(i)
    BY DEF Noted
<1> QED
    BY <1>1, <1>2, <1>3, <1>4, <1>6, <1>7 DEF Recorded, IsBlock

(* The receipts of a round that fell back, rebased. *)
Rebased(rs, gas) == [n \in 1..Len(rs) |-> [rs[n] EXCEPT !.cumulative = gas + @]]

Moved(r, gas) == [tx |-> r.tx, status |-> r.status, cumulative |-> gas + r.cumulative]

(* Rebasing keeps receipts and their number.                               *)
LEMMA RebasedType ==
    ASSUME NEW rs, NEW gas, rs \in Seq(Receipt), gas \in Int
    PROVE  /\ Rebased(rs, gas) \in Seq(Receipt)
           /\ Len(Rebased(rs, gas)) = Len(rs) /\ Len(rs) \in Nat
           /\ \A n \in 1..Len(rs) : Rebased(rs, gas)[n] = Moved(rs[n], gas)
<1>1. ASSUME NEW n \in 1..Len(rs)
      PROVE  /\ [rs[n] EXCEPT !.cumulative = gas + @] = Moved(rs[n], gas)
             /\ Moved(rs[n], gas) \in Receipt
    <2>1. PICK r \in Receipt : r = rs[n]
        OBVIOUS
    <2>2. /\ r = [tx |-> r.tx, status |-> r.status, cumulative |-> r.cumulative]
          /\ r.tx \in Index /\ r.status \in BOOLEAN /\ r.cumulative \in Int
        BY <2>1 DEF Receipt
    <2>3. [r EXCEPT !.cumulative = gas + @] = Moved(r, gas)
        BY <2>2 DEF Moved
    <2>4. Moved(r, gas) \in Receipt
        BY <2>2 DEF Moved, Receipt
    <2> QED
        BY <2>1, <2>3, <2>4
<1>2. Rebased(rs, gas) = [n \in 1..Len(rs) |-> Moved(rs[n], gas)]
    BY <1>1 DEF Rebased
<1>3. Len(rs) \in Nat
    OBVIOUS
<1>4. \A n \in 1..Len(rs) : Moved(rs[n], gas) \in Receipt
    BY <1>1
<1> QED
    BY <1>2, <1>3, <1>4

(* Appending and concatenating commute.                                    *)
LEMMA ConcatAppend ==
    ASSUME NEW S, NEW x \in Seq(S), NEW y \in Seq(S), NEW e \in S
    PROVE  y \o Append(x, e) = Append(y \o x, e)
<1>1. Append(x, e) \in Seq(S) /\ Len(Append(x, e)) = Len(x) + 1 /\ Len(x) \in Nat /\ Len(y) \in Nat
    OBVIOUS
<1>2. y \o x \in Seq(S) /\ Len(y \o x) = Len(y) + Len(x)
    OBVIOUS
<1>3. y \o Append(x, e) \in Seq(S) /\ Len(y \o Append(x, e)) = Len(y) + Len(x) + 1
    BY <1>1
<1>4. Append(y \o x, e) \in Seq(S) /\ Len(Append(y \o x, e)) = Len(y) + Len(x) + 1
    BY <1>1, <1>2
<1>5. ASSUME NEW n \in 1..(Len(y) + Len(x) + 1)
      PROVE  (y \o Append(x, e))[n] = Append(y \o x, e)[n]
    <2>1. (y \o Append(x, e))[n] = IF n <= Len(y) THEN y[n] ELSE Append(x, e)[n - Len(y)]
        BY <1>1
    <2>2. Append(y \o x, e)[n] = IF n <= Len(y) + Len(x) THEN (y \o x)[n] ELSE e
        BY <1>1, <1>2
    <2>3. n <= Len(y) + Len(x) =>
              (y \o x)[n] = IF n <= Len(y) THEN y[n] ELSE x[n - Len(y)]
        BY <1>1
    <2>4. n > Len(y) => Append(x, e)[n - Len(y)]
                           = IF n - Len(y) <= Len(x) THEN x[n - Len(y)] ELSE e
        BY <1>1
    <2> QED
        BY <1>1, <2>1, <2>2, <2>3, <2>4
<1> QED
    BY <1>1, <1>3, <1>4, <1>5

(* A receipt is rebased before or after it is appended.                    *)
LEMMA RebasedAppend ==
    ASSUME NEW rs, NEW gas, NEW r, rs \in Seq(Receipt), gas \in Int, r \in Receipt
    PROVE  Rebased(Append(rs, r), gas) = Append(Rebased(rs, gas), Moved(r, gas))
<1>1. /\ Append(rs, r) \in Seq(Receipt) /\ Len(Append(rs, r)) = Len(rs) + 1 /\ Len(rs) \in Nat
      /\ Append(rs, r)[Len(rs) + 1] = r
      /\ \A n \in 1..Len(rs) : Append(rs, r)[n] = rs[n]
    OBVIOUS
<1>2. /\ Rebased(Append(rs, r), gas) \in Seq(Receipt)
      /\ Len(Rebased(Append(rs, r), gas)) = Len(rs) + 1
      /\ \A n \in 1..(Len(rs) + 1) :
             Rebased(Append(rs, r), gas)[n] = Moved(Append(rs, r)[n], gas)
    BY <1>1, RebasedType
<1>3. /\ Rebased(rs, gas) \in Seq(Receipt) /\ Len(Rebased(rs, gas)) = Len(rs)
      /\ \A n \in 1..Len(rs) : Rebased(rs, gas)[n] = Moved(rs[n], gas)
    BY RebasedType
<1>4. PICK x \in Seq(Receipt) : x = Rebased(rs, gas)
    BY <1>3
<1>5. PICK y \in Seq(Receipt) : y = Rebased(Append(rs, r), gas)
    BY <1>2
<1>6. /\ Len(x) = Len(rs) /\ Len(y) = Len(rs) + 1
      /\ \A n \in 1..Len(rs) : y[n] = x[n]
      /\ y[Len(rs) + 1] = Moved(r, gas)
    BY <1>1, <1>2, <1>3, <1>4, <1>5
<1>7. y = Append(x, Moved(r, gas))
    <2>1. Moved(r, gas) \in Receipt
        BY DEF Moved, Receipt
    <2> QED
        BY <1>1, <1>6, <2>1
<1> QED
    BY <1>4, <1>5, <1>7

(* The parts of a block. *)
LEMMA BlockParts ==
    ASSUME NEW b, IsBlock(b)
    PROVE  /\ b.undo \in [DOMAIN b.undo -> Account] /\ DOMAIN b.undo \subseteq Address
           /\ b.gas_used \in Nat /\ b.gas_used \in Int /\ b.receipts \in Seq(Receipt)
BY DEF IsBlock

(* Absorbing, by its parts.                                                *)
LEMMA AbsorbedParts ==
    ASSUME NEW b, NEW f
    PROVE  Absorbed(b, f) = [undo     |-> Noted(b.undo, f.undo, DOMAIN f.undo),
                             gas_used |-> b.gas_used + f.gas_used,
                             receipts |-> b.receipts \o Rebased(f.receipts, b.gas_used)]
BY DEF Absorbed, Rebased

(* Absorbing a round that fell back gives a block.                         *)
LEMMA AbsorbedIsBlock ==
    ASSUME NEW b, IsBlock(b), NEW f, IsBlock(f)
    PROVE  IsBlock(Absorbed(b, f))
<1>1. b.receipts \o Rebased(f.receipts, b.gas_used) \in Seq(Receipt)
    <2>1. PICK x \in Seq(Receipt) : x = Rebased(f.receipts, b.gas_used)
        BY BlockParts, RebasedType
    <2>2. b.receipts \in Seq(Receipt)
        BY BlockParts
    <2> QED
        BY <2>1, <2>2
<1>2. Noted(b.undo, f.undo, DOMAIN f.undo) \in [DOMAIN b.undo \cup DOMAIN f.undo -> Account]
    BY BlockParts DEF Noted
<1>3. DOMAIN Noted(b.undo, f.undo, DOMAIN f.undo) = DOMAIN b.undo \cup DOMAIN f.undo
    BY DEF Noted
<1>4. b.gas_used + f.gas_used \in Nat /\ DOMAIN b.undo \cup DOMAIN f.undo \subseteq Address
    BY BlockParts
<1> QED
    BY <1>1, <1>2, <1>3, <1>4, AbsorbedParts DEF IsBlock

(* A round that fell back and in which nothing ran changes nothing.        *)
LEMMA AbsorbingNothing == ASSUME NEW b, IsBlock(b) PROVE Absorbed(b, EmptyBlock) = b
<1>1. Noted(b.undo, EmptyBlock.undo, DOMAIN EmptyBlock.undo) = b.undo
    <2>1. DOMAIN EmptyBlock.undo = {}
        BY DEF EmptyBlock
    <2>2. b.undo = [a \in DOMAIN b.undo |-> b.undo[a]]
        BY BlockParts
    <2> QED
        BY <2>1, <2>2 DEF Noted
<1>2. b.gas_used + EmptyBlock.gas_used = b.gas_used
    BY BlockParts DEF EmptyBlock
<1>3. b.receipts \o Rebased(EmptyBlock.receipts, b.gas_used) = b.receipts
    <2>1. PICK x \in Seq(Receipt) : x = b.receipts
        BY BlockParts
    <2>2. EmptyBlock.receipts = <<>> /\ Rebased(<<>>, b.gas_used) = <<>>
        BY DEF EmptyBlock, Rebased
    <2>3. x \o <<>> = x
        OBVIOUS
    <2> QED
        BY <2>1, <2>2, <2>3
<1> QED
    BY <1>1, <1>2, <1>3, AbsorbedParts DEF IsBlock

(* A transaction recorded in the round that fell back is recorded the same *)
(* in the block that absorbs it.                                           *)
LEMMA AbsorbedRecords ==
    ASSUME NEW b, IsBlock(b), NEW f, IsBlock(f), NEW w \in World, NEW i \in Index,
           txs[i] \in Transaction, carried[i] \in Carried, NEW status \in BOOLEAN
    PROVE  Absorbed(b, Recorded(f, w, i, status)) = Recorded(Absorbed(b, f), w, i, status)
<1> DEFINE last == [tx |-> i, status |-> status, cumulative |-> f.gas_used + carried[i].gas]
           moved == [tx |-> i, status |-> status,
                     cumulative |-> b.gas_used + f.gas_used + carried[i].gas]
<1>1. carried[i].gas \in Nat /\ b.gas_used \in Nat /\ f.gas_used \in Nat
    BY BlockParts DEF Carried
<1>2. last \in Receipt /\ moved \in Receipt /\ Moved(last, b.gas_used) = moved
    BY <1>1 DEF Receipt, Moved
<1>3. /\ Recorded(f, w, i, status).undo = Noted(f.undo, w, Loaded(i))
      /\ Recorded(f, w, i, status).gas_used = f.gas_used + carried[i].gas
      /\ Recorded(f, w, i, status).receipts = Append(f.receipts, last)
    BY DEF Recorded
<1>4. Noted(b.undo, Noted(f.undo, w, Loaded(i)), DOMAIN Noted(f.undo, w, Loaded(i)))
          = Noted(Noted(b.undo, f.undo, DOMAIN f.undo), w, Loaded(i))
    BY DEF Noted
<1>5. b.receipts \o Rebased(Append(f.receipts, last), b.gas_used)
          = Append(b.receipts \o Rebased(f.receipts, b.gas_used), moved)
    <2>1. PICK x \in Seq(Receipt) : x = Rebased(f.receipts, b.gas_used)
        BY BlockParts, RebasedType
    <2>2. PICK y \in Seq(Receipt) : y = b.receipts
        BY BlockParts
    <2>3. Rebased(Append(f.receipts, last), b.gas_used) = Append(x, moved)
        <3> HIDE DEF last, moved
        <3> QED
            BY <1>2, <2>1, BlockParts, RebasedAppend
    <2>4. y \o Append(x, moved) = Append(y \o x, moved)
        <3> HIDE DEF moved
        <3> QED
            BY <1>2, ConcatAppend
    <2> QED
        BY <2>1, <2>2, <2>3, <2>4
<1>6. b.gas_used + (f.gas_used + carried[i].gas) = (b.gas_used + f.gas_used) + carried[i].gas
    BY <1>1
<1>7. Absorbed(b, Recorded(f, w, i, status))
          = [undo     |-> Noted(Noted(b.undo, f.undo, DOMAIN f.undo), w, Loaded(i)),
             gas_used |-> (b.gas_used + f.gas_used) + carried[i].gas,
             receipts |-> Append(b.receipts \o Rebased(f.receipts, b.gas_used), moved)]
    <2> HIDE DEF last, moved
    <2> QED
        BY <1>3, <1>4, <1>5, <1>6, AbsorbedParts
<1> QED
    BY <1>7, AbsorbedParts DEF Recorded

-----------------------------------------------------------------------------
(* The invariants. *)

(* Account a as it was before the block, or noted as it was.               *)
Recoverable(undo, w, a) ==
    IF a \in DOMAIN undo THEN undo[a] = Genesis[a] ELSE w[a] = Genesis[a]

(* What the undo record, with that of a round that is falling back, does   *)
(* not name is as it was before the block; the fees owed are named.        *)
UndoInv ==
    /\ stage # "fallback" => \A a \in Address : Recoverable(block.undo, world, a)
    /\ stage = "fallback" =>
           \A a \in Address :
               Recoverable(Noted(block.undo, fallback.undo, DOMAIN fallback.undo), world, a)
    /\ \A a \in Address : pending[a] # 0 => a \in DOMAIN block.undo

(* Account a is the miner of one of the first n of a round, and is paid.   *)
IsOwed(layer, n, a) ==
    \E p \in 1..n : carried[layer[p]].tip > 0 /\ a = carried[layer[p]].miner

(* While a round is committed: the sequential execution has the fees owed  *)
(* in its accounts already; what changed was written, and gained, by what  *)
(* is committed; and what is owed is owed to a miner of it.                *)
CommitInv ==
    /\ Independent(Speculations(base, groups[round]))
    /\ ~ ExemptSender(groups[round]) /\ ~ ExemptLook(groups[round])
    /\ block = reference.block
    /\ \A a \in Address :
           /\ reference.world[a] = Plus(world[a], 0, pending[a])
           /\ world[a] # base[a] =>
                  \E p \in 1..at : a \in Writes(base, groups[round][p])
                                   /\ a \in Gains(groups[round][p])
           /\ pending[a] # 0 => IsOwed(groups[round], at, a)

AgreeInv ==
    ~ exempt =>
        /\ stage \in {"order", "idle"} => world = reference.world /\ block = reference.block
        /\ stage = "commit" => CommitInv
        /\ stage = "fallback" => /\ world = reference.world
                                 /\ reference.block = Absorbed(block, fallback)

RoundsInv == LayerInv /\ PartitionInv /\ RoundTypes /\ UndoInv /\ AgreeInv

(* Before anything is executed they hold.                                  *)
LEMMA InitRoundsInv == RoundsInit => RoundTypes /\ UndoInv /\ AgreeInv
<1> SUFFICES ASSUME RoundsInit PROVE RoundTypes /\ UndoInv /\ AgreeInv
    OBVIOUS
<1>1. RoundTypes
    BY EmptyIsBlock DEF RoundsInit, RoundTypes
<1>2. UndoInv
    BY DEF RoundsInit, UndoInv, Recoverable, EmptyBlock, Credits
<1>3. AgreeInv
    BY DEF RoundsInit, AgreeInv
<1> QED
    BY <1>1, <1>2, <1>3

(* The transactions and rounds a step of the executor finds and leaves.    *)
LEMMA TheRound ==
    ASSUME RoundsInv, stage \in {"commit", "fallback"}, at < Len(groups[round])
    PROVE  /\ groups[round][at + 1] \in Index
           /\ txs[groups[round][at + 1]] \in Transaction
           /\ carried[groups[round][at + 1]] \in Carried
           /\ at + 1 \in 1..Len(groups[round])
           /\ \A p \in 1..Len(groups[round]) : groups[round][p] \in Index
<1>1. groups \in Seq(Seq(Index)) /\ round \in 1..Len(groups) /\ at \in Nat
    BY DEF RoundsInv, PartitionInv, RoundTypes
<1>2. PICK layer \in Seq(Index) : layer = groups[round]
    BY <1>1
<1>3. at + 1 \in 1..Len(layer) /\ \A p \in 1..Len(layer) : layer[p] \in Index
    BY <1>1, <1>2
<1>4. \A i \in Index : txs[i] \in Transaction /\ carried[i] \in Carried
    BY DEF RoundsInv, LayerInv, TypeOK, RoundTypes, Index
<1> QED
    BY <1>2, <1>3, <1>4

(* A transaction of execute_sequentially, in the reference or in a round   *)
(* that fell back.                                                         *)
LEMMA SequentialTypes ==
    ASSUME NEW b, IsBlock(b), NEW w \in World, NEW i \in Index,
           txs[i] \in Transaction, carried[i] \in Carried
    PROVE  IsBlock(SequentialBlock(b, w, i)) /\ SequentialWorld(b, w, i) \in World
<1>1. IsBlock(SequentialBlock(b, w, i))
    <2>1. Succeeds(w, i) \in BOOLEAN
        BY DEF Succeeds
    <2>2. IsBlock(Recorded(b, w, i, Succeeds(w, i)))
        BY <2>1, RecordedIsBlock
    <2> QED
        BY <2>2 DEF SequentialBlock
<1>2. SequentialWorld(b, w, i) \in World
    BY TransactAdds DEF SequentialWorld
<1> QED
    BY <1>1, <1>2

-----------------------------------------------------------------------------
(* The transactions are any of those the instance has.                     *)
LEMMA CarryStep == ASSUME RoundsInv, Carry PROVE RoundTypes' /\ UndoInv' /\ AgreeInv'
<1>1. UNCHANGED <<vars, world, block, round, at, base, pending, fallback, reference, exempt>>
      /\ stage = "order" /\ stage' = "idle" /\ phase = "done"
    BY DEF Carry
<1>2. carried' \in [Index -> Carried]
    <2>1. Len(txs) \in 0..MaxTxs
        BY LayeringAssumption DEF RoundsInv, LayerInv, TypeOK
    <2>2. Carriable[Len(txs)] \subseteq Carried
        BY <2>1, ParallelAssumption
    <2> QED
        BY <2>2 DEF Carry
<1>3. Index' = Index /\ Receipt' = Receipt
    BY <1>1 DEF vars, Index, Receipt
<1>4. RoundTypes'
    BY <1>1, <1>2, <1>3 DEF RoundsInv, RoundTypes, IsBlock, vars
<1>5. UndoInv'
    BY <1>1 DEF RoundsInv, UndoInv, Recoverable, Noted
<1>6. AgreeInv'
    BY <1>1 DEF RoundsInv, AgreeInv
<1> QED
    BY <1>4, <1>5, <1>6

(* A round begins.                                                         *)
LEMMA SpeculateStep == ASSUME RoundsInv, Speculate PROVE RoundTypes' /\ UndoInv' /\ AgreeInv'
<1>1. /\ UNCHANGED <<vars, carried, world, block, pending, reference>>
      /\ stage = "idle" /\ stage' \in {"commit", "fallback"}
      /\ round' = round + 1 /\ at' = 0 /\ base' = world /\ fallback' = EmptyBlock
      /\ round < Len(groups)
    BY DEF Speculate
<1>2. Index' = Index /\ Receipt' = Receipt
    BY <1>1 DEF vars, Index, Receipt
<1>3. RoundTypes'
    <2>1. round' \in 1..Len(groups') /\ 0 <= Len(groups'[round'])
        <3>1. groups \in Seq(Seq(Index)) /\ round \in Nat
            BY DEF RoundsInv, PartitionInv, RoundTypes
        <3>2. round + 1 \in 1..Len(groups)
            BY <1>1, <3>1
        <3>3. PICK layer \in Seq(Index) : layer = groups[round + 1]
            BY <3>1, <3>2
        <3> QED
            BY <1>1, <3>2, <3>3 DEF vars
    <2>2. IsBlock(block)' /\ IsBlock(fallback)' /\ IsBlock(reference.block)'
        BY <1>1, <1>2, EmptyIsBlock DEF RoundsInv, RoundTypes, IsBlock
    <2> QED
        BY <1>1, <1>2, <2>1, <2>2 DEF RoundsInv, RoundTypes, vars
<1>4. UndoInv'
    <2>1. IsBlock(block)
        BY DEF RoundsInv, RoundTypes
    <2>2. Noted(block.undo, EmptyBlock.undo, DOMAIN EmptyBlock.undo) = block.undo
        BY <2>1 DEF Noted, EmptyBlock, IsBlock
    <2> QED
        BY <1>1, <2>2 DEF RoundsInv, UndoInv, Recoverable
<1>5. AgreeInv'
    <2> SUFFICES ASSUME ~ exempt'
                 PROVE  /\ stage' = "commit" => CommitInv'
                        /\ stage' = "fallback" =>
                               /\ world' = reference'.world
                               /\ reference'.block = Absorbed(block, fallback)'
        BY <1>1 DEF AgreeInv
    <2>1. ~ exempt /\ world = reference.world /\ block = reference.block
        BY <1>1 DEF Speculate, RoundsInv, AgreeInv
    <2>2. CASE stage' = "commit"
        <3>1. Independent(Speculations(base, groups[round]))'
            <4>1. Speculations(base, groups[round])' = Speculations(world, groups[round + 1])
                BY <1>1 DEF vars, Speculations, Speculation, Reads, Writes, TouchesBeneficiary,
                       Executable, OnlyCredited, Loaded, Keys, Transact, Paid, Charged,
                       Payment, Succeeds
            <4>2. Independent(Speculations(world, groups[round + 1]))
                BY <2>2 DEF Speculate
            <4> QED
                BY <4>1, <4>2 DEF Independent
        <3>2. ~ ExemptSender(groups[round])'
            BY <1>1, <2>2 DEF Speculate, vars, ExemptSender, Gains
        <3>4. ~ ExemptLook(groups[round])'
            BY <1>1, <2>2 DEF Speculate, vars, ExemptLook
        <3>3. \A a \in Address : pending[a] = 0 /\ Plus(world[a], 0, 0) = world[a]
            BY <1>1, PlusType DEF RoundsInv, RoundTypes, Credits, World
        <3> QED
            BY <1>1, <2>1, <2>2, <3>1, <3>2, <3>3, <3>4 DEF CommitInv
    <2>3. CASE stage' = "fallback"
        <3>1. Absorbed(block, fallback)' = Absorbed(block, EmptyBlock)
            BY <1>1 DEF Absorbed, Noted
        <3>2. Absorbed(block, EmptyBlock) = block
            BY AbsorbingNothing DEF RoundsInv, RoundTypes
        <3> QED
            BY <1>1, <2>1, <2>3, <3>1, <3>2
    <2> QED
        BY <1>1, <2>2, <2>3
<1> QED
    BY <1>3, <1>4, <1>5

(* The sequential execution reaches the transaction with its sender as the *)
(* round found it: nobody before it in the round paid it, or has the same  *)
(* sender.                                                                 *)
LEMMA SenderIsUntouched ==
    ASSUME RoundsInv, CommitInv, stage = "commit", at < Len(groups[round])
    PROVE  reference.world[txs[groups[round][at + 1]].sender]
               = base[txs[groups[round][at + 1]].sender]
<1> DEFINE i == groups[round][at + 1]
           s == txs[i].sender
<1>1. i \in Index /\ txs[i] \in Transaction /\ at + 1 \in 1..Len(groups[round])
    BY TheRound
<1>2. s \in Address
    BY <1>1 DEF Transaction
<1>3. at \in Nat /\ at < Len(groups[round])
    BY DEF RoundsInv, RoundTypes
<1>4. ~ \E p \in 1..at : s \in Gains(groups[round][p])
    <2> SUFFICES ASSUME NEW p \in 1..at, s \in Gains(groups[round][p]) PROVE FALSE
        OBVIOUS
    <2>1. p \in DOMAIN groups[round] /\ at + 1 \in DOMAIN groups[round] /\ p \in 1..((at + 1) - 1)
        <3>1. groups \in Seq(Seq(Index)) /\ round \in 1..Len(groups)
            BY DEF RoundsInv, PartitionInv, RoundTypes
        <3>2. PICK layer \in Seq(Index) : layer = groups[round]
            BY <3>1
        <3> QED
            BY <1>1, <1>3, <3>2
    <2> QED
        BY <2>1 DEF CommitInv, ExemptSender
<1>5. world[s] = base[s] /\ pending[s] = 0
    <2>1. ~ IsOwed(groups[round], at, s)
        <3>1. \A j : carried[j].tip > 0 => carried[j].miner \in Gains(j)
            BY DEF Gains
        <3> QED
            BY <1>4, <3>1 DEF IsOwed
    <2> QED
        BY <1>2, <1>4, <2>1 DEF CommitInv
<1>6. base[s] \in Account
    BY <1>2 DEF RoundsInv, RoundTypes, World
<1>7. Plus(base[s], 0, 0) = base[s]
    BY <1>6, PlusType
<1> QED
    BY <1>2, <1>5, <1>7 DEF CommitInv

(* So it is included in both executions or in none.                        *)
LEMMA IncludedAlike ==
    ASSUME RoundsInv, CommitInv, stage = "commit", at < Len(groups[round])
    PROVE  Included(reference.block, reference.world, groups[round][at + 1])
               <=> Fits(block, groups[round][at + 1]) /\ Executable(base, groups[round][at + 1])
BY SenderIsUntouched DEF Included, Executable, CommitInv

(* An account it writes is as the round found it: what is committed did    *)
(* not write what it loads.                                                *)
LEMMA WrittenIsUntouched ==
    ASSUME RoundsInv, CommitInv, stage = "commit", at < Len(groups[round]),
           Executable(base, groups[round][at + 1]),
           NEW a \in Loaded(groups[round][at + 1])
    PROVE  /\ world[a] = base[a]
           /\ OnlyCredited(base, groups[round][at + 1])
<1> DEFINE i == groups[round][at + 1]
           ss == Speculations(base, groups[round])
<1>1. i \in Index /\ txs[i] \in Transaction /\ carried[i] \in Carried
      /\ at + 1 \in 1..Len(groups[round])
    BY TheRound
<1>2. at \in Nat
    BY DEF RoundsInv, RoundTypes
<1>3. groups[round] \in Seq(Index) /\ DOMAIN groups[round] = 1..Len(groups[round])
      /\ Len(groups[round]) \in Nat
    BY DEF RoundsInv, PartitionInv, RoundTypes
<1>4. /\ DOMAIN ss = 1..Len(groups[round])
      /\ \A q \in DOMAIN ss :
             /\ ss[q].reads = Reads(base, groups[round][q])
             /\ ss[q].writes = Writes(base, groups[round][q])
             /\ ss[q].touched_beneficiary = TouchesBeneficiary(base, groups[round][q])
    BY <1>3 DEF Speculations, Speculation
<1>5. a \in Reads(base, i)
    BY DEF Reads
<1>6. OnlyCredited(base, i)
    BY <1>1, <1>4 DEF CommitInv, Independent, TouchesBeneficiary
<1>7. \A p \in 1..at : a \notin Writes(base, groups[round][p])
    <2> SUFFICES ASSUME NEW p \in 1..at PROVE a \notin Writes(base, groups[round][p])
        OBVIOUS
    <2>1. at + 1 \in DOMAIN ss /\ p \in 1..((at + 1) - 1) /\ p \in DOMAIN ss
        BY <1>1, <1>2, <1>3, <1>4
    <2>2. ss[p].writes \cap (ss[at + 1].reads \cup ss[at + 1].writes) = {}
        BY <2>1 DEF CommitInv, Independent
    <2> QED
        BY <1>4, <1>5, <2>1, <2>2
<1>8. a \in Address
    BY <1>1, WhatChanges DEF Loaded, Keys, AccessKeys, Transaction, Carried
<1>9. world[a] = base[a]
    BY <1>7, <1>8 DEF CommitInv
<1> QED
    BY <1>6, <1>9

(* It finds the same in both executions: what it looks at is loaded, and   *)
(* owed no fee.                                                            *)
LEMMA FoundAlike ==
    ASSUME RoundsInv, CommitInv, stage = "commit", at < Len(groups[round]),
           Executable(base, groups[round][at + 1])
    PROVE  Succeeds(reference.world, groups[round][at + 1])
               = Succeeds(base, groups[round][at + 1])
<1> DEFINE i == groups[round][at + 1]
           l == carried[i].look
<1>1. carried[i] \in Carried /\ at + 1 \in 1..Len(groups[round])
    BY TheRound
<1>2. l \in Address /\ l \in Loaded(i)
    BY <1>1 DEF Carried, Loaded
<1>3. world[l] = base[l]
    BY <1>2, WrittenIsUntouched
<1>4. ~ IsOwed(groups[round], at, l)
    <2>1. groups[round] \in Seq(Index) /\ at \in Nat
        BY DEF RoundsInv, PartitionInv, RoundTypes
    <2>2. at + 1 \in DOMAIN groups[round] /\ (at + 1) - 1 = at
        BY <1>1, <2>1
    <2> QED
        BY <2>2 DEF CommitInv, ExemptLook, IsOwed
<1>5. reference.world[l] = Plus(world[l], 0, 0)
    BY <1>2, <1>4 DEF CommitInv
<1>6. world[l] \in Account
    BY <1>2 DEF RoundsInv, RoundTypes, World
<1>7. reference.world[l] = base[l]
    BY <1>3, <1>5, <1>6, PlusType
<1> QED
    BY <1>7 DEF Succeeds

(* What including it does to an account in the two executions: the fee is  *)
(* owed in one and paid in the other, everything else is the same.         *)
LEMMA CommittedAlike ==
    ASSUME RoundsInv, CommitInv, stage = "commit", at < Len(groups[round]),
           Executable(base, groups[round][at + 1]), NEW a \in Address
    PROVE  LET i    == groups[round][at + 1]
               owed == IF a = carried[i].miner THEN pending[a] + carried[i].tip ELSE pending[a]
           IN  /\ Transact(reference.world, i)[a] = Plus(Committed(i)[a], 0, owed)
               /\ Committed(i)[a] # base[a] =>
                      \/ a \in Writes(base, i) /\ a \in Gains(i)
                      \/ world[a] # base[a]
<1> DEFINE i    == groups[round][at + 1]
           owed == IF a = carried[i].miner THEN pending[a] + carried[i].tip ELSE pending[a]
           o    == Once(i, a)
           d    == Delta(base, i, a)
           ref  == reference.world
           goal == /\ Transact(ref, i)[a] = Plus(Committed(i)[a], 0, owed)
                   /\ Committed(i)[a] # base[a] =>
                          \/ a \in Writes(base, i) /\ a \in Gains(i)
                          \/ world[a] # base[a]
<1>1. i \in Index /\ txs[i] \in Transaction /\ carried[i] \in Carried
    BY TheRound
<1>2. /\ world[a] \in Account /\ base[a] \in Account /\ pending[a] \in Int
      /\ base \in World /\ ref \in World
    BY DEF RoundsInv, RoundTypes, World
<1>3. /\ world[a].nonce \in Int /\ world[a].balance \in Int
      /\ base[a].nonce \in Int /\ base[a].balance \in Int
    BY <1>2, PlusType
<1>4. ref[a] = Plus(world[a], 0, pending[a])
    BY DEF CommitInv
<1>5. /\ o \in Int /\ d \in Int
      /\ Transact(ref, i)[a] = Plus(ref[a], o, d)
      /\ Transact(base, i)[a] = Plus(base[a], o, d)
    <2>1. Delta(ref, i, a) = d
        BY FoundAlike DEF Delta, Payment
    <2> QED
        BY <1>1, <1>2, <2>1, TransactAdds
<1>6. /\ a \notin Loaded(i) => o = 0 /\ d = 0
      /\ a \notin Gains(i) => Transact(base, i)[a] = base[a]
      /\ a = carried[i].miner /\ OnlyCredited(base, i) => o = 0 /\ d = carried[i].tip
      /\ carried[i].tip \in Int
    BY <1>1, <1>2, WhatChanges
<1>7. Writes(base, i) = Loaded(i) \ (IF OnlyCredited(base, i) THEN {carried[i].miner} ELSE {})
    BY DEF Writes
<1>8. Committed(i)[a] = IF a \in Writes(base, i) THEN Transact(base, i)[a] ELSE world[a]
    BY DEF Committed
<1> HIDE DEF o, d, ref, i
<1>9. ASSUME a \in Writes(base, i) PROVE goal
    <2>1. world[a] = base[a] /\ OnlyCredited(base, i)
        BY <1>7, <1>9, WrittenIsUntouched DEF i
    <2>2. a # carried[i].miner
        BY <1>7, <1>9, <2>1
    <2>3. Committed(i)[a] = Plus(base[a], o, d) /\ owed = pending[a]
        BY <1>5, <1>8, <1>9, <2>2
    <2>4. Plus(Plus(world[a], 0, pending[a]), o, d) = Plus(Plus(world[a], o, d), 0, pending[a])
        BY <1>2, <1>3, <1>5 DEF Plus
    <2> HIDE DEF owed
    <2> QED
        BY <1>4, <1>5, <1>6, <1>8, <1>9, <2>1, <2>3, <2>4
<1>10. ASSUME a \notin Writes(base, i), a \in Loaded(i) PROVE goal
    <2>1. a = carried[i].miner /\ OnlyCredited(base, i)
        BY <1>7, <1>10
    <2>2. o = 0 /\ d = carried[i].tip /\ Committed(i)[a] = world[a]
          /\ owed = pending[a] + carried[i].tip
        BY <1>6, <1>8, <1>10, <2>1
    <2>3. Plus(Plus(world[a], 0, pending[a]), 0, carried[i].tip)
              = Plus(world[a], 0, pending[a] + carried[i].tip)
        BY <1>2, <1>3, <1>6 DEF Plus
    <2> HIDE DEF owed
    <2> QED
        BY <1>4, <1>5, <2>2, <2>3
<1>11. ASSUME a \notin Loaded(i) PROVE goal
    <2>1. a # carried[i].miner /\ a \notin Writes(base, i)
        BY <1>7, <1>11 DEF Loaded
    <2>2. o = 0 /\ d = 0 /\ Committed(i)[a] = world[a] /\ owed = pending[a]
        BY <1>6, <1>8, <1>11, <2>1
    <2>3. Plus(Plus(world[a], 0, pending[a]), 0, 0) = Plus(world[a], 0, pending[a])
        BY <1>2, <1>3 DEF Plus
    <2> HIDE DEF owed
    <2> QED
        BY <1>4, <1>5, <2>2, <2>3
<1>12. goal
    BY <1>9, <1>10, <1>11
<1> QED
    BY <1>12 DEF i, ref

(* The record of the block is the same in both: an account to which a fee  *)
(* is owed is in it already.                                               *)
LEMMA RecordedAlike ==
    ASSUME RoundsInv, CommitInv, stage = "commit", at < Len(groups[round]),
           Executable(base, groups[round][at + 1])
    PROVE  LET i == groups[round][at + 1]
           IN  Recorded(reference.block, reference.world, i, Succeeds(reference.world, i))
                   = Recorded(block, world, i, Succeeds(base, i))
<1> DEFINE i == groups[round][at + 1]
<1>1. Loaded(i) \subseteq Address
    BY TheRound DEF Loaded, Keys, AccessKeys, Transaction, Carried
<1>2. ASSUME NEW a \in Address, a \notin DOMAIN block.undo PROVE reference.world[a] = world[a]
    <2>1. pending[a] = 0
        BY <1>2 DEF RoundsInv, UndoInv
    <2>2. world[a] \in Account /\ reference.world[a] = Plus(world[a], 0, 0)
        BY <2>1 DEF RoundsInv, RoundTypes, World, CommitInv
    <2> QED
        BY <2>2, PlusType
<1>3. Noted(block.undo, reference.world, Loaded(i)) = Noted(block.undo, world, Loaded(i))
    BY <1>1, <1>2 DEF Noted
<1>4. reference.block = block
    BY DEF CommitInv
<1>5. Succeeds(reference.world, i) = Succeeds(base, i)
    BY FoundAlike
<1> QED
    BY <1>3, <1>4, <1>5, Zenon DEF Recorded

(* What a step of a committed round changes. *)
LEMMA CommitOneEffect ==
    ASSUME RoundsInv, CommitOne
    PROVE  LET i == groups[round][at + 1]
           IN  /\ stage = "commit" /\ stage' = "commit"
               /\ at < Len(groups[round]) /\ at \in Nat /\ at' = at + 1
               /\ UNCHANGED <<vars, carried, round, base, fallback, exempt>>
               /\ Index' = Index /\ Receipt' = Receipt
               /\ reference'.world = SequentialWorld(reference.block, reference.world, i)
               /\ reference'.block = SequentialBlock(reference.block, reference.world, i)
               /\ \/ /\ Fits(block, i) /\ Executable(base, i)
                     /\ world' = Committed(i)
                     /\ block' = Recorded(block, world, i, Succeeds(base, i))
                     /\ pending' = [pending EXCEPT ![carried[i].miner] = @ + carried[i].tip]
                  \/ /\ ~ (Fits(block, i) /\ Executable(base, i))
                     /\ UNCHANGED <<world, block, pending>>
<1> DEFINE i == groups[round][at + 1]
<1>1. UNCHANGED vars /\ at \in Nat
    BY DEF CommitOne, RoundsInv, RoundTypes
<1>2. Index' = Index /\ Receipt' = Receipt
    BY <1>1 DEF vars, Index, Receipt
<1>3. /\ reference'.world = SequentialWorld(reference.block, reference.world, i)
      /\ reference'.block = SequentialBlock(reference.block, reference.world, i)
    BY DEF CommitOne, Referred
<1> QED
    BY <1>1, <1>2, <1>3 DEF CommitOne

(* The types, in a committed round.                                        *)
LEMMA CommitOneTypes == ASSUME RoundsInv, CommitOne PROVE RoundTypes'
<1> DEFINE i == groups[round][at + 1]
<1>1. /\ stage = "commit" /\ stage' = "commit"
      /\ at < Len(groups[round]) /\ at \in Nat /\ at' = at + 1
      /\ UNCHANGED <<vars, carried, round, base, fallback, exempt>>
      /\ Index' = Index /\ Receipt' = Receipt
      /\ reference'.world = SequentialWorld(reference.block, reference.world, i)
      /\ reference'.block = SequentialBlock(reference.block, reference.world, i)
    BY CommitOneEffect
<1>2. i \in Index /\ txs[i] \in Transaction /\ carried[i] \in Carried
      /\ at + 1 \in 1..Len(groups[round])
    BY <1>1, TheRound
<1>3. /\ world \in World /\ base \in World /\ pending \in [Address -> Int]
      /\ IsBlock(block) /\ IsBlock(fallback) /\ IsBlock(reference.block)
      /\ reference.world \in World /\ round \in 1..Len(groups)
      /\ carried \in [Index -> Carried] /\ phase = "done"
    BY <1>1 DEF RoundsInv, RoundTypes
<1> HIDE DEF i
<1>4. IsBlock(reference'.block) /\ reference'.world \in World
    BY <1>1, <1>2, <1>3, SequentialTypes
<1>5. Committed(i) \in World
    <2>1. Transact(base, i) \in World
        BY <1>2, <1>3, TransactAdds
    <2> QED
        BY <1>3, <2>1 DEF Committed, World
<1>6. IsBlock(Recorded(block, world, i, Succeeds(base, i)))
    <2>1. Succeeds(base, i) \in BOOLEAN
        BY DEF Succeeds
    <2> QED
        BY <1>2, <1>3, <2>1, RecordedIsBlock
<1>7. world' \in World /\ IsBlock(block')
    BY <1>3, <1>5, <1>6, CommitOneEffect DEF i
<1>8. pending' \in [Address -> Int]
    <2>1. carried[i].tip \in Int
        BY <1>2 DEF Carried
    <2> QED
        BY <1>3, <2>1, CommitOneEffect DEF i
<1>9. IsBlock(block)' /\ IsBlock(fallback)' /\ IsBlock(reference.block)'
    BY <1>1, <1>3, <1>4, <1>7 DEF IsBlock
<1>10. at' \in Nat /\ at' <= Len(groups'[round'])
    BY <1>1, <1>2 DEF vars
<1> QED
    BY <1>1, <1>3, <1>4, <1>7, <1>8, <1>9, <1>10 DEF RoundTypes, vars

(* What it changes is in the undo record, fees owed included.              *)
LEMMA CommitOneUndo == ASSUME RoundsInv, CommitOne PROVE UndoInv'
<1> DEFINE i == groups[round][at + 1]
<1>1. stage = "commit" /\ stage' = "commit" /\ at < Len(groups[round])
    BY CommitOneEffect
<1>2. i \in Index /\ txs[i] \in Transaction /\ carried[i] \in Carried
    BY <1>1, TheRound
<1>3. \A a \in Address : Recoverable(block.undo, world, a)
                         /\ (pending[a] # 0 => a \in DOMAIN block.undo)
    BY <1>1 DEF RoundsInv, UndoInv
<1> HIDE DEF i
<1>4. CASE /\ world' = Committed(i) /\ block' = Recorded(block, world, i, Succeeds(base, i))
           /\ pending' = [pending EXCEPT ![carried[i].miner] = @ + carried[i].tip]
    <2>1. block'.undo = Noted(block.undo, world, Loaded(i))
        BY <1>4 DEF Recorded
    <2>2. DOMAIN block'.undo = DOMAIN block.undo \cup Loaded(i)
        BY <2>1 DEF Noted
    <2>3. \A a \in Address : a \notin Loaded(i) => world'[a] = world[a]
        BY <1>4 DEF Committed, Writes
    <2>4. \A a \in Address : Recoverable(block'.undo, world', a)
        BY <1>3, <2>1, <2>2, <2>3 DEF Recoverable, Noted
    <2>5. \A a \in Address : pending'[a] # 0 => a \in DOMAIN block'.undo
        <3>1. pending \in [Address -> Int] /\ carried[i].miner \in Loaded(i)
            BY DEF RoundsInv, RoundTypes, Loaded
        <3> QED
            BY <1>3, <1>4, <2>2, <3>1
    <2> QED
        BY <1>1, <2>4, <2>5 DEF UndoInv, Recoverable
<1>5. CASE UNCHANGED <<world, block, pending>>
    BY <1>1, <1>3, <1>5 DEF UndoInv, Recoverable
<1> QED
    BY <1>4, <1>5, CommitOneEffect DEF i

(* The two executions stay in step.                                        *)
LEMMA CommitOneAgrees == ASSUME RoundsInv, CommitOne, ~ exempt PROVE CommitInv'
<1> DEFINE i == groups[round][at + 1]
<1>1. /\ stage = "commit" /\ at < Len(groups[round]) /\ at \in Nat /\ at' = at + 1
      /\ UNCHANGED <<vars, carried, round, base>>
      /\ reference'.world = SequentialWorld(reference.block, reference.world, i)
      /\ reference'.block = SequentialBlock(reference.block, reference.world, i)
    BY CommitOneEffect
<1>2. CommitInv
    BY <1>1 DEF RoundsInv, AgreeInv
<1>3. Included(reference.block, reference.world, i)
          <=> Fits(block, i) /\ Executable(base, i)
    BY <1>1, <1>2, IncludedAlike
<1>4. /\ Independent(Speculations(base, groups[round]))'
      /\ ~ ExemptSender(groups[round])' /\ ~ ExemptLook(groups[round])'
    <2>1. Speculations(base, groups[round])' = Speculations(base, groups[round])
        BY <1>1 DEF vars, Speculations, Speculation, Reads, Writes, TouchesBeneficiary,
               Executable, OnlyCredited, Loaded, Keys, Transact, Paid, Charged,
               Payment, Succeeds
    <2>2. Independent(Speculations(base, groups[round]))'
        BY <1>2, <2>1 DEF CommitInv, Independent
    <2>3. ~ ExemptSender(groups[round])'
        <3>1. ~ ExemptSender(groups[round])
            BY <1>2 DEF CommitInv
        <3>2. txs' = txs /\ groups'[round'] = groups[round]
            BY <1>1 DEF vars
        <3>3. \A j : Gains(j)' = Gains(j)
            BY <1>1 DEF vars, Gains
        <3> QED
            BY <3>1, <3>2, <3>3 DEF ExemptSender
    <2>4. ~ ExemptLook(groups[round])'
        BY <1>1, <1>2 DEF CommitInv, ExemptLook, vars
    <2> QED
        BY <2>2, <2>3, <2>4
<1>5. \A j : Gains(j)' = Gains(j) /\ Writes(base, j)' = Writes(base, j)
    BY <1>1 DEF vars, Gains, Writes, Executable, OnlyCredited, Loaded, Keys, Transact,
           Paid, Charged, Payment, Succeeds
<1>6. \A p \in 1..at : groups'[round'][p] = groups[round][p] /\ p \in 1..at'
    BY <1>1 DEF vars
<1>7. groups'[round'][at + 1] = i /\ at + 1 \in 1..at'
    BY <1>1 DEF vars
<1> HIDE DEF i
<1>8. CASE /\ Fits(block, i) /\ Executable(base, i)
           /\ world' = Committed(i) /\ block' = Recorded(block, world, i, Succeeds(base, i))
           /\ pending' = [pending EXCEPT ![carried[i].miner] = @ + carried[i].tip]
    <2>1. /\ reference'.world = Transact(reference.world, i)
          /\ reference'.block = Recorded(reference.block, reference.world, i,
                                          Succeeds(reference.world, i))
        BY <1>1, <1>3, <1>8 DEF SequentialWorld, SequentialBlock
    <2>2. block' = reference'.block
        BY <1>1, <1>2, <1>8, <2>1, RecordedAlike DEF i
    <2>3. ASSUME NEW a \in Address
          PROVE  /\ reference'.world[a] = Plus(world'[a], 0, pending'[a])
                 /\ world'[a] # base'[a] =>
                        \E p \in 1..at' : a \in Writes(base, groups[round][p])'
                                          /\ a \in Gains(groups[round][p])'
                 /\ pending'[a] # 0 => IsOwed(groups[round], at, a)'
        <3>1. pending'[a] = IF a = carried[i].miner THEN pending[a] + carried[i].tip
                            ELSE pending[a]
            BY <1>8 DEF RoundsInv, RoundTypes
        <3>2. reference'.world[a] = Plus(world'[a], 0, pending'[a])
            BY <1>1, <1>2, <1>8, <2>1, <3>1, CommittedAlike DEF i
        <3>3. world'[a] # base[a] =>
                  \/ a \in Writes(base, i) /\ a \in Gains(i)
                  \/ world[a] # base[a]
            BY <1>1, <1>2, <1>8, CommittedAlike DEF i
        <3>4. a \in Writes(base, i) /\ a \in Gains(i) =>
                  \E p \in 1..at' : a \in Writes(base, groups[round][p])'
                                    /\ a \in Gains(groups[round][p])'
            BY <1>5, <1>7
        <3>5. world[a] # base[a] =>
                  \E p \in 1..at' : a \in Writes(base, groups[round][p])'
                                    /\ a \in Gains(groups[round][p])'
            BY <1>2, <1>5, <1>6 DEF CommitInv
        <3>6. pending'[a] # 0 => IsOwed(groups[round], at, a)'
            <4>1. CASE pending[a] # 0
                BY <1>1, <1>2, <1>6, <4>1 DEF CommitInv, IsOwed
            <4>2. CASE a = carried[i].miner /\ carried[i].tip > 0
                BY <1>1, <1>7, <4>2 DEF IsOwed
            <4>3. carried[i].tip \in Nat
                BY <1>1, TheRound DEF i, Carried
            <4> QED
                BY <3>1, <4>1, <4>2, <4>3
        <3> QED
            BY <1>1, <3>2, <3>3, <3>4, <3>5, <3>6
    <2> QED
        BY <1>4, <2>2, <2>3 DEF CommitInv
<1>9. CASE ~ (Fits(block, i) /\ Executable(base, i)) /\ UNCHANGED <<world, block, pending>>
    <2>1. reference'.world = reference.world /\ reference'.block = reference.block
        BY <1>1, <1>3, <1>9 DEF SequentialWorld, SequentialBlock
    <2>2. ASSUME NEW a \in Address
          PROVE  /\ world'[a] # base'[a] =>
                        \E p \in 1..at' : a \in Writes(base, groups[round][p])'
                                          /\ a \in Gains(groups[round][p])'
                 /\ pending'[a] # 0 => IsOwed(groups[round], at, a)'
        BY <1>1, <1>2, <1>5, <1>6, <1>9 DEF CommitInv, IsOwed
    <2> QED
        BY <1>2, <1>4, <1>9, <2>1, <2>2 DEF CommitInv
<1> QED
    BY <1>8, <1>9, CommitOneEffect DEF i

(* A step of a committed round keeps the invariants.                       *)
LEMMA CommitOneStep == ASSUME RoundsInv, CommitOne PROVE RoundTypes' /\ UndoInv' /\ AgreeInv'
<1>1. stage' = "commit" /\ exempt' = exempt
    BY CommitOneEffect
<1>2. AgreeInv'
    BY <1>1, CommitOneAgrees DEF AgreeInv
<1> QED
    BY <1>2, CommitOneTypes, CommitOneUndo

(* With the fees, the accounts are those of the sequential execution.      *)
LEMMA CreditStep == ASSUME RoundsInv, Credit PROVE RoundTypes' /\ UndoInv' /\ AgreeInv'
<1>1. /\ stage = "commit" /\ stage' = "idle" /\ pending' = Credits /\ world' = Credited
      /\ UNCHANGED <<vars, carried, block, round, at, base, fallback, reference, exempt>>
    BY DEF Credit
<1>2. world \in World /\ pending \in [Address -> Int]
    BY DEF RoundsInv, RoundTypes
<1>3. ASSUME NEW a \in Address
      PROVE  /\ Credited[a] = Plus(world[a], 0, pending[a])
             /\ Credited[a] \in Account
             /\ pending[a] = 0 => Credited[a] = world[a]
    <2>1. pending[a] \in Int /\ world[a] \in Account
        BY <1>2 DEF World
    <2>2. Paid(world, a, pending[a])[a] = Plus(world[a], 0, pending[a])
        BY <1>2, <2>1, PaidAdds
    <2> QED
        BY <2>1, <2>2, PlusType DEF Credited
<1>4. Credited \in World
    BY <1>3 DEF Credited, World
<1>5. RoundTypes'
    <2>1. Index' = Index /\ Receipt' = Receipt
        BY <1>1 DEF vars, Index, Receipt
    <2>2. IsBlock(block)' /\ IsBlock(fallback)' /\ IsBlock(reference.block)'
        BY <1>1, <2>1 DEF RoundsInv, RoundTypes, IsBlock
    <2> QED
        BY <1>1, <1>4, <2>1, <2>2, EmptyIsBlock DEF RoundsInv, RoundTypes, vars
<1>6. UndoInv'
    <2>1. \A a \in Address : Recoverable(block.undo, world, a)
                             /\ (pending[a] # 0 => a \in DOMAIN block.undo)
        BY <1>1 DEF RoundsInv, UndoInv
    <2>2. \A a \in Address : Recoverable(block.undo, Credited, a)
        BY <1>3, <2>1 DEF Recoverable
    <2> QED
        BY <1>1, <2>2 DEF UndoInv, Recoverable, Credits
<1>7. AgreeInv'
    <2> SUFFICES ASSUME ~ exempt PROVE Credited = reference.world /\ block = reference.block
        BY <1>1 DEF AgreeInv
    <2>1. CommitInv
        BY <1>1 DEF RoundsInv, AgreeInv
    <2>2. \A a \in Address : Credited[a] = reference.world[a]
        BY <1>3, <2>1 DEF CommitInv
    <2>3. reference.world \in World
        BY DEF RoundsInv, RoundTypes
    <2> QED
        BY <1>4, <2>1, <2>2, <2>3 DEF CommitInv, World
<1> QED
    BY <1>5, <1>6, <1>7

-----------------------------------------------------------------------------
(* What a step of a round that fell back changes.                          *)
LEMMA FallBackEffect ==
    ASSUME RoundsInv, FallBackOne
    PROVE  LET i == groups[round][at + 1]
           IN  /\ stage = "fallback" /\ stage' = "fallback"
               /\ at < Len(groups[round]) /\ at \in Nat /\ at' = at + 1
               /\ UNCHANGED <<vars, carried, block, round, base, pending>>
               /\ Index' = Index /\ Receipt' = Receipt
               /\ reference'.world = SequentialWorld(reference.block, reference.world, i)
               /\ reference'.block = SequentialBlock(reference.block, reference.world, i)
               /\ world' = SequentialWorld(fallback, world, i)
               /\ fallback' = SequentialBlock(fallback, world, i)
               /\ exempt' = (exempt \/ ExemptGas(i))
<1> DEFINE i == groups[round][at + 1]
<1>1. UNCHANGED vars /\ at \in Nat
    BY DEF FallBackOne, RoundsInv, RoundTypes
<1>2. Index' = Index /\ Receipt' = Receipt
    BY <1>1 DEF vars, Index, Receipt
<1>3. /\ reference'.world = SequentialWorld(reference.block, reference.world, i)
      /\ reference'.block = SequentialBlock(reference.block, reference.world, i)
    BY DEF FallBackOne, Referred
<1> QED
    BY <1>1, <1>2, <1>3 DEF FallBackOne

(* A round that falls back stays in step while its gas fits the block.     *)
LEMMA FallBackStep == ASSUME RoundsInv, FallBackOne PROVE RoundTypes' /\ UndoInv' /\ AgreeInv'
<1> DEFINE i == groups[round][at + 1]
<1>1. /\ stage = "fallback" /\ stage' = "fallback"
      /\ at < Len(groups[round]) /\ at \in Nat /\ at' = at + 1
      /\ UNCHANGED <<vars, carried, block, round, base, pending>>
      /\ Index' = Index /\ Receipt' = Receipt
      /\ reference'.world = SequentialWorld(reference.block, reference.world, i)
      /\ reference'.block = SequentialBlock(reference.block, reference.world, i)
      /\ world' = SequentialWorld(fallback, world, i)
      /\ fallback' = SequentialBlock(fallback, world, i)
      /\ exempt' = (exempt \/ ExemptGas(i))
    BY FallBackEffect
<1>2. i \in Index /\ txs[i] \in Transaction /\ carried[i] \in Carried
      /\ at + 1 \in 1..Len(groups[round])
    BY <1>1, TheRound
<1>3. /\ world \in World /\ reference.world \in World /\ base \in World
      /\ IsBlock(block) /\ IsBlock(fallback) /\ IsBlock(reference.block)
      /\ round \in 1..Len(groups) /\ carried \in [Index -> Carried] /\ phase = "done"
      /\ pending \in [Address -> Int] /\ pending = Credits
    BY <1>1 DEF RoundsInv, RoundTypes
<1> HIDE DEF i
<1>4. /\ IsBlock(reference'.block) /\ reference'.world \in World
      /\ IsBlock(fallback') /\ world' \in World
    BY <1>1, <1>2, <1>3, SequentialTypes
<1>5. RoundTypes'
    <2>1. IsBlock(block)' /\ IsBlock(fallback)' /\ IsBlock(reference.block)'
        BY <1>1, <1>3, <1>4 DEF IsBlock
    <2>2. at' \in Nat /\ at' <= Len(groups'[round'])
        BY <1>1, <1>2 DEF vars
    <2> QED
        BY <1>1, <1>3, <1>4, <2>1, <2>2 DEF RoundTypes, vars, Credits
<1>6. UndoInv'
    <2> DEFINE Merged(f) == Noted(block.undo, f.undo, DOMAIN f.undo)
    <2>1. \A a \in Address : Recoverable(Merged(fallback), world, a)
        BY <1>1 DEF RoundsInv, UndoInv
    <2>2. CASE Included(fallback, world, i)
        <3>1. world' = Transact(world, i) /\ fallback'.undo = Noted(fallback.undo, world, Loaded(i))
            BY <1>1, <2>2 DEF SequentialWorld, SequentialBlock, Recorded
        <3>2. \A a \in Address : a \notin Loaded(i) => world'[a] = world[a]
            BY <1>2, <1>3, <3>1, WhatChanges
        <3>3. /\ DOMAIN fallback'.undo = DOMAIN fallback.undo \cup Loaded(i)
              /\ \A a \in DOMAIN fallback'.undo :
                     fallback'.undo[a] = IF a \in DOMAIN fallback.undo THEN fallback.undo[a]
                                         ELSE world[a]
            BY <3>1 DEF Noted
        <3>4. \A a \in Address : Recoverable(Merged(fallback'), world', a)
            BY <2>1, <3>2, <3>3 DEF Recoverable, Noted
        <3> QED
            BY <1>1, <1>3, <3>4 DEF UndoInv, Recoverable, Noted, Credits
    <2>3. CASE ~ Included(fallback, world, i)
        <3>1. world' = world /\ fallback' = fallback
            BY <1>1, <2>3 DEF SequentialWorld, SequentialBlock
        <3> QED
            BY <1>1, <1>3, <2>1, <3>1 DEF UndoInv, Recoverable, Noted, Credits
    <2> QED
        BY <2>2, <2>3
<1>7. AgreeInv'
    <2> SUFFICES ASSUME ~ exempt, ~ ExemptGas(i)
                 PROVE  /\ world' = reference'.world
                        /\ reference'.block = Absorbed(block', fallback')
        BY <1>1 DEF AgreeInv, Absorbed, Noted
    <2>1. world = reference.world /\ reference.block = Absorbed(block, fallback)
        BY <1>1 DEF RoundsInv, AgreeInv
    <2>2. Fits(fallback, i) <=> Fits(reference.block, i)
        <3>1. reference.block.gas_used = block.gas_used + fallback.gas_used
            <4>1. Absorbed(block, fallback).gas_used = block.gas_used + fallback.gas_used
                BY DEF Absorbed
            <4> QED
                BY <2>1, <4>1
        <3>2. /\ block.gas_used \in Nat /\ fallback.gas_used \in Nat /\ carried[i].gas \in Nat
              /\ GasLimit \in Nat
            BY <1>2, <1>3, BlockParts, ParallelAssumption DEF Carried
        <3>3. Fits(reference.block, i) => Fits(fallback, i)
            BY <3>1, <3>2 DEF Fits
        <3> QED
            BY <3>3 DEF ExemptGas
    <2>3. Included(fallback, world, i) <=> Included(reference.block, reference.world, i)
        BY <2>1, <2>2 DEF Included
    <2>4. CASE Included(fallback, world, i)
        <3>1. /\ fallback' = Recorded(fallback, world, i, Succeeds(world, i))
              /\ reference'.block = Recorded(reference.block, world, i, Succeeds(world, i))
              /\ world' = Transact(world, i) /\ reference'.world = Transact(world, i)
            BY <1>1, <2>1, <2>3, <2>4 DEF SequentialWorld, SequentialBlock
        <3>2. Absorbed(block, Recorded(fallback, world, i, Succeeds(world, i)))
                  = Recorded(Absorbed(block, fallback), world, i, Succeeds(world, i))
            <4>1. Succeeds(world, i) \in BOOLEAN
                BY DEF Succeeds
            <4> QED
                BY <1>2, <1>3, <4>1, AbsorbedRecords
        <3> QED
            BY <1>1, <2>1, <3>1, <3>2
    <2>5. CASE ~ Included(fallback, world, i)
        BY <1>1, <2>1, <2>3, <2>5 DEF SequentialWorld, SequentialBlock
    <2> QED
        BY <2>4, <2>5
<1> QED
    BY <1>5, <1>6, <1>7

(* Absorbing it gives the block of the sequential execution.               *)
LEMMA AbsorbStep == ASSUME RoundsInv, Absorb PROVE RoundTypes' /\ UndoInv' /\ AgreeInv'
<1>1. /\ stage = "fallback" /\ stage' = "idle" /\ block' = Absorbed(block, fallback)
      /\ UNCHANGED <<vars, carried, world, round, at, base, pending, fallback, reference, exempt>>
    BY DEF Absorb
<1>2. IsBlock(Absorbed(block, fallback))
    BY AbsorbedIsBlock DEF RoundsInv, RoundTypes
<1>3. RoundTypes'
    <2>1. Index' = Index /\ Receipt' = Receipt
        BY <1>1 DEF vars, Index, Receipt
    <2>2. IsBlock(block)' /\ IsBlock(fallback)' /\ IsBlock(reference.block)'
        BY <1>1, <1>2, <2>1 DEF RoundsInv, RoundTypes, IsBlock
    <2> QED
        BY <1>1, <2>1, <2>2 DEF RoundsInv, RoundTypes, vars, Credits
<1>4. UndoInv'
    <2>1. \A a \in Address :
              Recoverable(Noted(block.undo, fallback.undo, DOMAIN fallback.undo), world, a)
        BY <1>1 DEF RoundsInv, UndoInv
    <2>2. block'.undo = Noted(block.undo, fallback.undo, DOMAIN fallback.undo)
        BY <1>1, AbsorbedParts
    <2>3. \A a \in Address : pending[a] = 0
        BY <1>1 DEF RoundsInv, RoundTypes, Credits
    <2> QED
        BY <1>1, <2>1, <2>2, <2>3 DEF UndoInv, Recoverable
<1>5. AgreeInv'
    BY <1>1 DEF RoundsInv, AgreeInv
<1> QED
    BY <1>3, <1>4, <1>5

-----------------------------------------------------------------------------
(* The rounds are formed before anything is executed.                      *)
LEMMA OrderStep ==
    ASSUME RoundsInv, Next \/ UNCHANGED vars, UNCHANGED roundVars
    PROVE  RoundTypes' /\ UndoInv' /\ AgreeInv'
<1>1. UNCHANGED <<carried, world, block, stage, round, at, base, pending, fallback, reference,
                  exempt>>
    BY DEF roundVars
<1>2. txs' = txs /\ Index' = Index /\ Receipt' = Receipt
    BY DEF Next, Layer, Sort, Collect, CloseLast, vars, Index, Receipt
<1>3. IsBlock(block)' /\ IsBlock(fallback)' /\ IsBlock(reference.block)'
    BY <1>1, <1>2 DEF RoundsInv, RoundTypes, IsBlock
<1>4. UndoInv'
    BY <1>1 DEF RoundsInv, UndoInv, Recoverable, Noted
<1>5. CASE UNCHANGED vars
    <2>1. RoundTypes'
        BY <1>1, <1>2, <1>3, <1>5 DEF RoundsInv, RoundTypes, vars, Credits
    <2>2. AgreeInv'
        <3>1. CASE stage = "commit" /\ ~ exempt
            <4>1. CommitInv
                BY <3>1 DEF RoundsInv, AgreeInv
            <4>2. Speculations(base, groups[round])' = Speculations(base, groups[round])
                BY <1>1, <1>5 DEF vars, Speculations, Speculation, Reads, Writes,
                       TouchesBeneficiary, Executable, OnlyCredited, Loaded, Keys, Transact,
                       Paid, Charged, Payment, Succeeds
            <4>3. Independent(Speculations(base, groups[round]))'
                BY <4>1, <4>2 DEF CommitInv, Independent
            <4>4. \A j : Gains(j)' = Gains(j) /\ Writes(base, j)' = Writes(base, j)
                BY <1>1, <1>5 DEF vars, Gains, Writes, Executable, OnlyCredited, Loaded, Keys,
                       Transact, Paid, Charged, Payment, Succeeds
            <4>5. groups'[round'] = groups[round]
                BY <1>1, <1>5 DEF vars
            <4>6. ~ ExemptSender(groups[round])'
                <5>1. ~ ExemptSender(groups[round])
                    BY <4>1 DEF CommitInv
                <5> QED
                    BY <1>2, <4>4, <4>5, <5>1 DEF ExemptSender
            <4>7. ~ ExemptLook(groups[round])'
                <5>1. ~ ExemptLook(groups[round])
                    BY <4>1 DEF CommitInv
                <5> QED
                    BY <1>1, <4>5, <5>1 DEF ExemptLook
            <4>8. CommitInv'
                <5>1. ASSUME NEW a \in Address
                      PROVE  /\ reference'.world[a] = Plus(world'[a], 0, pending'[a])
                             /\ world'[a] # base'[a] =>
                                    \E p \in 1..at' : a \in Writes(base, groups[round][p])'
                                                      /\ a \in Gains(groups[round][p])'
                             /\ pending'[a] # 0 => IsOwed(groups[round], at, a)'
                    BY <1>1, <4>1, <4>4, <4>5 DEF CommitInv, IsOwed
                <5> QED
                    BY <1>1, <4>1, <4>3, <4>6, <4>7, <5>1 DEF CommitInv
            <4> QED
                BY <1>1, <3>1, <4>8 DEF AgreeInv
        <3>2. CASE stage # "commit" \/ exempt
            BY <1>1, <3>2 DEF RoundsInv, AgreeInv, Absorbed, Noted
        <3> QED
            BY <3>1, <3>2
    <2> QED
        BY <1>4, <2>1, <2>2
<1>6. CASE Next
    <2>1. phase # "done"
        BY <1>6 DEF Next, Layer, Sort, Collect, CloseLast
    <2>2. stage = "order"
        BY <2>1 DEF RoundsInv, RoundTypes
    <2>3. RoundTypes'
        BY <1>1, <1>2, <1>3, <2>2 DEF RoundsInv, RoundTypes, Credits
    <2>4. AgreeInv'
        BY <1>1, <2>2 DEF RoundsInv, AgreeInv
    <2> QED
        BY <1>4, <2>3, <2>4
<1> QED
    BY <1>5, <1>6

(* Every step of the executor keeps the invariants.                        *)
LEMMA RoundsStep ==
    RoundsInv /\ [RoundsNext]_allVars => RoundTypes' /\ UndoInv' /\ AgreeInv'
<1> SUFFICES ASSUME RoundsInv, [RoundsNext]_allVars PROVE RoundTypes' /\ UndoInv' /\ AgreeInv'
    OBVIOUS
<1>1. CASE Next /\ UNCHANGED roundVars
    BY <1>1, OrderStep
<1>2. CASE Carry
    BY <1>2, CarryStep
<1>3. CASE Speculate
    BY <1>3, SpeculateStep
<1>4. CASE CommitOne
    BY <1>4, CommitOneStep
<1>5. CASE Credit
    BY <1>5, CreditStep
<1>6. CASE FallBackOne
    BY <1>6, FallBackStep
<1>7. CASE Absorb
    BY <1>7, AbsorbStep
<1>8. CASE UNCHANGED allVars
    <2>1. UNCHANGED vars /\ UNCHANGED roundVars
        BY <1>8 DEF allVars
    <2> QED
        BY <2>1, OrderStep
<1> QED
    BY <1>1, <1>2, <1>3, <1>4, <1>5, <1>6, <1>7, <1>8 DEF RoundsNext

(* The invariants of the layering and of the execution hold throughout.    *)
THEOREM RoundsInvariance == RoundsSpec => []RoundsInv
<1>1. RoundsSpec => []LayerInv /\ []PartitionInv
    BY RoundsAreLayered, LayeringInvariance, PartitionInvariance, PTL
<1>2. RoundsInit => RoundTypes /\ UndoInv /\ AgreeInv
    BY InitRoundsInv
<1>3. LayerInv /\ PartitionInv /\ (RoundTypes /\ UndoInv /\ AgreeInv) /\ [RoundsNext]_allVars
          => (RoundTypes /\ UndoInv /\ AgreeInv)'
    BY RoundsStep DEF RoundsInv
<1>4. LayerInv /\ PartitionInv /\ RoundTypes /\ UndoInv /\ AgreeInv => RoundsInv
    BY DEF RoundsInv
<1> QED
    BY <1>1, <1>2, <1>3, <1>4, PTL DEF RoundsSpec

(* Between rounds the state, the gas, the undo record and the receipts are *)
(* those of sequential execution, whatever was committed and whatever fell *)
(* back (execute_rounds_parallel against execute_sequentially), outside    *)
(* the cases ExemptSender, ExemptLook and ExemptGas.                       *)
THEOREM ParallelAgrees == RoundsSpec => []ExecutionAgrees
<1>1. RoundsInv => ExecutionAgrees
    BY DEF RoundsInv, AgreeInv, ExecutionAgrees
<1> QED
    BY <1>1, RoundsInvariance, PTL

(* The undo record takes the block back exactly, also where the parallel   *)
(* execution differs from the sequential one (UndoRecord::note and merge). *)
THEOREM ParallelIsUndoable == RoundsSpec => []UndoRestores
<1>1. RoundsInv => UndoRestores
    <2> SUFFICES ASSUME RoundsInv, stage = "idle"
                 PROVE  Genesis = [a \in Address |-> IF a \in DOMAIN block.undo
                                                     THEN block.undo[a] ELSE world[a]]
        BY DEF UndoRestores
    <2>1. \A a \in Address : Recoverable(block.undo, world, a)
        BY DEF RoundsInv, UndoInv
    <2>2. Genesis = [a \in Address |-> Genesis[a]]
        BY DEF Genesis
    <2> QED
        BY <2>1, <2>2 DEF Recoverable
<1> QED
    BY <1>1, RoundsInvariance, PTL
=============================================================================
