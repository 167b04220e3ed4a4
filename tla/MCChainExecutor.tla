-------------------------- MODULE MCChainExecutor --------------------------
(* DagStore and ChainExecutor for TLC, driven in one of two ways from the  *)
(* start: `growth` adds blocks only, to reach the larger DAGs; `chain` has *)
(* blocks with bodies, and execution follows.                              *)
EXTENDS ChainExecutor

VARIABLE drive

(* Three accounts, one of which exists at genesis, and three transactions: *)
(* Pay and Rival compete for a nonce, and Spend can only run after Pay has *)
(* paid its sender.  Several bodies carry the same transaction.            *)
MCAccount == {"ann", "bob", "cyd"}

Pay   == [id |-> "pay",   sender |-> "ann", nonce |-> 0, to |-> "bob", value |-> 4, gas |-> 1]
Rival == [id |-> "rival", sender |-> "ann", nonce |-> 0, to |-> "cyd", value |-> 2, gas |-> 1]
Spend == [id |-> "spend", sender |-> "bob", nonce |-> 0, to |-> "cyd", value |-> 2, gas |-> 1]

MCTx == {Pay, Rival, Spend}

MCGenesisState == [a \in {"ann"} |-> [nonce |-> 0, balance |-> 9]]

MCMiner == [b \in Hash |-> IF b % 2 = 0 THEN "bob" ELSE "cyd"]

MCBodies == {<<>>, <<Pay, Spend>>, <<Spend, Rival>>}

(* One arrival order in which a late block may have a small hash, and one  *)
(* work for each block, so that the number of blocks, their work and their *)
(* hashes disagree about which parent is ahead.                            *)
MixedOrder == <<3, 1, 5, 2, 6, 4>>

MixedWork(b) == IF b \in {2, 3, 6} THEN 3 ELSE 1

MixedNext ==
    \E ps \in ParentSets(Present) :
        /\ Cardinality(Present) <= Len(MixedOrder)
        /\ LET b == MixedOrder[Cardinality(Present)]
           IN Receive(b, ps, MixedWork(b), <<>>)

(* Four blocks of equal work, in ascending order of hash. *)
AscendingNext ==
    \/ \E ps \in ParentSets(Present), body \in Bodies :
           /\ Cardinality(Present) <= 4
           /\ Receive(Cardinality(Present), ps, 1, body)
    \/ AdvanceExecution

MCInit ==
    /\ ExecInit
    /\ drive \in {"growth", "chain"}
    /\ headers[Genesis].work = 1

MCNext ==
    \/ drive = "growth" /\ MixedNext /\ UNCHANGED drive
    \/ drive = "chain" /\ AscendingNext /\ UNCHANGED drive

MCSpec == MCInit /\ [][MCNext]_<<allVars, drive>>
=============================================================================
