----------------------------- MODULE MCDagStore -----------------------------
(* DagStore for TLC.                                                       *)
EXTENDS DagStore

(* Blocks arrive in ascending order of hash: one arrival order for each    *)
(* DAG, which leaves room for larger ones.                                 *)
AscendingNext ==
    \E ps \in ParentSets(Present), w \in Work :
        Cardinality(Present) \in Hash /\ AddBlock(Cardinality(Present), ps, w)

AscendingSpec == Init /\ [][AscendingNext]_vars
=============================================================================
