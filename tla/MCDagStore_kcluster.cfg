\* The k-cluster rule over every DAG of six blocks on genesis, k = 2.
SPECIFICATION AscendingSpec
CONSTANTS
    Hash = {0, 1, 2, 3, 4, 5, 6}
    Genesis = 0
    K = 2
    MergesetSizeLimit = 4
    Work = {1}
    WorkMax = 100
    MaxParents = 2
INVARIANTS BlueSetIsKCluster
CHECK_DEADLOCK FALSE
