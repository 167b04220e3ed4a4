\* Every DAG of six blocks on genesis, one arrival order each, in which a block
\* that would merge three others is refused; and every DAG of four blocks with
\* one of three bodies each, executed as it grows, in a window no reorg exceeds.
SPECIFICATION MCSpec
CONSTANTS
    Hash = {0, 1, 2, 3, 4, 5, 6}
    Genesis = 0
    K = 2
    MergesetSizeLimit = 2
    Work = {1, 3}
    WorkMax = 100
    MaxParents = 2
    Account <- MCAccount
    Tx <- MCTx
    Fee = 1
    Bodies <- MCBodies
    Miner <- MCMiner
    GasLimit = 2
    PruningWindow = 10
    GenesisState <- MCGenesisState
INVARIANTS TypeOK HeadIsHeaviest PastIsExecutedOnce MergedBluesCluster DataIsPureInThePast
INVARIANTS StateIsReplay ReorgIsExact
CHECK_DEADLOCK FALSE
