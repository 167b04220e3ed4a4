\* A reorg that drops an executed transaction, over the instance of MCNode.cfg.
SPECIFICATION PeersSpec
CONSTANTS
    Hash = {0, 1, 2, 3}
    Genesis = 0
    K = 1
    MergesetSizeLimit = 3
    Work = {1}
    WorkMax = 100
    MaxParents = 2
    Account <- MCAccount
    Tx <- MCTx
    Fee = 1
    Bodies <- MCBodies
    Miner <- MCMiner
    GasLimit = 2
    PruningWindow = 10
    GenesisState <- MCGenesisState
    MaxTransactions = 4
    MaxPerSender = 2
    NextBaseFee = 0
    SequenceMax = 3
    DeferredLag = 1
    TemplateTxs = 3
    Logs <- MCLogs
PROPERTIES ReorgedReturnToPool
CHECK_DEADLOCK FALSE
