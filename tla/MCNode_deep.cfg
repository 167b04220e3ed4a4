\* A reorg deeper than the journal: three blocks of work 1 lose to one of work
\* 3, with a journal that keeps two.
SPECIFICATION PeersSpec
CONSTANTS
    Hash = {0, 1, 2, 3, 4}
    Genesis = 0
    K = 1
    MergesetSizeLimit = 3
    Work = {1, 3}
    WorkMax = 100
    MaxParents = 2
    Account <- MCAccount
    Tx <- MCTx
    Fee = 1
    Bodies <- NoBodies
    Miner <- MCMiner
    GasLimit = 2
    PruningWindow = 1
    GenesisState <- MCGenesisState
    MaxTransactions = 4
    MaxPerSender = 2
    NextBaseFee = 0
    SequenceMax = 0
    DeferredLag = 1
    TemplateTxs = 3
    Logs <- MCLogs
INVARIANTS TipMatchesHeight
CHECK_DEADLOCK FALSE
