\* Three blocks and three submissions, in any order: blocks of peers on any
\* parents with one of three bodies each, or blocks the node mines itself; and
\* a client's calls with blocks of peers between their sections.
SPECIFICATION NodeSpec
CONSTANTS
    Hash = {0, 1, 2, 3}
    Genesis = 0
    K = 1
    MergesetSizeLimit = 3
    Work = {1}
    WorkMax = 100
    MaxParents = 2
    Account <- MCAccount
    Tx <- MCTx
    Fee = 1
    Bodies <- MCBodies
    Miner <- MCMiner
    GasLimit = 2
    PruningWindow = 10
    GenesisState <- MCGenesisState
    MaxTransactions = 4
    MaxPerSender = 2
    NextBaseFee = 0
    SequenceMax = 3
    DeferredLag = 1
    TemplateTxs = 3
    Logs <- MCLogs
INVARIANTS TxIndexIsExact PoolIsPending
INVARIANTS HeadersTellHistory NothingIsLost
INVARIANTS ServedChainFits DepthCountsBlues TornOnlyByReorg
PROPERTIES PoolIsImplemented
CHECK_DEADLOCK FALSE
