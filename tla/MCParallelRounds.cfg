\* Every list of up to four transactions over three accounts, the shorter ones
\* executed.
SPECIFICATION RoundsSpec
CONSTANTS
    Address = {a, b, c}
    MaxTxs = 4
    RoundMax = 10
    Carriable <- MCCarriable
    Funds = 2
    GasLimit = 2
SYMMETRY Symmetry
INVARIANTS
    ConflictsKeepBaseOrder
    PartitionRecoversRounds
    ExecutionAgrees
    UndoRestores
CHECK_DEADLOCK FALSE
