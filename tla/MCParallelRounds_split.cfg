\* Up to two transactions, with gas to spare.
SPECIFICATION RoundsSpec
CONSTANTS
    Address = {a, b, c}
    MaxTxs = 2
    RoundMax = 10
    Carriable <- MCCarriable
    Funds = 2
    GasLimit = 9
SYMMETRY Symmetry
INVARIANTS ParallelIsSequential
CHECK_DEADLOCK FALSE
