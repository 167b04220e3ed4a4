\* One client of the RPC server next to the mining loop.
SPECIFICATION FairLockSpec
CONSTANTS
    Thread = {"miner", "worker"}
    CallsOf <- MCCallsOf
PROPERTIES HeightAdvances
CHECK_DEADLOCK FALSE
