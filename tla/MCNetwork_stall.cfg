\* One pair of nodes with room for orphans.
SPECIFICATION MCSpec
CONSTANTS
    Block = {0, 1, 2, 3}
    Genesis = 0
    Parents <- MCParents
    MaxOrphans = 2
    MaxInvEntries = 4
    MaxBlockBatch = 1
    CursorPeriod = 1
    Node = {1, 3}
    Link <- MCFragile
    MinedBy <- MCMinedBy
    Fragile <- MCFragile
    MaxFaults = 1
    QueueBound = 1
PROPERTIES EventuallySettled
