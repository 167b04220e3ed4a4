\* Three nodes in a line, one fault of any kind on one link, a full orphan
\* pool.
SPECIFICATION MCSpec
CONSTANTS
    Block = {0, 1, 2, 3}
    Genesis = 0
    Parents <- MCParents
    MaxOrphans = 1
    MaxInvEntries = 4
    MaxBlockBatch = 1
    CursorPeriod = 2
    Node = {1, 2, 3}
    Link <- MCLink
    MinedBy <- MCMinedBy
    Fragile <- MCFragile
    MaxFaults = 1
    QueueBound = 1
INVARIANTS OrphansWait RequestsAreOwed BodiesArePresent LossForgetsNothing
PROPERTIES SettledUnlessForgotten
