\* Two readers over every DAG of up to four blocks, sharing a table of two
\* entries: searches overlap, and the table is dropped while others run.
SPECIFICATION Spec
CONSTANTS
    Block = {g, b1, b2, b3}
    Genesis = g
    Reader = {r1, r2}
    CacheCapacity = 2
SYMMETRY Symmetry
INVARIANTS AnswersAreTrue
