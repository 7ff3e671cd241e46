SPECIFICATION MCSpec
CONSTANTS
    Words = {w1, w2}
    Readers = {r1}
    MaxWrites = 2
    Handles = {h1, h2}
    Buffers = {b1, b2, b3}
    Threads = {t1, t2}
    Ptrs = {p1, p2, p3}
INVARIANTS
    CopiesAreWhole
    PoolsExact
    GapsTracked
    RingInOrder
    VectorEqualsScalar
    IndexNeverMisreads
    BatchesExact
    EncodingsExact
CHECK_DEADLOCK FALSE
