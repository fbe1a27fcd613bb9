CONSTANTS
    Args = {i1, i2}
    NULL = NULL
    Size = 3
    MaxBufs = 5
    MaxTargets = 2
SPECIFICATION Spec
INVARIANT TypeOK
INVARIANT RefcountExact
INVARIANT QueueOrdered
