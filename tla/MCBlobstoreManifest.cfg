CONSTANTS
    w1 = w1
    w2 = w2
    l0 = l0
    l1 = l1
    l2 = l2
    l3 = l3
    zero = zero
    Writers        <- MCWriters
    Locks          <- MCLocks
    InitialLock    <- MCInitialLock
    EmptyLock      <- MCEmptyLock
    ManifestExists = TRUE

SPECIFICATION Spec

INVARIANT TypeOK

PROPERTY ImplementsAtomicManifest
