CONSTANTS
    Arches       <- MCArches
    Jobs         <- MCArches
    NetworkFails = FALSE

SPECIFICATION Spec

\* The jobs end: a state where both scripts have exited has no successor.
CHECK_DEADLOCK FALSE

INVARIANT PublishedWhenAllSucceed
