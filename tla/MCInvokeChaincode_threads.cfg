\* Two threads with more iterations than places, and one that has places for all.
SPECIFICATION MCFairSpec
CONSTANTS
    Threads = {t1, t2}
    N = 2
    Limits = {1, 2}
    Nobody = Nobody
    NoError = NoError
INVARIANTS
    TypeOK
    AloneMeansOwn
    ErrorReported
    RequestsComplete
PROPERTIES
    CommandReturns
CHECK_DEADLOCK FALSE
