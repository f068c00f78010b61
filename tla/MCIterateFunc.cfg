\* Three iterations; limits 1, 2 and 3, and two flags that are not accepted.
SPECIFICATION MCSpec
CONSTANTS
    UpperLimit = 3
    DefaultLimit = 2
    NoError = NoError
    ParseError = ParseError
    N = 3
    Flags <- SomeFlags
INVARIANTS
    AtMostLimit
    CountsAddUp
    ErrorIsReturned
    AllIterationsRun
    ErrorStopsLaunching
PROPERTIES
    ImplementsPool
    RunEnds
CHECK_DEADLOCK FALSE
