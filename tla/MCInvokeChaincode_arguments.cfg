\* One thread, two iterations at a time.
SPECIFICATION Spec
CONSTANTS
    Threads = {t1}
    N = 2
    Limits = {2}
    Nobody = Nobody
    NoError = NoError
INVARIANTS
    OwnArguments
CHECK_DEADLOCK FALSE
