\* A deletion that ends before the creation it undoes is recorded.
SPECIFICATION Spec
CONSTANTS
    PostJobs = {p1}
    DeleteJobs = {d1}
    CertsJobs = {}
    NoService = NoService
    MaxRestarts = 0
    Faults = {}
INVARIANTS
    ActiveIsNotDeleted
CHECK_DEADLOCK FALSE
