\* A delete build may fail: what becomes of the deleting flag?
SPECIFICATION Spec
CONSTANTS
    PostJobs = {p1}
    DeleteJobs = {d1}
    CertsJobs = {}
    NoService = NoService
    MaxRestarts = 0
    Faults = {}
INVARIANTS
    DeletingMeansJobNotCompleted
CHECK_DEADLOCK FALSE
