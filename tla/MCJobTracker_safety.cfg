\* One creation, two overlapping deletions of its service, one restart.
SPECIFICATION Spec
CONSTANTS
    PostJobs = {p1}
    DeleteJobs = {d1, d2}
    CertsJobs = {}
    NoService = NoService
    MaxRestarts = 1
    Faults <- ButCouchFault
INVARIANTS
    NeverDeletingAndDeleted
    DeletedIsDeprovisioned
PROPERTIES
    ImplementsCatalog
CHECK_DEADLOCK FALSE
