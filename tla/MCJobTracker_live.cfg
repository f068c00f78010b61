\* Liveness of a creation and two competing deletions, across a restart.
SPECIFICATION FairSpec
CONSTANTS
    PostJobs = {p1}
    DeleteJobs = {d1, d2}
    CertsJobs = {}
    NoService = NoService
    MaxRestarts = 1
    Faults = {}
PROPERTIES
    PendingJobsResolve
    FoundNetworkBecomesDeleted
    RecordedCreationIsStored
CHECK_DEADLOCK FALSE
