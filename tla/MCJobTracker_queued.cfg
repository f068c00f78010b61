\* Jenkins may keep a build queued for longer than the polling interval.
SPECIFICATION FairSpec
CONSTANTS
    PostJobs = {p1}
    DeleteJobs = {d1}
    CertsJobs = {}
    NoService = NoService
    MaxRestarts = 0
    Faults = {"queue"}
PROPERTIES
    PendingJobsResolve
CHECK_DEADLOCK FALSE
