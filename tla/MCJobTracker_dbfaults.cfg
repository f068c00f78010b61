\* Every environment fault, CouchDB's included: a creation, a deletion,
\* and a certs job whose document the user may delete.
SPECIFICATION Spec
CONSTANTS
    PostJobs = {p1}
    DeleteJobs = {d1}
    CertsJobs = {c1}
    NoService = NoService
    MaxRestarts = 1
    Faults <- AnyFault
INVARIANTS
    TypeOK
    StatusIsOutcome
PROPERTIES
    RemovedStaysRemoved
CHECK_DEADLOCK FALSE
