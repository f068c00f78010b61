\* Two invoke requests whose network may never answer; two joinNetwork requests
\* that overlap; the join script run again and again; two tokens at a time; two
\* goroutines that trigger builds while Jenkins changes its crumb once.
SPECIFICATION PartSpec
CONSTANTS
    Requests = {r1, r2}
    Orgs = {o1, o2}
    Joins = {j1, j2}
    DocRequests = {d1}
    Fills = {p1}
    Keys = {k1, k2}
    Odd = {k2}
    Tokens = {t1, t2}
    Callers = {c1, c2}
    MaxRotations = 1
    MaxMisses = 1
INVARIANTS
    PartTypeOK
    OkMeansCommitted
    NoMissedEvent
    NoRegistrationLeft
    OnlyOverlapsHarm
    LogIsTrue
PROPERTIES
    NobodyStuck
    VerdictReached
    CrumbIsShared
CHECK_DEADLOCK FALSE
