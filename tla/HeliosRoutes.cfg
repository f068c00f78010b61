\* Two joinNetwork requests of two organisations.
SPECIFICATION Spec
CONSTANTS
    Orgs = {o1, o2}
    Joins = {j1, j2}
    DocRequests = {}
    Fills = {}
INVARIANTS
    JoinsOwnOrganisation
CHECK_DEADLOCK FALSE
