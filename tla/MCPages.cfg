\* Each of the pages' scripts, with as many concurrent requests as it can have.
SPECIFICATION PagesSpec
CONSTANTS
    Jobs = {n1, c1}
    PostJobs = {n1}
    CertsJobs = {c1}
    Calls = {u1, u2}
    MaxRequests = 1
    MaxFailures = 1
    Items = {i1}
    Polls = {p1, p2}
    MaxErrors = 1
    Files = {f1, f2}
    Posts = {x1, x2}
    Environments = {e1, e2, e3}
    Served = {e1, e2}
    Gets = {g1, g2}
    Modals = {m1, m2}
    Stylesheets = {{}, {"visible"}, {"hidden"}, {"visible", "hidden"}}
    MaxWaiting = 2
    N = 2
    SvgFiles = {s1, s2}
    NTabs = 3
    Panels = {k1, k2}
    Overflows = {o1, o2}
    Dropdowns = {d1, d2}
    Options = {v1, v2}
    NoOption = none
INVARIANTS
    PagesTypeOK
    PollingIsOneChain
    NeverInBothLists
    DialogsConsistent
    WidgetsConsistent
    PageIsWatched
PROPERTIES
    PageCatchesUp
    RowsFollowRequests
    FormsSendOnce
    LocationsFollowChoice
