SPECIFICATION AccessFairSpec
CONSTANTS
    Absent = Absent
    password1 = password1
    drawn1 = drawn1
    url1 = url1
    Specs <- AccessSpecs
    SpecSteps <- ForwardSteps
    OpenShift = FALSE
    RouteHosts = {TRUE}
    Requests <- NoRequests
    Passwords = {drawn1}
    Content = {}
    Outcomes = {"ok", "fail"}
    Touched = {}
    Lagging = {}
    MaxUid = 1
    LastDeleted = FALSE
INVARIANTS ReadyHasUrl NoWrongPassword AccessTrails
PROPERTIES AdminAccess Converges
