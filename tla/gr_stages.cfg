SPECIFICATION Spec
CONSTANTS
    Absent = Absent
    password1 = password1
    drawn1 = drawn1
    drawn2 = drawn2
    Specs <- TwoSpecs
    SpecSteps <- ForwardSteps
    OpenShift = TRUE
    RouteHosts = {TRUE}
    Requests <- OneRequest
    Passwords = {drawn1, drawn2}
    Content = {"d"}
    Outcomes = {"ok", "fail", "lost"}
    Touched = {"secret"}
    Lagging = {"secret"}
    MaxUid = 1
    LastDeleted = TRUE
INVARIANTS TypeOK IInv
PROPERTIES PasswordKept PodsFindEverything ContentKept
SYMMETRY PasswordSymmetry
