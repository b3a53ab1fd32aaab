SPECIFICATION FairSpec
CONSTANTS
    Absent = Absent
    Grafanas = {g1}
    Internal = {}
    Names = {d1}
    Contents = {1, 2}
    EditSteps <- ForwardEdit
    Selections <- AllSelected
    OtherWriters = {}
    Readiness = {TRUE, FALSE}
    Folders = {2}
    FolderOf <- NoFolder
    Outcomes = {"ok", "fail"}
    MaxUid = 2
    UiEdits = FALSE
    TimersOutliveLag = FALSE
    CrossNamespace = {}
    BatchSize = 2
INVARIANTS TypeOK IInv
PROPERTIES LiveNotForgotten  Converges
