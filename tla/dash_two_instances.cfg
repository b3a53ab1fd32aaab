SPECIFICATION FairSpec
CONSTANTS
    Absent = Absent
    Grafanas = {g1, g2}
    Internal = {}
    Names = {d1}
    Contents = {1, 2}
    EditSteps <- ForwardEdit
    Selections <- AllSelected
    OtherWriters = {}
    Readiness = {TRUE}
    Folders = {"ops"}
    FolderOf <- NoFolder
    Outcomes = {"ok", "fail"}
    MaxUid = 1
    UiEdits = FALSE
    TimersOutliveLag = TRUE
    CrossNamespace = {}
    Derived = {}
    PluginUsers = {}
    BatchSize = 2
PROPERTIES Converges
