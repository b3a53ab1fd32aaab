SPECIFICATION ReplicasSpec
CONSTANTS
    Absent = Absent
    Grafanas = {g1}
    Internal = {}
    Names = {d1}
    Contents = {1}
    EditSteps <- NoEdit
    Selections <- AllSelected
    OtherWriters = {}
    Readiness = {TRUE}
    Folders = {"ops"}
    FolderOf <- NoFolder
    Outcomes = {"ok", "fail"}
    MaxUid = 2
    UiEdits = FALSE
    TimersOutliveLag = FALSE
    CrossNamespace = {}
    Derived = {}
    PluginUsers = {}
    BatchSize = 1
PROPERTIES StandbyHarmless
CHECK_DEADLOCK FALSE
