SPECIFICATION FairSpec
CONSTANTS
    Absent = Absent
    Grafanas = {g1}
    Internal = {g1}
    Names = {d1}
    Contents = {1}
    EditSteps <- AnyEdit
    Selections <- AllSelected
    OtherWriters = {}
    Readiness = {TRUE}
    Folders = {}
    FolderOf <- NoFolder
    Outcomes = {"ok", "fail"}
    MaxUid = 1
    UiEdits = FALSE
    TimersOutliveLag = TRUE
    CrossNamespace = {}
    PluginUsers = {}
    TitleOf <- OwnTitle
    BatchSize = 2
PROPERTIES SyncCompletes
