SPECIFICATION FairSpec
CONSTANTS
    Absent = Absent
    Grafanas = {g1}
    Internal = {g1}
    Names = {d1}
    Contents = {1}
    EditSteps <- ForwardEdit
    Selections <- AllSelected
    OtherWriters = {}
    Readiness = {TRUE, FALSE}
    Folders = {}
    FolderOf <- NoFolder
    Outcomes = {"ok", "fail"}
    MaxUid = 2
    UiEdits = FALSE
    TimersOutliveLag = TRUE
    CrossNamespace = {}
    PluginUsers = {}
    TitleOf <- OwnTitle
    BatchSize = 2
INVARIANTS TypeOK IInv
PROPERTIES Converges LiveNotDeleted LiveNotForgotten
