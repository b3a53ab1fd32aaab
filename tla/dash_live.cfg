SPECIFICATION FairSpec
CONSTANTS
    Absent = Absent
    Grafanas = {g1}
    Internal = {g1}
    Names = {d1}
    Contents = {1, 2}
    EditSteps <- ForwardEdit
    Selections <- AllSelected
    OtherWriters = {g1}
    Readiness = {TRUE, FALSE}
    Folders = {"ops"}
    FolderOf <- NoFolder
    Outcomes = {"ok", "fail"}
    MaxUid = 1
    UiEdits = FALSE
    TimersOutliveLag = TRUE
    CrossNamespace = {}
    Derived = {}
    PluginUsers = {}
    BatchSize = 1
INVARIANTS HashVouches ContentTrails
PROPERTIES Converges StaleEntriesRemoved SyncCompletes ImplementsLedger
