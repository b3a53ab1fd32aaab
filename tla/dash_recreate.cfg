SPECIFICATION Spec
CONSTANTS
    Absent = Absent
    Grafanas = {g1}
    Internal = {}
    Names = {d1}
    Contents = {c1, c2}
    EditSteps <- AnyEdit
    Selections <- AllSelected
    OtherWriters = {}
    Readiness = {TRUE}
    Folders = {"ops"}
    FolderOf <- OneFolder
    Outcomes = {"ok", "fail", "lost"}
    MaxUid = 2
    UiEdits = TRUE
    TimersOutliveLag = FALSE
    CrossNamespace = {}
    Derived = {}
    PluginUsers = {}
    BatchSize = 1
INVARIANTS TypeOK IInv HashImpliesRecorded
PROPERTIES LiveNotDeleted LiveNotForgotten
SYMMETRY ContentSymmetry
