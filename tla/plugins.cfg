SPECIFICATION FairSpec
CONSTANTS
    Resources <- TwoResources
    Requests <- SomeRequests
    MaxEdits = 2
INVARIANTS TypeOK InstalledOnce AllWrittenInstalled
PROPERTIES RequestsHeeded
