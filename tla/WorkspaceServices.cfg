\* One workspace, two files with two contents each, and events and batches
\* that name one path at most.
CONSTANTS
    w1 = w1
    Workspaces <- MCWorkspaces
    Home = w1
    Paths = {1, 2}
    GateLimit = 1
    ChangeLimit = 1
    Contents = {1, 2}
    Parsable = {2}
    Import <- MCImport
    Private = {1}
    Embeds = TRUE
    MaxEnsures = 2
    MaxEdits <- MCMaxEdits
    MaxFaults = 1

SPECIFICATION Spec

INVARIANTS
    TypeOK
    StaleIsOwed
    UnreadIsReported
    RelationsFollowFiles
    UnitsFollowRows
PROPERTIES
    IndexCatchesUp
    SemanticSettles
CHECK_DEADLOCK FALSE
