\* Two files; a run may be cut off once.
CONSTANTS
    w1 = w1
    Workspaces <- MCWorkspaces
    Home = w1
    Paths = {1, 2}
    GateLimit = 1
    ChangeLimit = 1
    Contents = {1, 2}
    Parsable = {2}
    Import <- MCImport
    Private = {}
    Embeds = TRUE
    MaxEnsures = 2
    MaxEdits <- MCMaxEdits
    MaxFaults = 1

SPECIFICATION Spec

INVARIANT
    ImportersReprocessed
CHECK_DEADLOCK FALSE
