\* Two Builds of one workspace, two ordinary files and a protected one, and a
\* batch of one path.
CONSTANTS
    w1 = w1
    b1 = b1
    b2 = b2
    k1 = k1
    k2 = k2
    Workspaces <- MCWorkspaces
    Builds <- MCBuilds
    WorkspaceOf <- MCWorkspaceOf
    Conversations <- MCConversations
    ConversationOf <- MCConversationOf
    NoBuild = NoBuild
    Changes = {c1, c2, c3}
    Blocked = {c3}
    Paths = {p1, p2}
    GateLimit = 1
    WatcherFails = TRUE

SPECIFICATION Spec

INVARIANTS
    TypeOK
    HoldUnlessShared
    HoldHasReason
    UndecidedIsTracked
    NothingForgotten
PROPERTIES
    HoldEnds
CHECK_DEADLOCK FALSE
