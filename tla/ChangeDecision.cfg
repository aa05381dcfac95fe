\* One modified file; other programs write to it and the process ends.
CONSTANTS
    modified = modified
    created = created
    deleted = deleted
    missing = missing
    old = old
    new = new
    other = other
    Changes = {modified}
    Contents <- MCContents
    Missing <- missing
    Before <- MCBefore
    After <- MCAfter
    MaxQueued = 1
    MaxWrites = 2
    MaxExits = 1

SPECIFICATION Spec

INVARIANTS
    TypeOK
    PeerBytesSurvive
    MutationsAreJournaled
    RejectedIsRestored
    MutationsLeaveTrace
PROPERTIES
    DecisionsAreFinal
    NoCommandAfterClose
    FollowsContract
    DecisionEnds
