\* A created and a deleted file, decided one by one and reverted together.
CONSTANTS
    modified = modified
    created = created
    deleted = deleted
    missing = missing
    old = old
    new = new
    other = other
    Changes = {created, deleted}
    Contents <- MCContents
    Missing <- missing
    Before <- MCBefore
    After <- MCAfter
    MaxQueued = 1
    MaxWrites = 0
    MaxExits = 0

SPECIFICATION Spec

INVARIANTS
    SetFollowsChanges
PROPERTIES
    RevertIsComplete
