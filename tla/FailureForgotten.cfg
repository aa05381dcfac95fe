\* A failed decision loses its row before its change is in conflict.
CONSTANTS
    modified = modified
    created = created
    deleted = deleted
    missing = missing
    old = old
    new = new
    other = other
    Changes = {modified}
    Contents <- MCContents
    Missing <- missing
    Before <- MCBefore
    After <- MCAfter
    MaxQueued = 1
    MaxWrites = 0
    MaxExits = 0

SPECIFICATION Spec

INVARIANT
    FailureIsConflict
