\* One run, and a write that may throw.
SPECIFICATION Spec
CONSTANTS
    Runs = {r1}
    NoRun = NoRun
    MaxCalls = 1
    MaxRestarts = 0
    AsksForFiles = FALSE
    Fragile = {r1}
PROPERTIES
    CancelFreesSlot
CHECK_DEADLOCK FALSE
