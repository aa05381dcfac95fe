\* One run and one shutdown; no write throws.
SPECIFICATION Spec
CONSTANTS
    Runs = {r1}
    NoRun = NoRun
    MaxCalls = 1
    MaxRestarts = 0
    AsksForFiles = FALSE
    Fragile = {}
INVARIANTS
    ShutdownAwaitsCommands
CHECK_DEADLOCK FALSE
