\* Two runs, so that one can be sent, refused or started while the other is
\* prepared, runs or drains behind a closed window; two tool calls of each;
\* one process end; every write for one of them may throw.
SPECIFICATION Spec
CONSTANTS
    Runs = {r1, r2}
    NoRun = NoRun
    MaxCalls = 2
    MaxRestarts = 1
    AsksForFiles = FALSE
    Fragile = {r1}
INVARIANTS
    TypeOK
    WaiterIsAnswerable
    EffectIsApproved
    OutcomeIsStored
    OneLiveTurn
    OpenRowHasRun
PROPERTIES
    RowsAreFinal
    ShownInOrder
    NoToolAfterCancel
    SlotIsFreed
CHECK_DEADLOCK FALSE
