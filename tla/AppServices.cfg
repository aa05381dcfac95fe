SPECIFICATION Spec
INVARIANTS TypeOK StatusTellsTheTruth NothingHalfDone MatchesReference
PROPERTIES NothingIsTakenBack WorkEnds
CHECK_DEADLOCK FALSE
