SPECIFICATION FairSpec
CONSTANTS
    Capacity = 2
    MaxEvents = 3
INVARIANTS TypeOK OneSource ErrorsNeverBlock NothingSkipped ToldOfSwitch
PROPERTIES SourceLossNoticed CancelReturns WatchersEnd
CHECK_DEADLOCK FALSE
