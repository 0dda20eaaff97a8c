SPECIFICATION Spec
CONSTANTS
    Pids = {1, 2}
    Root = 1
    Outside = 0
    Images = {sh}
    Defunct = Defunct
    Gone = Gone
    Asked = Asked
    Zombies = TRUE
    MaxClock = 2
    Unreadable = {1}
    Tokened = TRUE
    Dated = TRUE
    Poll = 1
    Linger = 3
INVARIANTS TypeOK WaitsForRoot EndIsExplained RootStopIsItsEnd StopMeansGone
PROPERTY KeepsPromise
CHECK_DEADLOCK FALSE
