SPECIFICATION FairSpec
CONSTANTS
    Pids = {p1}
    Images = {sh, vi}
    Defunct = Defunct
    Gone = Gone
    Zombies = TRUE
    MaxClock = 2
    Tokened = TRUE
    Skips = TRUE
    Offsets <- ExactClock
INVARIANTS TypeOK LogMatchesTable PidSharedOnlyWhileStopping
PROPERTIES KeepsPromise EndIsReported StartIsReported
CHECK_DEADLOCK FALSE
