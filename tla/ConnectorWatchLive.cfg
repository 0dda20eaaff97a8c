SPECIFICATION FairSpec
CONSTANTS
    Pids = {p1}
    Images = {sh}
    Defunct = Defunct
    Gone = Gone
    Blank = Blank
    Zombies = TRUE
    MaxClock = 2
    Cpus = {c1}
    Skips = FALSE
    Losses = TRUE
    Capacity = 1
    SeqWidth = 2
    MaxNotices = 2
PROPERTIES GoneIsForgotten RunningIsKnown OverrunIsReported
CHECK_DEADLOCK FALSE
