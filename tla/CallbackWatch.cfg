SPECIFICATION FairSpec
CONSTANTS
    Pids = {p1}
    Images = {sh, vi}
    Defunct = Defunct
    Gone = Gone
    Zombies = TRUE
    MaxClock = 2
    Versions = {0, 2, 4}
    Blank = Blank
    Says <- PathsAtForks
    Skips = FALSE
    Buffers = 1
    Capacity = 1
    First = 1
    MaxNotices <- NoticeBounds
INVARIANTS TableSound TableExact Released
PROPERTIES LossIsReported GoneIsForgotten
CHECK_DEADLOCK FALSE
