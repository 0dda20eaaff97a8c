SPECIFICATION Spec
CONSTANTS
    Pids = {p1}
    Images = {sh, vi}
    Defunct = Defunct
    Gone = Gone
    Blank = Blank
    Zombies = TRUE
    MaxClock = 2
    Cpus = {c1}
    Skips = FALSE
    Losses = TRUE
    Capacity = 2
    SeqWidth = 2
    MaxNotices = 3
INVARIANTS TypeOK TableSound TableExact
PROPERTY GapsTellLosses
CHECK_DEADLOCK FALSE
