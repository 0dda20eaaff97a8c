SPECIFICATION Spec
CONSTANTS
    Pids = {p1}
    Images = {sh}
    Defunct = Defunct
    Gone = Gone
    Blank = Blank
    Zombies = FALSE
    MaxClock = 2
    Cpus = {c1}
    Skips = FALSE
    Losses = FALSE
    Capacity = 2
    SeqWidth = 2
    MaxNotices = 3
INVARIANT StartedOnce
CHECK_DEADLOCK FALSE
