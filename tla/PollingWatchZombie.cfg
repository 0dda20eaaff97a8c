SPECIFICATION Spec
CONSTANTS
    Pids = {p1}
    Images = {sh, vi}
    Defunct = Defunct
    Gone = Gone
    Zombies = TRUE
    MaxClock = 2
    Tokened = TRUE
    Skips = FALSE
    Offsets <- ExactClock
INVARIANT ExecIsReplacement
CHECK_DEADLOCK FALSE
