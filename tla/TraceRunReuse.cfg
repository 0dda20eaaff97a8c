SPECIFICATION Spec
CONSTANTS
    Pids = {1, 2}
    Root = 1
    Outside = 0
    Images = {sh}
    Defunct = Defunct
    Gone = Gone
    Asked = Asked
    Zombies = TRUE
    MaxClock = 3
    Unreadable = {}
    Tokened = TRUE
    Dated = TRUE
    Poll = 1
    Linger = 3
INVARIANT OnlyDescendants
CHECK_DEADLOCK FALSE
