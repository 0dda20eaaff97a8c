SPECIFICATION Spec
CONSTANTS
    Pids = {1, 2}
    Root = 1
    Outside = 0
    Images = {sh}
    Defunct = Defunct
    Gone = Gone
    Asked = Asked
    Zombies = TRUE
    MaxClock = 2
    Unreadable = {}
    Tokened = FALSE
    Dated = FALSE
    Poll = 1
    Linger = 3
INVARIANT StopsAreObserved
CHECK_DEADLOCK FALSE
