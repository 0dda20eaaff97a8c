SPECIFICATION FairSpec
CONSTANTS
    Pids = {1, 2}
    Root = 1
    Outside = 0
    Images = {sh}
    Defunct = Defunct
    Gone = Gone
    Asked = Asked
    Zombies = TRUE
    MaxClock = 1
    Unreadable = {}
    Tokened = TRUE
    Dated = FALSE
    Poll = 1
    Linger = 2
INVARIANT RootStopIsItsEnd
PROPERTIES TailEnds ChildIsFollowed
CHECK_DEADLOCK FALSE
