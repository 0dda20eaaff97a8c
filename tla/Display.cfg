SPECIFICATION MCSpec
CONSTANTS
    Texts = {1, 2}
    Searches = {0, 1}
    EventLimit = 3
    Sorts = 2
    Heights = {14, 15}
    Reserved = 13
    MinRows = 1
    Uids = {root, alice, bob}
    Callers = {c1, c2}
    NoUid = NoUid
    QueueCapacity = 1
INVARIANTS ScreenIsCurrent BlankOnlyAfterTrim TerminalRestored RequestedOnce
PROPERTY AllAreNamed
CHECK_DEADLOCK FALSE
