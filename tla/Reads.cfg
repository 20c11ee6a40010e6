CONSTANTS
    Entry = {1, 2, 3}
    Reader = {r1}
    LastDay = 4
    Cap = 2
    Year = 2
    Windows <- MCWindows
    Before <- MCBefore
    May = {"external", "lost"}
    MaxChanges = 2

SPECIFICATION FairSpec
CHECK_DEADLOCK FALSE
INVARIANTS ListsComplete StoredIsCurrent
PROPERTIES DeleteConfirmed ListsEnd
