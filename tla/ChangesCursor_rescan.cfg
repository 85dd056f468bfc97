\* Both repaired, one query on two tables, a cursor filtered twice: the
\* rewind after EOF reads the strings the first scan freed.
CONSTANTS
    Sites = {s1, s2}
    s1 = s1
    s2 = s2
    p1 = p1
    p2 = p2
    NULL = NULL
    Clock <- MCClock
    NameOrder <- MCNameOrder
    KeyedTables <- MCKeyedTables
    Catalogs <- MCTwoTables
    HostQueries <- MCBoth
    RepairChoices <- MCBothFixed
    MinDbVersion <- MCMinDbVersion
    MaxQueries = 1
    MaxScans = 2
    MaxFaults = 0
SPECIFICATION Spec
INVARIANT NoUseAfterFree
