\* Every query shape on every catalog shape (no, one, two and an unkeyed
\* clock table), with the code as written, with pTab set, and with pTab set
\* and the query preparing; two Filter calls per cursor, so a cursor is
\* rewound at EOF and mid-scan; at most one allocation or engine failure.
CONSTANTS
    Sites = {s1, s2}
    s1 = s1
    s2 = s2
    p1 = p1
    p2 = p2
    NULL = NULL
    Clock <- MCClock
    NameOrder <- MCNameOrder
    KeyedTables <- MCKeyedTables
    Catalogs <- MCCatalogs
    HostQueries <- MCAllQueries
    RepairChoices <- MCEveryRepair
    MinDbVersion <- MCMinDbVersion
    MaxQueries = 2
    MaxScans = 2
    MaxFaults = 1
SPECIFICATION Spec
INVARIANT TypeOK
