\* One connection loading the extension on a file that already holds a site
\* id and two clock tables with versions 3 and 5 from other sites.
CONSTANTS
    Conns = {"c1"}
    Files = {"f1"}
    Uuids = {"u1", "u2"}
    FileOf <- MCFileOfOne
    InitialSiteId <- MCExisting
    ClockTables <- MCTwoClocks
    NoId = NoId
    NoRows = NoRows
    NoConn = NoConn
    ZeroBlob = ZeroBlob
    MinDbVersion <- MCMinDbVersion
SPECIFICATION Spec
INVARIANT DbVersionCoversClocks
