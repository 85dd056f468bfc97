\* Two connections loading the extension concurrently on one fresh file,
\* each thread running its load to the end.
CONSTANTS
    Conns = {"c1", "c2"}
    Files = {"f1"}
    Uuids = {"u1", "u2"}
    FileOf <- MCFileOfOne
    InitialSiteId <- MCFresh
    ClockTables <- MCNoClocks
    NoId = NoId
    NoRows = NoRows
    NoConn = NoConn
    ZeroBlob = ZeroBlob
    MinDbVersion <- MCMinDbVersion
SPECIFICATION FairSpec
PROPERTY SomeConnectionLoads
