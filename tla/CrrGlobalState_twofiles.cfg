\* One connection on each of two fresh database files.
CONSTANTS
    Conns = {"c1", "c2"}
    Files = {"f1", "f2"}
    Uuids = {"u1", "u2", "u3"}
    FileOf <- MCFileOfTwo
    InitialSiteId <- MCFresh
    ClockTables <- MCNoClocks
    NoId = NoId
    NoRows = NoRows
    NoConn = NoConn
    ZeroBlob = ZeroBlob
    MinDbVersion <- MCMinDbVersion
SPECIFICATION Spec
INVARIANT SiteIdAgreement
