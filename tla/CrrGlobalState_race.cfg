\* Three connections loading the extension on one fresh database file.
CONSTANTS
    Conns = {"c1", "c2", "c3"}
    Files = {"f1"}
    Uuids = {"u1", "u2", "u3"}
    FileOf <- MCFileOfOne
    InitialSiteId <- MCFresh
    ClockTables <- MCNoClocks
    NoId = NoId
    NoRows = NoRows
    NoConn = NoConn
    ZeroBlob = ZeroBlob
    MinDbVersion <- MCMinDbVersion
SPECIFICATION Spec
INVARIANT TypeOK
INVARIANT SiteIdAgreement
PROPERTY SiteIdStable
