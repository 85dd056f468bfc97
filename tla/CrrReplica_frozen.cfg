\* The code as written: cfsql_dbversion() returns the cached dbVersion;
\* three writes and one restart.
CONSTANTS
    Sites = {1, 2}
    Cols = {"c1", "c2"}
    Vals = {"x", "y"}
    NoVal = NoVal
    MinDbVersion <- MCMinDbVersion
    MaxWrites = 3
    MaxRestarts = 1
SPECIFICATION FairSpec
PROPERTY EventuallyConsistent
