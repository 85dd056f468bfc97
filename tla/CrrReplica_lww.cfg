\* The code as written: cfsql_dbversion() returns the cached dbVersion.
\* Two sites, two columns, two values; four writes and one restart, which
\* moves the cached version from MIN_POSSIBLE_DB_VERSION to 0.
CONSTANTS
    Sites = {1, 2}
    Cols = {"c1", "c2"}
    Vals = {"x", "y"}
    NoVal = NoVal
    MinDbVersion <- MCMinDbVersion
    MaxWrites = 4
    MaxRestarts = 1
SPECIFICATION Spec
INVARIANT TypeOK
INVARIANT ClocksCoverRow
