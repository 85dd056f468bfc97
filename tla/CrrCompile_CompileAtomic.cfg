\* One connection, cfsql calls on two names, one an ordinary table, one
\* engine error.
CONSTANTS
    Conns = {c1}
    NoConn = NoConn
    Tables = {"t1", "t2"}
    PlainTables <- MCPlainTables
    MaxCalls = 3
    MaxFaults = 1
    MaxCrashes = 0
SPECIFICATION Spec
INVARIANT CompileAtomic
