\* Two connections, cfsql calls on two names, one an ordinary table, no
\* engine error and no crash: the other connection may be reading for the
\* application when a compile commits.
CONSTANTS
    Conns = {c1, c2}
    NoConn = NoConn
    Tables = {"t1", "t2"}
    PlainTables <- MCPlainTables
    MaxCalls = 2
    MaxFaults = 0
    MaxCrashes = 0
SYMMETRY MCSymmetry
SPECIFICATION Spec
INVARIANT OkCreateIsDurable
