\* Two connections making three cfsql calls on two names, one of them an
\* ordinary table already, with one engine error and one crash.
CONSTANTS
    Conns = {c1, c2}
    NoConn = NoConn
    Tables = {"t1", "t2"}
    PlainTables <- MCPlainTables
    MaxCalls = 3
    MaxFaults = 1
    MaxCrashes = 1
SYMMETRY MCSymmetry
SPECIFICATION Spec
INVARIANT TypeOK
INVARIANT CommittedCrrIsPrefix
INVARIANT PartialOnlyAfterFailure
