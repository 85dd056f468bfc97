------------------------- MODULE MCCrrGlobalState -------------------------
(* Instances of CrrGlobalState for TLC.                                   *)
EXTENDS CrrGlobalState

\* Three connections on one fresh file: the first loads race to create the
\* site id table.
MCFileOfOne == [c \in Conns |-> "f1"]
MCFresh == [f \in Files |-> NoId]
MCNoClocks == [f \in Files |-> <<>>]

\* Two files, one connection each: both set the process-wide siteIdBlob.
MCFileOfTwo == [c \in Conns |-> IF c = "c1" THEN "f1" ELSE "f2"]

\* One file already holding a site id and two clock tables whose largest
\* version is in the table created last.
MCExisting == [f \in Files |-> "u1"]
MCTwoClocks == [f \in Files |-> <<3, 5>>]

\* The initial dbVersion -9223372036854775807 scaled to TLC's integers.
MCMinDbVersion == -2147483647
=============================================================================
