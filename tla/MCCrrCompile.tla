--------------------------- MODULE MCCrrCompile ---------------------------
(* Instances of CrrCompile for TLC.                                       *)
EXTENDS CrrCompile, TLC

\* t2 is already an ordinary table of the application.
MCPlainTables == {"t2"}

\* Connections are interchangeable.
MCSymmetry == Permutations(Conns)
=============================================================================
