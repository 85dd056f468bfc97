---------------------------- MODULE MCCrrReplica ----------------------------
(* Instances of CrrReplica for TLC.                                       *)
EXTENDS CrrReplica

\* MIN_POSSIBLE_DB_VERSION scaled to TLC's integers.
MCMinDbVersion == -2147483646
=============================================================================
