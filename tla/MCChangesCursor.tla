-------------------------- MODULE MCChangesCursor --------------------------
(* Instances of ChangesCursor for TLC.                                    *)
EXTENDS ChangesCursor

CONSTANTS s1, s2, p1, p2

\* Table a has two rows written by s2 (versions 1 and 2) and one by s1;
\* table b one row by s2; table c has no primary key.
MCClock ==
    {[tbl |-> "a", pk |-> p1, site |-> s2, version |-> 1],
     [tbl |-> "a", pk |-> p2, site |-> s2, version |-> 2],
     [tbl |-> "a", pk |-> p1, site |-> s1, version |-> 3],
     [tbl |-> "b", pk |-> p1, site |-> s2, version |-> 2]}

MCNameOrder == <<"a", "b", "c">>
MCKeyedTables == {"a", "b"}

MCTwoTables == {<<"a", "b">>}
MCCatalogs == {<<>>, <<"a">>, <<"a", "b">>, <<"b", "c">>}

Con(col, op, usable, val) == [col |-> col, op |-> op, usable |-> usable, val |-> val]

\* requestor = s1 AND curr_version > 0, in both orders of the WHERE clause.
QBoth == <<Con(VRSN, "GT", TRUE, 0), Con(RQSTR, "EQ", TRUE, s1)>>
QBothReversed == <<Con(RQSTR, "EQ", TRUE, s1), Con(VRSN, "GT", TRUE, 1)>>
\* curr_version > 0 only, and no constraint at all.
QVersion == <<Con(VRSN, "GT", TRUE, 0)>>
QNone == << >>
\* curr_version >= 0, which BestIndex refuses.
QAtLeast == <<Con(VRSN, "GE", TRUE, 0)>>
\* The version bound comes from a table joined later, so is not usable.
QJoined == <<Con(VRSN, "GT", FALSE, 0), Con(RQSTR, "EQ", TRUE, s1)>>

\* requestor = s1 AND requestor = s2: BestIndex omits both, Filter reads one.
QTwoRequestors == <<Con(RQSTR, "EQ", TRUE, s1), Con(RQSTR, "EQ", TRUE, s2)>>
\* requestor = NULL: Filter substitutes the static pointer 0x10.
QNullRequestor == <<Con(RQSTR, "EQ", TRUE, NULL)>>

MCAllQueries == {QBoth, QBothReversed, QVersion, QNone, QAtLeast, QJoined,
                 QTwoRequestors, QNullRequestor}
MCBoth == {QBoth}

\* MIN_POSSIBLE_DB_VERSION as initDbVersion uses it.
MCMinDbVersion == -2147483647
\* Which defects a behaviour assumes repaired: none (the code as written),
\* the unset pTab, or both it and the query's column names.
MCAsWritten == {{}}
MCBothFixed == {{"openSetsTab", "queryPrepares"}}
MCEveryRepair == {{}, {"openSetsTab"}, {"openSetsTab", "queryPrepares"}}
=============================================================================
