---------------------------- MODULE ChangesCursor ----------------------------
(***************************************************************************)
(* The changes virtual table (src/changes-since-vtab.c) as SQLite drives  *)
(* it: connect, then queries that are planned (xBestIndex), open a cursor, *)
(* filter it, read rows until EOF and close it, then disconnect.          *)
(*                                                                         *)
(* The heap is a sequence of allocations, each live or freed; a pointer is *)
(* NULL or an index into it.  Every sqlite3_malloc, sqlite3_mprintf and    *)
(* prepare of the code is an allocation, every free and finalize a free;  *)
(* a free of a freed block aborts the process, a read of one is recorded.  *)
(* Clock rows are abstracted to (table, pk, site, version).               *)
(*                                                                         *)
(* Two defects stop every scan before it returns a row: changesSinceOpen   *)
(* never sets pCur->pTab, so Filter dereferences NULL (line 350); and the  *)
(* per-table query names columns no clock table has (__cfsql__version,    *)
(* __cfsql_col_num, lines 198-199), so prepare fails.  repaired holds the  *)
(* ones assumed repaired: {} is the code as written; the other values let *)
(* the rest of the lifecycle, which is modelled as written, be explored.   *)
(***************************************************************************)
EXTENDS Integers, Sequences, FiniteSets
LOCAL INSTANCE SequencesExt

CONSTANTS
    Sites,          \* site ids (model values)
    Catalogs,       \* possible clock-table lists, in CLOCK_TABLES_SELECT order
    NameOrder,      \* all table names, sorted by name (ORDER BY tbl)
    KeyedTables,    \* tables whose TableInfo has primary keys
    Clock,          \* clock rows [tbl, pk, site, version]
    HostQueries,    \* constraint sequences the host plans queries with
    RepairChoices,  \* sets of defects assumed repaired, one per behaviour
    MinDbVersion,   \* MIN_POSSIBLE_DB_VERSION
    MaxQueries,     \* bound on queries planned
    MaxScans,       \* bound on xFilter calls per cursor
    MaxFaults,      \* bound on allocation and engine failures
    NULL

ASSUME RepairChoices \subseteq SUBSET {"openSetsTab", "queryPrepares"}
ASSUME NULL \notin Sites

\* Column numbers of the declared table (lines 77-82).
VRSN == 4
RQSTR == 5

VARIABLES
    host,       \* where SQLite is in driving the table
    heap,       \* sequence of [kind, live, elems]
    vtab,       \* the cfsql_ChangesSince_vtab, or NULL
    crsr,       \* fields of the open cursor, or NULL
    tables,     \* the clock tables in the catalog
    repaired,   \* the defects assumed repaired in this behaviour
    query,      \* the query being run: constraints, plan, Filter's arguments
    stmtRows,   \* rows pChangesStmt has still to step to
    stmtRow,    \* the row pChangesStmt is on, NULL before its first step
    emitted,    \* rows SQLite read in the current scan
    scanEnded,  \* the current scan has ended, by EOF or an error
    outcome,    \* how the last planning attempt ended
    aborted,    \* "no", or why the process died
    unsafeRead, \* a freed block has been read
    queries, scans, faults

vars == <<host, heap, vtab, crsr, tables, repaired, query, stmtRows, stmtRow,
          emitted, scanEnded, outcome, aborted, unsafeRead, queries, scans,
          faults>>

-----------------------------------------------------------------------------
(* Planning: changesSinceBestIndex and what SQLite demands of its answer. *)

LastOn(cons, col) ==
    LET I == {i \in DOMAIN cons : cons[i].col = col}
    IN  IF I = {} THEN 0 ELSE CHOOSE i \in I : \A j \in I : j <= i

\* The loop keeps the last constraint on each column, rejects a version
\* constraint that is not '>' and a requestor one that is not '=', and gives
\* every requestor constraint argvIndex 2; the branches then assign the
\* slots.  omit is set exactly where argvIndex is; the cost is not modelled.
BestIndex(cons) ==
    LET v == LastOn(cons, VRSN)
        r == LastOn(cons, RQSTR)
        idxNum == (IF v > 0 THEN 2 ELSE 0) + (IF r > 0 THEN 4 ELSE 0)
        inLoop == [i \in DOMAIN cons |-> IF cons[i].col = RQSTR THEN 2 ELSE 0]
        usage == CASE idxNum = 6 -> [inLoop EXCEPT ![v] = 1, ![r] = 2]
                   [] idxNum = 2 -> [inLoop EXCEPT ![v] = 1]
                   [] idxNum = 4 -> [inLoop EXCEPT ![r] = 1]
                   [] OTHER      -> inLoop
    IN  IF \E i \in DOMAIN cons : \/ cons[i].col = VRSN /\ cons[i].op # "GT"
                                  \/ cons[i].col = RQSTR /\ cons[i].op # "EQ"
        THEN [rc |-> "constraint", idxNum |-> 0, argvIndex |-> inLoop]
        ELSE [rc |-> "ok", idxNum |-> idxNum, argvIndex |-> usage]

UsedSlots(plan) == {i \in DOMAIN plan.argvIndex : plan.argvIndex[i] > 0}

\* SQLite's check of the answer: an argvIndex only on a usable constraint,
\* and the slots used are 1..k, each once; otherwise "xBestIndex malfunction".
PlanAcceptable(cons, plan) ==
    LET U == UsedSlots(plan)
    IN  /\ \A i \in U : cons[i].usable
        /\ \A i, j \in U : i # j => plan.argvIndex[i] # plan.argvIndex[j]
        /\ {plan.argvIndex[i] : i \in U} = 1..Cardinality(U)

Argv(cons, plan) ==
    [k \in 1..Cardinality(UsedSlots(plan)) |->
        cons[CHOOSE i \in UsedSlots(plan) : plan.argvIndex[i] = k].val]

\* How Filter decodes argv (lines 416-439): the version bound from slot 1 if
\* bit 2 is set, the requestor from the next slot if bit 4 is; an absent or
\* empty requestor becomes the static pointer 0x10.
FilterArgs(idxNum, argv) ==
    LET hasV == idxNum \in {2, 6}
        hasR == idxNum \in {4, 6}
        rv   == argv[IF hasV THEN 2 ELSE 1]
    IN  [bound     |-> IF hasV THEN argv[1] ELSE MinDbVersion,
         requestor |-> IF hasR /\ rv # NULL THEN rv ELSE "static"]

-----------------------------------------------------------------------------
(* The changes query: one arm per clock table, UNION, ORDER BY.           *)

MinVersion(S) == CHOOSE x \in S : \A y \in S : x <= y

\* One arm (cfsql_changeQueryForTable): the clock rows of t from other
\* sites newer than the bound, grouped by pk, with their least version.
ArmRows(t, rq, bound) ==
    LET Q == {c \in Clock : c.tbl = t /\ c.site # rq /\ c.version > bound}
    IN  {[tbl |-> t, pk |-> p,
          minv |-> MinVersion({c.version : c \in {d \in Q : d.pk = p}})] :
            p \in {c.pk : c \in Q}}

\* The bind loop (lines 445-455) binds parameters 1..n of the 2n: arm k's
\* site (2k-1) and version (2k) parameters; a NULL parameter selects nothing.
BoundArms(n) == {k \in 1..n : 2 * k <= n}

ChangesRows(cat, args) ==
    UNION {ArmRows(cat[k], args.requestor, args.bound) : k \in BoundArms(Len(cat))}

Rank(t) == CHOOSE i \in DOMAIN NameOrder : NameOrder[i] = t

InChangesOrder(a, b) ==
    a.minv < b.minv \/ (a.minv = b.minv /\ Rank(a.tbl) <= Rank(b.tbl))

\* ORDER BY min_v, tbl (cfsql_changesUnionQuery): every order SQLite may
\* return, ties being unordered.
ChangesOrderings(rows) ==
    {s \in SetToSeqs(rows) : IsSorted(s, InChangesOrder)}

\* The union reads the requestor blob, which is the static pointer 0x10
\* when none was given, as soon as an arm with a bound site has a row.
ReadsWildPointer(cat, args) ==
    /\ args.requestor = "static"
    /\ \E k \in 1..Len(cat) : 2 * k - 1 <= Len(cat) /\ \E c \in Clock : c.tbl = cat[k]

\* What the spec promises (section 8, property 6): every change of every
\* clock table from another site newer than the watermark.
ExpectedChanges(cat, args) ==
    LET Q == {c \in Clock : /\ \E k \in DOMAIN cat : c.tbl = cat[k]
                            /\ c.site # args.requestor
                            /\ c.version > args.bound}
    IN  {[tbl |-> c.tbl, pk |-> c.pk,
          minv |-> MinVersion({d.version : d \in {e \in Q : e.tbl = c.tbl /\ e.pk = c.pk}})] :
            c \in Q}

-----------------------------------------------------------------------------
(* The heap.                                                               *)

Block(kind) == [kind |-> kind, live |-> TRUE, elems |-> <<>>]

Ptr == {NULL} \cup Nat

\* The allocations ptrs freed in order, with the double frees among them.
Freed(h, ptrs) ==
    [a \in DOMAIN h |-> IF \E i \in DOMAIN ptrs : ptrs[i] = a
                        THEN [h[a] EXCEPT !.live = FALSE] ELSE h[a]]

FreesTwice(h, ptrs) ==
    \E i \in DOMAIN ptrs :
        /\ ptrs[i] # NULL
        /\ \/ ~h[ptrs[i]].live
           \/ \E j \in 1..(i - 1) : ptrs[j] = ptrs[i]

\* Free the blocks, aborting the process on a double free.
Release(ptrs) ==
    /\ heap' = Freed(heap, ptrs)
    /\ aborted' = IF FreesTwice(heap, ptrs) THEN "doubleFree" ELSE aborted

Unsafe(p) == p # NULL /\ ~heap[p].live

\* What changesSinceCrsrFinalize frees (lines 123-138): the statement, the
\* first tableInfosLen TableInfos, the array, colVals and colVrsns.  Only
\* pChangesStmt is reset afterwards.
CrsrFinalizeFrees(c) ==
    <<c.stmt>>
    \o (IF c.tableInfos = NULL THEN <<>>
        ELSE SubSeq(heap[c.tableInfos].elems, 1, c.tableInfosLen))
    \o <<c.tableInfos, c.colVals, c.colVrsns>>

-----------------------------------------------------------------------------

Init ==
    /\ host = "start"
    /\ heap = <<>>
    /\ vtab = NULL
    /\ crsr = NULL
    /\ tables \in Catalogs
    /\ repaired \in RepairChoices
    /\ query = NULL
    /\ stmtRows = <<>>
    /\ stmtRow = NULL
    /\ emitted = <<>>
    /\ scanEnded = FALSE
    /\ outcome = "none"
    /\ aborted = "no"
    /\ unsafeRead = FALSE
    /\ queries = 0 /\ scans = 0 /\ faults = 0

Live == aborted = "no"

\* changesSinceConnect (lines 63-95): declare the shape, allocate the vtab.
Connect ==
    /\ Live /\ host = "start"
    /\ host' = "idle"
    /\ heap' = Append(heap, Block("vtab"))
    /\ vtab' = Len(heap) + 1
    /\ UNCHANGED <<crsr, tables, repaired, query, stmtRows, stmtRow, emitted,
                   scanEnded, outcome, aborted, unsafeRead, queries, scans,
                   faults>>

\* changesSinceDisconnect (lines 100-105).
Disconnect ==
    /\ Live /\ host = "idle"
    /\ host' = "done"
    /\ Release(<<vtab>>)
    /\ vtab' = NULL
    /\ UNCHANGED <<crsr, tables, repaired, query, stmtRows, stmtRow, emitted,
                   scanEnded, outcome, unsafeRead, queries, scans, faults>>

\* SQLite plans a query with constraints q: BestIndex refuses it, SQLite
\* rejects the answer, or the plan is taken.
Plan ==
    /\ Live /\ host = "idle" /\ queries < MaxQueries
    /\ \E q \in HostQueries :
         LET plan == BestIndex(q) IN
         \/ /\ plan.rc = "constraint"
            /\ outcome' = "noPlan"
            /\ UNCHANGED <<host, query>>
         \/ /\ plan.rc = "ok" /\ ~PlanAcceptable(q, plan)
            /\ outcome' = "malfunction"
            /\ UNCHANGED <<host, query>>
         \/ /\ plan.rc = "ok" /\ PlanAcceptable(q, plan)
            /\ outcome' = "planned"
            /\ host' = "open"
            /\ query' = [cons |-> q, plan |-> plan,
                         args |-> FilterArgs(plan.idxNum, Argv(q, plan))]
    /\ queries' = queries + 1
    /\ emitted' = IF outcome' = "planned" THEN <<>> ELSE emitted
    /\ scanEnded' = (outcome' # "planned" /\ scanEnded)
    /\ UNCHANGED <<heap, vtab, crsr, tables, repaired, stmtRows, stmtRow,
                   aborted, unsafeRead, scans, faults>>

\* A cfsql_ChangesSince_cursor (lines 28-48) as changesSinceOpen's memset
\* leaves it; self is the cursor's own block.
ZeroCursor(self) ==
    [self |-> self, pTab |-> NULL, tableInfos |-> NULL, tableInfosLen |-> 0, stmt |-> NULL,
     colVals |-> NULL, colVrsns |-> NULL, version |-> 0]

\* Faulty variant: the memset is dropped, the fields are left unset.
OpenWithoutMemset ==
    /\ Live /\ host = "open"
    /\ \/ /\ faults < MaxFaults
          /\ faults' = faults + 1
          /\ host' = "idle"
          /\ UNCHANGED <<heap, crsr>>
       \/ /\ host' = "filter"
          /\ heap' = Append(heap, Block("cursor"))
          /\ crsr' = [ZeroCursor(Len(heap) + 1) EXCEPT !.stmt = -1,
                         !.pTab = IF "openSetsTab" \in repaired THEN vtab ELSE NULL]
          /\ UNCHANGED faults
    /\ scans' = 0
    /\ UNCHANGED <<vtab, tables, repaired, query, stmtRows, stmtRow, emitted,
                   scanEnded, outcome, aborted, unsafeRead, queries>>

\* changesSinceOpen (lines 110-121): allocate and zero the cursor, or fail
\* with SQLITE_NOMEM, which fails the query.
Open ==
    /\ Live /\ host = "open"
    /\ \/ /\ faults < MaxFaults
          /\ faults' = faults + 1
          /\ host' = "idle"
          /\ UNCHANGED <<heap, crsr>>
       \/ /\ host' = "filter"
          /\ heap' = Append(heap, Block("cursor"))
          /\ crsr' = [ZeroCursor(Len(heap) + 1) EXCEPT
                         !.pTab = IF "openSetsTab" \in repaired THEN vtab ELSE NULL]
          /\ UNCHANGED faults
    /\ scans' = 0
    /\ UNCHANGED <<vtab, tables, repaired, query, stmtRows, stmtRow, emitted,
                   scanEnded, outcome, aborted, unsafeRead, queries>>

\* changesSinceFilter (lines 342-461) starts, when pTab is set, by
\* finalizing a statement left by an abandoned scan.  Then it lists the
\* clock tables, allocates the TableInfo array, introspects each table,
\* builds the union, prepares it and binds it.  Each outcome is an action.
\* SQLite filters a fresh cursor, or rewinds one at EOF or mid-scan.
Filtering ==
    /\ Live /\ host \in {"filter", "end", "next"} /\ scans < MaxScans
    /\ scans' = scans + 1
    /\ emitted' = <<>>

\* The heap and the cursor once the old statement is finalized (lines 356-359).
RewoundHeap == Freed(heap, <<crsr.stmt>>)
Rewound == [crsr EXCEPT !.stmt = NULL]

\* pTab was never set: pTab->db reads NULL (line 350).
FilterNullTab ==
    /\ Filtering
    /\ crsr.pTab = NULL
    /\ aborted' = "nullTab"
    /\ UNCHANGED <<host, heap, vtab, crsr, tables, repaired, query, stmtRows,
                   stmtRow, scanEnded, outcome, unsafeRead, queries, faults>>

\* No clock table: SQLITE_OK with no statement, so EOF at once.
FilterNoClockTables ==
    /\ Filtering
    /\ crsr.pTab # NULL /\ tables = <<>>
    /\ host' = "eof"
    /\ heap' = RewoundHeap
    /\ crsr' = Rewound
    /\ scanEnded' = FALSE
    /\ UNCHANGED <<vtab, tables, repaired, query, stmtRows, stmtRow, outcome,
                   aborted, unsafeRead, queries, faults>>

\* The TableInfo array's malloc fails and memset writes through NULL.
FilterOutOfMemory ==
    /\ Filtering
    /\ crsr.pTab # NULL /\ tables # <<>> /\ faults < MaxFaults
    /\ faults' = faults + 1
    /\ aborted' = "nullInfos"
    /\ UNCHANGED <<host, heap, vtab, crsr, tables, repaired, query, stmtRows,
                   stmtRow, scanEnded, outcome, unsafeRead, queries>>

\* An error return of the scan: SQLite reports it and closes the cursor.
FilterErrs(leaked) ==
    /\ host' = "close"
    /\ heap' = RewoundHeap \o leaked
    /\ crsr' = Rewound
    /\ scanEnded' = TRUE
    /\ UNCHANGED <<vtab, tables, repaired, query, stmtRows, stmtRow, outcome,
                   aborted, unsafeRead, queries>>

\* cfsql_getTableInfo fails: the TableInfos are freed, the clock table
\* names from sqlite3_get_table are not (lines 382-392).
FilterTableInfoFails ==
    /\ Filtering
    /\ crsr.pTab # NULL /\ tables # <<>> /\ faults < MaxFaults
    /\ faults' = faults + 1
    /\ FilterErrs(<<Block("names")>>)

FirstUnkeyed == CHOOSE k \in DOMAIN tables :
                    /\ tables[k] \notin KeyedTables
                    /\ \A j \in 1..(k - 1) : tables[j] \in KeyedTables

\* A table without primary key: cfsql_changesUnionQuery returns NULL and
\* leaks the arm strings built before it (lines 221-227, 398-404).
FilterNoPrimaryKey ==
    /\ Filtering
    /\ crsr.pTab # NULL /\ \E k \in DOMAIN tables : tables[k] \notin KeyedTables
    /\ FilterErrs([k \in 1..(FirstUnkeyed - 1) |-> Block("sql")])
    /\ UNCHANGED faults

AllKeyed == tables # <<>> /\ \A k \in DOMAIN tables : tables[k] \in KeyedTables

\* prepare fails: the query as written names missing columns, or the
\* engine errs.  zSql is never freed (lines 406-413).
FilterPrepareFails ==
    /\ Filtering
    /\ crsr.pTab # NULL /\ AllKeyed
    /\ \/ "queryPrepares" \notin repaired /\ UNCHANGED faults
       \/ faults < MaxFaults /\ faults' = faults + 1
    /\ FilterErrs(<<Block("sql")>>)

\* The statement is prepared and bound, and stored with the TableInfo array
\* on the cursor; tableInfosLen is not set and zSql is not freed.
FilterPrepared ==
    /\ Filtering
    /\ crsr.pTab # NULL /\ AllKeyed /\ "queryPrepares" \in repaired
    /\ LET n     == Len(tables)
           base  == Len(RewoundHeap)
           array == [Block("infos") EXCEPT !.elems = [i \in 1..n |-> base + 1 + i]]
       IN  /\ heap' = RewoundHeap \o <<array>> \o [i \in 1..n |-> Block("info")]
                                  \o <<Block("sql"), Block("stmt")>>
           /\ crsr' = [Rewound EXCEPT !.tableInfos = base + 1,
                                      !.stmt = base + n + 3]
    /\ stmtRows' \in ChangesOrderings(ChangesRows(tables, query.args))
    /\ stmtRow' = NULL
    /\ host' = "eof"
    /\ scanEnded' = FALSE
    /\ UNCHANGED <<vtab, tables, repaired, query, outcome, aborted,
                   unsafeRead, queries, faults>>

\* changesSinceEof (lines 166-170): EOF when there is no statement.
Eof ==
    /\ Live /\ host = "eof"
    /\ host' = IF crsr.stmt = NULL THEN "end" ELSE "row"
    /\ UNCHANGED <<heap, vtab, crsr, tables, repaired, query, stmtRows,
                   stmtRow, emitted, scanEnded, outcome, aborted, unsafeRead,
                   queries, scans, faults>>

\* SQLite reads the row through changesSinceColumn (lines 302-334) and
\* changesSinceRowid (lines 155-160): table and pk from the statement's
\* current row, colVals and colVrsns as static text, the version.
ReadRow ==
    /\ Live /\ host = "row"
    /\ host' = "next"
    /\ unsafeRead' = \/ unsafeRead
                     \/ \E p \in {crsr.stmt, crsr.colVals, crsr.colVrsns} : Unsafe(p)
    /\ emitted' = Append(emitted,
                    [tbl |-> IF stmtRow = NULL THEN NULL ELSE stmtRow.tbl,
                     pk  |-> IF stmtRow = NULL THEN NULL ELSE stmtRow.pk,
                     version |-> crsr.version])
    /\ UNCHANGED <<heap, vtab, crsr, tables, repaired, query, stmtRows,
                   stmtRow, scanEnded, outcome, aborted, queries, scans,
                   faults>>

Stepping == Live /\ host = "next" /\ crsr.stmt # NULL

\* The first step runs the union, which compares each clock row's site with
\* the requestor blob; with the static 0x10 pointer that read faults.
NextWildRead ==
    /\ Stepping
    /\ stmtRow = NULL /\ ReadsWildPointer(tables, query.args)
    /\ aborted' = "wildRead"
    /\ UNCHANGED <<host, heap, vtab, crsr, tables, repaired, query, stmtRows,
                   stmtRow, emitted, scanEnded, outcome, unsafeRead, queries,
                   scans, faults>>

Steps == Stepping /\ ~(stmtRow = NULL /\ ReadsWildPointer(tables, query.args))

\* changesSinceNext (lines 252-296) at the end: changesSinceCrsrFinalize.
NextDone ==
    /\ Steps /\ stmtRows = <<>>
    /\ Release(CrsrFinalizeFrees(crsr))
    /\ crsr' = [crsr EXCEPT !.stmt = NULL]
    /\ host' = "eof"
    /\ scanEnded' = TRUE
    /\ UNCHANGED <<vtab, tables, repaired, query, stmtRows, stmtRow, emitted,
                   outcome, unsafeRead, queries, scans, faults>>

\* changesSinceNext on a row: version is min_v, and colVals and colVrsns
\* are new strings that replace, without freeing, the previous ones.
NextRow ==
    /\ Steps /\ stmtRows # <<>>
    /\ stmtRow' = Head(stmtRows)
    /\ stmtRows' = Tail(stmtRows)
    /\ heap' = heap \o <<Block("str"), Block("str")>>
    /\ crsr' = [crsr EXCEPT !.version = Head(stmtRows).minv,
                            !.colVals = Len(heap) + 1,
                            !.colVrsns = Len(heap) + 2]
    /\ host' = "eof"
    /\ UNCHANGED <<vtab, tables, repaired, query, emitted, scanEnded, outcome,
                   aborted, unsafeRead, queries, scans, faults>>

\* changesSinceClose (lines 143-149): finalize, then free the cursor.
\* SQLite closes at EOF, after an error, or when it stops reading early.
Close ==
    /\ Live /\ host \in {"end", "close", "next"}
    /\ Release(CrsrFinalizeFrees(crsr) \o <<crsr.self>>)
    /\ crsr' = NULL
    /\ host' = "idle"
    /\ UNCHANGED <<vtab, tables, repaired, query, stmtRows, stmtRow, emitted,
                   scanEnded, outcome, unsafeRead, queries, scans, faults>>

\* The process has died, or the connection is closed: nothing more happens.
Stopped ==
    /\ ~Live \/ host = "done"
    /\ UNCHANGED vars

\* The methods templatevtabModule (lines 546-569) gives SQLite; xCreate,
\* xDestroy, xUpdate and the transaction methods are 0.
Next ==
    \/ Connect \/ Disconnect \/ Plan \/ Open
    \/ FilterNullTab \/ FilterNoClockTables \/ FilterOutOfMemory
    \/ FilterTableInfoFails \/ FilterNoPrimaryKey \/ FilterPrepareFails
    \/ FilterPrepared
    \/ Eof \/ ReadRow \/ NextWildRead \/ NextDone \/ NextRow \/ Close
    \/ Stopped

Spec == Init /\ [][Next]_vars

-----------------------------------------------------------------------------
(* Properties.                                                             *)

Row == [tbl : {NULL} \cup {NameOrder[i] : i \in DOMAIN NameOrder},
        pk : {NULL} \cup {c.pk : c \in Clock}, version : Int]

CursorFields ==
    [self : Nat, pTab : Ptr, tableInfos : Ptr, tableInfosLen : {0},
     stmt : Ptr, colVals : Ptr, colVrsns : Ptr, version : Int]

TypeOK ==
    /\ host \in {"start", "idle", "open", "filter", "eof", "row", "next",
                 "end", "close", "done"}
    /\ heap \in Seq([kind : {"vtab", "cursor", "infos", "info", "names",
                             "sql", "stmt", "str"},
                     live : BOOLEAN, elems : Seq(Nat)])
    /\ vtab \in Ptr
    /\ crsr \in {NULL} \cup CursorFields
    /\ \A p \in {vtab} \cup IF crsr = NULL THEN {}
                            ELSE {crsr.pTab, crsr.tableInfos, crsr.stmt,
                                  crsr.colVals, crsr.colVrsns} :
           p = NULL \/ p \in DOMAIN heap
    /\ emitted \in Seq(Row)
    /\ aborted \in {"no", "nullTab", "nullInfos", "wildRead", "doubleFree"}
    /\ outcome \in {"none", "noPlan", "malfunction", "planned"}
    /\ unsafeRead \in BOOLEAN /\ scanEnded \in BOOLEAN
    /\ repaired \in RepairChoices
    /\ queries \in 0..MaxQueries /\ scans \in 0..MaxScans
    /\ faults \in 0..MaxFaults

RealRows(s) == {[tbl |-> s[i].tbl, pk |-> s[i].pk, minv |-> s[i].version] :
                    i \in {j \in DOMAIN s : s[j].tbl # NULL}}

\* A scan that has ended returned every such change (spec section 8.6).
ScanComplete ==
    scanEnded => RealRows(emitted) = ExpectedChanges(tables, query.args)

\* No statement or string the cursor has freed is read through it, however
\* SQLite interleaves Filter, Next, Column and Close: after a scan reaches
\* EOF, changesSinceCrsrFinalize frees colVals and colVrsns without
\* clearing them, and a rewind reads them again.
NoUseAfterFree == ~unsafeRead
=============================================================================
