----------------------------- MODULE CrrCompile -----------------------------
(***************************************************************************)
(* The compile function cfsql(sql) (cfsqlFunc and createCrr,              *)
(* src/cfsqlite.c) called on the connections Conns of one database file.  *)
(*                                                                         *)
(* A call rejects text containing ';', prepares it (failing on invalid     *)
(* SQL, or CREATE TABLE T when T already names a table or view), classifies *)
(* the normalized text by prefix, opens a transaction with BEGIN, runs the *)
(* handler of the statement kind and always ends with COMMIT, whose       *)
(* result it ignores: no path issues ROLLBACK.  CREATE TABLE T goes       *)
(* through a temporary table cfsql_tmp__T, introspection, and then creates *)
(* the clock table, the crr table, the view T, the patch view, the view   *)
(* triggers and the patch trigger, stopping at the first failure.  The    *)
(* other kinds are empty stubs.                                            *)
(*                                                                         *)
(* Schema objects are abstracted to which objects exist per table name.    *)
(* A step fails when its name is taken, on a lock conflict, or by an      *)
(* engine error (I/O, a full disk, introspection failing), chosen         *)
(* nondeterministically up to MaxFaults times.  SQLite's locks on the file *)
(* are abstracted as in CrrGlobalState: SHARED holders, one RESERVED      *)
(* writer, and PENDING kept by a writer whose COMMIT met a reader.  No     *)
(* busy handler is installed, so a conflict is SQLITE_BUSY at once.  Any  *)
(* idle connection may also be reading the file for the application (a    *)
(* SELECT in progress), holding SHARED meanwhile.  The process may crash, *)
(* which rolls every open transaction back and discards the connections'  *)
(* temporary tables.                                                       *)
(***************************************************************************)
EXTENDS Integers, Sequences, FiniteSets

CONSTANTS
    Conns,          \* connections to the database file
    NoConn,
    Tables,         \* table names the application compiles
    PlainTables,    \* names already used by ordinary tables at start
    MaxCalls,       \* bound on cfsql calls, over all connections
    MaxFaults,      \* bound on injected engine errors
    MaxCrashes      \* bound on process crashes

ASSUME PlainTables \subseteq Tables /\ NoConn \notin Conns

Kinds == {"createTable", "dropTable", "createIndex", "dropIndex",
          "alterTable", "other"}

\* The objects createCrr makes, in the order it makes them (lines 583-603).
Pipeline == <<"clock", "crr", "view", "patch", "viewTriggers", "patchTrigger">>
CrrObjects == {Pipeline[i] : i \in DOMAIN Pipeline}

\* A statement given to cfsql: its kind after normalization, its table, and
\* whether the text contains ';' or fails to prepare.
Queries == [kind : Kinds, tbl : Tables, semicolon : BOOLEAN, valid : BOOLEAN]

VARIABLES
    pc,             \* [Conns -> "idle", "tmp", "info", "dropTmp", "create",
                    \*           "commit"]
    step,           \* [Conns -> index into Pipeline of the next object]
    query,          \* [Conns -> statement of the call in progress]
    txOpen,         \* [Conns -> the connection is inside BEGIN ... ]
    txObjs,         \* [Conns -> [Tables -> objects its open tx created]]
    committed,      \* [Tables -> objects], durable
    readers,        \* connections holding SHARED
    writer,         \* connection holding RESERVED, or NoConn
    pending,        \* the writer holds PENDING after a busy COMMIT
    tempTables,     \* [Conns -> names T whose cfsql_tmp__T it has]
    result,         \* [Conns -> "none", "ok" or "error" of its last call]
    failed,         \* [Conns -> a statement of the call in progress failed]
    failedCreates,  \* history: tables a CREATE TABLE call committed after
                    \* one of its statements failed
    calls, faults, crashes

vars == <<pc, step, query, txOpen, txObjs, committed, readers, writer,
          pending, tempTables, result, failed, failedCreates,
          calls, faults, crashes>>

NoQuery == [kind |-> "other", tbl |-> CHOOSE t \in Tables : TRUE,
            semicolon |-> FALSE, valid |-> FALSE]

NoObjs == [t \in Tables |-> {}]

-----------------------------------------------------------------------------
(* What a connection sees, the locks, and the engine's answer.            *)

\* The objects of table t visible to c: the durable ones and its own.
Visible(c, t) == committed[t] \cup txObjs[c][t]

\* The name an object of table T gets is taken: the derived names collide
\* with the same object; the view is named T itself, like an ordinary table.
NameTaken(c, t, obj) ==
    obj \in Visible(c, t) \/ (obj = "view" /\ "plain" \in Visible(c, t))

\* A new SHARED lock is refused while another connection holds PENDING.
CanRead(c) == ~(pending /\ writer # c)

\* RESERVED is free or already held by c.
CanWrite(c) == writer \in {NoConn, c}

\* determineQueryType: prefix match on the normalized text; anything else is
\* SQLITE_MISUSE with an error result.
QueryType(q) == IF q.kind = "other" THEN "misuse" ELSE q.kind

\* An engine error may be injected while the budget lasts.
MayFault == faults < MaxFaults

\* Set c's entry of a per-connection variable.
Set(f, c, v) == [f EXCEPT ![c] = v]

\* A failed step: sqlite3_result_error and go to the trailing COMMIT.
StepFails(c) ==
    /\ result' = Set(result, c, "error")
    /\ pc' = Set(pc, c, "commit")

\* The end of c's transaction: its locks are released and its own objects
\* are gone from its view (made durable or rolled back).
EndTx(c) ==
    /\ txOpen' = Set(txOpen, c, FALSE)
    /\ txObjs' = Set(txObjs, c, NoObjs)
    /\ readers' = readers \ {c}
    /\ writer' = IF writer = c THEN NoConn ELSE writer
    /\ pending' = IF writer = c THEN FALSE ELSE pending

-----------------------------------------------------------------------------
Init ==
    /\ pc = [c \in Conns |-> "idle"]
    /\ step = [c \in Conns |-> 1]
    /\ query = [c \in Conns |-> NoQuery]
    /\ txOpen = [c \in Conns |-> FALSE]
    /\ txObjs = [c \in Conns |-> NoObjs]
    /\ committed = [t \in Tables |-> IF t \in PlainTables THEN {"plain"} ELSE {}]
    /\ readers = {} /\ writer = NoConn /\ pending = FALSE
    /\ tempTables = [c \in Conns |-> {}]
    /\ result = [c \in Conns |-> "none"]
    /\ failed = [c \in Conns |-> FALSE]
    /\ failedCreates = {}
    /\ calls = 0 /\ faults = 0 /\ crashes = 0

\* sqlite3_prepare_v2 rejects CREATE TABLE T when T already names a table
\* or a view in the schema c sees.
PrepareFails(c, q) ==
    ~q.valid \/ (q.kind = "createTable" /\ {"plain", "view"} \cap Visible(c, q.tbl) # {})

\* The application is reading through c outside any cfsql call.
AppReading(c) == c \in readers /\ ~txOpen[c]

\* cfsqlFunc up to the switch: the ';' test, prepare, determineQueryType
\* and BEGIN.  An unknown kind sets a MISUSE error but still runs BEGIN and
\* the (empty) default branch.  BEGIN fails, and the call returns with no
\* COMMIT, when the connection's transaction is still open.
Call(c) ==
    /\ pc[c] = "idle" /\ ~AppReading(c)
    /\ calls < MaxCalls
    /\ \E q \in Queries :
         /\ query' = Set(query, c, q)
         /\ failed' = Set(failed, c, FALSE)
         /\ IF q.semicolon \/ PrepareFails(c, q) \/ txOpen[c]
            THEN /\ result' = Set(result, c, "error")
                 /\ UNCHANGED <<pc, txOpen>>
            ELSE /\ result' = Set(result, c, IF QueryType(q) = "misuse"
                                             THEN "error" ELSE "ok")
                 /\ pc' = Set(pc, c, IF QueryType(q) = "createTable"
                                     THEN "tmp" ELSE "commit")
                 /\ txOpen' = Set(txOpen, c, TRUE)
    /\ calls' = calls + 1
    /\ step' = Set(step, c, 1)
    /\ UNCHANGED <<txObjs, committed, readers, writer, pending, tempTables,
                   failedCreates, faults, crashes>>

\* CREATE TEMP TABLE cfsql_tmp__T: fails if a previous call left it behind.
\* The temp database is the connection's own and takes no lock on the file.
CreateTempTable(c) ==
    LET t == query[c].tbl IN
    /\ pc[c] = "tmp"
    /\ IF t \in tempTables[c]
       THEN StepFails(c) /\ failed' = Set(failed, c, TRUE)
            /\ UNCHANGED tempTables
       ELSE /\ tempTables' = Set(tempTables, c, tempTables[c] \cup {t})
            /\ pc' = Set(pc, c, "info")
            /\ UNCHANGED <<result, failed>>
    /\ UNCHANGED <<step, query, txOpen, txObjs, committed, readers, writer,
                   pending, failedCreates, calls, faults, crashes>>

\* cfsql_getTableInfo on the temporary table.  On failure the temporary
\* table is not dropped (lines 558-566).
GetTableInfo(c) ==
    /\ pc[c] = "info"
    /\ \/ /\ pc' = Set(pc, c, "dropTmp")
          /\ UNCHANGED <<result, failed, faults>>
       \/ /\ MayFault
          /\ faults' = faults + 1
          /\ failed' = Set(failed, c, TRUE)
          /\ StepFails(c)
    /\ UNCHANGED <<step, query, txOpen, txObjs, committed, readers, writer,
                   pending, tempTables, failedCreates, calls,
                   crashes>>

\* DROP TABLE temp.cfsql_tmp__T.
DropTempTable(c) ==
    /\ pc[c] = "dropTmp"
    /\ \/ /\ tempTables' = Set(tempTables, c, tempTables[c] \ {query[c].tbl})
          /\ pc' = Set(pc, c, "create")
          /\ UNCHANGED <<result, failed, faults>>
       \/ /\ MayFault
          /\ faults' = faults + 1
          /\ failed' = Set(failed, c, TRUE)
          /\ StepFails(c)
          /\ UNCHANGED tempTables
    /\ UNCHANGED <<step, query, txOpen, txObjs, committed, readers, writer,
                   pending, failedCreates, calls, crashes>>

\* Why the statement creating obj for c can fail: "busy" when SHARED, or
\* RESERVED for a new name, is refused; "taken" when the name exists; an
\* injected engine "fault".
StmtFailures(c, obj) ==
    LET t == query[c].tbl IN
    (IF ~CanRead(c) \/ (~NameTaken(c, t, obj) /\ ~CanWrite(c))
     THEN {"busy"} ELSE {})
    \cup (IF CanRead(c) /\ NameTaken(c, t, obj) THEN {"taken"} ELSE {})
    \cup (IF MayFault THEN {"fault"} ELSE {})

\* A statement of the chain failed for the reason why.  The locks are what
\* they were before it: a lock the statement itself took is released with
\* it when the transaction held none.
StmtFailed(c, why) ==
    /\ faults' = IF why = "fault" THEN faults + 1 ELSE faults
    /\ failed' = Set(failed, c, TRUE)

\* Faulty variant: the step index runs past the pipeline.
CreateSucceedsOffByOne(c) ==
    LET t == query[c].tbl
        obj == Pipeline[step[c]]
    IN
    /\ pc[c] = "create"
    /\ CanRead(c) /\ CanWrite(c) /\ ~NameTaken(c, t, obj)
    /\ txObjs' = [txObjs EXCEPT ![c][t] = @ \cup {obj}]
    /\ readers' = readers \cup {c} /\ writer' = c
    /\ IF step[c] > Len(Pipeline)
       THEN pc' = Set(pc, c, "commit") /\ UNCHANGED step
       ELSE step' = Set(step, c, step[c] + 1) /\ UNCHANGED pc
    /\ UNCHANGED <<query, txOpen, committed, pending, tempTables, result,
                   failed, failedCreates, calls, faults, crashes>>

\* Faulty variant: no enclosing BEGIN, so every statement is durable at
\* once.
CreateSucceedsAutocommit(c) ==
    LET t == query[c].tbl
        obj == Pipeline[step[c]]
    IN
    /\ pc[c] = "create"
    /\ CanRead(c) /\ CanWrite(c) /\ ~NameTaken(c, t, obj)
    /\ committed' = [committed EXCEPT ![t] = @ \cup {obj}]
    /\ IF step[c] = Len(Pipeline)
       THEN pc' = Set(pc, c, "commit") /\ UNCHANGED step
       ELSE step' = Set(step, c, step[c] + 1) /\ UNCHANGED pc
    /\ UNCHANGED <<query, txOpen, txObjs, readers, writer, pending, tempTables,
                   result, failed, failedCreates, calls, faults,
                   crashes>>

\* The next statement of the rc-chained sequence cfsql_createClockTable,
\* cfsql_createCrrBaseTable, cfsql_createViewOfCrr, cfsql_createPatchView,
\* cfsql_createCrrViewTriggers, cfsql_createPatchTrigger succeeds, taking
\* SHARED and RESERVED.  After the last one createCrr returns (lines
\* 604-608).
CreateSucceeds(c) ==
    LET t == query[c].tbl
        obj == Pipeline[step[c]]
    IN
    /\ pc[c] = "create"
    /\ CanRead(c) /\ CanWrite(c) /\ ~NameTaken(c, t, obj)
    /\ txObjs' = [txObjs EXCEPT ![c][t] = @ \cup {obj}]
    /\ readers' = readers \cup {c} /\ writer' = c
    /\ IF step[c] = Len(Pipeline)
       THEN pc' = Set(pc, c, "commit") /\ UNCHANGED step
       ELSE step' = Set(step, c, step[c] + 1) /\ UNCHANGED pc
    /\ UNCHANGED <<query, txOpen, committed, pending, tempTables, result,
                   failed, failedCreates, calls, faults, crashes>>

\* Faulty variant: a failed statement does not stop the chain.
CreateFailsContinuing(c) ==
    /\ pc[c] = "create"
    /\ \E why \in StmtFailures(c, Pipeline[step[c]]) : StmtFailed(c, why)
    /\ result' = Set(result, c, "error")
    /\ IF step[c] = Len(Pipeline)
       THEN pc' = Set(pc, c, "commit") /\ UNCHANGED step
       ELSE step' = Set(step, c, step[c] + 1) /\ UNCHANGED pc
    /\ UNCHANGED <<query, txOpen, txObjs, committed, readers, writer, pending,
                   tempTables, failedCreates, calls, crashes>>

\* A statement of the chain fails (each function returns sqlite3_exec's rc,
\* e.g. lines 344-349): the error is reported and the remaining statements
\* are skipped (lines 583-611).
CreateFails(c) ==
    /\ pc[c] = "create"
    /\ \E why \in StmtFailures(c, Pipeline[step[c]]) : StmtFailed(c, why)
    /\ StepFails(c)
    /\ UNCHANGED <<step, query, txOpen, txObjs, committed, readers, writer,
                   pending, tempTables, failedCreates, calls,
                   crashes>>

\* sqlite3_exec(db, "COMMIT", 0, 0, 0) after the switch, whose other
\* branches (dropCrr, createCrrIndex, dropCrrIndex, alterCrr) have empty
\* bodies: whatever the handler did becomes durable.  A writer's COMMIT
\* needs every other SHARED lock gone; otherwise it is SQLITE_BUSY, the
\* writer keeps PENDING and the transaction stays open, and the ignored
\* result leaves the call's own result as it was.
Commit(c) ==
    /\ pc[c] = "commit"
    /\ pc' = Set(pc, c, "idle")
    /\ IF writer = c /\ readers \ {c} # {}
       THEN /\ pending' = TRUE
            /\ UNCHANGED <<txOpen, txObjs, committed, readers, writer,
                           failedCreates>>
       ELSE /\ committed' = [t \in Tables |-> Visible(c, t)]
            /\ failedCreates' =
                   IF query[c].kind = "createTable" /\ failed[c]
                   THEN failedCreates \cup {query[c].tbl} ELSE failedCreates
            /\ EndTx(c)
    /\ UNCHANGED <<step, query, tempTables, result, failed,
                   calls, faults, crashes>>

\* The application starts a read on an idle connection: a SELECT takes
\* SHARED, which is refused while another connection holds PENDING.
AppRead(c) ==
    /\ pc[c] = "idle" /\ ~txOpen[c] /\ c \notin readers /\ CanRead(c)
    /\ readers' = readers \cup {c}
    /\ UNCHANGED <<pc, step, query, txOpen, txObjs, committed, writer,
                   pending, tempTables, result, failed,
                   failedCreates, calls, faults, crashes>>

\* The read finishes (the statement is reset or finalized): SHARED is
\* released.
AppReadDone(c) ==
    /\ AppReading(c) /\ pc[c] = "idle"
    /\ readers' = readers \ {c}
    /\ UNCHANGED <<pc, step, query, txOpen, txObjs, committed, writer,
                   pending, tempTables, result, failed,
                   failedCreates, calls, faults, crashes>>

\* The process dies: every open transaction rolls back, temporary tables
\* and locks are gone; the application reconnects.
Crash ==
    /\ crashes < MaxCrashes
    /\ pc' = [c \in Conns |-> "idle"]
    /\ txOpen' = [c \in Conns |-> FALSE]
    /\ txObjs' = [c \in Conns |-> NoObjs]
    /\ readers' = {} /\ writer' = NoConn /\ pending' = FALSE
    /\ tempTables' = [c \in Conns |-> {}]
    /\ result' = [c \in Conns |-> "none"]
    /\ crashes' = crashes + 1
    /\ UNCHANGED <<step, query, committed, failed,
                   failedCreates, calls, faults>>

\* Every call has been made and has returned, and no read is in progress.
Done ==
    /\ \A c \in Conns : pc[c] = "idle" /\ ~AppReading(c)
    /\ calls = MaxCalls
    /\ UNCHANGED vars

Next ==
    \/ \E c \in Conns :
          \/ Call(c) \/ CreateTempTable(c) \/ GetTableInfo(c)
          \/ DropTempTable(c) \/ CreateSucceeds(c) \/ CreateFails(c)
          \/ Commit(c) \/ AppRead(c) \/ AppReadDone(c)
    \/ Crash \/ Done

Spec == Init /\ [][Next]_vars

-----------------------------------------------------------------------------
(* Properties                                                             *)

TypeOK ==
    /\ pc \in [Conns -> {"idle", "tmp", "info", "dropTmp", "create", "commit"}]
    /\ step \in [Conns -> DOMAIN Pipeline]
    /\ query \in [Conns -> Queries]
    /\ txOpen \in [Conns -> BOOLEAN]
    /\ txObjs \in [Conns -> [Tables -> SUBSET CrrObjects]]
    /\ committed \in [Tables -> SUBSET (CrrObjects \cup {"plain"})]
    /\ readers \subseteq Conns /\ writer \in Conns \cup {NoConn}
    /\ pending \in BOOLEAN
    /\ tempTables \in [Conns -> SUBSET Tables]
    /\ result \in [Conns -> {"none", "ok", "error"}]
    /\ failedCreates \subseteq Tables

\* The CRR objects of a table name present in the database.
CrrPart(s, t) == s[t] \cap CrrObjects

\* The objects of the pipeline from position i to position n.
PipelineRange(i, n) == {Pipeline[k] : k \in i .. n}

\* The durable CRR objects of every table are a prefix of createCrr's order:
\* there is never a view without its crr table, nor triggers without their
\* view (spec 4.D: step ordering matters), whichever connections committed
\* them, whatever failed in between and wherever the process crashed.
CommittedCrrIsPrefix ==
    \A t \in Tables : \E n \in 0 .. Len(Pipeline) :
        CrrPart(committed, t) = PipelineRange(1, n)

\* A table has a durable but incomplete CRR only if a CREATE TABLE call for
\* it committed after one of its statements failed: a crash in the middle of
\* a compile leaves nothing behind, because the whole compile runs inside
\* BEGIN ... COMMIT.
PartialOnlyAfterFailure ==
    \A t \in Tables :
        CrrPart(committed, t) \notin {{}, CrrObjects} => t \in failedCreates

\* Spec 4.D: if any step of CREATE TABLE fails, the transaction is rolled
\* back and no partial CRR is left behind.
CompileAtomic ==
    \A c \in Conns : pc[c] = "idle" =>
        \A t \in Tables : CrrPart(committed, t) \in {{}, CrrObjects}

\* Spec 4.D: a compile that succeeds is committed.  Once a CREATE TABLE call
\* has returned without error, its table has every CRR object durably.
OkCreateIsDurable ==
    \A c \in Conns :
        (pc[c] = "idle" /\ query[c].kind = "createTable" /\ result[c] = "ok")
            => CrrPart(committed, query[c].tbl) = CrrObjects
=============================================================================
