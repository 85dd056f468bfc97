--------------------------- MODULE CrrGlobalState ---------------------------
(***************************************************************************)
(* Loading the extension (sqlite3_cfsqlite_init, src/cfsqlite.c) on        *)
(* several connections of one process.  Every connection runs              *)
(*   BEGIN; initSiteId; initDbVersion; COMMIT                              *)
(* and all of them write the same process-wide globals siteIdBlob,         *)
(* dbVersion and dbVersionSet (src/cfsqlite.c:26-53).  Connections may be  *)
(* opened on different database files.                                    *)
(*                                                                         *)
(* SQLite's rollback-journal locking is abstracted per file: a set of      *)
(* connections holding SHARED, at most one holding RESERVED (the writer), *)
(* and a PENDING flag the writer keeps after a COMMIT that met a reader.   *)
(* No busy handler is installed, so a lock conflict is SQLITE_BUSY at      *)
(* once.                                                                   *)
(***************************************************************************)
EXTENDS Integers, Sequences, FiniteSets

CONSTANTS
    Conns,          \* connections of the process
    Files,          \* database files
    FileOf,         \* [Conns -> Files]: the file each connection opened
    Uuids,          \* values uuid_blob(uuid()) may return
    InitialSiteId,  \* [Files -> Uuids \cup {NoId}]: persisted site id at start
    ClockTables,    \* [Files -> Seq(Nat \cup {NoRows})]: per clock table, in
                    \* sqlite_master order, MAX(version) of rows of other sites
    NoId, NoRows, NoConn,
    ZeroBlob,       \* the initial all-zero contents of siteIdBlob
    MinDbVersion    \* the initial dbVersion (line 52), scaled to TLC's ints

ASSUME FileOf \in [Conns -> Files]
ASSUME InitialSiteId \in [Files -> Uuids \cup {NoId}]
ASSUME NoConn \notin Conns /\ NoId \notin Uuids /\ ZeroBlob \notin Uuids

VARIABLES
    pc,             \* [Conns -> step of sqlite3_cfsqlite_init]
    siteIdTbl,      \* [Files -> committed row of the site id table, or NoId]
    txSiteId,       \* [Conns -> site id created by the connection's open tx]
    readers,        \* [Files -> connections holding SHARED]
    writer,         \* [Files -> connection holding RESERVED, or NoConn]
    pending,        \* [Files -> the writer holds PENDING after a busy COMMIT]
    siteIdBlob,     \* static char siteIdBlob[16]
    dbVersion,      \* static int64_t dbVersion
    dbVersionSet    \* static int dbVersionSet

vars == <<pc, siteIdTbl, txSiteId, readers, writer, pending,
          siteIdBlob, dbVersion, dbVersionSet>>

Steps == {"start", "begun", "createSite", "readSite", "version", "commit",
          "ready", "failed", "failedOpen", "closed"}

\* Every version value that can appear in the clock tables.
ClockVersions == UNION {{ClockTables[f][i] : i \in DOMAIN ClockTables[f]}
                          : f \in Files} \ {NoRows}

-----------------------------------------------------------------------------
(* Helpers: what a connection sees, and the locks.                        *)

\* The site id row visible to c: its own uncommitted one, else the committed.
VisibleSiteId(c) ==
    IF txSiteId[c] # NoId THEN txSiteId[c] ELSE siteIdTbl[FileOf[c]]

\* A new SHARED lock is refused while another connection holds PENDING.
CanRead(c) ==
    LET f == FileOf[c] IN ~(pending[f] /\ writer[f] # c)

\* RESERVED is free or already held by c.
CanWrite(c) == writer[FileOf[c]] \in {NoConn, c}

\* ROLLBACK: discard c's uncommitted writes and release its locks.
Release(c) ==
    LET f == FileOf[c] IN
    /\ readers' = [readers EXCEPT ![f] = @ \ {c}]
    /\ writer' = [writer EXCEPT ![f] = IF @ = c THEN NoConn ELSE @]
    /\ pending' = [pending EXCEPT ![f] = IF writer[f] = c THEN FALSE ELSE @]
    /\ txSiteId' = [txSiteId EXCEPT ![c] = NoId]

\* sqlite3_exec(db, "ROLLBACK") after a failed step; init returns rc.
FailAndRollback(c) ==
    /\ Release(c)
    /\ pc' = [pc EXCEPT ![c] = "failed"]
    /\ UNCHANGED <<siteIdTbl, siteIdBlob, dbVersion, dbVersionSet>>

\* A uuid no database and no open transaction holds (uuid() is unique).
FreshUuids ==
    Uuids \ ({siteIdTbl[f] : f \in Files} \cup {txSiteId[c] : c \in Conns})

\* The value initDbVersion reads.  The bind loop (lines 201-205) binds
\* parameters 0 .. n-1, but parameters are numbered from 1: index 0 is out of
\* range and parameter n stays NULL, so the last union arm's
\* "site_id != NULL" selects nothing.  MAX over no rows is NULL, which
\* sqlite3_column_int64 reads as 0.
UnionMaxVersion(tbls) ==
    LET arms == {tbls[i] : i \in 1 .. Len(tbls) - 1} \ {NoRows}
    IN IF arms = {} THEN 0
       ELSE CHOOSE v \in arms : \A w \in arms : w <= v

\* cfsql_siteid() and cfsql_dbversion() return the globals as they are.
SiteIdFunc == siteIdBlob
DbVersionFunc == dbVersion

-----------------------------------------------------------------------------
Init ==
    /\ pc = [c \in Conns |-> "start"]
    /\ siteIdTbl = InitialSiteId
    /\ txSiteId = [c \in Conns |-> NoId]
    /\ readers = [f \in Files |-> {}]
    /\ writer = [f \in Files |-> NoConn]
    /\ pending = [f \in Files |-> FALSE]
    /\ siteIdBlob = ZeroBlob
    /\ dbVersion = MinDbVersion
    /\ dbVersionSet = FALSE

\* sqlite3_exec(db, "BEGIN"): a deferred transaction takes no lock yet.
Begin(c) ==
    /\ pc[c] = "start"
    /\ pc' = [pc EXCEPT ![c] = "begun"]
    /\ UNCHANGED <<siteIdTbl, txSiteId, readers, writer, pending,
                   siteIdBlob, dbVersion, dbVersionSet>>

\* Faulty variant: the existence test of line 104 dropped, so every load
\* creates a site id.  Confirms SiteIdStable detects it.
CheckSiteIdTableDropped(c) ==
    /\ pc[c] = "begun"
    /\ IF CanRead(c)
       THEN /\ readers' = [readers EXCEPT ![FileOf[c]] = @ \cup {c}]
            /\ pc' = [pc EXCEPT ![c] = "createSite"]
            /\ UNCHANGED <<siteIdTbl, txSiteId, writer, pending,
                           siteIdBlob, dbVersion, dbVersionSet>>
       ELSE FailAndRollback(c)

CheckSiteIdTable(c) ==
    /\ pc[c] = "begun"
    /\ IF CanRead(c)
       THEN /\ readers' = [readers EXCEPT ![FileOf[c]] = @ \cup {c}]
            /\ pc' = [pc EXCEPT ![c] = IF VisibleSiteId(c) = NoId
                                        THEN "createSite" ELSE "readSite"]
            /\ UNCHANGED <<siteIdTbl, txSiteId, writer, pending,
                           siteIdBlob, dbVersion, dbVersionSet>>
       ELSE FailAndRollback(c)

\* createSiteIdTable: CREATE TABLE then INSERT uuid_blob(uuid()); both
\* need RESERVED, and SQLITE_BUSY when another connection holds it.
CreateSiteIdTable(c) ==
    /\ pc[c] = "createSite"
    /\ IF CanWrite(c)
       THEN \E u \in FreshUuids :
              /\ writer' = [writer EXCEPT ![FileOf[c]] = c]
              /\ txSiteId' = [txSiteId EXCEPT ![c] = u]
              /\ pc' = [pc EXCEPT ![c] = "readSite"]
              /\ UNCHANGED <<siteIdTbl, readers, pending,
                             siteIdBlob, dbVersion, dbVersionSet>>
       ELSE FailAndRollback(c)

\* Faulty variant: the SELECT reads the committed row only, missing the one
\* the connection's own transaction inserted.  Confirms TypeOK detects it.
ReadSiteIdCommitted(c) ==
    /\ pc[c] = "readSite"
    /\ siteIdBlob' = siteIdTbl[FileOf[c]]
    /\ pc' = [pc EXCEPT ![c] = "version"]
    /\ UNCHANGED <<siteIdTbl, txSiteId, readers, writer, pending,
                   dbVersion, dbVersionSet>>

\* SELECT site_id, then memcpy into the process-wide siteIdBlob.
ReadSiteId(c) ==
    /\ pc[c] = "readSite"
    /\ siteIdBlob' = VisibleSiteId(c)
    /\ pc' = [pc EXCEPT ![c] = "version"]
    /\ UNCHANGED <<siteIdTbl, txSiteId, readers, writer, pending,
                   dbVersion, dbVersionSet>>

\* initDbVersion: skipped once dbVersionSet; with no clock table it returns
\* before setting dbVersionSet; else runs the union query.
InitDbVersion(c) ==
    LET tbls == ClockTables[FileOf[c]] IN
    /\ pc[c] = "version"
    /\ IF dbVersionSet \/ Len(tbls) = 0
       THEN UNCHANGED <<dbVersion, dbVersionSet>>
       ELSE /\ dbVersion' = UnionMaxVersion(tbls)
            /\ dbVersionSet' = TRUE
    /\ pc' = [pc EXCEPT ![c] = "commit"]
    /\ UNCHANGED <<siteIdTbl, txSiteId, readers, writer, pending, siteIdBlob>>

\* COMMIT.  A writer needs every other SHARED lock gone; otherwise
\* SQLITE_BUSY, it keeps PENDING, and init returns rc without ROLLBACK
\* (lines 781-785), leaving the transaction open.
CommitBusy(c) ==
    LET f == FileOf[c] IN
    /\ pc[c] = "commit"
    /\ writer[f] = c
    /\ readers[f] \ {c} # {}
    /\ pending' = [pending EXCEPT ![f] = TRUE]
    /\ pc' = [pc EXCEPT ![c] = "failedOpen"]
    /\ UNCHANGED <<siteIdTbl, txSiteId, readers, writer,
                   siteIdBlob, dbVersion, dbVersionSet>>

\* Faulty variant: COMMIT ignores the other connections' SHARED locks.
\* Confirms SiteIdAgreement detects it.
CommitOkIgnoringReaders(c) ==
    LET f == FileOf[c] IN
    /\ pc[c] = "commit"
    /\ siteIdTbl' = IF txSiteId[c] # NoId
                    THEN [siteIdTbl EXCEPT ![f] = txSiteId[c]] ELSE siteIdTbl
    /\ Release(c)
    /\ pc' = [pc EXCEPT ![c] = "ready"]
    /\ UNCHANGED <<siteIdBlob, dbVersion, dbVersionSet>>

\* COMMIT succeeds: the site id row becomes durable, locks are released,
\* and the functions are registered.
CommitOk(c) ==
    LET f == FileOf[c] IN
    /\ pc[c] = "commit"
    /\ writer[f] = c => readers[f] \ {c} = {}
    /\ siteIdTbl' = IF txSiteId[c] # NoId
                    THEN [siteIdTbl EXCEPT ![f] = txSiteId[c]] ELSE siteIdTbl
    /\ Release(c)
    /\ pc' = [pc EXCEPT ![c] = "ready"]
    /\ UNCHANGED <<siteIdBlob, dbVersion, dbVersionSet>>

\* The application closes a connection whose load failed with the
\* transaction still open: SQLite rolls it back.
Close(c) ==
    /\ pc[c] = "failedOpen"
    /\ Release(c)
    /\ pc' = [pc EXCEPT ![c] = "closed"]
    /\ UNCHANGED <<siteIdTbl, siteIdBlob, dbVersion, dbVersionSet>>

\* Every connection has finished loading the extension.
Terminated ==
    /\ \A c \in Conns : pc[c] \in {"ready", "failed", "closed"}
    /\ UNCHANGED vars

Next ==
    \/ \E c \in Conns :
         \/ Begin(c) \/ CheckSiteIdTable(c) \/ CreateSiteIdTable(c)
         \/ ReadSiteId(c) \/ InitDbVersion(c)
         \/ CommitBusy(c) \/ CommitOk(c) \/ Close(c)
    \/ Terminated

\* Each connection's load runs on its own thread until it returns.
Fairness == \A c \in Conns : WF_vars(
    Begin(c) \/ CheckSiteIdTable(c) \/ CreateSiteIdTable(c) \/ ReadSiteId(c)
    \/ InitDbVersion(c) \/ CommitBusy(c) \/ CommitOk(c) \/ Close(c))

Spec == Init /\ [][Next]_vars
FairSpec == Spec /\ Fairness

-----------------------------------------------------------------------------
(* Properties                                                             *)

TypeOK ==
    /\ pc \in [Conns -> Steps]
    /\ siteIdTbl \in [Files -> Uuids \cup {NoId}]
    /\ txSiteId \in [Conns -> Uuids \cup {NoId}]
    /\ readers \in [Files -> SUBSET Conns]
    /\ writer \in [Files -> Conns \cup {NoConn}]
    /\ pending \in [Files -> BOOLEAN]
    /\ siteIdBlob \in Uuids \cup {ZeroBlob}
    /\ dbVersion \in ClockVersions \cup {0, MinDbVersion}
    /\ dbVersionSet \in BOOLEAN

\* cfsql_siteid() on every connection whose load succeeded returns the site
\* id persisted in that connection's database file (siteIdFunc reads the
\* shared siteIdBlob that initSiteId of any connection overwrites).
SiteIdAgreement ==
    \A c \in Conns : pc[c] = "ready" => SiteIdFunc = siteIdTbl[FileOf[c]]

\* Once a database file has a persisted site id it never changes
\* (createSiteIdTable runs only when the table is absent and racing
\* creators are serialised by the file lock).
SiteIdStable ==
    [][\A f \in Files : siteIdTbl[f] # NoId => siteIdTbl'[f] = siteIdTbl[f]]_siteIdTbl

\* The cached dbVersion of a loaded connection is at least every version
\* of another site recorded in its file's clock tables (spec 4.C: the
\* version is reconciled with the clock tables at startup).
DbVersionCoversClocks ==
    \A c \in Conns :
        (pc[c] = "ready" /\ dbVersionSet) =>
            \A i \in DOMAIN ClockTables[FileOf[c]] :
                ClockTables[FileOf[c]][i] # NoRows =>
                    DbVersionFunc >= ClockTables[FileOf[c]][i]

\* However the loads on one file interleave, some connection ends up with
\* the extension loaded.
SomeConnectionLoads == <>(\E c \in Conns : pc[c] = "ready")

=============================================================================
