# TLA+ models of the cfsqlite CRR engine

This directory holds TLA+ models of the C sources under `src/`. The models
are checked with TLC. The repository is an early snapshot of the engine. The
global state and the `cfsql` compile function are implemented. The changes
virtual table is written but never registered (it is modelled as if it were). The trigger bodies, the
table introspection and the string utilities are not in `src/`.

## 1. Inventory

| Component | Source | State it keeps | Operations |
|---|---|---|---|
| Global state | `src/cfsqlite.c:26-246` | process-wide `siteIdBlob`, `siteIdSet` (never assigned), `dbVersion`, `dbVersionSet`; per file: the `__cfsql_siteid` table and the clock tables | `initSiteId`, `createSiteIdTable`, `initDbVersion`, `siteIdFunc`, `dbVersionFunc` |
| Extension entry point | `src/cfsqlite.c:743-813` | a transaction per loading connection | `sqlite3_cfsqlite_init`: BEGIN, init site id, init db version, COMMIT or ROLLBACK, register three functions |
| CRR compiler | `src/cfsqlite.c:257-732` | per table name: the temp table `cfsql_tmp__T`, then `T__cfsql_clock`, `T__cfsql_crr`, view `T`, `T__cfsql_patch`, the view triggers and the patch trigger | `cfsqlFunc`, `determineQueryType`, `createCrr` (with `cfsql_createClockTable`, `cfsql_createCrrBaseTable`, `cfsql_createViewOfCrr`, `cfsql_createPatchView`); `dropCrr`, `createCrrIndex`, `dropCrrIndex` and `alterCrr` are empty |
| Trigger synthesizer | header only, `src/cfsqlite-triggers.h` | none of its own; the triggers write rows, `__cfsql_cl` and clock rows | insert, update and delete view triggers; patch trigger |
| Changes virtual table | `src/changes-since-vtab.c` | per cursor: `pTab`, `tableInfos`, `tableInfosLen`, `pChangesStmt`, `colVals`, `colVrsns`, `version` | connect, best-index, open, filter, next, eof, column, rowid, close, disconnect |
| Table introspection, utilities | not in `src/` | none | `cfsql_getTableInfo`, identifier lists |

**How the parts interact.** The host loads the extension on each connection.
Each load runs `sqlite3_cfsqlite_init`, which writes the process-wide
globals. Every connection in the process shares those globals, whatever
file it opened. The SQL function `cfsql(sql)` runs the compiler inside a
transaction it opens on the caller's connection. The triggers it creates call
`cfsql_siteid()` and `cfsql_dbversion()`, which read the globals. The changes
table reads the clock tables the triggers fill. The only concurrency comes from
several connections: threads of one process, or processes sharing a file.
SQLite's file locks serialise their writes. No busy handler is installed, so a
lock conflict returns SQLITE_BUSY at once.

**Hard behaviours.**
- Loads on several connections interleave on the shared globals and on the
  file locks.
- A COMMIT can fail with SQLITE_BUSY. The init code then returns without a
  ROLLBACK.
- The compiler always COMMITs, so any partial work of a failed compile
  becomes durable. It ignores the COMMIT's result, which is SQLITE_BUSY
  when another connection reads the file.
- A process crash in the middle of a compile rolls the open transaction back.
- A failed call can leave state that breaks a later call.
- The cursor's memory ownership across next, filter and close is fragile.

**What makes each part correct.**
- Global state: every loaded connection reports its own file's site id, and
  a persisted site id never changes. The cached version covers every clock
  version, and a load on a fresh file eventually succeeds.
- Compiler: a CRR is created all or nothing. The durable objects always form a
  prefix of the creation order. A call that reports success has committed.
  A failed call does not poison later calls, resources are released, and
  DROP TABLE removes the CRR.
- Changes table: every change newer than the watermark from another site is
  returned once, in `min_v` order. The cursor never touches freed memory.
- Triggers and merge: column-level last-writer-wins converges, and a write
  that causally follows another wins over it. The clock rows cover every
  stamp in the row, so the changes table can find it.

## 2. Modules and how they map to the code

### `CrrGlobalState` (with `MCCrrGlobalState`)
This module covers loading the extension on the connections `Conns`, which are
spread over the files `Files`.
- **State.** `pc[c]` is the step of `sqlite3_cfsqlite_init` that connection
  `c` has reached. `siteIdTbl[f]` is the committed site id row of file `f`,
  and `txSiteId[c]` is a row created by `c`'s open transaction. `readers`,
  `writer` and `pending` abstract SHARED, RESERVED and PENDING. The last three
  variables are the C globals.
- **Actions.** Each action is one step of the init sequence:
  - `Begin`
  - `CheckSiteIdTable`: `cfsql_doesTableExist`, which takes SHARED
  - `CreateSiteIdTable`: needs RESERVED and otherwise fails with SQLITE_BUSY
  - `ReadSiteId`: the `memcpy`
  - `InitDbVersion`: including the 0-based bind loop, in `UnionMaxVersion`
  - `CommitBusy` and `CommitOk`
  - `Close`: the application closes a connection whose load failed with its
    transaction still open.
- **Fairness.** `FairSpec` adds weak fairness per connection. Each load runs
  on its own thread to completion. The code neither blocks nor retries, so no
  stronger fairness is justified.
- **Terminal states.** `Terminated` is the terminal stuttering step once every
  load has returned, so deadlock checking stays on.

### `CrrCompile` (with `MCCrrCompile`)
This module covers `cfsql` calls on the connections `Conns` of one database
file.
- **State.** `committed[T]` holds the durable objects of table name `T`.
  `txObjs[c][T]` holds those that `c`'s open transaction created, and
  `txOpen[c]` says whether `c` is inside `BEGIN`. `readers`, `writer` and
  `pending` abstract SHARED, RESERVED and PENDING, as in `CrrGlobalState`.
  `tempTables[c]` holds `c`'s `cfsql_tmp__T`. `result[c]` is the outcome of
  `c`'s last call.
- **Actions.** Each action is one part of a call on connection `c`:
  - `Call`: the `;` test, prepare, `determineQueryType` and BEGIN. Prepare
    fails on invalid SQL and on `CREATE TABLE T` when `T` already names a
    table or view (`PrepareFails`). BEGIN fails while `c`'s transaction is
    still open, and the call returns without COMMIT.
  - `CreateTempTable`, `GetTableInfo`, `DropTempTable`: these touch only
    the connection's temp database and take no lock on the file.
  - `CreateSucceeds` and `CreateFails`: one statement of the rc-chained
    creation sequence, whose order is `Pipeline`. A statement needs SHARED
    to see the schema and RESERVED to write. Every step, the clock table's
    included, returns its `sqlite3_exec` result (lines 344-349), and the
    first failure ends the chain. A failed statement leaves the locks as
    they were before it.
  - `Commit`: the switch and its stub branches, then COMMIT. A writer's
    COMMIT while another connection holds SHARED is SQLITE_BUSY. The
    writer then keeps PENDING, its transaction stays open, and the call's
    result is left as it was.
  - `AppRead` and `AppReadDone`: the application reads on an idle
    connection, holding SHARED meanwhile. This is the environment, not
    code of `src/`: any reader of the file does this.
  - `Crash`: the process dies and every transaction rolls back.
- **Failures.** A statement fails when its name is taken, on a lock
  conflict (`StmtFailures`), or on an injected engine error, up to
  `MaxFaults`.
- **History variables.** `failed` and `failedCreates` record what the
  properties need.
- **Left out.** Who frees the `TableInfo` (it leaks on a failed step, line
  610) is not modelled; no property is about memory here.
- **Symmetry.** Connections are interchangeable, so the two-connection
  runs use `Permutations(Conns)`.

### `ChangesCursor` (with `MCChangesCursor`)
This module covers the changes virtual table as SQLite drives it.
- **Sequence.** The table is connected. Then queries are planned with
  `changesSinceBestIndex`, cursors are opened, filtered (possibly more than
  once), read and closed. The table is disconnected at the end.
- **State.**
  - `heap` is a sequence of allocations, each live or freed. A pointer is
    `NULL` or an index into `heap`.
  - `crsr` holds the fields of `cfsql_ChangesSince_cursor`.
  - `stmtRows` and `stmtRow` hold the prepared union's remaining rows and its
    current row.
  - `emitted` holds the rows SQLite read in the current scan.
  - `aborted` records a NULL or wild dereference, or a double free, which
    ends the process. `unsafeRead` records a read of freed memory.
- **Actions, one per outcome of each method.**
  - `Filter` has seven: NULL `pTab`, no clock tables, out of memory, a
    `cfsql_getTableInfo` error, a table without primary key, a prepare
    error, and a prepared statement.
  - `Next` has three: the wild requestor read, the end with finalize, and a
    row.
  - `ReadRow` stands for `changesSinceColumn` and `changesSinceRowid`.
- **Pure operators.** `BestIndex` is the planner answer as the code computes
  it, and `PlanAcceptable` is SQLite's check of that answer. `FilterArgs` is
  how Filter decodes `argv`. `ArmRows`, `BoundArms`, `ChangesRows` and
  `ChangesOrderings` are the per-table query, the binding and the ordered
  union. `ExpectedChanges` is the spec's reference definition (section 8.6),
  written independently of them.
- **`repaired`.**
  - Two defects end every scan inside Filter. `changesSinceOpen` never sets
    `pTab` (line 350). The query names the columns `__cfsql__version` and
    `__cfsql_col_num`, which no clock table has (lines 198-199), so prepare
    fails.
  - The variable `repaired` names the defects a behaviour assumes repaired.
    It is chosen at Init from the constant `RepairChoices` and never
    changes. `{}` is the code as written.
  - Every other line is modelled as written in all configurations.
- **Allocations.** Allocations that a path makes and frees itself (the arm
  strings, the `sqlite3_get_table` result) are left out of the heap unless
  the path leaks them.
- **Registration.** The init function that would register the module is
  commented out (lines 565-584). The model drives the table as SQLite would
  once it is registered, as the spec requires.

### `CrrReplica` (with `MCCrrReplica`)
This module covers one row of a compiled CRR replicated over the sites
`Sites`, each a database file with its own process.
- **State.** `crr[s]` is the `T__cfsql_crr` row at `s`: its
  `__cfsql_cl` (0 when there is no row), the column values, and per column
  the stamp `<<version, writer site>>`. The row shape is the one
  `cfsql_createCrrBaseTable` creates (`Absent`). `clock[s][w]` is the
  version of writer `w`'s row in `s`'s clock table (`cfsql_createClockTable`,
  one row per site and pk). `dbVersion[s]` is the static global of `s`'s
  process.
- **Actions.**
  - `Insert`, `Update` and `Delete` are the view triggers. `Live` is the
    view's `__cfsql_cl % 2 = 1` filter. An update stamps only the columns
    whose value changes. Delete makes the causal length even.
  - `Merge(s, t)` is an insert of `t`'s row (`PatchRow`, the patch view's
    columns) into `s`'s patch view. Per column, the later stamp wins, and a
    tie keeps the local value. The causal length and the clock rows take
    the larger value.
  - `Restart` re-runs `initDbVersion`. The clock table now exists, and the
    0-based bind loop leaves the arm's parameter NULL, so `dbVersion`
    becomes 0.
- **Version source.** The trigger bodies are not in `src/`; only their
  builders are declared in `cfsqlite-triggers.h`. The trigger actions
  therefore follow spec section 4.E and are marked `spec_modelled`. The
  version they stamp is `cfsql_dbversion()` as the code defines it
  (`WriteVersion`): the cached `dbVersion`, which nothing advances (line
  734 is a todo for the commit hook). Spec 3's version, one more than the
  greatest clock version, is not what the code computes, so no run uses
  it; with the code's version the sites do not converge (`replica_frozen`),
  and a last-writer-wins refinement or a convergence invariant would only
  restate that failure.
- **Fairness.** `FairSpec` adds weak fairness to each `Merge(s, t)`. The
  code has no transport; spec section 1 promises convergence once peers
  exchange, and this is that assumption.

### Faulty variants
Operators named `...Dropped`, `...IgnoringReaders`, `...Committed`,
`...OffByOne`, `...Autocommit`, `...Continuing`, `...WithoutMemset`,
`...AnyRow` and `...Once` are deliberate single
mistakes in the action they precede. Substituting one for its action makes
the listed property fail, which shows the property constrains that code (see
`mutants` in `PROJECT.json`).

## 3. Runs

| Run (cfg) | Expect | What it shows |
|---|---|---|
| `CrrGlobalState_race.cfg` | pass | Three connections race to load on one fresh file. Whatever lock conflicts occur, every loaded connection's `cfsql_siteid()` is the persisted id (`SiteIdAgreement`). Once persisted, that id is never replaced (`SiteIdStable`), because later loads take the "table exists" branch. 1,641 states. |
| `CrrGlobalState_twofiles.cfg` | violation | A connection on a second file overwrites `siteIdBlob`. The first file's loaded connection then reports the wrong id. |
| `CrrGlobalState_dbversion.cfg` | violation | With clock tables holding versions 3 then 5, the cached `dbVersion` is 3: the bind loop leaves the last arm's parameter NULL. |
| `CrrGlobalState_liveness.cfg` | violation | Two concurrent first loads can both fail: one gets COMMIT BUSY and the other CREATE BUSY. `SomeConnectionLoads` is false even under fairness. |
| `CrrCompile_prefix.cfg` | pass | Two connections make 3 calls on 2 names (one an ordinary table), with application reads, lock conflicts, 1 engine error and 1 crash. The durable CRR objects of every table are always a prefix of the creation order (`CommittedCrrIsPrefix`). A partial CRR is durable only after a compile committed past a failed statement, so a crash never leaves one (`PartialOnlyAfterFailure`). 479,538 states. |
| `CrrCompile_CompileAtomic.cfg` | violation | One connection compiles `CREATE TABLE t1`; the crr table's CREATE meets an engine error, and the trailing COMMIT makes the clock table durable without the rest (`CompileAtomic`). |
| `CrrCompile_busy.cfg` | violation | Connection c1 completes a compile of `t1` while the application reads on c2 (SHARED). c1's COMMIT is BUSY, the ignored result leaves the call reporting success, and nothing is durable (`OkCreateIsDurable`). c1's transaction stays open with PENDING, so its later calls fail at BEGIN. |
| `ChangesCursor_lifecycle.cfg` | pass | Every query shape (including two requestor constraints and `requestor = NULL`) on catalogs with no, one, two and an unkeyed clock table, two Filter calls per cursor, and one allocation or engine failure. Each behaviour picks the code as written, `pTab` repaired, or both defects repaired. Every method keeps the cursor and heap well formed (`TypeOK`), and every path is reached; the defects it reaches are listed below. 14,466 states. |
| `ChangesCursor_bind.cfg` | violation | With both defects repaired, only `rNumRows` of the `2*rNumRows` parameters are bound, so table `b`'s change is missed (`ScanComplete`). |
| `ChangesCursor_rescan.cfg` | violation | With both defects repaired, a cursor read to EOF is filtered again; Column then reads the `colVals` and `colVrsns` the first scan's Next freed (`NoUseAfterFree`). |
| `CrrReplica_lww.cfg` | pass | Two sites write one row (four writes, any mix of insert, update and delete) and merge in any order, with one process restart, stamping `cfsql_dbversion()` as written. Every stamp in a row is covered by its writer's clock row at every site (`ClocksCoverRow`), so the changes table, which selects by clock version, can find every write. 14,091 states. |
| `CrrReplica_frozen.cfg` | violation | With `cfsql_dbversion()` as written, site 1 inserts, site 2 merges, site 1 updates a column: the update carries the insert's stamp, the tie keeps site 2's old value, and the sites never converge. |

**Defects without a run of their own.** Each of these behaviours is in the
models, but no run checks a property against it.
- `changes-since-vtab.c:350`: `changesSinceOpen` never sets `pTab`, so the
  first Filter dereferences NULL (`aborted = "nullTab"`).
- `changes-since-vtab.c:268`: Next at the end of a scan frees `tableInfos`,
  `colVals` and `colVrsns` without clearing them, and Close frees them again
  (`aborted = "doubleFree"`).
- `changes-since-vtab.c:380`: the TableInfo array is not checked for NULL
  before the `memset` (`aborted = "nullInfos"`).
- `cfsqlite.c:558`: when `cfsql_getTableInfo` fails, createCrr returns
  without dropping `cfsql_tmp__T`. Every later compile of `T` on that
  connection then fails at CREATE TEMP TABLE.
- `cfsqlite.c:610`: createCrr returns on a failed step without
  `cfsql_freeTableInfo`.
- `cfsqlite.c:614`: `dropCrr` is empty, so `DROP TABLE` reports success and
  leaves the CRR.
- `changes-since-vtab.c:198-199`: the query names `__cfsql__version` and
  `__cfsql_col_num`, which no clock table has, so prepare fails.
- `changes-since-vtab.c:418`: without a requestor constraint, the requestor
  is the literal pointer `0x10`, and the first step reads it.
- `changes-since-vtab.c:292`, `:356`, `:389`: TableInfos, `zSql` and the
  per-row strings are never freed.
- `changes-since-vtab.c:460`: Filter does not step. The first row SQLite
  reads therefore has no table and no pk. After a rewind, that row carries
  the previous scan's last version.
- `changes-since-vtab.c:496`: BestIndex ignores `usable`, which SQLite
  rejects as an xBestIndex malfunction (`outcome = "malfunction"`).
- `changes-since-vtab.c:428`: with two requestor constraints both are
  omitted but Filter enforces only the last; with `requestor = NULL` Filter
  enforces the static pointer instead. The lifecycle run plans both shapes.

**Bounds.**
- Three connections are enough for a creator, a reader that saw the table
  absent, and a late loader that finds it. Two files are the least that
  share the globals.
- Three uuids cover one fresh id per possible creator.
- For the compiler, two connections are the least for a lock conflict and
  a COMMIT that meets a reader. Three calls allow a call per connection
  plus a retry or a call on another name. One engine error and one crash
  reach every error branch. Each branch needs only one failure, and the rc
  chain stops at the first one.
- For the changes table:
  - Two clock tables are the least for which the half-bound parameters
    drop an arm. A one-table catalog drops its only arm, and an unkeyed
    table and an empty catalog take the two early exits.
  - Two pks with versions 1 and 2 from the other site, plus a row from the
    requestor, make ordering, grouping and requestor filtering observable.
  - Two scans per cursor are enough to rewind after EOF.
- For the replicas, two sites are the least that merge, and their ids order
  a tie. Two columns let a merge take one column from each site. Four
  writes allow an insert, an update on each site after a merge, and a
  delete or a second update. One restart moves the cache from
  `MIN_POSSIBLE_DB_VERSION` to 0, so stamps of two versions meet.
  Three writes already show the frozen version.

## 4. Not modelled, and why
- The string building and SQL text: names and statements are abstracted to
  their kind and table. This also covers the `strdup(sqlite3_normalized_sql)`
  leak and the build dependence on `SQLITE_ENABLE_NORMALIZE`.
- `cfsql_getTableInfo`: not in `src/`. It is modelled as success or an
  engine error.
- A torn read of the 64-bit `dbVersion` needs a 32-bit target. Assignments
  are atomic in the model.
- Registration of the functions at the end of `sqlite3_cfsqlite_init` is
  assumed to succeed.
- Changes table:
  - The cost estimates and `xRowid`'s value do not change SQLite's
    answer. They are left out.
  - The lifetime of `argv` values is SQLite's: they stay valid during
    Filter, which is all the code uses.
  - The text of the union query is abstracted to its arms.
  - `cfsql_getTableInfo` is success, an engine error or out of memory.
- `src/cfsqlite-triggers.h` holds only the declarations of the trigger
  builders, so no definition maps to its lines. What the triggers do is
  modelled in `CrrReplica`, from the spec.
- Replicas:
  - The SQL text of the triggers. Only their effect on the row, the causal
    length and the clock rows is modelled, from spec 4.E.
  - One row, one pk. Rows of different pks do not interact in the triggers.
  - A merge applies the peer's current row and clock. Stale or reordered
    snapshots of one peer are subsumed: every earlier snapshot is a state
    the peer held, and merges are idempotent.
  - The clock upsert is modelled as keeping the larger version.
  - `__cfsql_src` is not used by any code in `src/` and is left out.

## 5. Plan
The plan is ordered by importance. Items 1 to 4 are done.
1. `CrrGlobalState`: loading, site id and db version.
2. `CrrCompile`: the compile pipeline, errors and crash, on several
   connections with application reads; the ignored COMMIT result.
3. `ChangesCursor`: the changes table's planner, cursor lifecycle, binding,
   rewinds and memory ownership.
4. `CrrReplica`: two sites, the view and patch triggers modelled from the
   spec (`spec_modelled`), stamping `cfsql_dbversion()` as written.
5. Runs for the reached defects that have none (the phantom row's stale
   version, the plan/Filter disagreement on argv) once the run budget
   allows; a last-writer-wins refinement once the code advances its version.
