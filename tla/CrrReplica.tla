----------------------------- MODULE CrrReplica -----------------------------
(***************************************************************************)
(* One row of a compiled CRR replicated over Sites.  Each site is a       *)
(* database file with its own process.  The application writes the row    *)
(* through the view triggers, and applies another site's row through the *)
(* patch trigger.                                                          *)
(*                                                                         *)
(* The trigger bodies are not in src/ (src/cfsqlite-triggers.h only       *)
(* declares their builders), so the trigger actions follow spec section   *)
(* 4.E.  The version they stamp is cfsql_dbversion() (src/cfsqlite.c):    *)
(* the process-wide dbVersion, set once by initDbVersion when the         *)
(* extension loads and never advanced, although the comment at line 145  *)
(* says it is incremented on every commit.                                *)
(*                                                                         *)
(* The row is [cl, vals, vers]: its __causal_length, the non-pk column    *)
(* values, and per column the stamp <<version, writer site>> that the     *)
(* patch trigger compares (spec 4.E: ties broken by the writer's site).   *)
(* clock[s][w] is the version of the T__clock row of writer w at site s.  *)
(***************************************************************************)
EXTENDS Integers, FiniteSets

CONSTANTS
    Sites,          \* site ids, ordered as integers
    Cols,           \* non-pk columns
    Vals,           \* column values
    NoVal,          \* value of a column never written
    MinDbVersion,   \* MIN_POSSIBLE_DB_VERSION (line 52)
    MaxWrites,      \* bound on local writes, over all sites
    MaxRestarts     \* bound on process restarts, over all sites

ASSUME Sites \subseteq Nat \ {0}

VARIABLES
    crr,        \* crr[s]: the T__crr row at site s
    clock,      \* clock[s][w]: version of writer w's clock row at s
    dbVersion,  \* dbVersion[s]: the static global of s's process
    writes, restarts

vars == <<crr, clock, dbVersion, writes, restarts>>

NoClock == MinDbVersion - 1
Bottom == <<MinDbVersion - 1, 0>>

\* No T__crr row for the pk.
Absent == [cl |-> 0, vals |-> [c \in Cols |-> NoVal],
           vers |-> [c \in Cols |-> Bottom]]

Later(a, b) == a[1] > b[1] \/ (a[1] = b[1] /\ a[2] > b[2])
Larger(m, n) == IF m >= n THEN m ELSE n
Live(s) == crr[s].cl % 2 = 1

-----------------------------------------------------------------------------
(* The version a write stamps.                                            *)

\* initDbVersion as a process loads the extension.  Without a clock table
\* it returns before the query (lines 181-185) and dbVersion keeps its
\* initial value.  With the one clock table, the bind loop binds parameter
\* 0 (out of range), leaving the arm's site_id parameter NULL; MAX over no
\* rows is NULL, read as 0 (lines 199-218).
LoadedDbVersion(hasClockTable) == IF hasClockTable THEN 0 ELSE MinDbVersion

\* The version a write transaction at s stamps: cfsql_dbversion(), which
\* returns the global as it is.
WriteVersion(s) == dbVersion[s]

\* Faulty variant: the clock row is inserted once and never raised (an
\* INSERT OR IGNORE where the upsert belongs).
ClockStampedOnce(s, v) ==
    [clock EXCEPT ![s][s] = IF @ = NoClock THEN v ELSE @]

\* The clock upsert every view trigger ends with (spec 4.E).
ClockStamped(s, v) == [clock EXCEPT ![s][s] = v]

\* A row of the patch view T__cfsql_patch as a peer inserts it: all of t's
\* T__crr columns (values, version columns, __cfsql_cl) and its clock.
PatchRow(t) == [row |-> crr[t], clock |-> clock[t]]

-----------------------------------------------------------------------------
(* Initial state: the CRR is compiled on every site, no row is written.   *)
(* Each process loaded the extension before the compile, so it found no *)
(* clock table.                                                            *)

Init ==
    /\ crr = [s \in Sites |-> Absent]
    /\ clock = [s \in Sites |-> [w \in Sites |-> NoClock]]
    /\ dbVersion = [s \in Sites |-> LoadedDbVersion(FALSE)]
    /\ writes = 0 /\ restarts = 0

\* View-insert trigger T__ins: INSERT INTO T; the pk must be unused.
Insert(s) ==
    LET v == WriteVersion(s) IN
    /\ writes < MaxWrites /\ crr[s].cl = 0
    /\ \E vs \in [Cols -> Vals] :
           crr' = [crr EXCEPT ![s] = [cl |-> 1, vals |-> vs,
                                      vers |-> [c \in Cols |-> <<v, s>>]]]
    /\ clock' = ClockStamped(s, v)
    /\ writes' = writes + 1
    /\ UNCHANGED <<dbVersion, restarts>>

\* Faulty variant: the update applied whether or not the row is live.
UpdateAnyRow(s) ==
    LET v == WriteVersion(s) IN
    /\ writes < MaxWrites
    /\ \E c \in Cols, x \in Vals :
           crr' = [crr EXCEPT ![s].vals[c] = x,
                              ![s].vers[c] = IF crr[s].vals[c] # x
                                             THEN <<v, s>> ELSE @]
    /\ clock' = ClockStamped(s, v)
    /\ writes' = writes + 1
    /\ UNCHANGED <<dbVersion, restarts>>

\* View-update trigger T__upd: UPDATE T SET c = x on the live row.  Only a
\* column whose value changes (OLD.c IS NOT NEW.c) gets the new version.
Update(s) ==
    LET v == WriteVersion(s) IN
    /\ writes < MaxWrites /\ Live(s)
    /\ \E c \in Cols, x \in Vals :
           crr' = [crr EXCEPT ![s].vals[c] = x,
                              ![s].vers[c] = IF crr[s].vals[c] # x
                                             THEN <<v, s>> ELSE @]
    /\ clock' = ClockStamped(s, v)
    /\ writes' = writes + 1
    /\ UNCHANGED <<dbVersion, restarts>>

\* View-delete trigger T__del: bump the causal length to even; the row
\* stays as a tombstone.
Delete(s) ==
    /\ writes < MaxWrites /\ Live(s)
    /\ crr' = [crr EXCEPT ![s].cl = @ + 1]
    /\ clock' = ClockStamped(s, WriteVersion(s))
    /\ writes' = writes + 1
    /\ UNCHANGED <<dbVersion, restarts>>

\* Faulty variant: the version alone decides; a tie keeps the local value
\* whichever site wrote it.
MergeColumnIgnoringSite(local, incoming) ==
    IF incoming[2][1] > local[2][1] THEN incoming ELSE local

\* Patch trigger, per column: the incoming value wins when its stamp is
\* later; on a tie the local one stays.
MergeColumn(local, incoming) ==
    IF Later(incoming[2], local[2]) THEN incoming ELSE local

\* Faulty variant: the patch trigger keeps the local causal length.
MergeKeepingLength(s, t) ==
    LET p == PatchRow(t)
        col(c) == MergeColumn(<<crr[s].vals[c], crr[s].vers[c]>>,
                              <<p.row.vals[c], p.row.vers[c]>>)
    IN
    /\ p.row.cl > 0
    /\ crr' = [crr EXCEPT ![s] = [cl |-> IF crr[s].cl = 0 THEN p.row.cl
                                        ELSE crr[s].cl,
                                  vals |-> [c \in Cols |-> col(c)[1]],
                                  vers |-> [c \in Cols |-> col(c)[2]]]]
    /\ clock' = [clock EXCEPT ![s] = [w \in Sites |->
                                        Larger(clock[s][w], p.clock[w])]]
    /\ UNCHANGED <<dbVersion, writes, restarts>>

\* T__patch_ins at s with t's row and clock rows: per-column winner, larger
\* causal length, and every clock row raised to the incoming one.
Merge(s, t) ==
    LET p == PatchRow(t)
        col(c) == MergeColumn(<<crr[s].vals[c], crr[s].vers[c]>>,
                              <<p.row.vals[c], p.row.vers[c]>>)
    IN
    /\ p.row.cl > 0
    /\ crr' = [crr EXCEPT ![s] = [cl |-> Larger(crr[s].cl, p.row.cl),
                                  vals |-> [c \in Cols |-> col(c)[1]],
                                  vers |-> [c \in Cols |-> col(c)[2]]]]
    /\ clock' = [clock EXCEPT ![s] = [w \in Sites |->
                                        Larger(clock[s][w], p.clock[w])]]
    /\ UNCHANGED <<dbVersion, writes, restarts>>

\* The process of s restarts and loads the extension again; the clock
\* table now exists (sqlite3_cfsqlite_init, lines 755-777).
Restart(s) ==
    /\ restarts < MaxRestarts
    /\ dbVersion' = [dbVersion EXCEPT ![s] = LoadedDbVersion(TRUE)]
    /\ restarts' = restarts + 1
    /\ UNCHANGED <<crr, clock, writes>>

Next ==
    \E s \in Sites :
        \/ Insert(s) \/ Update(s) \/ Delete(s) \/ Restart(s)
        \/ \E t \in Sites \ {s} : Merge(s, t)

Spec == Init /\ [][Next]_vars

\* The replicas exchange rows: a merge that would change a site is not
\* postponed forever (spec 1: the system is eventually consistent given
\* exchange; the transport is out of the code's scope).
FairSpec == Spec /\ \A s, t \in Sites : s # t => WF_vars(Merge(s, t))

-----------------------------------------------------------------------------
(* Properties.                                                             *)

Versions == (MinDbVersion .. MinDbVersion + MaxWrites + 1) \cup {0}
Stamps == Versions \X Sites

TypeOK ==
    /\ \A s \in Sites :
           \/ crr[s] = Absent
           \/ crr[s] \in [cl : 1 .. 2 * MaxWrites, vals : [Cols -> Vals],
                          vers : [Cols -> Stamps]]
    /\ clock \in [Sites -> [Sites -> {NoClock} \cup Versions]]
    /\ writes \in 0 .. MaxWrites /\ restarts \in 0 .. MaxRestarts

\* The clock table is the row's version vector: every column's stamp is
\* covered by the clock row of the site that wrote it, at every site,
\* through local writes and merges alike.  The changes table (spec 8.6)
\* selects rows by their clock versions, so a stamp above its clock row
\* would never be sent.
ClocksCoverRow ==
    \A s \in Sites, c \in Cols :
        crr[s].vers[c] # Bottom =>
            crr[s].vers[c][1] <= clock[s][crr[s].vers[c][2]]

\* Once writes stop and the sites keep exchanging, every site ends with
\* the same row.
EventuallyConsistent == <>[](\A s, t \in Sites : crr[s] = crr[t])
=============================================================================
