------------------------------- MODULE StoreOpen -------------------------------
(****************************************************************************)
(* Store::open of src/store.rs: how the history database is created, kept,  *)
(* or rebuilt when a release with another SCHEMA_VERSION opens it.  Every   *)
(* statement of migrate() commits on its own, so the process may be killed, *)
(* or a statement may fail, between any two of them; and because the        *)
(* database runs in WAL mode with synchronous=NORMAL, a power cut may take  *)
(* back the latest commits.                                                 *)
(*                                                                          *)
(* A table is only its layout: the release that created it.  meta has had   *)
(* one layout all along and is never dropped, so it is not told apart.      *)
(****************************************************************************)
EXTENDS Integers

CONSTANTS
    Releases,    \* the values SCHEMA_VERSION takes, one release after another
    MaxStops     \* bound: kills, failing statements and power cuts

ASSUME ReleasesAssumption == Releases \subseteq Nat \ {0}
ASSUME MaxStopsAssumption == MaxStops \in Nat

VARIABLES
    release,   \* SCHEMA_VERSION of the installed binary
    step,      \* where Store::open is
    file,      \* vitals.db as the next connection finds it
    lag,       \* earlier contents that a power cut may bring back
    stops      \* counter, bounded by MaxStops

storeVars == <<release, step, file, lag, stops>>

--------------------------------------------------------------------------------
(* The database *)

Absent == -1
Legacy == 0      \* the user_version, and the layout, of a file from before versions
Layouts == Releases \cup {Legacy, Absent}

\* index is ix_samples_mid_res_ts; by is the release whose samples it holds.
File == [version : Releases \cup {Legacy}, by : Layouts,
         samples : Layouts, metric : Layouts, index : Layouts]
NewFile == [version |-> Legacy, by |-> Absent,
            samples |-> Absent, metric |-> Absent, index |-> Absent]
LegacyFile == [version |-> Legacy, by |-> Legacy,
               samples |-> Legacy, metric |-> Legacy, index |-> Legacy]

CreateSteps == {"create_metric", "create_samples", "create_index", "set_version"}
OpenSteps == {"read", "drop_samples", "drop_metric"} \cup CreateSteps
Closed == step = "closed"
Open == step = "open"

\* A statement of migrate() commits; the next one is due.
Commit(contents, next) ==
    /\ file' = contents
    /\ lag' = IF contents = file THEN lag ELSE lag \cup {file}
    /\ step' = next
    /\ UNCHANGED <<release, stops>>

CreatedIfAbsent(layout) == IF layout = Absent THEN release ELSE layout

--------------------------------------------------------------------------------
(* Store::open *)

OpenFile ==
    /\ Closed
    /\ step' = "read"
    /\ UNCHANGED <<release, file, lag, stops>>

HasSamples == file.samples # Absent        \* mutant: only one table is looked for
HasTables == file.samples # Absent \/ file.metric # Absent

\* PRAGMA user_version, and the count of the tables the store knows.
ReadVersion ==
    /\ step = "read"
    /\ step' = IF HasTables /\ file.version # release THEN "drop_samples" ELSE "create_metric"
    /\ UNCHANGED <<release, file, lag, stops>>

\* DROP TABLE IF EXISTS samples, which takes its index along.
DropSamples ==
    /\ step = "drop_samples"
    /\ Commit([file EXCEPT !.samples = Absent, !.index = Absent, !.by = Absent], "drop_metric")

DropMetric ==
    /\ step = "drop_metric"
    /\ Commit([file EXCEPT !.metric = Absent], "create_metric")

CreateMetric ==
    /\ step = "create_metric"
    /\ Commit([file EXCEPT !.metric = CreatedIfAbsent(@)], "create_samples")

CreateTable ==     \* mutant: without IF NOT EXISTS
    /\ step = "create_samples" /\ file.samples = Absent
    /\ Commit([file EXCEPT !.samples = release], "create_index")
CreateSamples ==
    /\ step = "create_samples"
    /\ Commit([file EXCEPT !.samples = CreatedIfAbsent(@)], "create_index")

\* The index names columns of this release's table; on another layout the
\* statement fails, and open() with it, whenever it is tried.  Then meta.
CreateIndex ==
    /\ step = "create_index"
    /\ file.index # Absent \/ file.samples = release
    /\ Commit([file EXCEPT !.index = CreatedIfAbsent(@)], "set_version")

VersionNotSet ==   \* mutant: user_version stays as it was
    /\ step = "set_version"
    /\ Commit(file, "open")
SetVersion ==
    /\ step = "set_version"
    /\ Commit([file EXCEPT !.version = release], "open")

\* write(): the collector's samples.
Record ==
    /\ Open
    /\ Commit([file EXCEPT !.by = release], "open")

--------------------------------------------------------------------------------
(* SQLite, the operator and the machine *)

\* What was committed so far reaches the database file.
Checkpoint ==
    /\ ~ Closed /\ lag # {}
    /\ lag' = {}
    /\ UNCHANGED <<release, step, file, stops>>

\* The process ends, wherever it is, and leaves the file as it is: it is
\* killed, or a statement fails (a full disk) and open() returns the error.
Kill ==
    /\ stops < MaxStops
    /\ stops' = stops + 1
    /\ step' = "closed"
    /\ UNCHANGED <<release, file, lag>>

\* Power is lost, up or down: the file is as it was after some commit since
\* the last checkpoint.
PowerCut ==
    /\ stops < MaxStops
    /\ stops' = stops + 1
    /\ step' = "closed"
    /\ file' \in lag \cup {file}
    /\ lag' = {}
    /\ UNCHANGED release

\* The operator installs a later release; it starts with the next process.  A
\* deployment that fails is rolled back to the previous binary, which is not a
\* step here: after an interrupted rebuild that binary finds its own version
\* over the tables of the later release, and OpenedIsCurrent does not hold.
Upgrade ==
    /\ Closed
    /\ release' \in {r \in Releases : r > release}
    /\ UNCHANGED <<step, file, lag, stops>>

--------------------------------------------------------------------------------
StoreInit ==
    /\ release \in Releases
    /\ step = "closed"
    /\ file \in {NewFile, LegacyFile}
    /\ lag = {} /\ stops = 0

Migrate ==
    \/ ReadVersion \/ DropSamples \/ DropMetric \/ CreateMetric \/ CreateSamples
    \/ CreateIndex \/ SetVersion
StoreNext ==
    \/ OpenFile \/ Migrate \/ Record \/ Checkpoint \/ Kill \/ PowerCut \/ Upgrade

StoreSpec == StoreInit /\ [][StoreNext]_storeVars

--------------------------------------------------------------------------------
(* Properties *)

\* A store that open() returned has this release's tables and no other's:
\* nothing that an interrupted or undone rebuild left behind is papered over
\* by CREATE TABLE IF NOT EXISTS.
OpenedIsCurrent ==
    Open => {file.version, file.samples, file.metric, file.index} = {release}

\* A release never drops history that it recorded itself: only a power cut
\* takes some of it back, however often the process is stopped and started.
OwnHistoryKept ==
    [][file.by = release /\ file'.by = Absent => PowerCut]_storeVars

================================================================================
