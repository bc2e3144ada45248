------------------------------- MODULE MetricIds -------------------------------
(****************************************************************************)
(* Which metric a sample belongs to: the interning of metric names in       *)
(* src/store.rs.  A name gets an id in table metric, samples carry the id,  *)
(* a memo outside the database spares the writer the lookup, and compaction *)
(* deletes the names nothing refers to any more.                            *)
(*                                                                          *)
(* A row of samples is reduced to its id and, as history, the name whose    *)
(* value was stored; its time and resolution are module Rollup's business.  *)
(****************************************************************************)
EXTENDS Naturals, FiniteSets, Functions

CONSTANTS
    Names,        \* metric names
    MaxId         \* bound: the largest id handed out

ASSUME NamesAssumption == IsFiniteSet(Names)
ASSUME MaxIdAssumption == MaxId \in Nat

VARIABLES
    metric,    \* table metric: name -> id
    samples,   \* table samples: [mid, of]
    ids,       \* Store.ids, the memo: name -> id
    tx,        \* the open write transaction: what it would commit
    todo,      \* names of the points it has yet to insert
    read,      \* the reader of /api/series: the name asked for, its id, the rows
    failed     \* has a write ever failed, its transaction rolled back?

vars == <<metric, samples, ids, tx, todo, read, failed>>

NoTx == [open |-> FALSE, metric |-> << >>, samples |-> {}]
NoRead == [step |-> "none", id |-> 0, name |-> "none", rows |-> {}, gap |-> FALSE]
Id == 1 .. MaxId
Sample == [mid : Id, of : Names]

--------------------------------------------------------------------------------
(* SQLite *)

RangeOf(table) == {table[n] : n \in DOMAIN table}
\* The rowid of a new row: one more than the largest in use.
NewId(table) ==
    IF DOMAIN table = {} THEN 1
    ELSE 1 + CHOOSE i \in RangeOf(table) : \A j \in RangeOf(table) : j <= i

Inserted(table, name) ==
    [n \in DOMAIN table \cup {name} |-> IF n = name THEN NewId(table) ELSE table[n]]
OrReplace(table, name) == Inserted(table, name)   \* mutant: INSERT OR REPLACE
\* INSERT OR IGNORE INTO metric(name)
OrIgnore(table, name) == IF name \in DOMAIN table THEN table ELSE Inserted(table, name)

--------------------------------------------------------------------------------
(* Writing a tick: everything happens under the write lock *)

BeginWrite ==
    /\ ~ tx.open
    /\ tx' = [open |-> TRUE, metric |-> metric, samples |-> samples]
    /\ \E ns \in SUBSET Names : todo' = ns
    /\ UNCHANGED <<metric, samples, ids, read, failed>>

\* metric_id: the memo if it knows the name, else insert and look up.
MetricTable(name) == IF name \in DOMAIN ids THEN tx.metric ELSE OrIgnore(tx.metric, name)
\* Mutant: last_insert_rowid() for the lookup, 0 when nothing was inserted.
LastRowid(name) == IF name \in DOMAIN ids THEN ids[name]
                   ELSE IF name \in DOMAIN tx.metric THEN 0 ELSE MetricTable(name)[name]
MetricId(name) == IF name \in DOMAIN ids THEN ids[name] ELSE MetricTable(name)[name]

WritePoint(name) ==
    /\ tx.open /\ name \in todo
    /\ MetricId(name) <= MaxId
    /\ tx' = [tx EXCEPT !.metric = MetricTable(name),
                        !.samples = @ \cup {[mid |-> MetricId(name), of |-> name]}]
    /\ ids' = [n \in DOMAIN ids \cup {name} |-> IF n = name THEN MetricId(name) ELSE ids[n]]
    /\ todo' = todo \ {name}
    /\ UNCHANGED <<metric, samples, read, failed>>

CommitWrite ==
    /\ tx.open /\ todo = {}
    /\ metric' = tx.metric /\ samples' = tx.samples
    /\ tx' = NoTx
    /\ UNCHANGED <<ids, todo, read, failed>>

\* A statement or the commit fails: the transaction is rolled back.
WriteFails ==
    /\ tx.open
    /\ tx' = NoTx /\ todo' = {}
    /\ failed' = TRUE
    /\ UNCHANGED <<metric, samples, ids, read>>

--------------------------------------------------------------------------------
(* Compaction, under the same lock *)

MemoKept == ids          \* mutant
MemoDropped == << >>

NeverUnused(kept) == DOMAIN metric    \* mutant: no name is collected
StillUsed(kept) == {n \in DOMAIN metric : \E r \in kept : r.mid = metric[n]}

\* Rows past their retention go, then the names without rows, then the memo.
\* Which metrics still have rows is a matter of time, hence any.  read.gap
\* remembers that a reader was between its two statements.
Compact ==
    /\ ~ tx.open
    /\ \E kept \in SUBSET samples :
          /\ samples' = kept
          /\ metric' = Restrict(metric, StillUsed(kept))
    /\ ids' = MemoDropped
    /\ read' = [read EXCEPT !.gap = @ \/ read.step = "id"]
    /\ UNCHANGED <<tx, todo, failed>>

Restart ==
    /\ tx' = NoTx /\ todo' = {} /\ ids' = << >> /\ read' = NoRead
    /\ UNCHANGED <<metric, samples, failed>>

--------------------------------------------------------------------------------
(* GET /api/series, on a connection of its own: two statements, two snapshots *)

ReadId(name) ==
    /\ read.step = "none" /\ name \in DOMAIN metric
    /\ read' = [step |-> "id", id |-> metric[name], name |-> name, rows |-> {}, gap |-> FALSE]
    /\ UNCHANGED <<metric, samples, ids, tx, todo, failed>>

ReadRows ==
    /\ read.step = "id"
    /\ read' = [read EXCEPT !.step = "rows", !.rows = {r \in samples : r.mid = read.id}]
    /\ UNCHANGED <<metric, samples, ids, tx, todo, failed>>

Answer ==
    /\ read.step = "rows"
    /\ read' = NoRead
    /\ UNCHANGED <<metric, samples, ids, tx, todo, failed>>

--------------------------------------------------------------------------------
Init ==
    /\ metric = << >> /\ samples = {} /\ ids = << >>
    /\ tx = NoTx /\ todo = {} /\ read = NoRead /\ failed = FALSE

Next ==
    \/ BeginWrite \/ CommitWrite \/ WriteFails \/ Compact \/ Restart
    \/ \E name \in Names : WritePoint(name) \/ ReadId(name)
    \/ ReadRows \/ Answer

Spec == Init /\ [][Next]_vars

--------------------------------------------------------------------------------
(* Properties *)

IsTable(table) == /\ DOMAIN table \subseteq Names
                  /\ table \in [DOMAIN table -> Id]

\* Every variable keeps its type.
TypeOK ==
    /\ IsTable(metric) /\ IsTable(ids) /\ IsTable(tx.metric)
    /\ samples \subseteq Sample /\ tx.samples \subseteq Sample
    /\ tx = [open |-> tx.open, metric |-> tx.metric, samples |-> tx.samples]
    /\ tx.open \in BOOLEAN /\ todo \subseteq Names
    /\ read \in [step : {"none", "id", "rows"}, id : Id \cup {0}, name : Names \cup {"none"},
                 rows : SUBSET Sample, gap : BOOLEAN]
    /\ failed \in BOOLEAN

\* Every sample is filed under the id of the metric it was taken of, and under
\* no other: no chart ever mixes two metrics.
FiledByMetric ==
    /\ \A r \in samples : r.of \in DOMAIN metric /\ metric[r.of] = r.mid
    /\ \A m, n \in DOMAIN metric : metric[m] = metric[n] => m = n

\* Whenever the write lock is free, what the memo says is what the database
\* says: no id in it is dangling, or another metric's.
MemoAgrees == ~ tx.open => \A n \in DOMAIN ids : n \in DOMAIN metric /\ metric[n] = ids[n]

\* Through any sequence of writes, compactions, restarts and re-used ids in
\* which no write fails, samples are filed by metric and the memo agrees.
FiledWhileWritesSucceed == failed \/ (FiledByMetric /\ MemoAgrees)

\* The namespace does not grow with the containers that come and go: a name is
\* in the table only while a sample carries its id, failed writes included.
NoOrphanName == \A n \in DOMAIN metric : \E r \in samples : r.mid = metric[n]

\* An answer holds points of the metric that was asked for, although it takes two
\* snapshots: writes may fall between them, but not a compaction, which may give
\* the id away.
AnswersTheQuestion == \A r \in read.rows : r.of = read.name
AnswersUnlessCompacted == failed \/ read.gap \/ AnswersTheQuestion

================================================================================
