---------------------------- MODULE MetricIdsProofs ----------------------------
(****************************************************************************)
(* Theorems about MetricIds, for any finite set of names and any bound on   *)
(* the ids.                                                                 *)
(****************************************************************************)
EXTENDS MetricIds, Integers, WellFoundedInduction, TLAPS

--------------------------------------------------------------------------------
(* The row SQLite numbers a new name with *)

\* A bounded, nonempty set of numbers has a largest one: the least distance to
\* the bound.
LEMMA HasLargest ==
    ASSUME NEW bound \in Nat, NEW S \in SUBSET (0 .. bound), S # {}
    PROVE  \E i \in S : \A j \in S : j <= i
<1> DEFINE less == OpToRel(<, Nat)
           T == {n \in Nat : bound - n \in S}
<1>1. T \subseteq Nat /\ T # {}
  <2>1. PICK i \in S : TRUE
      OBVIOUS
  <2>2. bound - i \in Nat /\ bound - (bound - i) = i
      OBVIOUS
  <2>3. bound - i \in T
      BY <2>1, <2>2
  <2> QED
      BY <2>3
<1>2. PICK x \in T : \A y \in T : ~ (<<y, x>> \in less)
  <2> HIDE DEF less, T
  <2>1. IsWellFoundedOn(less, Nat)
      BY NatLessThanWellFounded DEF less
  <2> QED
      BY <1>1, <2>1, WFMin
<1>3. \A y \in T : ~ (y < x)
    BY <1>1, <1>2 DEF OpToRel
<1>4. PICK i \in S : x = bound - i
  <2>1. bound - x \in S /\ x \in Nat
      BY <1>2
  <2> QED
      BY <2>1
<1>5. ASSUME NEW j \in S PROVE j <= i
  <2>1. bound - j \in T
    <3>1. bound - j \in Nat /\ bound - (bound - j) = j
        BY <1>5
    <3> QED
        BY <1>5, <3>1
  <2>2. ~ (bound - j < bound - i)
      BY <1>3, <1>4, <2>1
  <2> QED
      BY <1>4, <1>5, <2>2
<1> QED
    BY <1>5

\* The number of a new row is larger than every number in use.
LEMMA NewIdIsNew ==
    ASSUME NEW table, IsTable(table)
    PROVE  NewId(table) \in Nat \ {0} /\ \A n \in DOMAIN table : table[n] < NewId(table)
<1>1. CASE DOMAIN table = {}
    BY <1>1 DEF NewId
<1>2. CASE DOMAIN table # {}
  <2>1. PICK r : r = RangeOf(table)
      OBVIOUS
  <2>2. \A n \in DOMAIN table : table[n] \in r
      BY <2>1, Zenon DEF RangeOf
  <2>3. \A i \in r : \E n \in DOMAIN table : i = table[n]
      BY <2>1, Zenon DEF RangeOf
  <2>4. r \in SUBSET (0 .. MaxId) /\ r # {}
      BY <1>2, <2>2, <2>3 DEF IsTable, Id
  <2>5. \E i \in r : \A j \in r : j <= i
      BY <2>4, HasLargest, MaxIdAssumption
  <2>6. PICK top : top = CHOOSE i \in r : \A j \in r : j <= i
      OBVIOUS
  <2>7. top \in r /\ \A j \in r : j <= top
      BY <2>5, <2>6
  <2>8. NewId(table) = 1 + top
      BY <1>2, <2>1, <2>6 DEF NewId
  <2>9. top \in Nat /\ \A j \in r : j \in Nat
      BY <2>4, <2>7
  <2>10. \A j \in r : j < 1 + top
      BY <2>7, <2>9
  <2>11. \A n \in DOMAIN table : table[n] < NewId(table)
      BY <2>2, <2>8, <2>10, Zenon
  <2>12. NewId(table) \in Nat \ {0}
      BY <2>8, <2>9
  <2> QED
      BY <2>11, <2>12
<1> QED
    BY <1>1, <1>2

--------------------------------------------------------------------------------
(* The inductive invariant *)

\* Every sample is filed under its metric's id, and no two metrics share one.
Filed(table, rows) ==
    /\ \A r \in rows : r.of \in DOMAIN table /\ table[r.of] = r.mid
    /\ \A m, n \in DOMAIN table : table[m] = table[n] => m = n

\* What one table says of a name, another says too.
Within(part, table) == \A n \in DOMAIN part : n \in DOMAIN table /\ table[n] = part[n]

NoneOrphan(table, rows) == \A n \in DOMAIN table : \E r \in rows : r.mid = table[n]

\* What a commit would leave behind is in order, and so is what it would replace.
Orphanless == NoneOrphan(metric, samples) /\ (tx.open => NoneOrphan(tx.metric, tx.samples))

\* While no write has failed: outside a transaction the memo repeats the table,
\* and inside one it repeats what the transaction would commit, which only adds
\* to the table.
InOrder ==
    /\ Filed(metric, samples)
    /\ tx.open => Filed(tx.metric, tx.samples) /\ Within(metric, tx.metric) /\ Within(ids, tx.metric)
    /\ ~ tx.open => Within(ids, metric)

\* A reader between its statements still holds the id of the metric it asked
\* for, unless a compaction came between.
ReadInOrder ==
    ~ read.gap => /\ read.step = "id" => read.name \in DOMAIN metric /\ metric[read.name] = read.id
                  /\ AnswersTheQuestion

MetricInv == TypeOK /\ Orphanless /\ (~ failed => InOrder /\ ReadInOrder)

--------------------------------------------------------------------------------
(* What a step does to a table *)

LEMMA TypedWrite ==
    ASSUME TypeOK, NEW name \in Names, WritePoint(name)
    PROVE  /\ IsTable(MetricTable(name)) /\ MetricId(name) \in Id
           /\ IsTable(ids')
<1>1. IsTable(tx.metric) /\ IsTable(ids) /\ MaxId \in Nat
    BY MaxIdAssumption DEF TypeOK
<1>2. MetricId(name) <= MaxId
    BY DEF WritePoint
<1>3. CASE name \in DOMAIN ids
  <2>1. MetricId(name) = ids[name] /\ MetricTable(name) = tx.metric
      BY <1>3 DEF MetricId, MetricTable
  <2>2. MetricId(name) \in Id
      BY <1>1, <1>3, <2>1 DEF IsTable
  <2> QED
      BY <1>1, <1>3, <2>1, <2>2 DEF WritePoint, IsTable
<1>4. CASE name \notin DOMAIN ids
  <2>1. PICK t : t = MetricTable(name)
      OBVIOUS
  <2>2. t = OrIgnore(tx.metric, name) /\ MetricId(name) = t[name]
      BY <1>4, <2>1 DEF MetricId, MetricTable
  <2>3. IsTable(t)
    <3>1. CASE name \in DOMAIN tx.metric
        BY <1>1, <2>2, <3>1 DEF OrIgnore
    <3>2. CASE name \notin DOMAIN tx.metric
      <4>1. PICK m, new : m = tx.metric /\ new = NewId(tx.metric)
          OBVIOUS
      <4>2. t = [n \in DOMAIN m \cup {name} |-> IF n = name THEN new ELSE m[n]]
          BY <2>2, <3>2, <4>1 DEF OrIgnore, Inserted
      <4>3. new \in Nat \ {0}
          BY <1>1, <4>1, NewIdIsNew
      <4>4. new <= MaxId
          BY <1>2, <2>2, <4>2
      <4>5. new \in Id
          BY <1>1, <4>3, <4>4 DEF Id
      <4> QED
          BY <1>1, <4>1, <4>2, <4>5 DEF IsTable
    <3> QED
        BY <3>1, <3>2
  <2>4. name \in DOMAIN t
      BY <2>2 DEF OrIgnore, Inserted
  <2>5. MetricId(name) \in Id
      BY <2>2, <2>3, <2>4 DEF IsTable
  <2> QED
      BY <1>1, <2>1, <2>3, <2>5 DEF WritePoint, IsTable
<1> QED
    BY <1>3, <1>4

\* The table of a write still repeats what it repeated, has the new name, and
\* two names in it still have two ids.
LEMMA WriteAddsToTable ==
    ASSUME TypeOK, NEW name \in Names, WritePoint(name)
    PROVE  /\ \A n \in DOMAIN tx.metric : n \in DOMAIN MetricTable(name)
                                          /\ MetricTable(name)[n] = tx.metric[n]
           /\ DOMAIN MetricTable(name) \subseteq DOMAIN tx.metric \cup {name}
           /\ name \notin DOMAIN ids => name \in DOMAIN MetricTable(name)
                                        /\ MetricTable(name)[name] = MetricId(name)
           /\ name \notin DOMAIN tx.metric /\ name \in DOMAIN MetricTable(name)
                  => \A n \in DOMAIN tx.metric : tx.metric[n] # MetricTable(name)[name]
<1>1. IsTable(tx.metric)
    BY DEF TypeOK
<1>2. CASE MetricTable(name) = tx.metric /\ (name \in DOMAIN ids \/ name \in DOMAIN tx.metric)
    BY <1>2 DEF MetricId
<1>3. CASE name \notin DOMAIN ids /\ name \notin DOMAIN tx.metric
  <2>1. PICK t, m, new : t = MetricTable(name) /\ m = tx.metric /\ new = NewId(tx.metric)
      OBVIOUS
  <2>2. t = [n \in DOMAIN m \cup {name} |-> IF n = name THEN new ELSE m[n]]
      BY <1>3, <2>1 DEF MetricTable, OrIgnore, Inserted
  <2>3. MetricId(name) = t[name]
      BY <1>3, <2>1 DEF MetricId
  <2>4. new \in Nat /\ \A n \in DOMAIN m : m[n] < new
      BY <1>1, <2>1, NewIdIsNew
  <2>5. \A n \in DOMAIN m : m[n] \in Nat
      BY <1>1, <2>1 DEF IsTable, Id
  <2>6. \A n \in DOMAIN m : m[n] # new
      BY <2>4, <2>5
  <2> QED
      BY <1>3, <2>1, <2>2, <2>3, <2>6
<1> QED
    BY <1>2, <1>3 DEF MetricTable, OrIgnore

--------------------------------------------------------------------------------
(* The types are kept *)

LEMMA InitIsInv == Init => MetricInv
<1> SUFFICES ASSUME Init PROVE MetricInv
    OBVIOUS
<1> USE DEF Init
<1>1. DOMAIN << >> = {} /\ << >> \in [{} -> Id]
    OBVIOUS
<1>2. IsTable(<< >>)
    BY <1>1 DEF IsTable
<1>3. TypeOK
    BY <1>2 DEF TypeOK, NoTx, NoRead
<1>4. Orphanless
    BY <1>1 DEF Orphanless, NoneOrphan, NoTx
<1>5. InOrder
    BY <1>1 DEF InOrder, Filed, Within, NoTx
<1>6. ReadInOrder
    BY DEF ReadInOrder, AnswersTheQuestion, NoRead
<1> QED
    BY <1>3, <1>4, <1>5, <1>6 DEF MetricInv

LEMMA TypesKept ==
    ASSUME TypeOK, [Next]_vars
    PROVE  TypeOK'
<1>1. CASE UNCHANGED vars
    BY <1>1 DEF vars, TypeOK, IsTable
<1>2. CASE BeginWrite
    BY <1>2 DEF BeginWrite, TypeOK, IsTable
<1>3. CASE CommitWrite
    BY <1>3 DEF CommitWrite, TypeOK, IsTable, NoTx
<1>4. CASE WriteFails
    BY <1>4 DEF WriteFails, TypeOK, IsTable, NoTx
<1>5. CASE Compact
  <2>1. PICK kept \in SUBSET samples :
            samples' = kept /\ metric' = Restrict(metric, StillUsed(kept))
      BY <1>5 DEF Compact
  <2>2. IsTable(metric')
      BY <2>1 DEF TypeOK, IsTable, StillUsed, Restrict
  <2>3. IsTable(ids')
      BY <1>5 DEF Compact, TypeOK, IsTable, MemoDropped
  <2>4. /\ read' = [read EXCEPT !.gap = @ \/ read.step = "id"]
        /\ UNCHANGED <<tx, todo, failed>>
      BY <1>5 DEF Compact
  <2>5. (read.gap \/ read.step = "id") \in BOOLEAN
      OBVIOUS
  <2>6. read' \in [step : {"none", "id", "rows"}, id : Id \cup {0}, name : Names \cup {"none"},
                  rows : SUBSET Sample, gap : BOOLEAN]
      BY <2>4, <2>5 DEF TypeOK
  <2> QED
      BY <2>1, <2>2, <2>3, <2>4, <2>6 DEF TypeOK, IsTable
<1>6. CASE Restart
    BY <1>6 DEF Restart, TypeOK, IsTable, NoTx, NoRead
<1>7. ASSUME NEW name \in Names, WritePoint(name) PROVE TypeOK'
  <2>1. PICK t, id : t = MetricTable(name) /\ id = MetricId(name)
      OBVIOUS
  <2>2. IsTable(t) /\ id \in Id /\ IsTable(ids')
      BY <1>7, <2>1, TypedWrite
  <2>3. tx' = [tx EXCEPT !.metric = t, !.samples = @ \cup {[mid |-> id, of |-> name]}]
        /\ UNCHANGED <<metric, samples, read, failed>> /\ todo' = todo \ {name}
      BY <1>7, <2>1 DEF WritePoint
  <2>4. [mid |-> id, of |-> name] \in Sample
      BY <2>2 DEF Sample
  <2>5. tx'.metric = t /\ tx'.open = tx.open
        /\ tx'.samples = tx.samples \cup {[mid |-> id, of |-> name]}
        /\ tx' = [open |-> tx'.open, metric |-> tx'.metric, samples |-> tx'.samples]
      BY <2>3 DEF TypeOK
  <2> QED
      BY <2>2, <2>3, <2>4, <2>5 DEF TypeOK, IsTable
<1>8. ASSUME NEW name \in Names, ReadId(name) PROVE TypeOK'
    BY <1>8 DEF ReadId, TypeOK, IsTable
<1>9. CASE ReadRows
    BY <1>9 DEF ReadRows, TypeOK, IsTable
<1>10. CASE Answer
    BY <1>10 DEF Answer, TypeOK, IsTable, NoRead
<1> QED
    BY <1>1, <1>2, <1>3, <1>4, <1>5, <1>6, <1>7, <1>8, <1>9, <1>10 DEF Next

LEMMA OrphanlessKept ==
    ASSUME TypeOK, Orphanless, [Next]_vars
    PROVE  Orphanless'
<1> USE DEF Orphanless, NoneOrphan
<1>1. CASE UNCHANGED vars
    BY <1>1 DEF vars
<1>2. CASE BeginWrite
    BY <1>2 DEF BeginWrite
<1>3. CASE CommitWrite
    BY <1>3 DEF CommitWrite, NoTx
<1>4. CASE WriteFails
    BY <1>4 DEF WriteFails, NoTx
<1>5. CASE Compact
    BY <1>5 DEF Compact, StillUsed, Restrict
<1>6. CASE Restart
    BY <1>6 DEF Restart, NoTx
<1>7. ASSUME NEW name \in Names, WritePoint(name) PROVE Orphanless'
  <2>1. PICK t, id, s : t = MetricTable(name) /\ id = MetricId(name) /\ s = [mid |-> id, of |-> name]
      OBVIOUS
  <2>2. tx'.metric = t /\ tx'.open = tx.open /\ tx'.samples = tx.samples \cup {s} /\ tx.open
        /\ UNCHANGED <<metric, samples>>
      BY <1>7, <2>1 DEF WritePoint, TypeOK
  <2>3. ASSUME NEW n \in DOMAIN t PROVE \E r \in tx'.samples : r.mid = t[n]
    <3>1. CASE n \in DOMAIN tx.metric
      <4>1. t[n] = tx.metric[n]
          BY <1>7, <2>1, <3>1, WriteAddsToTable
      <4>2. PICK r \in tx.samples : r.mid = tx.metric[n]
          BY <2>2, <3>1
      <4> QED
          BY <2>2, <4>1, <4>2
    <3>2. CASE n \notin DOMAIN tx.metric
      <4>1. n = name /\ name \notin DOMAIN ids
          BY <1>7, <2>1, <2>3, <3>2, WriteAddsToTable DEF MetricTable
      <4>2. t[n] = id
          BY <1>7, <2>1, <4>1, WriteAddsToTable
      <4> QED
          BY <2>1, <2>2, <4>2
    <3> QED
        BY <3>1, <3>2
  <2> QED
      BY <2>2, <2>3
<1>8. CASE \E name \in Names : ReadId(name)
    BY <1>8 DEF ReadId
<1>9. CASE ReadRows \/ Answer
    BY <1>9 DEF ReadRows, Answer
<1> QED
    BY <1>1, <1>2, <1>3, <1>4, <1>5, <1>6, <1>7, <1>8, <1>9 DEF Next

\* While no write fails, tables, memo and transaction stay in step.
LEMMA InOrderKept ==
    ASSUME TypeOK, InOrder, [Next]_vars, ~ WriteFails
    PROVE  InOrder'
<1> USE DEF InOrder
<1>1. CASE UNCHANGED vars
    BY <1>1 DEF vars, Filed, Within
<1>2. CASE BeginWrite
  <2>1. tx'.open /\ tx'.metric = metric /\ tx'.samples = samples /\ ids' = ids /\ ~ tx.open
        /\ metric' = metric /\ samples' = samples
      BY <1>2 DEF BeginWrite
  <2> QED
      BY <2>1 DEF Filed, Within
<1>3. CASE CommitWrite
  <2>1. ~ tx'.open /\ metric' = tx.metric /\ samples' = tx.samples /\ ids' = ids /\ tx.open
      BY <1>3 DEF CommitWrite, NoTx
  <2> QED
      BY <2>1 DEF Filed, Within
<1>4. CASE Compact
  <2>1. PICK kept \in SUBSET samples :
            samples' = kept /\ metric' = Restrict(metric, StillUsed(kept))
      BY <1>4 DEF Compact
  <2>2. ~ tx.open /\ tx' = tx /\ DOMAIN ids' = {}
      BY <1>4 DEF Compact, MemoDropped
  <2>3. DOMAIN metric' = StillUsed(kept) /\ \A n \in StillUsed(kept) : metric'[n] = metric[n]
      BY <2>1 DEF Restrict
  <2>4. StillUsed(kept) \subseteq DOMAIN metric
      BY DEF StillUsed
  <2>5. \A r \in kept : r.of \in StillUsed(kept) /\ metric[r.of] = r.mid
      BY DEF Filed, StillUsed
  <2>6. Filed(metric, samples)'
      BY <2>1, <2>3, <2>4, <2>5 DEF Filed
  <2> QED
      BY <2>2, <2>6 DEF Within
<1>5. CASE Restart
  <2>1. ~ tx'.open /\ metric' = metric /\ samples' = samples /\ DOMAIN ids' = {}
      BY <1>5 DEF Restart, NoTx
  <2> QED
      BY <2>1 DEF Filed, Within
<1>6. ASSUME NEW name \in Names, WritePoint(name) PROVE InOrder'
  <2>1. PICK t, id, s, m : /\ t = MetricTable(name) /\ id = MetricId(name)
                           /\ s = [mid |-> id, of |-> name] /\ m = tx.metric
      OBVIOUS
  <2>2. tx'.metric = t /\ tx'.open = tx.open /\ tx'.samples = tx.samples \cup {s} /\ tx.open
        /\ UNCHANGED <<metric, samples>>
      BY <1>6, <2>1 DEF WritePoint, TypeOK
  <2>3. /\ \A n \in DOMAIN m : n \in DOMAIN t /\ t[n] = m[n]
        /\ DOMAIN t \subseteq DOMAIN m \cup {name}
        /\ name \notin DOMAIN ids => name \in DOMAIN t /\ t[name] = id
        /\ name \notin DOMAIN m /\ name \in DOMAIN t => \A n \in DOMAIN m : m[n] # t[name]
      BY <1>6, <2>1, WriteAddsToTable
  <2>4. Filed(m, tx.samples) /\ Within(metric, m) /\ Within(ids, m)
      BY <2>1, <2>2
  <2>5. name \in DOMAIN t /\ t[name] = id
      BY <2>1, <2>3, <2>4 DEF Within, MetricId
  <2>6. Filed(t, tx.samples \cup {s})
    <3>1. \A r \in tx.samples : r.of \in DOMAIN t /\ t[r.of] = r.mid
        BY <2>3, <2>4 DEF Filed
    <3>2. s.of = name /\ s.mid = id
        BY <2>1
    <3>3. ASSUME NEW a \in DOMAIN t, NEW b \in DOMAIN t, t[a] = t[b] PROVE a = b
      <4>1. CASE a \in DOMAIN m /\ b \in DOMAIN m
          BY <2>3, <2>4, <3>3, <4>1 DEF Filed
      <4>2. CASE a \notin DOMAIN m /\ b \notin DOMAIN m
          BY <2>3, <4>2
      <4>3. CASE a \in DOMAIN m /\ b \notin DOMAIN m
          BY <2>3, <3>3, <4>3
      <4>4. CASE a \notin DOMAIN m /\ b \in DOMAIN m
          BY <2>3, <3>3, <4>4
      <4> QED
          BY <4>1, <4>2, <4>3, <4>4
    <3> QED
        BY <2>5, <3>1, <3>2, <3>3 DEF Filed
  <2>7. Within(metric, t)
      BY <2>3, <2>4 DEF Within
  <2>8. Within(ids', t)
    <3>1. ids' = [n \in DOMAIN ids \cup {name} |-> IF n = name THEN id ELSE ids[n]]
        BY <1>6, <2>1 DEF WritePoint
    <3> QED
        BY <2>3, <2>4, <2>5, <3>1 DEF Within
  <2> QED
      BY <2>2, <2>4, <2>6, <2>7, <2>8 DEF Filed, Within
<1>7. CASE \E name \in Names : ReadId(name)
    BY <1>7 DEF ReadId, Filed, Within
<1>8. CASE ReadRows \/ Answer
    BY <1>8 DEF ReadRows, Answer, Filed, Within
<1> QED
    BY <1>1, <1>2, <1>3, <1>4, <1>5, <1>6, <1>7, <1>8 DEF Next

\* The id a reader holds is taken away by nothing but a compaction, and the rows
\* that carry it are of the metric it asked for.
LEMMA ReadInOrderKept ==
    ASSUME TypeOK, InOrder, ReadInOrder, [Next]_vars, ~ WriteFails
    PROVE  ReadInOrder'
<1> USE DEF ReadInOrder, AnswersTheQuestion
<1>1. CASE UNCHANGED vars
    BY <1>1 DEF vars
<1>2. CASE BeginWrite \/ \E name \in Names : WritePoint(name)
    BY <1>2 DEF BeginWrite, WritePoint
<1>3. CASE CommitWrite
  <2>1. metric' = tx.metric /\ read' = read /\ Within(metric, tx.metric)
      BY <1>3 DEF CommitWrite, InOrder
  <2> QED
      BY <2>1 DEF Within
<1>4. CASE Compact
  <2>1. read' = [read EXCEPT !.gap = @ \/ read.step = "id"]
      BY <1>4 DEF Compact
  <2>2. CASE read.step = "id"
    <3>1. read'.gap
        BY <2>1, <2>2 DEF TypeOK
    <3> QED
        BY <3>1
  <2>3. CASE read.step # "id"
    <3>1. /\ read'.step = read.step /\ read'.name = read.name /\ read'.rows = read.rows
          /\ read'.gap <=> read.gap
        BY <2>1, <2>3 DEF TypeOK
    <3> QED
        BY <2>3, <3>1
  <2> QED
      BY <2>2, <2>3
<1>5. CASE Restart \/ Answer
    BY <1>5 DEF Restart, Answer, NoRead
<1>6. CASE \E name \in Names : ReadId(name)
    BY <1>6 DEF ReadId
<1>7. CASE ReadRows
  <2>1. read.step = "id" /\ read'.rows = {r \in samples : r.mid = read.id}
        /\ read'.step = "rows" /\ read'.name = read.name /\ read'.gap = read.gap
      BY <1>7 DEF ReadRows
  <2>2. ASSUME ~ read.gap, NEW r \in samples, r.mid = read.id PROVE r.of = read.name
      BY <2>1, <2>2 DEF InOrder, Filed
  <2> QED
      BY <2>1, <2>2
<1> QED
    BY <1>1, <1>2, <1>3, <1>4, <1>5, <1>6, <1>7 DEF Next

LEMMA NextKeeps == MetricInv /\ [Next]_vars => MetricInv'
<1> SUFFICES ASSUME MetricInv, [Next]_vars PROVE MetricInv'
    OBVIOUS
<1>1. TypeOK' /\ Orphanless'
    BY TypesKept, OrphanlessKept DEF MetricInv
<1>2. CASE WriteFails
  <2>1. failed'
      BY <1>2 DEF WriteFails
  <2> QED
      BY <1>1, <2>1, Zenon DEF MetricInv
<1>3. CASE ~ WriteFails
  <2>1. failed' = failed
      BY <1>3 DEF Next, BeginWrite, CommitWrite, Compact, Restart, WritePoint, ReadId, ReadRows,
                  Answer, vars
  <2>2. CASE failed
      BY <1>1, <2>1, <2>2, Zenon DEF MetricInv
  <2>3. CASE ~ failed
      BY <1>1, <1>3, <2>3, InOrderKept, ReadInOrderKept DEF MetricInv
  <2> QED
      BY <2>2, <2>3, Zenon
<1> QED
    BY <1>2, <1>3, Zenon

\* Writes, compactions and the reader keep the inductive invariant: ids belong to
\* one name each as long as nothing was rolled back.
THEOREM MetricInvariant == Spec => []MetricInv
    BY InitIsInv, NextKeeps, PTL DEF Spec

--------------------------------------------------------------------------------
(* Theorems *)

\* Every variable keeps its type.
THEOREM MetricIdsTypeCorrect == Spec => []TypeOK
<1>1. MetricInv => TypeOK
    BY Zenon DEF MetricInv
<1> QED
    BY <1>1, MetricInvariant, PTL

\* As long as no write is rolled back, every sample is filed under the id of its
\* own metric and under no other, through any number of writes, compactions that
\* free ids, writes that hand them out again, and restarts.
THEOREM SamplesAreFiled == Spec => []FiledWhileWritesSucceed
<1>1. MetricInv => FiledWhileWritesSucceed
    BY DEF MetricInv, InOrder, Filed, Within, FiledWhileWritesSucceed, FiledByMetric, MemoAgrees
<1> QED
    BY <1>1, MetricInvariant, PTL

\* A name is in the table only while a sample carries its id, also when writes
\* are rolled back half-way.
THEOREM NoNameIsOrphaned == Spec => []NoOrphanName
<1>1. MetricInv => NoOrphanName
    BY DEF MetricInv, Orphanless, NoneOrphan, NoOrphanName
<1> QED
    BY <1>1, MetricInvariant, PTL

\* An answer from two snapshots holds points of the metric it was asked for, no
\* matter how many writes fall between them, unless a compaction does.
THEOREM ReadersGetTheirMetric == Spec => []AnswersUnlessCompacted
<1>1. MetricInv => AnswersUnlessCompacted
    BY Zenon DEF MetricInv, ReadInOrder, AnswersUnlessCompacted
<1> QED
    BY <1>1, MetricInvariant, PTL

================================================================================
