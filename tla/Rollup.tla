--------------------------------- MODULE Rollup ---------------------------------
(****************************************************************************)
(* The history of one metric in src/store.rs: raw samples, the two tiers    *)
(* they are rolled up into, and pruning, driven by the collector and the    *)
(* compactor of src/main.rs.                                                *)
(*                                                                          *)
(* A row's avg, min and max are a function of the samples it aggregates; a  *)
(* rolled-up row is therefore the set of those samples, each named by its   *)
(* timestamp, and the count n that weighs it.  Both tasks read the clock    *)
(* well before they hold the write lock: the times they use may have passed.*)
(****************************************************************************)
EXTENDS Integers, FiniteSets, Functions

CONSTANTS
    FiveMin, Hour,          \* bucket widths; a raw sample's width is 1
    RawKept, FiveMinKept, HourKept,    \* retention of the three tiers
    Faults,                 \* what may go wrong, a subset of FaultKinds
    MaxLate,                \* time from collect()'s timestamp to its write
    MaxSlip,                \* time a compaction starts or ends late
    MaxFaults,              \* bound: faults
    MaxSamples,             \* bound: samples stored
    Horizon                 \* bound: the clock

FaultKinds == {"compact", "write", "meta", "clock", "restart", "slip"}

ASSUME WidthsAssumption ==
    /\ FiveMin \in Nat \ {0} /\ Hour \in Nat \ {0} /\ Hour % FiveMin = 0
ASSUME RetentionAssumption ==
    /\ {RawKept, FiveMinKept, HourKept} \subseteq Nat
    /\ 3 * FiveMin <= RawKept /\ 3 * Hour <= FiveMinKept /\ FiveMinKept <= HourKept
ASSUME BoundsAssumption ==
    /\ {MaxLate, MaxSlip, MaxFaults, MaxSamples, Horizon} \subseteq Nat
    /\ Hour <= Horizon /\ Faults \subseteq FaultKinds

VARIABLES
    up,          \* is the process running?
    clock,       \* now_secs()
    raw,         \* the raw tier: timestamps of its samples
    fiveMin,     \* the 5-minute tier: bucket -> row
    hour,        \* the 1-hour tier: likewise
    last,        \* meta.last_compact
    collected,   \* the collector: timestamp of a snapshot not yet written
    compacting,  \* the compactor: the time it read, while it runs
    due,         \* the compactor: its next tick
    stored,      \* every sample ever stored
    faults       \* what has gone wrong, each kind once at most

tables == <<raw, fiveMin, hour, last>>
vars == <<up, clock, tables, collected, compacting, due, stored, faults>>

None == -1
Times == 0 .. Horizon

--------------------------------------------------------------------------------
(* Buckets *)

Least(a, b) == IF a <= b THEN a ELSE b
Greatest(a, b) == IF a <= b THEN b ELSE a

Unscaled(t, width) == t \div width     \* mutant: ts/?1
\* (ts/?1)*?1
Bucket(t, width) == (t \div width) * width

RoundedDown(t, width) == IF t <= 0 THEN 0 ELSE Bucket(t, width)    \* mutant
\* ceil_bucket
CeilBucket(t, width) == IF t <= 0 THEN 0 ELSE Bucket(t + width - 1, width)

SinceLast(prev, now, width, kept) ==     \* mutant: always from last_compact
    CeilBucket(Greatest(prev, now - kept), width)
\* The first timestamp of the tier below that is rolled up again.
RollFrom(prev, now, width, kept) ==
    CeilBucket(Greatest(Least(prev, now - 2 * width), now - kept), width)

Row(of, n) == [of |-> of, n |-> n]
RawRows(ts) == [t \in ts |-> Row({t}, 1)]

\* sum(avg*n)/sum(n), min(min), max(max), sum(n) of a group of rows
Aggregate(rows, group) ==
    Row(UNION {rows[t].of : t \in group},
        FoldFunctionOnSet(LAMBDA r, n : r.n + n, 0, rows, group))

AddedTo(tier, b, row) ==     \* mutant: the count is added to the old one
    IF b \in DOMAIN tier THEN Row(tier[b].of \cup row.of, tier[b].n + row.n) ELSE row
\* INSERT OR REPLACE
Replacing(tier, b, row) == row

\* INSERT OR REPLACE ... SELECT ... WHERE ts >= from GROUP BY bucket
RollUp(tier, rows, from, width) ==
    LET group(b) == {t \in DOMAIN rows : t >= from /\ Bucket(t, width) = b}
    IN  [b \in DOMAIN tier \cup {Bucket(t, width) : t \in {u \in DOMAIN rows : u >= from}} |->
            IF group(b) = {} THEN tier[b] ELSE Replacing(tier, b, Aggregate(rows, group(b)))]

\* DELETE ... WHERE ts < cut
Pruned(tier, cut) == Restrict(tier, {b \in DOMAIN tier : b >= cut})

--------------------------------------------------------------------------------
(* The collector: stamp, collect, then write in a blocking task *)

Collect ==
    /\ up /\ collected = None
    /\ clock \notin stored /\ Cardinality(stored) < MaxSamples
    /\ collected' = clock
    /\ UNCHANGED <<up, clock, tables, compacting, due, stored, faults>>

Write ==
    /\ up /\ collected # None
    /\ raw' = raw \cup {collected}
    /\ stored' = stored \cup {collected}
    /\ collected' = None
    /\ UNCHANGED <<up, clock, fiveMin, hour, last, compacting, due, faults>>

Fault(kind) ==
    /\ kind \in Faults \ faults /\ Cardinality(faults) < MaxFaults
    /\ faults' = faults \cup {kind}

\* The transaction fails; the sample is dropped with a warning.
WriteFails ==
    /\ Fault("write")
    /\ up /\ collected # None
    /\ collected' = None
    /\ UNCHANGED <<up, clock, tables, compacting, due, stored>>

--------------------------------------------------------------------------------
(* The compactor: read the clock, then compact in a blocking task *)

CompactTick ==
    /\ up /\ compacting = None /\ clock >= due
    /\ compacting' = clock
    /\ due' = clock + FiveMin
    /\ UNCHANGED <<up, clock, tables, collected, stored, faults>>

\* The transaction, given the time of the previous one as meta tells it.
CompactSince(prev) ==
    /\ up /\ compacting # None
    /\ LET now == compacting
           five == RollUp(fiveMin, RawRows(raw),
                          RollFrom(prev, now, FiveMin, RawKept), FiveMin)
           sixty == RollUp(hour, five, RollFrom(prev, now, Hour, FiveMinKept), Hour)
       IN  /\ raw' = {t \in raw : t >= now - RawKept}
           /\ fiveMin' = Pruned(five, now - FiveMinKept)
           /\ hour' = Pruned(sixty, now - HourKept)
           /\ last' = now
    /\ compacting' = None
    /\ UNCHANGED <<up, clock, collected, due, stored>>

Compact == CompactSince(last) /\ UNCHANGED faults

\* last_compact cannot be read: unwrap_or(0).
CompactAnew == Fault("meta") /\ CompactSince(0)

\* The transaction fails and is rolled back; the loop waits for its next tick.
CompactFails ==
    /\ Fault("compact")
    /\ up /\ compacting # None
    /\ compacting' = None
    /\ UNCHANGED <<up, clock, tables, collected, due, stored>>

--------------------------------------------------------------------------------
(* The environment *)

\* From now on compactions start or end late: the machine is busy.
Slow ==
    /\ Fault("slip")
    /\ UNCHANGED <<up, clock, tables, collected, compacting, due, stored>>

\* Time passes, but a running process is at most so late.
Slip == IF "slip" \in faults THEN MaxSlip ELSE 0
OnTime ==
    /\ collected # None => clock < collected + MaxLate
    /\ IF compacting = None THEN clock < due + Slip ELSE clock < compacting + Slip

Elapse ==
    /\ clock < Horizon
    /\ up => OnTime
    /\ clock' = clock + 1
    /\ UNCHANGED <<up, tables, collected, compacting, due, stored, faults>>

\* The wall clock is set back; timers run on Instant and are not affected.
StepBack ==
    /\ Fault("clock")
    /\ up /\ collected = None /\ compacting = None
    /\ \E d \in 1 .. clock : clock' = clock - d /\ due' = due - d
    /\ UNCHANGED <<up, tables, collected, compacting, stored>>

Stop ==
    /\ Fault("restart")
    /\ up
    /\ up' = FALSE /\ collected' = None /\ compacting' = None
    /\ UNCHANGED <<clock, tables, due, stored>>

\* interval() ticks at once.
Start ==
    /\ ~ up
    /\ up' = TRUE /\ due' = clock
    /\ UNCHANGED <<clock, tables, collected, compacting, stored, faults>>

\* GET /api/series reads the tables on a connection of its own.
Series == UNCHANGED vars

--------------------------------------------------------------------------------
Init ==
    /\ up = TRUE
    /\ clock \in 0 .. Hour - 1 /\ due = clock
    /\ raw = {} /\ fiveMin = << >> /\ hour = << >> /\ last = 0
    /\ collected = None /\ compacting = None
    /\ stored = {} /\ faults = {}

Next ==
    \/ Collect \/ Write \/ WriteFails
    \/ CompactTick \/ Compact \/ CompactAnew \/ CompactFails
    \/ Slow \/ Elapse \/ StepBack \/ Stop \/ Start \/ Series

Spec == Init /\ [][Next]_vars

--------------------------------------------------------------------------------
(* Properties *)

IsTier(tier, width) ==
    /\ DOMAIN tier \subseteq {Bucket(t, width) : t \in Times}
    /\ \A b \in DOMAIN tier : tier[b].n \in Nat /\ tier[b].of \subseteq b .. b + width - 1

\* Every variable keeps its type: a row aggregates samples of its own bucket.
TypeOK ==
    /\ up \in BOOLEAN /\ clock \in Times /\ last \in Times
    /\ raw \subseteq stored /\ stored \subseteq Times
    /\ IsTier(fiveMin, FiveMin) /\ IsTier(hour, Hour)
    /\ {collected, compacting} \subseteq Times \cup {None}
    /\ faults \subseteq Faults

\* While the wall clock is not set back, a rolled-up row never loses a sample it
\* had counted: recomputing a bucket from what is left of the tier below would
\* overwrite it with a partial one.
KeepsSamples(old, new) == \A b \in DOMAIN old \cap DOMAIN new : old[b].of \subseteq new[b].of
NoPartialRewrite ==
    [][faults \cap {"clock"} = {} =>
          KeepsSamples(fiveMin, fiveMin') /\ KeepsSamples(hour, hour')]_vars

\* A bucket that no compaction will visit again has every sample stored for it,
\* as the comments in compact() promise of the buckets it leaves out.
Final(b, width) == b + 2 * width < last
CountedIn(tier, width, kept, t) ==
    LET b == Bucket(t, width)
    IN  Final(b, width) /\ b >= last - kept => b \in DOMAIN tier /\ t \in tier[b].of
FinalIsComplete ==
    \A t \in stored : /\ CountedIn(fiveMin, FiveMin, FiveMinKept, t)
                      /\ CountedIn(hour, Hour, HourKept, t)

\* ... which holds as long as compactions come when they are due, through failed
\* writes and a last_compact that cannot be read, of the samples written before
\* their 5-minute bucket ends: one stamped in its last seconds may come too late.
OnSchedule == faults \cap {"slip", "compact", "restart", "clock"} = {}
InTime(t) == t + MaxLate <= Bucket(t, FiveMin) + FiveMin
CompleteOnSchedule ==
    OnSchedule => \A t \in stored : InTime(t) => /\ CountedIn(fiveMin, FiveMin, FiveMinKept, t)
                                                /\ CountedIn(hour, Hour, HourKept, t)

\* The weight of a row is the number of samples in it: however often a bucket is
\* recomputed, none is counted twice.
CountedOnce ==
    \A tier \in {fiveMin, hour} : \A b \in DOMAIN tier : tier[b].n = Cardinality(tier[b].of)

\* Such a sample leaves no tier before a coarser one has counted it: it is
\* somewhere in the history for as long as the coarsest tier reaches back.
Somewhere(t) ==
    \/ t \in raw
    \/ \E tier \in {fiveMin, hour} : \E b \in DOMAIN tier : t \in tier[b].of
NothingLost ==
    OnSchedule =>
        \A t \in stored : InTime(t) /\ Bucket(t, Hour) >= last - HourKept => Somewhere(t)

================================================================================
