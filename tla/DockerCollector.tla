---------------------------- MODULE DockerCollector ----------------------------
(****************************************************************************)
(* One collection of src/collect/docker.rs: the listing, the calls for each *)
(* container with their limits, and the CPU usage worked out from counters  *)
(* that were read in the collection before.                                 *)
(*                                                                          *)
(* Containers run, restart, hang and go while they are asked.  Usage counts *)
(* in units of CPU time, one at most per unit of real time; what inspect    *)
(* returns is passed on and is not modelled.                                *)
(****************************************************************************)
EXTENDS Integers, FiniteSets, Functions

CONSTANTS
    Containers,      \* container ids, never used twice
    MaxInflight,     \* MAX_INFLIGHT
    PerCall,         \* PER_CALL_TIMEOUT
    Budget,          \* the budget of a collection
    MaxStarts,       \* bound: starts of containers
    Horizon          \* bound: the clock

ASSUME ContainersAssumption == IsFiniteSet(Containers)
ASSUME LimitsAssumption == {MaxInflight, PerCall, Budget} \subseteq Nat \ {0}
ASSUME BoundsAssumption == {MaxStarts, Horizon} \subseteq Nat

VARIABLES
    status,     \* of each container
    total,      \* its usage counter, from zero at every start
    used,       \* history: all it ever used
    starts,     \* how often it was started
    system,     \* the system counter: real time
    collecting, \* is a collection under way?
    jobs,       \* what is done for each container
    took,       \* time its current call has taken
    hung,       \* containers whose current call is not going to be answered
    listed,     \* containers the listing called running
    results,    \* what was found out: counters and usage
    elapsed,    \* time since the listing
    prev,       \* DockerCollector.prev: counters of the collection before
    begun,      \* history: when this collection and the last complete one began
    sick        \* history: containers that hung during the collection

world == <<status, total, used, starts>>
vars == <<world, system, collecting, jobs, took, hung, listed, results, elapsed,
          prev, begun, sick>>

None == -1
NoSample == [total |-> None, system |-> None, used |-> 0, start |-> 0]
NoUsage == [delta |-> None, spent |-> 0, start |-> 0, from |-> 0]
Unknown == [sample |-> NoSample, cpu |-> NoUsage]

Calls == {"inspect", "stats"}
InFlight == {c \in Containers : jobs[c] \in Calls}

--------------------------------------------------------------------------------
(* What is reported *)

AbsDiff(a, b) == IF a >= b THEN a - b ELSE b - a    \* mutant: abs_diff
\* checked_sub
CheckedSub(a, b) == IF a >= b THEN a - b ELSE None

Sample(c) == [total |-> total[c], system |-> system, used |-> used[c], start |-> starts[c]]

\* The usage since the sample of the collection before, if there is one, if no
\* counter ran backwards, and if any time has passed.
Usage(c) ==
    IF \/ c \notin DOMAIN prev
       \/ CheckedSub(total[c], prev[c].total) = None
       \/ system - prev[c].system <= 0
    THEN NoUsage
    ELSE [delta |-> CheckedSub(total[c], prev[c].total),
          spent |-> used[c] - prev[c].used,
          start |-> starts[c], from |-> prev[c].start]

--------------------------------------------------------------------------------
(* A collection *)

Present == {c \in Containers : status[c] \in {"running", "stopped"}}

\* The listing: all containers, and which of them run.  None begins that the
\* bound on the clock would not let end.
List ==
    /\ ~ collecting /\ system + Budget <= Horizon
    /\ collecting' = TRUE /\ elapsed' = 0
    /\ jobs' = [c \in Containers |-> IF c \in Present THEN "waiting" ELSE "none"]
    /\ took' = [c \in Containers |-> 0]
    /\ listed' = {c \in Present : status[c] = "running"}
    /\ results' = [c \in Containers |-> Unknown]
    /\ begun' = [begun EXCEPT !.now = system]
    /\ UNCHANGED <<world, system, prev, hung, sick>>

\* The listing fails: the counters of the collection before stay.
ListFails == ~ collecting /\ UNCHANGED vars

JobStep == UNCHANGED <<world, system, collecting, listed, elapsed, prev, begun>>

\* The next call is sent; the daemon may never answer it.
Call(c, step) ==
    /\ jobs' = [jobs EXCEPT ![c] = step] /\ took' = [took EXCEPT ![c] = 0]
    /\ \/ hung' = hung \ {c} /\ UNCHANGED sick
       \/ hung' = hung \cup {c} /\ sick' = sick \cup {c}

Done(c) ==
    /\ jobs' = [jobs EXCEPT ![c] = "done"] /\ took' = [took EXCEPT ![c] = 0]
    /\ hung' = hung \ {c} /\ UNCHANGED sick

\* Mutant: all containers are asked at once.
Unthrottled(c) ==
    /\ collecting /\ jobs[c] = "waiting"
    /\ Call(c, "inspect")
    /\ UNCHANGED results /\ JobStep
\* buffer_unordered takes up the next container.
Inspect(c) ==
    /\ collecting /\ jobs[c] = "waiting"
    /\ Cardinality(InFlight) < MaxInflight
    /\ Call(c, "inspect")
    /\ UNCHANGED results /\ JobStep

NoLimit == Budget         \* mutant: no limit of its own
CallLimit == PerCall
Ends(c) == c \notin hung \/ took[c] = CallLimit

\* Whatever inspect says, a container listed as running is asked for its stats.
InspectEnds(c) ==
    /\ collecting /\ jobs[c] = "inspect" /\ Ends(c)
    /\ IF c \in listed THEN Call(c, "stats") ELSE Done(c)
    /\ UNCHANGED results /\ JobStep

\* Only a container that still runs has counters; the call may fail for any.
StatsEnds(c) ==
    /\ collecting /\ jobs[c] = "stats" /\ Ends(c)
    /\ \/ /\ status[c] = "running" /\ c \notin hung
          /\ results' = [results EXCEPT ![c] = [sample |-> Sample(c), cpu |-> Usage(c)]]
       \/ UNCHANGED results
    /\ Done(c) /\ JobStep

Finished == \A c \in Containers : jobs[c] \in {"none", "done"}
Sampled == {c \in Containers : results[c].sample # NoSample}

Extended ==                  \* mutant: prev.extend(next)
    [c \in Sampled \cup DOMAIN prev |-> IF c \in Sampled THEN results[c].sample ELSE prev[c]]
\* The counters for the next collection: those of this one, and no others.
NextPrev == [c \in Sampled |-> results[c].sample]

\* The answers are handed on and forgotten.
Leave ==
    /\ collecting' = FALSE /\ elapsed' = 0
    /\ jobs' = [c \in Containers |-> "none"] /\ took' = [c \in Containers |-> 0]
    /\ listed' = {} /\ results' = [c \in Containers |-> Unknown]
    /\ hung' = {} /\ sick' = {}

CollectEnds ==
    /\ collecting /\ Finished
    /\ prev' = NextPrev
    /\ begun' = [begun EXCEPT !.last = begun.now]
    /\ Leave
    /\ UNCHANGED <<world, system>>

\* The whole collection is dropped, its counters too.
OverBudget ==
    /\ collecting /\ elapsed = Budget /\ ~ Finished
    /\ Leave
    /\ UNCHANGED <<world, system, prev, begun>>

--------------------------------------------------------------------------------
(* Containers and time *)

WorldStep == UNCHANGED <<system, collecting, jobs, took, hung, listed, results, elapsed, prev, begun, sick>>

Started == FoldFunction(+, 0, starts)
StartContainer(c) ==
    /\ status[c] \in {"new", "stopped"} /\ Started < MaxStarts
    /\ status' = [status EXCEPT ![c] = "running"]
    /\ starts' = [starts EXCEPT ![c] = @ + 1]
    /\ total' = [total EXCEPT ![c] = 0]
    /\ UNCHANGED used /\ WorldStep

StopContainer(c) ==
    /\ status[c] = "running"
    /\ status' = [status EXCEPT ![c] = "stopped"]
    /\ total' = [total EXCEPT ![c] = 0]
    /\ UNCHANGED <<used, starts>> /\ WorldStep

RemoveContainer(c) ==
    /\ status[c] = "stopped"
    /\ status' = [status EXCEPT ![c] = "removed"]
    /\ UNCHANGED <<total, used, starts>> /\ WorldStep

\* Answers that come take less than a unit of time; free slots are taken up and
\* limits enforced at once.
OnTime ==
    /\ elapsed < Budget /\ ~ Finished
    /\ \A c \in InFlight : ~ Ends(c)
    /\ (\E c \in Containers : jobs[c] = "waiting") => Cardinality(InFlight) = MaxInflight

Elapse ==
    /\ system < Horizon
    /\ collecting => OnTime
    /\ system' = system + 1
    /\ \E busy \in SUBSET {c \in Containers : status[c] = "running"} :
          /\ total' = [c \in Containers |-> IF c \in busy THEN total[c] + 1 ELSE total[c]]
          /\ used' = [c \in Containers |-> IF c \in busy THEN used[c] + 1 ELSE used[c]]
    /\ elapsed' = IF collecting THEN elapsed + 1 ELSE elapsed
    /\ took' = [c \in Containers |-> IF c \in InFlight THEN took[c] + 1 ELSE took[c]]
    /\ UNCHANGED <<status, starts, collecting, jobs, hung, listed, results,
                   prev, begun, sick>>

--------------------------------------------------------------------------------
Init ==
    /\ status = [c \in Containers |-> "new"]
    /\ total = [c \in Containers |-> 0] /\ used = total /\ starts = total
    /\ hung = {} /\ sick = {}
    /\ system = 0
    /\ collecting = FALSE /\ elapsed = 0
    /\ jobs = [c \in Containers |-> "none"] /\ took = [c \in Containers |-> 0]
    /\ listed = {} /\ results = [c \in Containers |-> Unknown]
    /\ prev = << >>
    /\ begun = [now |-> 0, last |-> 0]

Container(c) ==
    \/ StartContainer(c) \/ StopContainer(c) \/ RemoveContainer(c)
Collection ==
    \/ List \/ ListFails \/ CollectEnds \/ OverBudget
    \/ \E c \in Containers : Inspect(c) \/ InspectEnds(c) \/ StatsEnds(c)

Next == Collection \/ Elapse \/ \E c \in Containers : Container(c)

Spec == Init /\ [][Next]_vars

--------------------------------------------------------------------------------
(* Properties *)

\* Every variable keeps its type; no more calls are under way than allowed.
TypeOK ==
    /\ status \in [Containers -> {"new", "running", "stopped", "removed"}]
    /\ {total, used, starts, took} \subseteq [Containers -> Nat]
    /\ hung \subseteq InFlight /\ listed \subseteq Containers /\ sick \subseteq Containers
    /\ {system, elapsed, begun.now, begun.last} \subseteq Nat
    /\ collecting \in BOOLEAN /\ DOMAIN prev \subseteq Containers
    /\ jobs \in [Containers -> Calls \cup {"none", "waiting", "done"}]
    /\ Cardinality(InFlight) <= MaxInflight

\* The usage reported for a container is what it used since the collection
\* before; when it was restarted in between it is less, or unknown, never more.
Honest(u) == u.delta # None => /\ u.delta <= u.spent
                               /\ u.start = u.from => u.delta = u.spent
ReportsWhatWasUsed == \A c \in Containers : Honest(results[c].cpu)

\* Usage is averaged over one interval: the counters it is measured against are
\* those of the last complete collection, whatever failed since or before, so a
\* container that could not be read for a while starts anew.
WindowIsLastCollection == \A c \in DOMAIN prev : prev[c].system >= begun.last

\* A container that hangs costs its own values and not the collection: to exceed
\* the budget it takes more of them than calls may be under way at once.
SickCostTheirOwn == [][OverBudget => Cardinality(sick) > MaxInflight]_vars

================================================================================
