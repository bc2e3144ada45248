------------------------- MODULE DockerCollectorProofs -------------------------
(****************************************************************************)
(* Theorems about DockerCollector, for any finite set of containers, any    *)
(* number of calls under way, and any limits.                               *)
(****************************************************************************)
EXTENDS DockerCollector, FiniteSetTheorems, TLAPS

--------------------------------------------------------------------------------
(* The inductive invariant *)

Samples == [total : Int, system : Int, used : Int, start : Int]
Usages == [delta : Int, spent : Int, start : Int, from : Int]

WorldTyped ==
    /\ status \in [Containers -> {"new", "running", "stopped", "removed"}]
    /\ total \in [Containers -> Nat] /\ used \in [Containers -> Nat]
    /\ starts \in [Containers -> Nat]
    /\ system \in Nat

JobsTyped ==
    /\ jobs \in [Containers -> Calls \cup {"none", "waiting", "done"}]
    /\ took \in [Containers -> Nat]
    /\ hung \subseteq InFlight /\ listed \subseteq Containers /\ sick \subseteq Containers
    /\ elapsed \in Nat /\ collecting \in BOOLEAN
    /\ Cardinality(InFlight) <= MaxInflight
    /\ ~ collecting => hung = {} /\ sick = {} /\ InFlight = {}

AnswersTyped ==
    /\ results \in [Containers -> [sample : Samples, cpu : Usages]]
    /\ DOMAIN prev \subseteq Containers /\ prev \in [DOMAIN prev -> Samples]
    /\ begun \in [now : Nat, last : Nat]

Typed == WorldTyped /\ JobsTyped /\ AnswersTyped

\* What a sample taken some time ago says of the counters now: while the
\* container runs on, both have grown by the same; once it was started again,
\* its counter is at most what it used since.
Since(s, c) ==
    /\ s.total >= 0 /\ s.start <= starts[c] /\ s.used <= used[c]
    /\ starts[c] = s.start /\ status[c] = "running" => used[c] - total[c] = s.used - s.total
    /\ starts[c] > s.start => total[c] <= used[c] - s.used

Counters ==
    /\ \A c \in DOMAIN prev : Since(prev[c], c) /\ prev[c].system >= begun.last
    /\ \A c \in Containers :
          /\ results[c].sample # NoSample =>
                 Since(results[c].sample, c) /\ results[c].sample.system >= begun.now
          /\ Honest(results[c].cpu)
    /\ system >= begun.now

\* How long a hung container has kept its slot, had it hung from the start.
Kept(c) == took[c] + IF jobs[c] = "stats" THEN CallLimit ELSE 0
Crowded == Cardinality(sick) > MaxInflight

\* A container that waits while time passes waits for MaxInflight others that
\* hang; as long as no more than those hang, each of them has hung since the
\* listing.
Slots ==
    /\ hung \subseteq sick /\ \A c \in sick : jobs[c] # "waiting"
    /\ (\E c \in Containers : jobs[c] = "waiting") /\ elapsed > 0 => Cardinality(sick) >= MaxInflight
    /\ \A c \in Containers : jobs[c] = "inspect" /\ c \notin hung =>
           c \notin sick /\ (elapsed > 0 => Cardinality(sick) >= MaxInflight)
    /\ \A c \in hung : took[c] <= CallLimit /\ (Crowded \/ elapsed <= Kept(c))
    /\ Crowded \/ elapsed <= 2 * CallLimit

CollectionInv == Typed /\ Counters /\ Slots

--------------------------------------------------------------------------------
(* Lemmas *)

LEMMA LimitsTyped == MaxInflight \in Nat \ {0} /\ CallLimit \in Nat \ {0} /\ Budget \in Nat \ {0}
    BY LimitsAssumption DEF CallLimit

LEMMA SetsFinite ==
    ASSUME NEW S \in SUBSET Containers
    PROVE  IsFiniteSet(S) /\ Cardinality(S) \in Nat
    BY ContainersAssumption, FS_Subset, FS_CardinalityType

LEMMA OneMore ==
    ASSUME NEW S \in SUBSET Containers, NEW c \in Containers
    PROVE  /\ Cardinality(S \cup {c}) >= Cardinality(S)
           /\ Cardinality(S \cup {c}) <= Cardinality(S) + 1
           /\ c \notin S => Cardinality(S \cup {c}) = Cardinality(S) + 1
           /\ Cardinality(S \ {c}) <= Cardinality(S)
<1>1. IsFiniteSet(S) /\ Cardinality(S) \in Nat
    BY SetsFinite
<1>2. Cardinality(S \cup {c}) = IF c \in S THEN Cardinality(S) ELSE Cardinality(S) + 1
    BY <1>1, FS_AddElement
<1>3. Cardinality(S \ {c}) = IF c \in S THEN Cardinality(S) - 1 ELSE Cardinality(S)
    BY <1>1, FS_RemoveElement
<1> QED
    BY <1>1, <1>2, <1>3

\* The calls under way when the job of one container changes.
LEMMA InFlightMoves ==
    ASSUME JobsTyped, NEW c \in Containers, NEW step, jobs' = [jobs EXCEPT ![c] = step]
    PROVE  InFlight' = IF step \in Calls THEN InFlight \cup {c} ELSE InFlight \ {c}
    BY DEF JobsTyped, InFlight

--------------------------------------------------------------------------------
(* The types are kept *)

LEMMA LeaveTyped ==
    ASSUME Leave PROVE JobsTyped'
<1>1. InFlight' = {}
    BY DEF Leave, InFlight, Calls
<1>2. Cardinality(InFlight)' = 0
    BY <1>1, FS_EmptySet
<1>3. jobs' \in [Containers -> Calls \cup {"none", "waiting", "done"}] /\ took' \in [Containers -> Nat]
    BY DEF Leave
<1>4. hung' = {} /\ sick' = {} /\ listed' = {} /\ elapsed' \in Nat
    BY DEF Leave
<1>5. collecting' \in BOOLEAN
    BY DEF Leave
<1> QED
    BY <1>1, <1>2, <1>3, <1>4, <1>5, LimitsTyped DEF JobsTyped

LEMMA CallTyped ==
    ASSUME JobsTyped, NEW c \in Containers, NEW step \in Calls, Call(c, step),
           collecting, UNCHANGED <<collecting, listed, elapsed>>,
           c \in InFlight \/ Cardinality(InFlight) < MaxInflight
    PROVE  JobsTyped'
<1>1. InFlight' = InFlight \cup {c}
    BY InFlightMoves DEF Call
<1>2. Cardinality(InFlight \cup {c}) <= MaxInflight
  <2>1. CASE c \in InFlight
    <3>1. InFlight \cup {c} = InFlight
        BY <2>1
    <3> QED
        BY <3>1 DEF JobsTyped
  <2>2. CASE Cardinality(InFlight) < MaxInflight
    <3>1. InFlight \subseteq Containers
        BY DEF InFlight
    <3>2. Cardinality(InFlight) \in Nat /\ Cardinality(InFlight \cup {c}) <= Cardinality(InFlight) + 1
          /\ Cardinality(InFlight \cup {c}) \in Nat
        BY <3>1, SetsFinite, OneMore
    <3> QED
        BY <2>2, <3>2, LimitsTyped
  <2> QED
      BY <2>1, <2>2
<1>3. jobs' \in [Containers -> Calls \cup {"none", "waiting", "done"}] /\ took' \in [Containers -> Nat]
    BY DEF Call, JobsTyped
<1>4. hung' \subseteq InFlight' /\ sick' \subseteq Containers
    BY <1>1 DEF Call, JobsTyped
<1> QED
    BY <1>1, <1>2, <1>3, <1>4 DEF JobsTyped

LEMMA DoneTyped ==
    ASSUME JobsTyped, NEW c \in Containers, Done(c), collecting,
           UNCHANGED <<collecting, listed, elapsed>>
    PROVE  JobsTyped'
<1>1. InFlight' = InFlight \ {c}
    BY InFlightMoves DEF Done, Calls
<1>2. Cardinality(InFlight \ {c}) <= MaxInflight
  <2>1. InFlight \subseteq Containers /\ InFlight \ {c} \subseteq Containers
      BY DEF InFlight
  <2>2. Cardinality(InFlight) \in Nat /\ Cardinality(InFlight \ {c}) \in Nat
        /\ Cardinality(InFlight \ {c}) <= Cardinality(InFlight)
      BY <2>1, SetsFinite, OneMore
  <2> QED
      BY <2>2, LimitsTyped DEF JobsTyped
<1>3. jobs' \in [Containers -> Calls \cup {"none", "waiting", "done"}] /\ took' \in [Containers -> Nat]
    BY DEF Done, JobsTyped
<1>4. hung' \subseteq InFlight' /\ sick' \subseteq Containers
    BY <1>1 DEF Done, JobsTyped
<1> QED
    BY <1>1, <1>2, <1>3, <1>4 DEF JobsTyped

\* Leave apart, a collection changes the jobs in one of these ways.
LEMMA JobsKept ==
    ASSUME Typed, [Next]_vars
    PROVE  JobsTyped'
<1> USE DEF Typed
<1>1. CASE UNCHANGED vars
    BY <1>1 DEF vars, JobsTyped, InFlight
<1>2. CASE List
  <2>1. InFlight' = {}
      BY <1>2 DEF List, InFlight, Calls
  <2>2. Cardinality(InFlight)' = 0
      BY <2>1, FS_EmptySet
  <2>3. jobs' \in [Containers -> Calls \cup {"none", "waiting", "done"}] /\ took' \in [Containers -> Nat]
      BY <1>2 DEF List
  <2>4. hung' = {} /\ sick' = {} /\ listed' \subseteq Containers /\ elapsed' \in Nat
      BY <1>2 DEF List, JobsTyped, Present
  <2>5. collecting' \in BOOLEAN
      BY <1>2 DEF List
  <2> QED
      BY <2>1, <2>2, <2>3, <2>4, <2>5, LimitsTyped DEF JobsTyped
<1>3. CASE ListFails
    BY <1>1, <1>3 DEF ListFails
<1>4. ASSUME NEW c \in Containers, Inspect(c) PROVE JobsTyped'
    BY <1>4, CallTyped DEF Inspect, JobStep, Calls
<1>5. ASSUME NEW c \in Containers, InspectEnds(c) PROVE JobsTyped'
  <2>1. collecting /\ UNCHANGED <<collecting, listed, elapsed>> /\ c \in InFlight
      BY <1>5 DEF InspectEnds, JobStep, InFlight, Calls
  <2>2. Call(c, "stats") \/ Done(c)
      BY <1>5 DEF InspectEnds
  <2> QED
      BY <2>1, <2>2, CallTyped, DoneTyped DEF Calls
<1>6. ASSUME NEW c \in Containers, StatsEnds(c) PROVE JobsTyped'
    BY <1>6, DoneTyped DEF StatsEnds, JobStep
<1>7. CASE CollectEnds \/ OverBudget
    BY <1>7, LeaveTyped DEF CollectEnds, OverBudget
<1>8. CASE Elapse
  <2>1. /\ UNCHANGED <<collecting, jobs, hung, listed, sick>>
        /\ elapsed' = IF collecting THEN elapsed + 1 ELSE elapsed
        /\ took' = [c \in Containers |-> IF c \in InFlight THEN took[c] + 1 ELSE took[c]]
      BY <1>8 DEF Elapse
  <2>2. elapsed' \in Nat /\ took' \in [Containers -> Nat] /\ InFlight' = InFlight
      BY <2>1 DEF JobsTyped, InFlight
  <2> QED
      BY <2>1, <2>2 DEF JobsTyped
<1>9. ASSUME NEW c \in Containers, Container(c) PROVE JobsTyped'
  <2>1. WorldStep
      BY <1>9 DEF Container, StartContainer, StopContainer, RemoveContainer
  <2> QED
      BY <2>1 DEF WorldStep, JobsTyped, InFlight
<1> QED
    BY <1>1, <1>2, <1>3, <1>4, <1>5, <1>6, <1>7, <1>8, <1>9 DEF Next, Collection

LEMMA WorldKept ==
    ASSUME Typed, [Next]_vars
    PROVE  WorldTyped'
<1> USE DEF Typed
<1>1. CASE UNCHANGED world /\ UNCHANGED system
    BY <1>1 DEF world, WorldTyped
<1>2. CASE Collection
    BY <1>1, <1>2 DEF Collection, List, ListFails, CollectEnds, OverBudget, Inspect, InspectEnds,
                      StatsEnds, JobStep, vars
<1>3. CASE Elapse
  <2>1. PICK busy \in SUBSET {c \in Containers : status[c] = "running"} :
            /\ total' = [c \in Containers |-> IF c \in busy THEN total[c] + 1 ELSE total[c]]
            /\ used' = [c \in Containers |-> IF c \in busy THEN used[c] + 1 ELSE used[c]]
      BY <1>3 DEF Elapse
  <2> QED
      BY <1>3, <2>1 DEF Elapse, WorldTyped
<1>4. ASSUME NEW c \in Containers, Container(c) PROVE WorldTyped'
    BY <1>4 DEF Container, StartContainer, StopContainer, RemoveContainer, WorldStep, WorldTyped
<1> QED
    BY <1>1, <1>2, <1>3, <1>4 DEF Next, vars

\* What is found out about a container, and whether it is true.
LEMMA UsageIsHonest ==
    ASSUME Typed, Counters, NEW c \in Containers, status[c] = "running"
    PROVE  /\ Sample(c) \in Samples /\ Usage(c) \in Usages
           /\ Since(Sample(c), c) /\ Honest(Usage(c))
<1> USE DEF Typed, WorldTyped
<1>1. Sample(c) \in Samples /\ Since(Sample(c), c)
    BY DEF Sample, Samples, Since
<1>2. CASE Usage(c) = NoUsage
    BY <1>1, <1>2 DEF NoUsage, None, Usages, Honest
<1>3. CASE Usage(c) # NoUsage
  <2>1. PICK s : s = prev[c]
      OBVIOUS
  <2>2. /\ c \in DOMAIN prev /\ CheckedSub(total[c], s.total) # None
        /\ Usage(c) = [delta |-> CheckedSub(total[c], s.total), spent |-> used[c] - s.used,
                       start |-> starts[c], from |-> s.start]
      BY <1>3, <2>1 DEF Usage
  <2>3. s \in Samples /\ Since(s, c)
      BY <2>1, <2>2 DEF AnswersTyped, Counters
  <2>4. total[c] >= s.total /\ CheckedSub(total[c], s.total) = total[c] - s.total
      BY <2>2 DEF CheckedSub
  <2>5. /\ total[c] - s.total <= used[c] - s.used
        /\ starts[c] = s.start => total[c] - s.total = used[c] - s.used
      BY <2>3 DEF Since, Samples
  <2>6. Usage(c) \in Usages
      BY <2>2, <2>3, <2>4 DEF Usages, Samples
  <2> QED
      BY <1>1, <2>2, <2>4, <2>5, <2>6 DEF Honest
<1> QED
    BY <1>2, <1>3

LEMMA AnswersKept ==
    ASSUME Typed, Counters, [Next]_vars
    PROVE  AnswersTyped'
<1> USE DEF Typed
<1>1. CASE UNCHANGED <<results, prev, begun>>
    BY <1>1 DEF AnswersTyped
<1>2. Unknown \in [sample : Samples, cpu : Usages]
    BY DEF Unknown, NoSample, NoUsage, None, Samples, Usages
<1>3. CASE List
    BY <1>2, <1>3 DEF List, AnswersTyped, WorldTyped
<1>4. ASSUME NEW c \in Containers, StatsEnds(c) PROVE AnswersTyped'
  <2>1. CASE UNCHANGED results
      BY <1>1, <1>4, <2>1 DEF StatsEnds, JobStep
  <2>2. CASE /\ status[c] = "running"
             /\ results' = [results EXCEPT ![c] = [sample |-> Sample(c), cpu |-> Usage(c)]]
    <3>1. [sample |-> Sample(c), cpu |-> Usage(c)] \in [sample : Samples, cpu : Usages]
        BY <2>2, UsageIsHonest
    <3> QED
        BY <1>4, <2>2, <3>1 DEF StatsEnds, JobStep, AnswersTyped
  <2> QED
      BY <1>4, <2>1, <2>2 DEF StatsEnds
<1>5. CASE CollectEnds
  <2>1. results' \in [Containers -> [sample : Samples, cpu : Usages]]
      BY <1>2, <1>5 DEF CollectEnds, Leave
  <2>2. prev' = [c \in Sampled |-> results[c].sample] /\ begun' = [begun EXCEPT !.last = begun.now]
      BY <1>5 DEF CollectEnds, NextPrev
  <2>3. \A c \in Sampled : c \in Containers /\ results[c].sample \in Samples
      BY DEF AnswersTyped, Sampled
  <2> QED
      BY <2>1, <2>2, <2>3 DEF AnswersTyped
<1>6. CASE OverBudget
    BY <1>2, <1>6 DEF OverBudget, Leave, AnswersTyped
<1>7. CASE Elapse
    BY <1>1, <1>7 DEF Elapse
<1>8. CASE UNCHANGED vars \/ ListFails
    BY <1>1, <1>8 DEF vars, ListFails
<1>9. ASSUME NEW c \in Containers, Inspect(c) \/ InspectEnds(c) PROVE AnswersTyped'
    BY <1>1, <1>9 DEF Inspect, InspectEnds, JobStep
<1>10. ASSUME NEW c \in Containers, Container(c) PROVE AnswersTyped'
    BY <1>1, <1>10 DEF Container, StartContainer, StopContainer, RemoveContainer, WorldStep
<1> QED
    BY <1>3, <1>4, <1>5, <1>6, <1>7, <1>8, <1>9, <1>10 DEF Next, Collection

--------------------------------------------------------------------------------
(* The counters *)

\* Whatever containers do in the meantime, a sample stays true of them.
LEMMA SinceKept ==
    ASSUME WorldTyped, NEW c \in Containers, NEW s \in Samples, Since(s, c),
           \/ UNCHANGED world
           \/ Elapse
           \/ \E d \in Containers : Container(d)
    PROVE  Since(s, c)'
<1> USE DEF Since, WorldTyped, Samples
<1>1. CASE UNCHANGED world
    BY <1>1 DEF world
<1>2. CASE Elapse
  <2>1. PICK busy \in SUBSET {d \in Containers : status[d] = "running"} :
            /\ total' = [d \in Containers |-> IF d \in busy THEN total[d] + 1 ELSE total[d]]
            /\ used' = [d \in Containers |-> IF d \in busy THEN used[d] + 1 ELSE used[d]]
      BY <1>2 DEF Elapse
  <2>2. status' = status /\ starts' = starts
      BY <1>2 DEF Elapse
  <2>3. CASE c \in busy
      BY <2>1, <2>2, <2>3
  <2>4. CASE c \notin busy
      BY <2>1, <2>2, <2>4
  <2> QED
      BY <2>3, <2>4
<1>3. ASSUME NEW d \in Containers, Container(d) PROVE Since(s, c)'
  <2>1. CASE c # d
      BY <1>3, <2>1 DEF Container, StartContainer, StopContainer, RemoveContainer
  <2>2. CASE c = d
    <3>1. CASE StartContainer(c)
        BY <3>1 DEF StartContainer
    <3>2. CASE StopContainer(c)
        BY <3>2 DEF StopContainer
    <3>3. CASE RemoveContainer(c)
        BY <3>3 DEF RemoveContainer
    <3> QED
        BY <1>3, <2>2, <3>1, <3>2, <3>3 DEF Container
  <2> QED
      BY <2>1, <2>2
<1> QED
    BY <1>1, <1>2, <1>3

LEMMA CountersKept ==
    ASSUME Typed, Counters, [Next]_vars
    PROVE  Counters'
<1> USE DEF Typed
<1>1. CASE /\ UNCHANGED <<prev, results, begun>> /\ system' >= system /\ system' \in Nat
           /\ UNCHANGED world \/ Elapse \/ \E d \in Containers : Container(d)
  <2>1. ASSUME NEW c \in DOMAIN prev PROVE Since(prev[c], c)'
    <3>1. PICK s : s = prev[c]
        OBVIOUS
    <3>2. s \in Samples /\ Since(s, c) /\ c \in Containers
        BY <3>1 DEF AnswersTyped, Counters
    <3>3. Since(s, c)'
        BY <1>1, <3>2, SinceKept
    <3> QED
        BY <1>1, <3>1, <3>3 DEF Since
  <2>2. ASSUME NEW c \in Containers, results[c].sample # NoSample PROVE Since(results[c].sample, c)'
    <3>1. PICK s : s = results[c].sample
        OBVIOUS
    <3>2. s \in Samples /\ Since(s, c)
        BY <2>2, <3>1 DEF AnswersTyped, Counters
    <3>3. Since(s, c)'
        BY <1>1, <3>2, SinceKept
    <3> QED
        BY <1>1, <3>1, <3>3 DEF Since
  <2>3. system' >= begun'.now
      BY <1>1 DEF WorldTyped, AnswersTyped, Counters
  <2> QED
      BY <1>1, <2>1, <2>2, <2>3 DEF Counters
<1>2. CASE List
  <2>1. /\ UNCHANGED <<world, system, prev>> /\ results' = [c \in Containers |-> Unknown]
        /\ begun' = [begun EXCEPT !.now = system]
      BY <1>2 DEF List
  <2>2. \A c \in Containers : results'[c].sample = NoSample /\ Honest(results'[c].cpu)
      BY <2>1 DEF Unknown, Honest, NoUsage, None
  <2>3. \A c \in DOMAIN prev : Since(prev[c], c)' /\ prev'[c].system >= begun'.last
      BY <2>1 DEF Counters, Since, world, AnswersTyped
  <2>4. system' >= begun'.now
      BY <2>1 DEF WorldTyped, AnswersTyped
  <2> QED
      BY <2>1, <2>2, <2>3, <2>4 DEF Counters
<1>3. ASSUME NEW c \in Containers, StatsEnds(c) PROVE Counters'
  <2>1. CASE UNCHANGED results
      BY <1>1, <1>3, <2>1 DEF StatsEnds, JobStep, WorldTyped
  <2>2. CASE /\ status[c] = "running"
             /\ results' = [results EXCEPT ![c] = [sample |-> Sample(c), cpu |-> Usage(c)]]
    <3>1. UNCHANGED <<world, system, prev, begun>>
        BY <1>3 DEF StatsEnds, JobStep
    <3>2. Since(Sample(c), c) /\ Honest(Usage(c))
        BY <2>2, UsageIsHonest
    <3>3. results'[c].sample = Sample(c) /\ results'[c].cpu = Usage(c)
          /\ \A d \in Containers \ {c} : results'[d] = results[d]
        BY <2>2 DEF AnswersTyped
    <3>4. Sample(c).system >= begun.now
        BY DEF Sample, Counters
    <3>5. ASSUME NEW d \in Containers
          PROVE  /\ results'[d].sample # NoSample =>
                        Since(results[d].sample, d)' /\ results'[d].sample.system >= begun'.now
                 /\ Honest(results'[d].cpu)
      <4>1. CASE d = c
          BY <3>1, <3>2, <3>3, <3>4, <4>1 DEF Since, world
      <4>2. CASE d # c
          BY <3>1, <3>3, <4>2 DEF Since, world, Counters
      <4> QED
          BY <4>1, <4>2
    <3>6. \A d \in DOMAIN prev : Since(prev[d], d)' /\ prev'[d].system >= begun'.last
        BY <3>1 DEF Counters, Since, world
    <3> QED
        BY <3>1, <3>5, <3>6 DEF Counters
  <2> QED
      BY <1>3, <2>1, <2>2 DEF StatsEnds
<1>4. CASE CollectEnds \/ OverBudget
  <2>1. /\ UNCHANGED <<world, system>> /\ results' = [c \in Containers |-> Unknown]
        /\ begun'.now = begun.now
      BY <1>4 DEF CollectEnds, OverBudget, Leave, AnswersTyped
  <2>2. \A c \in Containers : results'[c].sample = NoSample /\ Honest(results'[c].cpu)
      BY <2>1 DEF Unknown, Honest, NoUsage, None
  <2>3. ASSUME NEW c \in DOMAIN prev' PROVE Since(prev[c], c)' /\ prev'[c].system >= begun'.last
    <3>1. CASE OverBudget
        BY <2>1, <2>3, <3>1 DEF OverBudget, Counters, Since, world
    <3>2. CASE CollectEnds
      <4>1. prev' = [d \in Sampled |-> results[d].sample] /\ begun'.last = begun.now
          BY <3>2 DEF CollectEnds, NextPrev, AnswersTyped
      <4>2. c \in Containers /\ results[c].sample # NoSample /\ prev'[c] = results[c].sample
          BY <2>3, <4>1 DEF Sampled
      <4> QED
          BY <2>1, <4>1, <4>2 DEF Counters, Since, world
    <3> QED
        BY <1>4, <3>1, <3>2
  <2> QED
      BY <2>1, <2>2, <2>3 DEF Counters
<1>5. CASE Elapse
    BY <1>1, <1>5 DEF Elapse, WorldTyped
<1>6. CASE UNCHANGED vars \/ ListFails
    BY <1>1, <1>6 DEF vars, ListFails, WorldTyped
<1>7. ASSUME NEW c \in Containers, Inspect(c) \/ InspectEnds(c) PROVE Counters'
    BY <1>1, <1>7 DEF Inspect, InspectEnds, JobStep, WorldTyped
<1>8. ASSUME NEW c \in Containers, Container(c) PROVE Counters'
    BY <1>1, <1>8 DEF Container, StartContainer, StopContainer, RemoveContainer, WorldStep, WorldTyped
<1> QED
    BY <1>2, <1>3, <1>4, <1>5, <1>6, <1>7, <1>8 DEF Next, Collection

--------------------------------------------------------------------------------
(* Slots *)

\* A call is sent, to a container that waits or that has been asked before.
LEMMA CallKeepsSlots ==
    ASSUME Typed, Slots, NEW c \in Containers, NEW step \in Calls, Call(c, step),
           collecting, UNCHANGED <<collecting, elapsed>>,
           \/ jobs[c] = "waiting" /\ step = "inspect"
           \/ jobs[c] = "inspect" /\ step = "stats" /\ Ends(c)
    PROVE  Slots'
<1> USE LimitsTyped DEF Typed
<1>1. /\ \A d \in Containers : jobs'[d] = IF d = c THEN step ELSE jobs[d]
      /\ \A d \in Containers : took'[d] = IF d = c THEN 0 ELSE took[d]
      /\ elapsed \in Nat /\ sick \subseteq Containers /\ hung \subseteq Containers
      /\ \A d \in Containers : took[d] \in Nat
    BY DEF Call, JobsTyped, InFlight
<1>2. /\ Cardinality(sick) \in Nat /\ Cardinality(sick \cup {c}) \in Nat
      /\ Cardinality(sick \cup {c}) >= Cardinality(sick)
      /\ c \notin sick => Cardinality(sick \cup {c}) = Cardinality(sick) + 1
    BY <1>1, SetsFinite, OneMore
<1>3. CASE hung' = hung \ {c} /\ sick' = sick
  <2>1. \A d \in hung' : Kept(d)' = Kept(d)
      BY <1>1, <1>3 DEF Kept
  <2>2. hung' \subseteq sick' /\ \A d \in sick' : jobs'[d] # "waiting"
      BY <1>1, <1>3 DEF Slots, Calls
  <2>3. \A d \in Containers : jobs'[d] = "waiting" => jobs[d] = "waiting"
      BY <1>1 DEF Calls
  <2>4. \A d \in Containers : jobs'[d] = "inspect" /\ d \notin hung' =>
            d \notin sick' /\ (elapsed > 0 => Cardinality(sick) >= MaxInflight)
      BY <1>1, <1>3 DEF Slots
  <2>5. \A d \in hung' : took'[d] <= CallLimit /\ (Crowded \/ elapsed <= Kept(d))
      BY <1>1, <1>3 DEF Slots
  <2>6. Crowded' <=> Crowded
      BY <1>3 DEF Crowded
  <2>7. \A d \in hung' : took'[d] <= CallLimit /\ (Crowded' \/ elapsed' <= Kept(d)')
      BY <2>1, <2>5, <2>6
  <2>8. (\E d \in Containers : jobs'[d] = "waiting") /\ elapsed' > 0 => Cardinality(sick') >= MaxInflight
      BY <1>3, <2>3 DEF Slots
  <2>9. Crowded' \/ elapsed' <= 2 * CallLimit
      BY <2>6 DEF Slots
  <2>10. \A d \in Containers : jobs'[d] = "inspect" /\ d \notin hung' =>
            d \notin sick' /\ (elapsed' > 0 => Cardinality(sick') >= MaxInflight)
      BY <1>3, <2>4
  <2> QED
      BY <2>2, <2>7, <2>8, <2>9, <2>10 DEF Slots
<1>4. CASE hung' = hung \cup {c} /\ sick' = sick \cup {c}
  <2>1. hung' \subseteq sick' /\ \A d \in sick' : jobs'[d] # "waiting"
      BY <1>1, <1>4 DEF Slots, Calls
  <2>2. (\E d \in Containers : jobs'[d] = "waiting") /\ elapsed' > 0 => Cardinality(sick') >= MaxInflight
      BY <1>1, <1>2, <1>4 DEF Slots, Calls
  <2>3. \A d \in Containers : jobs'[d] = "inspect" /\ d \notin hung' =>
            d \notin sick' /\ (elapsed' > 0 => Cardinality(sick') >= MaxInflight)
      BY <1>1, <1>2, <1>4 DEF Slots
  <2>4. Crowded => Crowded'
      BY <1>2, <1>4 DEF Crowded
  <2>5. \A d \in hung \ {c} : took'[d] <= CallLimit /\ (Crowded' \/ elapsed' <= Kept(d)')
    <3>1. \A d \in hung \ {c} : Kept(d)' = Kept(d)
        BY <1>1 DEF Kept
    <3> QED
        BY <1>1, <2>4, <3>1 DEF Slots
  <2>6. Crowded' \/ elapsed' <= Kept(c)'
    <3>1. CASE elapsed = 0
        BY <1>1, <3>1 DEF Kept
    <3>2. CASE elapsed > 0 /\ c \notin hung
      <4>1. c \notin sick /\ Cardinality(sick) >= MaxInflight
          BY <3>2 DEF Slots
      <4> QED
          BY <1>2, <1>4, <4>1 DEF Crowded
    <3>3. CASE c \in hung
      <4>1. jobs[c] = "inspect" /\ step = "stats" /\ took[c] = CallLimit
          BY <3>3 DEF Slots, Ends
      <4>2. Kept(c) = CallLimit /\ Kept(c)' = CallLimit
          BY <1>1, <4>1 DEF Kept
      <4> QED
          BY <2>4, <3>3, <4>2 DEF Slots
    <3> QED
        BY <1>1, <3>1, <3>2, <3>3
  <2>7. Crowded' \/ elapsed' <= 2 * CallLimit
      BY <2>4 DEF Slots
  <2>8. \A d \in hung' : took'[d] <= CallLimit /\ (Crowded' \/ elapsed' <= Kept(d)')
    <3>1. took'[c] <= CallLimit
        BY <1>1
    <3>2. \A d \in hung' : d = c \/ d \in hung \ {c}
        BY <1>4
    <3> QED
        BY <2>5, <2>6, <3>1, <3>2
  <2> QED
      BY <2>1, <2>2, <2>3, <2>7, <2>8 DEF Slots
<1> QED
    BY <1>3, <1>4 DEF Call

LEMMA DoneKeepsSlots ==
    ASSUME Typed, Slots, NEW c \in Containers, Done(c), jobs[c] \in Calls,
           UNCHANGED <<collecting, elapsed>>
    PROVE  Slots'
<1> USE DEF Typed
<1>1. /\ \A d \in Containers : jobs'[d] = IF d = c THEN "done" ELSE jobs[d]
      /\ \A d \in Containers : took'[d] = IF d = c THEN 0 ELSE took[d]
      /\ hung' = hung \ {c} /\ sick' = sick /\ hung \subseteq Containers
    BY DEF Done, JobsTyped, InFlight
<1>2. \A d \in hung' : Kept(d)' = Kept(d)
    BY <1>1 DEF Kept
<1>3. Crowded' <=> Crowded
    BY <1>1 DEF Crowded
<1>4. hung' \subseteq sick' /\ \A d \in sick' : jobs'[d] # "waiting"
    BY <1>1 DEF Slots, JobsTyped
<1>5. \A d \in Containers : jobs'[d] \in {"waiting", "inspect"} => jobs'[d] = jobs[d] /\ d # c
    BY <1>1
<1>6. \A d \in hung' : took'[d] <= CallLimit /\ (Crowded \/ elapsed <= Kept(d))
    BY <1>1 DEF Slots
<1> QED
    BY <1>1, <1>2, <1>3, <1>4, <1>5, <1>6 DEF Slots

\* Nothing is under way when a collection begins, or after it ends.
LEMMA IdleSlots ==
    ASSUME sick' = {}, hung' = {}, elapsed' = 0,
           \A c \in Containers : jobs'[c] \in {"none", "waiting"}
    PROVE  Slots'
BY LimitsTyped DEF Slots

LEMMA ElapseKeepsSlots ==
    ASSUME Typed, Slots, Elapse
    PROVE  Slots'
<1> USE LimitsTyped DEF Typed
<1>1. /\ UNCHANGED <<collecting, jobs, hung, sick>>
      /\ elapsed' = IF collecting THEN elapsed + 1 ELSE elapsed
      /\ \A c \in Containers : took'[c] = IF c \in InFlight THEN took[c] + 1 ELSE took[c]
      /\ collecting => OnTime
    BY DEF Elapse
<1>2. Crowded' <=> Crowded
    BY <1>1 DEF Crowded
<1>3. CASE ~ collecting
  <2>1. hung = {} /\ elapsed' = elapsed
      BY <1>1, <1>3 DEF JobsTyped
  <2> QED
      BY <1>1, <1>2, <2>1 DEF Slots
<1>4. CASE collecting
  <2>1. InFlight \subseteq hung /\ InFlight \subseteq Containers
      BY <1>1, <1>4 DEF OnTime, Ends, InFlight
  <2>2. \A c \in hung : c \in InFlight /\ took[c] # CallLimit /\ took[c] \in Nat /\ took[c] <= CallLimit
      BY <1>1, <1>4 DEF OnTime, Ends, JobsTyped, InFlight, Slots
  <2>3. /\ IsFiniteSet(sick) /\ Cardinality(sick) \in Nat /\ Cardinality(InFlight) <= Cardinality(sick)
        /\ elapsed \in Nat
      BY <2>1, SetsFinite, FS_Subset DEF JobsTyped, Slots
  <2>4. (\E c \in Containers : jobs[c] = "waiting") => Cardinality(sick) >= MaxInflight
      BY <1>1, <1>4, <2>3 DEF OnTime
  <2>5. \A c \in hung : took'[c] <= CallLimit /\ Kept(c)' = Kept(c) + 1 /\ Kept(c) \in Nat
      BY <1>1, <2>1, <2>2 DEF Kept
  <2>6. \A c \in hung : Crowded \/ elapsed + 1 <= Kept(c)'
      BY <2>3, <2>5 DEF Slots
  <2>7. \A c \in Containers : jobs[c] = "inspect" => c \in hung
      BY <2>1 DEF InFlight, Calls
  <2>8. Crowded \/ elapsed + 1 <= 2 * CallLimit
    <3>1. PICK c \in Containers : jobs[c] \notin {"none", "done"}
        BY <1>1, <1>4 DEF OnTime, Finished
    <3>2. \E d \in Containers : d \in hung
      <4>1. CASE jobs[c] = "waiting"
        <5>1. Cardinality(InFlight) = MaxInflight
            BY <1>1, <1>4, <4>1 DEF OnTime
        <5>2. InFlight # {}
            BY <5>1, FS_EmptySet
        <5> QED
            BY <2>1, <5>2
      <4>2. CASE jobs[c] # "waiting"
          BY <2>1, <3>1, <4>2 DEF InFlight, JobsTyped
      <4> QED
          BY <4>1, <4>2
    <3>3. PICK d \in Containers : d \in hung
        BY <3>2
    <3>4. Crowded \/ elapsed + 1 <= Kept(d) + 1
        BY <2>5, <2>6, <3>3
    <3>5. Kept(d) + 1 <= 2 * CallLimit
        BY <2>2, <3>3 DEF Kept
    <3>6. Kept(d) \in Nat
        BY <2>5, <3>3
    <3> QED
        BY <2>3, <3>4, <3>5, <3>6
  <2> QED
      BY <1>1, <1>2, <1>4, <2>4, <2>5, <2>6, <2>7, <2>8 DEF Slots
<1> QED
    BY <1>3, <1>4 DEF JobsTyped

LEMMA SlotsKept ==
    ASSUME Typed, Slots, [Next]_vars
    PROVE  Slots'
<1> USE DEF Typed
<1>1. CASE UNCHANGED <<jobs, took, hung, sick, elapsed>>
    BY <1>1 DEF Slots, Kept, Crowded
<1>2. CASE List
  <2>1. sick' = {} /\ hung' = {} /\ elapsed' = 0
        /\ \A c \in Containers : jobs'[c] \in {"none", "waiting"}
      BY <1>2 DEF List, JobsTyped
  <2> QED
      BY <2>1, IdleSlots
<1>3. CASE CollectEnds \/ OverBudget
  <2>1. sick' = {} /\ hung' = {} /\ elapsed' = 0
        /\ \A c \in Containers : jobs'[c] \in {"none", "waiting"}
      BY <1>3 DEF CollectEnds, OverBudget, Leave
  <2> QED
      BY <2>1, IdleSlots
<1>4. ASSUME NEW c \in Containers, Inspect(c) PROVE Slots'
    BY <1>4, CallKeepsSlots DEF Inspect, JobStep, Calls
<1>5. ASSUME NEW c \in Containers, InspectEnds(c) PROVE Slots'
  <2>1. collecting /\ jobs[c] = "inspect" /\ Ends(c) /\ UNCHANGED <<collecting, elapsed>>
      BY <1>5 DEF InspectEnds, JobStep
  <2>2. Call(c, "stats") \/ Done(c)
      BY <1>5 DEF InspectEnds
  <2> QED
      BY <2>1, <2>2, CallKeepsSlots, DoneKeepsSlots DEF Calls
<1>6. ASSUME NEW c \in Containers, StatsEnds(c) PROVE Slots'
    BY <1>6, DoneKeepsSlots DEF StatsEnds, JobStep, Calls
<1>7. CASE UNCHANGED vars \/ ListFails
    BY <1>1, <1>7 DEF vars, ListFails
<1>8. ASSUME NEW c \in Containers, Container(c) PROVE Slots'
    BY <1>1, <1>8 DEF Container, StartContainer, StopContainer, RemoveContainer, WorldStep
<1> QED
    BY <1>2, <1>3, <1>4, <1>5, <1>6, <1>7, <1>8, ElapseKeepsSlots DEF Next, Collection

--------------------------------------------------------------------------------
(* Theorems *)

LEMMA InitIsInv == Init => CollectionInv
<1> SUFFICES ASSUME Init PROVE CollectionInv
    OBVIOUS
<1>1. WorldTyped
    BY DEF Init, WorldTyped
<1>2. InFlight = {} /\ Cardinality(InFlight) = 0
  <2>1. InFlight = {}
      BY DEF Init, InFlight, Calls
  <2> QED
      BY <2>1, FS_EmptySet
<1>3. JobsTyped
  <2>1. jobs \in [Containers -> Calls \cup {"none", "waiting", "done"}] /\ took \in [Containers -> Nat]
      BY DEF Init
  <2>2. hung = {} /\ sick = {} /\ listed = {} /\ elapsed \in Nat
      BY DEF Init
  <2>3. collecting \in BOOLEAN
      BY DEF Init
  <2> QED
      BY <1>2, <2>1, <2>2, <2>3, LimitsTyped DEF JobsTyped
<1>4. AnswersTyped
  <2>1. Unknown \in [sample : Samples, cpu : Usages]
      BY DEF Unknown, NoSample, NoUsage, None, Samples, Usages
  <2>2. DOMAIN prev = {} /\ prev \in [DOMAIN prev -> Samples]
      BY DEF Init
  <2> QED
      BY <2>1, <2>2 DEF Init, AnswersTyped
<1>5. Counters
  <2>1. DOMAIN prev = {} /\ system = 0 /\ begun.now = 0
      BY DEF Init
  <2>2. \A c \in Containers : results[c] = Unknown
      BY DEF Init
  <2>3. Unknown.sample = NoSample /\ Honest(Unknown.cpu)
      BY DEF Unknown, Honest, NoUsage
  <2> QED
      BY <2>1, <2>2, <2>3 DEF Counters
<1>6. Slots
    BY LimitsTyped DEF Init, Slots
<1> QED
    BY <1>1, <1>3, <1>4, <1>5, <1>6 DEF CollectionInv, Typed

LEMMA NextKeepsInv ==
    ASSUME CollectionInv, [Next]_vars
    PROVE  CollectionInv'
<1>1. Typed'
    BY WorldKept, JobsKept, AnswersKept DEF CollectionInv, Typed
<1> QED
    BY <1>1, CountersKept, SlotsKept DEF CollectionInv

\* Collections, containers and time keep the inductive invariant: what samples say
\* of the counters, and what calls that hang have cost so far.
THEOREM CollectionInvariant == Spec => []CollectionInv
<1>1. Init => CollectionInv
    BY InitIsInv
<1>2. CollectionInv /\ [Next]_vars => CollectionInv'
    BY NextKeepsInv
<1> QED
    BY <1>1, <1>2, PTL DEF Spec

\* Every variable keeps its type, and no more calls are under way than
\* buffer_unordered allows.
THEOREM DockerTypeCorrect == Spec => []TypeOK
<1>1. CollectionInv => TypeOK
  <2> SUFFICES ASSUME CollectionInv PROVE TypeOK
      OBVIOUS
  <2> USE DEF CollectionInv, Typed
  <2>1. {system, elapsed, begun.now, begun.last} \subseteq Nat
      BY DEF WorldTyped, JobsTyped, AnswersTyped
  <2>2. {total, used, starts, took} \subseteq [Containers -> Nat]
      BY DEF WorldTyped, JobsTyped
  <2> QED
      BY <2>1, <2>2 DEF TypeOK, WorldTyped, JobsTyped, AnswersTyped
<1> QED
    BY <1>1, CollectionInvariant, PTL

\* The usage reported for a container is never more than what it used since the
\* collection before, and exactly that unless it was restarted in between,
\* however containers start, stop and go while they are asked.
THEOREM UsageIsWhatWasUsed == Spec => []ReportsWhatWasUsed
<1>1. CollectionInv => ReportsWhatWasUsed
    BY DEF CollectionInv, Counters, ReportsWhatWasUsed
<1> QED
    BY <1>1, CollectionInvariant, PTL

\* The counters that usage is measured against were read in the last complete
\* collection: none is carried over from an older one.
THEOREM WindowIsOneInterval == Spec => []WindowIsLastCollection
<1>1. CollectionInv => WindowIsLastCollection
    BY DEF CollectionInv, Counters, WindowIsLastCollection
<1> QED
    BY <1>1, CollectionInvariant, PTL

\* Where the limits of two calls fit in the budget, as they do at any interval
\* above 10 s, the default of 15 s included, a collection that exceeds it is one
\* in which more containers hung than may be under way at once.
THEOREM SickContainersCostTheirOwn ==
    ASSUME 2 * PerCall < Budget
    PROVE  Spec => SickCostTheirOwn
<1>1. CollectionInv /\ OverBudget => Cardinality(sick) > MaxInflight
  <2> SUFFICES ASSUME CollectionInv, OverBudget PROVE Cardinality(sick) > MaxInflight
      OBVIOUS
  <2>1. elapsed = Budget
      BY DEF OverBudget
  <2>2. Crowded \/ elapsed <= 2 * PerCall
      BY DEF CollectionInv, Slots, CallLimit
  <2> QED
      BY <2>1, <2>2, LimitsAssumption DEF Crowded
<1>2. CollectionInv => [OverBudget => Cardinality(sick) > MaxInflight]_vars
    BY <1>1
<1> QED
    BY <1>2, CollectionInvariant, PTL DEF SickCostTheirOwn

================================================================================
