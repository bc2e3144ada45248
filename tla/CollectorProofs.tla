---------------------------- MODULE CollectorProofs ----------------------------
(****************************************************************************)
(* Theorems about Collector, for any interval, any limit on a call, any     *)
(* time a write takes, and any amount the wall clock is set back by.        *)
(****************************************************************************)
EXTENDS Collector, TLAPS

--------------------------------------------------------------------------------
(* The limits *)

LEMMA PairBounds ==
    ASSUME NEW a \in Int, NEW b \in Int
    PROVE  /\ Max({a, b}) = IF a >= b THEN a ELSE b
           /\ Min({a, b}) = IF a <= b THEN a ELSE b
<1>1. \A x \in {a, b} : (\A y \in {a, b} : x >= y) <=> x = IF a >= b THEN a ELSE b
    OBVIOUS
<1>2. \A x \in {a, b} : (\A y \in {a, b} : x <= y) <=> x = IF a <= b THEN a ELSE b
    OBVIOUS
<1>3. \E x \in {a, b} : \A y \in {a, b} : x >= y
    BY <1>1
<1>4. \E x \in {a, b} : \A y \in {a, b} : x <= y
    BY <1>2
<1> QED
    BY <1>1, <1>2, <1>3, <1>4 DEF Max, Min

\* What the proofs use of the limits of the loop.
LEMMA Limits ==
    /\ {Tick, PerCall, MaxWrite, MaxBack, Budget, StaleAfter, Collection, Round, Recovery, Oldest}
           \subseteq Nat
    /\ Tick >= 1 /\ PerCall >= 1
    /\ Collection = PerCall + Budget
    /\ Round >= Tick /\ Round >= Collection + MaxWrite
    /\ Recovery = 2 * Round + Collection
    /\ Oldest >= StaleAfter + MaxBack /\ Oldest > Recovery
<1>1. {Tick, PerCall, MaxWrite, MaxBack} \subseteq Nat /\ Tick >= 1 /\ PerCall >= 1
    BY TimesAssumption
<1>2. Budget \in Nat
  <2>1. (Tick * 3) \div 5 \in Int
      BY <1>1
  <2> QED
      BY <2>1, PairBounds DEF Budget
<1>3. StaleAfter \in Nat
    BY <1>1, PairBounds DEF StaleAfter
<1>4. Collection \in Nat /\ Collection = PerCall + Budget
    BY <1>1, <1>2 DEF Collection
<1>5. Round \in Nat /\ Round >= Tick /\ Round >= Collection + MaxWrite
    BY <1>1, <1>4, PairBounds DEF Round
<1>6. Recovery \in Nat /\ Recovery = 2 * Round + Collection
    BY <1>4, <1>5 DEF Recovery
<1>7. Oldest \in Nat /\ Oldest >= StaleAfter + MaxBack /\ Oldest > Recovery
    BY <1>1, <1>3, <1>6, PairBounds DEF Oldest
<1> QED
    BY <1>1, <1>2, <1>3, <1>4, <1>5, <1>6, <1>7

LEMMA LaterBounds ==
    ASSUME NEW t \in Int, NEW limit \in Int
    PROVE  Later(t, limit) = IF t + 1 <= limit THEN t + 1 ELSE limit
<1>1. t + 1 \in Int
    OBVIOUS
<1>2. Min({t + 1, limit}) = IF t + 1 <= limit THEN t + 1 ELSE limit
    BY <1>1, PairBounds
<1> QED
    BY <1>2 DEF Later

--------------------------------------------------------------------------------
(* The inductive invariant *)

LoopTyped ==
    /\ phase \in {"sleep", "list", "calls", "write"} /\ spent \in Nat /\ since \in 0 .. Tick
    /\ draft \in Int /\ snap \in [there : BOOLEAN, age : Int, error : BOOLEAN]
    /\ client \in {"none", "live", "gone"} /\ daemon \in {"up", "wedged", "down"}
    /\ stuck \in BOOLEAN
    /\ upFor \in 0 .. Oldest /\ unseen \in 0 .. Oldest /\ back \in 0 .. MaxBack

\* Timers and limits end a phase in time.
PhasesEnd ==
    /\ phase = "list" => spent <= PerCall
    /\ phase = "calls" => spent <= Budget
    /\ phase = "write" /\ ~ stuck => spent <= MaxWrite
    /\ stuck => phase = "write"
    /\ phase \in {"list", "calls"} => client # "none"

\* At most the time since the loop woke: as far as since can tell, and as far as
\* the phases since then allow.
WithinRound(x) ==
    /\ since < Tick => x <= since
    /\ phase = "list" => x <= spent
    /\ phase = "calls" => x <= PerCall + spent
    /\ phase = "write" => x <= Collection + spent
    /\ phase = "sleep" => x <= Round

Collecting == phase \in {"list", "calls"}

\* What is published was stamped in this round, or in the one before.
AgesBounded ==
    ~ stuck => /\ Collecting => WithinRound(draft)
               /\ snap.there => IF Collecting THEN WithinRound(snap.age - Round)
                                ELSE WithinRound(snap.age)

\* A snapshot without an error was stamped before the daemon answered.
StampedBefore ==
    /\ Collecting => draft + back >= 0
    /\ phase = "calls" => unseen <= draft + back
    /\ snap.there /\ ~ snap.error => unseen <= snap.age + back

\* While the daemon is up: how much of that time a client that is gone, or no
\* client, and what they leave published, can last.
Bad == ~ snap.there \/ snap.error
SeenAgain ==
    /\ ~ Collecting /\ client # "none" => ~ Bad
    /\ daemon = "up" /\ ~ stuck =>
        /\ client = "gone" => IF phase = "list" THEN WithinRound(upFor - Round)
                              ELSE WithinRound(upFor)
        /\ client = "none" => WithinRound(upFor - Round)
        /\ Collecting /\ Bad => WithinRound(upFor - 2 * Round)
    /\ daemon # "up" => upFor = 0

CollectorInv == LoopTyped /\ PhasesEnd /\ AgesBounded /\ StampedBefore /\ SeenAgain

--------------------------------------------------------------------------------
(* The lemmas about a step *)

LEMMA TypesKept ==
    ASSUME LoopTyped, PhasesEnd, [Next]_vars
    PROVE  LoopTyped' /\ PhasesEnd'
<1> USE Limits DEF LoopTyped, PhasesEnd, loop, history
<1>1. CASE UNCHANGED vars
    BY <1>1 DEF vars
<1>2. CASE Wake
  <2>1. PICK c \in Connected(client) :
            /\ client' = c
            /\ IF c = "none" THEN Publish(0, TRUE)
               ELSE Enter("list") /\ draft' = 0 /\ UNCHANGED snap
      BY <1>2 DEF Wake
  <2>2. c \in {"none", "live", "gone"}
      BY DEF Connected
  <2>3. /\ phase = "sleep" /\ ~ stuck /\ since' = 0
        /\ UNCHANGED <<daemon, stuck, upFor, unseen, back>>
      BY <1>2 DEF Wake
  <2>4. CASE c = "none"
    <3>1. /\ client' = "none" /\ phase' = "write" /\ spent' = 0 /\ draft' = 0
          /\ snap' = [there |-> TRUE, age |-> 0, error |-> TRUE]
        BY <2>1, <2>4 DEF Publish, Enter
    <3>2. LoopTyped'
        BY <2>3, <3>1
    <3>3. PhasesEnd'
        BY <2>3, <3>1
    <3> QED
        BY <3>2, <3>3
  <2>5. CASE c # "none"
      BY <2>1, <2>2, <2>3, <2>5 DEF Enter
  <2> HIDE DEF LoopTyped, PhasesEnd
  <2> QED
      BY <2>4, <2>5
<1>3. CASE ListAnswered
    BY <1>3 DEF ListAnswered, Enter
<1>4. CASE ListFails
    BY <1>4 DEF ListFails, Publish, Enter, ClientAfter
<1>5. CASE CallsDone
    BY <1>5 DEF CallsDone, Publish, Enter, ClientAfter
<1>6. CASE OverBudget
    BY <1>6 DEF OverBudget, Publish, Enter, ClientAfter
<1>7. CASE WriteEnds
    BY <1>7 DEF WriteEnds, Enter
<1>8. CASE DaemonChanges
    BY <1>8 DEF DaemonChanges
<1>9. CASE WriteHangs
    BY <1>9 DEF WriteHangs
<1>10. CASE StepBack
    BY <1>10 DEF StepBack
<1>11. CASE Elapse
    BY <1>11, LaterBounds DEF Elapse, OnTime
<1> QED
    BY <1>1, <1>2, <1>3, <1>4, <1>5, <1>6, <1>7, <1>8, <1>9, <1>10, <1>11 DEF Next

\* The time since the loop woke only grows.
LEMMA RoundGoesOn ==
    ASSUME LoopTyped, PhasesEnd, NEW x \in Int, WithinRound(x), ~ stuck
    PROVE  /\ Elapse => WithinRound(x + 1)'
           /\ phase = "list" /\ phase' \in {"calls", "write"} /\ spent' = 0 /\ since' = since
                  => WithinRound(x)'
           /\ phase = "calls" /\ phase' = "write" /\ spent' = 0 /\ since' = since => WithinRound(x)'
           /\ WriteEnds => WithinRound(x)'
           /\ Wake /\ phase' \in {"list", "write"} => WithinRound(x - Round)'
<1> USE Limits DEF LoopTyped, PhasesEnd, WithinRound
<1>1. Elapse => WithinRound(x + 1)'
    BY LaterBounds DEF Elapse, OnTime
<1>2. phase = "list" /\ phase' \in {"calls", "write"} /\ spent' = 0 /\ since' = since
          => WithinRound(x)'
    OBVIOUS
<1>3. phase = "calls" /\ phase' = "write" /\ spent' = 0 /\ since' = since => WithinRound(x)'
    OBVIOUS
<1>4. WriteEnds => WithinRound(x)'
    BY DEF WriteEnds, Enter
<1>5. Wake /\ phase' \in {"list", "write"} => WithinRound(x - Round)'
  <2>1. Wake => since' = 0 /\ spent' = 0 /\ phase = "sleep"
      BY DEF Wake, Publish, Enter
  <2> QED
      BY <2>1
<1> QED
    BY <1>1, <1>2, <1>3, <1>4, <1>5

\* What is less is within the round as well, and so is what is not positive.
LEMMA LessIsWithin ==
    ASSUME LoopTyped
    PROVE  /\ \A x, y \in Int : WithinRound(x) /\ y <= x => WithinRound(y)
           /\ \A x \in Int : x <= 0 => WithinRound(x)
    BY Limits DEF LoopTyped, WithinRound

LEMMA LessIsWithinNext ==
    ASSUME LoopTyped'
    PROVE  /\ \A x, y \in Int : WithinRound(x)' /\ y <= x => WithinRound(y)'
           /\ \A x \in Int : x <= 0 => WithinRound(x)'
    BY Limits DEF LoopTyped, WithinRound

LEMMA WakeForms ==
    ASSUME LoopTyped, PhasesEnd, Wake
    PROVE  /\ phase = "sleep" /\ ~ stuck /\ since' = 0 /\ spent' = 0 /\ draft' = 0
           /\ UNCHANGED <<daemon, stuck, upFor, unseen, back>>
           /\ \/ /\ phase' = "write" /\ client' = "none" /\ daemon = "down" /\ client = "none"
                 /\ snap' = [there |-> TRUE, age |-> 0, error |-> TRUE]
              \/ /\ phase' = "list" /\ client' # "none" /\ snap' = snap
                 /\ client' = "gone" /\ daemon # "down" => client = "gone"
                 /\ client # "none" => client' = client
<1>1. PICK c \in Connected(client) :
          /\ client' = c
          /\ IF c = "none" THEN Publish(0, TRUE)
             ELSE Enter("list") /\ draft' = 0 /\ UNCHANGED snap
    BY DEF Wake
<1>2. /\ phase = "sleep" /\ ~ stuck /\ since' = 0
      /\ UNCHANGED <<daemon, stuck, upFor, unseen, back>>
    BY DEF Wake, PhasesEnd, history
<1>3. CASE c = "none"
    BY <1>1, <1>2, <1>3 DEF Publish, Enter, Connected
<1>4. CASE c # "none"
    BY <1>1, <1>2, <1>4 DEF Enter, Connected
<1> QED
    BY <1>3, <1>4

\* Publishing, with or without an error.
PublishForm(error) ==
    /\ phase' = "write" /\ spent' = 0 /\ draft' = 0
    /\ snap' = [there |-> TRUE, age |-> draft, error |-> error]
    /\ client' = ClientAfter(error)
    /\ UNCHANGED <<since, daemon, stuck, upFor, unseen, back>>

LEMMA PublishForms ==
    /\ ListFails => PublishForm(TRUE) /\ phase = "list"
    /\ OverBudget => PublishForm(TRUE) /\ phase = "calls"
    /\ CallsDone => PublishForm(FALSE) /\ phase = "calls"
    BY DEF ListFails, OverBudget, CallsDone, Publish, Enter, PublishForm, history

LEMMA StampedKept ==
    ASSUME LoopTyped, PhasesEnd, StampedBefore, [Next]_vars
    PROVE  StampedBefore'
<1> USE DEF LoopTyped, StampedBefore, Collecting
<1>1. CASE UNCHANGED vars
    BY <1>1 DEF vars, loop, history
<1>2. CASE Wake
  <2>1. CASE phase' = "write"
      BY <1>2, <2>1, WakeForms
  <2>2. CASE phase' = "list"
      BY <1>2, <2>2, WakeForms
  <2> QED
      BY <1>2, <2>1, <2>2, WakeForms
<1>3. CASE ListAnswered
    BY <1>3 DEF ListAnswered, Enter
<1>4. CASE ListFails \/ OverBudget
  <2>1. PublishForm(TRUE)
      BY <1>4, PublishForms
  <2> QED
      BY <2>1 DEF PublishForm
<1>5. CASE CallsDone
  <2>1. PublishForm(FALSE) /\ phase = "calls"
      BY <1>5, PublishForms
  <2> QED
      BY <2>1 DEF PublishForm
<1>6. CASE WriteEnds
  <2>1. phase' = "sleep" /\ UNCHANGED <<draft, snap, unseen, back>>
      BY <1>6 DEF WriteEnds, Enter, history
  <2> QED
      BY <2>1
<1>7. CASE DaemonChanges
    BY <1>7 DEF DaemonChanges, loop
<1>8. CASE WriteHangs
    BY <1>8 DEF WriteHangs, loop, history
<1>9. CASE StepBack
    BY <1>9, Limits DEF StepBack
<1>10. CASE Elapse
  <2>1. /\ draft' = IF Collecting THEN draft + 1 ELSE draft
        /\ phase' = phase /\ back' = back
        /\ snap' = IF snap.there THEN [snap EXCEPT !.age = Later(@, Oldest)] ELSE snap
        /\ unseen' = Later(unseen, Oldest)
      BY <1>10 DEF Elapse
  <2>2. unseen' <= unseen + 1 /\ unseen' <= Oldest /\ {unseen', Oldest} \subseteq Int
      BY <2>1, Limits, LaterBounds
  <2>3. /\ Collecting => draft' + back' >= 0
        /\ phase = "calls" => unseen' <= draft' + back'
    <3>1. CASE Collecting
      <4>1. draft' = draft + 1 /\ back' = back
          BY <2>1, <3>1
      <4> QED
          BY <2>2, <3>1, <4>1
    <3>2. CASE ~ Collecting
        BY <3>2
    <3> QED
        BY <3>1, <3>2
  <2>4. CASE snap.there
    <3>1. /\ snap'.there /\ snap'.error = snap.error
          /\ snap'.age = IF snap.age + 1 <= Oldest THEN snap.age + 1 ELSE Oldest
        BY <2>1, <2>4, Limits, LaterBounds
    <3>2. ~ snap.error => unseen' <= snap'.age + back'
      <4>1. back' = back /\ back \in Nat
          BY <2>1, Limits
      <4> QED
          BY <2>2, <2>4, <3>1, <4>1
    <3> QED
        BY <2>1, <2>3, <3>1, <3>2
  <2>5. CASE ~ snap.there
      BY <2>1, <2>3, <2>5
  <2> QED
      BY <2>4, <2>5
<1> QED
    BY <1>1, <1>2, <1>3, <1>4, <1>5, <1>6, <1>7, <1>8, <1>9, <1>10 DEF Next

LEMMA AgesKept ==
    ASSUME LoopTyped, PhasesEnd, AgesBounded, [Next]_vars
    PROVE  AgesBounded'
<1>1. LoopTyped' /\ PhasesEnd'
    BY TypesKept
<1>2. SUFFICES ASSUME ~ stuck'
               PROVE  /\ Collecting' => WithinRound(draft)'
                      /\ snap'.there => IF Collecting' THEN WithinRound(snap.age - Round)'
                                        ELSE WithinRound(snap.age)'
    BY DEF AgesBounded
<1>3. CASE UNCHANGED vars
    BY <1>2, <1>3 DEF vars, loop, history, AgesBounded, Collecting, WithinRound
<1>4. stuck => UNCHANGED vars \/ stuck'
    BY DEF Next, Wake, ListAnswered, ListFails, CallsDone, OverBudget, WriteEnds, DaemonChanges,
           WriteHangs, StepBack, Elapse, PhasesEnd
<1>5. SUFFICES ASSUME ~ stuck, Next
               PROVE  /\ Collecting' => WithinRound(draft)'
                      /\ snap'.there => IF Collecting' THEN WithinRound(snap.age - Round)'
                                        ELSE WithinRound(snap.age)'
    BY <1>2, <1>3, <1>4
<1>6. PICK d, a, t : d = draft /\ a = snap.age /\ t = snap.there
    OBVIOUS
<1>7. d \in Int /\ a \in Int /\ Round \in Nat /\ a - Round \in Int
    BY <1>6, Limits DEF LoopTyped
<1>8. /\ Collecting => WithinRound(d)
      /\ snap.there => IF Collecting THEN WithinRound(a - Round) ELSE WithinRound(a)
    BY <1>5, <1>6 DEF AgesBounded
<1>9. CASE Wake
  <2>1. CASE phase' = "write"
    <3>1. snap' = [there |-> TRUE, age |-> 0, error |-> TRUE]
        BY <1>9, <2>1, WakeForms
    <3>2. WithinRound(0)'
        BY <1>1, LessIsWithinNext
    <3> QED
        BY <2>1, <3>1, <3>2 DEF Collecting, WithinRound
  <2>2. CASE phase' = "list"
    <3>1. snap' = snap /\ draft' = 0 /\ phase = "sleep"
        BY <1>9, <2>2, WakeForms
    <3>2. WithinRound(0)'
        BY <1>1, LessIsWithinNext
    <3>3. snap.there => WithinRound(a - Round)'
        BY <1>5, <1>7, <1>8, <1>9, <2>2, <3>1, RoundGoesOn DEF Collecting
    <3> QED
        BY <1>6, <2>2, <3>1, <3>2, <3>3 DEF Collecting, WithinRound
  <2> QED
      BY <1>9, <2>1, <2>2, WakeForms
<1>10. CASE ListAnswered
  <2>1. phase = "list" /\ phase' = "calls" /\ spent' = 0 /\ UNCHANGED <<since, draft, snap>>
      BY <1>10 DEF ListAnswered, Enter
  <2>2. WithinRound(d)' /\ (snap.there => WithinRound(a - Round)')
      BY <1>5, <1>7, <1>8, <2>1, RoundGoesOn DEF Collecting
  <2> QED
      BY <1>6, <2>1, <2>2 DEF Collecting, WithinRound
<1>11. CASE ListFails \/ OverBudget \/ CallsDone
  <2>1. /\ phase \in {"list", "calls"} /\ phase' = "write" /\ spent' = 0 /\ since' = since
        /\ snap'.age = draft
    <3>1. phase \in {"list", "calls"} /\ (PublishForm(TRUE) \/ PublishForm(FALSE))
        BY <1>11, PublishForms, Zenon
    <3>2. CASE PublishForm(TRUE)
        BY <3>1, <3>2 DEF PublishForm
    <3>3. CASE PublishForm(FALSE)
        BY <3>1, <3>3 DEF PublishForm
    <3> QED
        BY <3>1, <3>2, <3>3
  <2>2. WithinRound(d)'
      BY <1>5, <1>7, <1>8, <2>1, RoundGoesOn DEF Collecting
  <2> QED
      BY <1>6, <2>1, <2>2 DEF Collecting, WithinRound
<1>12. CASE WriteEnds
  <2>1. phase = "write" /\ phase' = "sleep" /\ snap' = snap
      BY <1>12 DEF WriteEnds, Enter
  <2>2. snap.there => WithinRound(a)'
      BY <1>5, <1>7, <1>8, <1>12, <2>1, RoundGoesOn DEF Collecting
  <2> QED
      BY <1>6, <2>1, <2>2 DEF Collecting, WithinRound
<1>13. CASE DaemonChanges
    BY <1>5, <1>13 DEF DaemonChanges, loop, AgesBounded, Collecting, WithinRound
<1>14. ~ WriteHangs
    BY <1>2 DEF WriteHangs
<1>15. CASE StepBack
  <2>1. /\ UNCHANGED <<phase, spent, since>>
        /\ draft' <= draft /\ snap'.there = snap.there /\ (snap.there => snap'.age <= snap.age)
      BY <1>15, Limits DEF StepBack, LoopTyped
  <2>2. Collecting' => WithinRound(draft)'
      BY <1>1, <1>5, <2>1, Limits DEF AgesBounded, LoopTyped, Collecting, WithinRound
  <2>3. snap'.there => IF Collecting' THEN WithinRound(snap.age - Round)'
                       ELSE WithinRound(snap.age)'
      BY <1>1, <1>5, <2>1, Limits DEF AgesBounded, LoopTyped, Collecting, WithinRound
  <2> QED
      BY <2>2, <2>3
<1>16. CASE Elapse
  <2>1. /\ phase' = phase
        /\ draft' = IF Collecting THEN draft + 1 ELSE draft
        /\ snap' = IF snap.there THEN [snap EXCEPT !.age = Later(@, Oldest)] ELSE snap
      BY <1>16 DEF Elapse, Collecting
  <2>2. Collecting => WithinRound(d + 1)'
      BY <1>5, <1>7, <1>8, <1>16, RoundGoesOn
  <2>3. snap.there => /\ snap'.there = snap.there /\ snap'.age \in Int /\ snap'.age <= a + 1
    <3>1. SUFFICES ASSUME snap.there
                   PROVE  snap'.there = snap.there /\ snap'.age \in Int /\ snap'.age <= a + 1
        OBVIOUS
    <3>2. snap' = [snap EXCEPT !.age = Later(snap.age, Oldest)]
        BY <2>1, <3>1
    <3>3. snap'.there = snap.there /\ snap'.age = Later(snap.age, Oldest)
        BY <3>2 DEF LoopTyped
    <3>4. Later(a, Oldest) \in Int /\ Later(a, Oldest) <= a + 1
        BY <1>7, Limits, LaterBounds
    <3> QED
        BY <1>6, <3>3, <3>4
  <2>4. snap.there /\ Collecting => WithinRound((a - Round) + 1)'
      BY <1>5, <1>7, <1>8, <1>16, RoundGoesOn
  <2>5. snap.there /\ ~ Collecting => WithinRound(a + 1)'
      BY <1>5, <1>7, <1>8, <1>16, RoundGoesOn
  <2>6. Collecting' => WithinRound(draft)'
      BY <1>6, <2>1, <2>2 DEF Collecting, WithinRound
  <2>7. CASE snap.there
    <3>1. Collecting => WithinRound(snap.age - Round)'
        BY <1>1, <1>7, <2>3, <2>4, <2>7, Limits DEF WithinRound, LoopTyped
    <3>2. ~ Collecting => WithinRound(snap.age)'
        BY <1>1, <1>7, <2>3, <2>5, <2>7, Limits DEF WithinRound, LoopTyped
    <3> QED
        BY <2>1, <2>6, <3>1, <3>2 DEF Collecting
  <2>8. CASE ~ snap.there
      BY <2>1, <2>6, <2>8
  <2> QED
      BY <2>7, <2>8
<1> QED
    BY <1>5, <1>9, <1>10, <1>11, <1>12, <1>13, <1>14, <1>15, <1>16 DEF Next

\* What a step does to how long the daemon has been up, and to what is there.
LEMMA AgainKept ==
    ASSUME LoopTyped, PhasesEnd, SeenAgain, [Next]_vars
    PROVE  SeenAgain'
<1>1. LoopTyped' /\ PhasesEnd'
    BY TypesKept
<1>2. CASE UNCHANGED vars
    BY <1>2 DEF vars, loop, history, SeenAgain, Collecting, Bad, WithinRound
<1>3. CASE DaemonChanges
  <2>1. upFor' = 0 /\ UNCHANGED <<phase, snap, stuck>> /\ (client' = "none" <=> client = "none")
      BY <1>3 DEF DaemonChanges, loop
  <2>2. WithinRound(upFor)' /\ WithinRound(upFor - Round)' /\ WithinRound(upFor - 2 * Round)'
      BY <1>1, <2>1, Limits DEF WithinRound, LoopTyped
  <2> QED
      BY <2>1, <2>2 DEF SeenAgain, Collecting, Bad
<1>4. CASE WriteHangs
    BY <1>4 DEF WriteHangs, loop, history, SeenAgain, Collecting, Bad
<1>5. CASE StepBack
    BY <1>5 DEF StepBack, SeenAgain, Collecting, Bad, WithinRound, LoopTyped
<1>6. PICK u, v, w : u = upFor /\ v = u - Round /\ w = u - 2 * Round
    OBVIOUS
<1>7. {u, v, w} \subseteq Int /\ v - Round = w /\ Round \in Nat
    BY <1>6, Limits DEF LoopTyped
<1>8. daemon = "up" /\ ~ stuck =>
          /\ client = "gone" => IF phase = "list" THEN WithinRound(v) ELSE WithinRound(u)
          /\ client = "none" => WithinRound(v)
          /\ Collecting /\ Bad => WithinRound(w)
    BY <1>6 DEF SeenAgain
<1>9. CASE Wake
  <2>1. CASE phase' = "write"
      BY <1>9, <2>1, WakeForms DEF SeenAgain, Collecting
  <2>2. CASE phase' = "list"
    <3>1. /\ snap' = snap /\ phase = "sleep" /\ ~ stuck /\ upFor' = upFor /\ daemon' = daemon
          /\ client' = "gone" /\ daemon # "down" => client = "gone"
        BY <1>9, <2>2, WakeForms
    <3>2. daemon = "up" /\ client' = "gone" => WithinRound(v)'
        BY <1>6, <1>7, <1>8, <1>9, <2>2, <3>1, RoundGoesOn
    <3>3. daemon = "up" /\ Bad => WithinRound(w)'
      <4>1. daemon = "up" /\ Bad => WithinRound(v)
          BY <1>8, <3>1 DEF SeenAgain, Collecting
      <4>2. WithinRound(v) => WithinRound(v - Round)'
          BY <1>7, <1>9, <2>2, <3>1, RoundGoesOn
      <4> QED
          BY <1>7, <4>1, <4>2
    <3>4. client' # "none"
        BY <1>9, <2>2, WakeForms
    <3> QED
        BY <1>6, <2>2, <3>1, <3>2, <3>3, <3>4 DEF SeenAgain, Collecting, Bad, WithinRound
  <2> QED
      BY <1>9, <2>1, <2>2, WakeForms
<1>10. CASE ListAnswered
  <2>1. /\ phase = "list" /\ phase' = "calls" /\ spent' = 0 /\ client = "live" /\ daemon = "up"
        /\ UNCHANGED <<since, snap, client, daemon, stuck, upFor>>
      BY <1>10 DEF ListAnswered, Enter
  <2>2. ~ stuck /\ Bad => WithinRound(w)'
      BY <1>7, <1>8, <2>1, RoundGoesOn DEF Collecting
  <2> QED
      BY <1>6, <2>1, <2>2 DEF SeenAgain, Collecting, Bad, WithinRound
<1>11. CASE ListFails \/ OverBudget
  <2>1. /\ Collecting /\ phase' = "write" /\ spent' = 0 /\ client' = "none"
        /\ UNCHANGED <<since, daemon, stuck, upFor>>
      BY <1>11, PublishForms DEF PublishForm, ClientAfter, Collecting
  <2>2. daemon = "up" /\ ~ stuck => WithinRound(v)'
    <3>1. SUFFICES ASSUME daemon = "up", ~ stuck PROVE WithinRound(v)'
        OBVIOUS
    <3>2. CASE ListFails /\ client = "gone"
      <4>1. phase = "list"
          BY <3>2, PublishForms
      <4> QED
          BY <1>7, <1>8, <2>1, <3>1, <3>2, <4>1, RoundGoesOn
    <3>3. CASE u <= Round
      <4>1. v <= 0
          BY <1>6, <1>7, <3>3
      <4> QED
          BY <1>1, <1>7, <4>1, LessIsWithinNext
    <3>4. ~ (ListFails /\ client = "gone") => u <= Round
      <4>1. SUFFICES ASSUME ~ (ListFails /\ client = "gone") PROVE u <= Round
          OBVIOUS
      <4>2. Unanswered /\ (spent = PerCall \/ spent = Budget)
          BY <1>11, <3>1, <4>1 DEF ListFails, OverBudget
      <4>3. PerCall <= Round /\ Budget <= Round /\ {PerCall, Budget, Round} \subseteq Int
          BY Limits
      <4> QED
          BY <1>6, <1>7, <4>2, <4>3 DEF Unanswered
    <3> QED
        BY <3>2, <3>3, <3>4
  <2> QED
      BY <1>6, <2>1, <2>2 DEF SeenAgain, Collecting, WithinRound
<1>12. CASE CallsDone
  <2>1. /\ phase = "calls" /\ phase' = "write" /\ spent' = 0 /\ client' = client /\ client # "none"
        /\ snap' = [there |-> TRUE, age |-> draft, error |-> FALSE]
        /\ UNCHANGED <<since, daemon, stuck, upFor>>
      BY <1>12, PublishForms DEF PublishForm, ClientAfter, PhasesEnd
  <2>2. daemon = "up" /\ ~ stuck /\ client = "gone" => WithinRound(u)'
      BY <1>7, <1>8, <2>1, RoundGoesOn
  <2>3. ~ Bad'
      BY <2>1 DEF Bad
  <2> QED
      BY <1>6, <2>1, <2>2, <2>3 DEF SeenAgain, Collecting, WithinRound
<1>13. CASE WriteEnds
  <2>1. /\ phase = "write" /\ phase' = "sleep" /\ ~ stuck
        /\ UNCHANGED <<since, client, daemon, snap, stuck, upFor>>
      BY <1>13 DEF WriteEnds, Enter, history
  <2>2. daemon = "up" => /\ client = "gone" => WithinRound(u)'
                         /\ client = "none" => WithinRound(v)'
      BY <1>7, <1>8, <1>13, <2>1, RoundGoesOn
  <2> QED
      BY <1>6, <2>1, <2>2 DEF SeenAgain, Collecting, Bad, WithinRound
<1>14. CASE Elapse
  <2>1. /\ UNCHANGED <<phase, client, daemon, stuck>>
        /\ upFor' = IF daemon = "up" THEN Later(upFor, Oldest) ELSE 0
        /\ snap'.there = snap.there /\ snap'.error = snap.error
      BY <1>14 DEF Elapse, LoopTyped
  <2>2. daemon = "up" => upFor' \in Int /\ upFor' <= u + 1
      BY <1>6, <1>7, <2>1, Limits, LaterBounds DEF LoopTyped
  <2>3. CASE daemon = "up" /\ ~ stuck
    <3>1. PICK x : x = upFor'
        OBVIOUS
    <3>2. {x, x - Round, x - 2 * Round, u + 1, v + 1, w + 1} \subseteq Int
          /\ x <= u + 1 /\ x - Round <= v + 1 /\ x - 2 * Round <= w + 1
        BY <1>6, <1>7, <2>2, <2>3, <3>1
    <3>3. client = "gone" => IF phase = "list" THEN WithinRound(v + 1)' ELSE WithinRound(u + 1)'
        BY <1>7, <1>8, <1>14, <2>3, RoundGoesOn
    <3>4. client = "none" => WithinRound(v + 1)'
        BY <1>7, <1>8, <1>14, <2>3, RoundGoesOn
    <3>5. Collecting /\ Bad => WithinRound(w + 1)'
        BY <1>7, <1>8, <1>14, <2>3, RoundGoesOn
    <3>6. /\ WithinRound(u + 1)' => WithinRound(x)'
          /\ WithinRound(v + 1)' => WithinRound(x - Round)'
          /\ WithinRound(w + 1)' => WithinRound(x - 2 * Round)'
        BY <1>1, <3>2, LessIsWithinNext
    <3> QED
        BY <2>1, <2>3, <3>1, <3>3, <3>4, <3>5, <3>6 DEF SeenAgain, Collecting, Bad, WithinRound
  <2>4. CASE daemon # "up" \/ stuck
      BY <2>1, <2>4 DEF SeenAgain, Collecting, Bad
  <2> QED
      BY <2>3, <2>4
<1> QED
    BY <1>2, <1>3, <1>4, <1>5, <1>9, <1>10, <1>11, <1>12, <1>13, <1>14 DEF Next

LEMMA InitIsInv == Init => CollectorInv
<1> SUFFICES ASSUME Init PROVE CollectorInv
    OBVIOUS
<1> USE Limits DEF Init, None
<1>1. LoopTyped /\ PhasesEnd
  <2>1. LoopTyped
    <3>1. phase \in {"sleep", "list", "calls", "write"} /\ spent \in Nat /\ since \in 0 .. Tick
        OBVIOUS
    <3>2. upFor \in 0 .. Oldest /\ unseen \in 0 .. Oldest /\ back \in 0 .. MaxBack
        OBVIOUS
    <3>3. snap \in [there : BOOLEAN, age : Int, error : BOOLEAN]
      <4>1. snap = [there |-> FALSE, age |-> 0, error |-> FALSE]
          OBVIOUS
      <4> QED
          BY <4>1
    <3>4. stuck \in BOOLEAN
        OBVIOUS
    <3> QED
        BY <3>1, <3>2, <3>3, <3>4 DEF LoopTyped
  <2>2. PhasesEnd
      BY DEF PhasesEnd
  <2> QED
      BY <2>1, <2>2
<1>2. AgesBounded /\ StampedBefore
    BY DEF AgesBounded, StampedBefore, Collecting
<1>3. SeenAgain
    BY DEF SeenAgain, Collecting, WithinRound
<1> QED
    BY <1>1, <1>2, <1>3 DEF CollectorInv

LEMMA NextKeeps == CollectorInv /\ [Next]_vars => CollectorInv'
    BY TypesKept, AgesKept, StampedKept, AgainKept DEF CollectorInv

\* Every phase of a round keeps its ages within what is left of the round.
THEOREM CollectorInvariant == Spec => []CollectorInv
    BY InitIsInv, NextKeeps, PTL DEF Spec

--------------------------------------------------------------------------------
(* Theorems *)

\* How long a snapshot is shown at most: a round, and the collection after it.
LEMMA AgeLimit ==
    ASSUME CollectorInv, ~ stuck, snap.there
    PROVE  snap.age <= Round + Collection
<1> USE Limits DEF CollectorInv, LoopTyped, PhasesEnd
<1>1. CASE Collecting
    BY <1>1 DEF AgesBounded, Collecting, WithinRound
<1>2. CASE ~ Collecting
    BY <1>2 DEF AgesBounded, Collecting, WithinRound
<1> QED
    BY <1>1, <1>2

\* A collector that is alive is never called stale, provided that a round and a
\* collection at their longest fit into the limit: that is what the interval and
\* the two limits of the code leave for a write.  At the default interval it
\* leaves 21 s, and with 22 s TLC finds a live collector called stale.
THEOREM AliveIsNotStale ==
    ASSUME Round + Collection <= StaleAfter
    PROVE  Spec => []NotCalledStale
<1>1. CollectorInv => NotCalledStale
  <2> SUFFICES ASSUME CollectorInv, ~ stuck, snap.there PROVE ~ (AgeSecs(snap) > StaleAfter)
      BY DEF NotCalledStale, Healthz
  <2>1. snap.age \in Int /\ snap.age <= StaleAfter
      BY AgeLimit, Limits DEF CollectorInv, LoopTyped
  <2>2. AgeSecs(snap) = IF snap.age >= 0 THEN snap.age ELSE 0
      BY <2>1, PairBounds DEF AgeSecs
  <2> QED
      BY <2>1, <2>2, Limits
<1> QED
    BY <1>1, CollectorInvariant, PTL

\* "ok" is never said of a daemon that has not answered a listing for as long as
\* a snapshot may be old, plus what the clock was set back by; for any limits,
\* and also while a write hangs.
THEOREM OkMeansAnswered == Spec => []OkIsSeen
<1>1. CollectorInv => OkIsSeen
  <2> SUFFICES ASSUME CollectorInv, Healthz = "ok" PROVE unseen <= StaleAfter + back
      BY DEF OkIsSeen
  <2>1. snap.there /\ ~ snap.error /\ ~ (AgeSecs(snap) > StaleAfter)
      BY DEF Healthz
  <2>2. snap.age \in Int /\ unseen \in Int /\ back \in Nat /\ unseen <= snap.age + back
      BY <2>1, Limits DEF CollectorInv, LoopTyped, StampedBefore
  <2>3. AgeSecs(snap) = IF snap.age >= 0 THEN snap.age ELSE 0
      BY <2>2, PairBounds DEF AgeSecs
  <2> QED
      BY <2>1, <2>2, <2>3, Limits
<1> QED
    BY <1>1, CollectorInvariant, PTL

\* A daemon that has been back for two rounds of the loop and a collection is
\* reported again, whatever its client was when it came back.
THEOREM DaemonIsSeenAgain == Spec => []BackInTime
<1>1. CollectorInv => BackInTime
  <2> SUFFICES ASSUME CollectorInv, upFor > Recovery, ~ stuck PROVE ~ Bad
      BY DEF BackInTime, Healthz, Bad
  <2>1. SUFFICES ASSUME Bad PROVE FALSE
      OBVIOUS
  <2> USE Limits DEF CollectorInv, LoopTyped, PhasesEnd
  <2>2. daemon = "up"
      BY DEF SeenAgain
  <2>3. CASE Collecting
    <3>1. WithinRound(upFor - 2 * Round)
        BY <2>1, <2>2, <2>3 DEF SeenAgain
    <3> QED
        BY <2>3, <3>1 DEF Collecting, WithinRound
  <2>4. CASE ~ Collecting
    <3>1. WithinRound(upFor - Round)
        BY <2>1, <2>2, <2>4 DEF SeenAgain
    <3> QED
        BY <2>4, <3>1 DEF Collecting, WithinRound
  <2> QED
      BY <2>3, <2>4
<1> QED
    BY <1>1, CollectorInvariant, PTL

================================================================================
