---------------------------- MODULE DashboardProofs ----------------------------
(****************************************************************************)
(* Theorems about Dashboard, for any cadence, timeout, back-off and ranges. *)
(****************************************************************************)
EXTENDS Dashboard, TLAPS

USE DEF visible, loop, data, label, chart, remote

--------------------------------------------------------------------------------
(* Operators *)

\* The larger and the smaller of two numbers are what one takes them for.
LEMMA PairBounds ==
    ASSUME NEW a \in Int, NEW b \in Int
    PROVE  /\ Max({a, b}) = IF a >= b THEN a ELSE b
           /\ Min({a, b}) = IF a <= b THEN a ELSE b
<1>1. \A x \in {a, b} : (\A y \in {a, b} : x >= y) <=> x = IF a >= b THEN a ELSE b
    OBVIOUS
<1>2. \A x \in {a, b} : (\A y \in {a, b} : x <= y) <=> x = IF a <= b THEN a ELSE b
    OBVIOUS
<1>3. \E x \in {a, b} : \A y \in {a, b} : x >= y
    BY <1>1
<1>4. \E x \in {a, b} : \A y \in {a, b} : x <= y
    BY <1>2
<1> QED
    BY <1>1, <1>2, <1>3, <1>4 DEF Max, Min

\* The limits of the page are apart: an age that has passed one of them by a
\* unit is still told apart, and Never is beyond all of them.
LEMMA Limits ==
    /\ {Cadence, ReqTimeout, MaxBackoff, StaleAfter, ContactLimit, Oldest, Never} \subseteq Nat
    /\ Cadence >= 1 /\ Cadence <= MaxBackoff
    /\ Oldest >= StaleAfter + 2 /\ Oldest >= ContactLimit + 2
    /\ Never = Oldest + 1
<1>1. ContactLimit \in Nat /\ StaleAfter \in Nat
    BY TimesAssumption DEF ContactLimit
<1>2. Oldest = (IF StaleAfter >= ContactLimit THEN StaleAfter ELSE ContactLimit) + 2
    BY <1>1, PairBounds DEF Oldest
<1> QED
    BY <1>1, <1>2, TimesAssumption DEF Never

\* An age grows by a unit until it is the oldest, and what is not there stays so.
LEMMA OlderAge ==
    ASSUME NEW age \in Ages
    PROVE  /\ Older(age) \in Ages
           /\ Older(age) = Never <=> age = Never
           /\ Older(age) <= age + 1
    BY Limits DEF Older, Ages, Never

\* The pause after a failed poll is a pause.
LEMMA LongerPause ==
    ASSUME NEW pause \in 1 .. MaxBackoff PROVE Longer(pause) \in 1 .. MaxBackoff
<1>1. pause \in Int /\ pause >= 1 /\ MaxBackoff \in Nat /\ MaxBackoff >= 1
    BY Limits
<1> DEFINE longer == (pause * 8 + 4) \div 5
<1>2. longer \in Int /\ longer >= 1
    BY <1>1
<1> HIDE DEF longer
<1>3. Min({longer, MaxBackoff}) = IF longer <= MaxBackoff THEN longer ELSE MaxBackoff
    BY <1>1, <1>2, PairBounds
<1>4. Min({longer, MaxBackoff}) \in 1 .. MaxBackoff
    BY <1>1, <1>2, <1>3
<1> QED
    BY <1>4 DEF Longer, longer

--------------------------------------------------------------------------------
(* One chain of polls *)

Flags ==
    /\ hidden \in BOOLEAN /\ seen \in BOOLEAN /\ leaving \in BOOLEAN /\ inflight \in BOOLEAN
    /\ lost \in BOOLEAN /\ dimmed \in BOOLEAN /\ due \in BOOLEAN

\* At most one timer is armed, and it is the one the script has the handle of.
Loop ==
    /\ timers \subseteq Timers /\ timer \in {1, 2}
    /\ \A t \in timers : t.id = timer
    /\ \A t, u \in timers : t = u
    /\ waited \in 0 .. ReqTimeout /\ backoff \in 1 .. MaxBackoff

LEMMA Scheduled ==
    ASSUME Loop, NEW delay \in 0 .. MaxBackoff, Schedule(delay)
    PROVE  /\ timers' \subseteq Timers /\ timer' \in {1, 2}
           /\ \A t \in timers' : t.id = timer'
           /\ \A t, u \in timers' : t = u
<1> DEFINE id == CHOOSE i \in {1, 2} : \A t \in {u \in timers : u.id # timer} : t.id # i
<1>1. {u \in timers : u.id # timer} = {}
    BY DEF Loop
<1>2. id \in {1, 2}
    BY <1>1
<1>3. timers' = {[id |-> id, left |-> delay]} /\ timer' = id
    BY <1>1 DEF Schedule, Arm
<1> HIDE DEF id
<1> QED
    BY <1>2, <1>3 DEF Timers

LEMMA LoopInit == Init => Loop
    BY Limits DEF Init, Loop

LEMMA LoopNext == Loop /\ [Next]_vars => Loop'
<1> SUFFICES ASSUME Loop, [Next]_vars PROVE Loop'
    OBVIOUS
<1>1. ASSUME UNCHANGED <<timers, timer, waited, backoff>> PROVE Loop'
    BY <1>1 DEF Loop
<1>2. ASSUME NEW pause \in 1 .. MaxBackoff, Again(pause) PROVE Loop'
  <2>1. waited' = 0 /\ backoff' = pause /\ 0 \in 0 .. ReqTimeout /\ pause \in 0 .. MaxBackoff
      BY <1>2, Limits DEF Again
  <2>2. UNCHANGED <<timers, timer>> \/ Schedule(pause)
      BY <1>2 DEF Again
  <2> QED
      BY <2>1, <2>2, Scheduled DEF Loop
<1>3. ASSUME NEW t \in timers, Poll(t) PROVE Loop'
  <2>1. timers' \subseteq timers /\ timer' = timer /\ backoff' = backoff
      BY <1>3 DEF Poll
  <2>2. waited' \in {waited, 0}
    <3>1. CASE inflight
        BY <1>3, <3>1, Zenon DEF Poll
    <3>2. CASE ~ inflight
        BY <1>3, <3>2, Zenon DEF Poll
    <3> QED
        BY <3>1, <3>2
  <2>3. 0 \in 0 .. ReqTimeout
      BY Limits
  <2> QED
      BY <2>1, <2>2, <2>3 DEF Loop
<1>4. CASE PollAnswered \/ RenderFails
    BY <1>2, <1>4, Limits DEF PollAnswered, RenderFails, Answered
<1>5. CASE PollRefused
    BY <1>5, Limits DEF PollRefused, Loop
<1>6. CASE PollFails
  <2>1. Longer(backoff) \in 1 .. MaxBackoff
      BY LongerPause DEF Loop
  <2> QED
      BY <1>2, <1>6, <2>1 DEF PollFails
<1>7. CASE Hide
    BY <1>7 DEF Hide, Loop
<1>8. CASE Show
  <2>1. Schedule(0) /\ UNCHANGED <<waited, backoff>> /\ 0 \in 0 .. MaxBackoff
      BY <1>8, Limits DEF Show
  <2> QED
      BY <2>1, Scheduled DEF Loop
<1>9. CASE Elapse
  <2> DEFINE older(t) == [t EXCEPT !.left = Max({@ - 1, 0})]
  <2>1. \A t \in timers : older(t) \in Timers /\ older(t).id = t.id
    <3> SUFFICES ASSUME NEW t \in timers PROVE older(t) \in Timers /\ older(t).id = t.id
        OBVIOUS
    <3>1. t \in Timers /\ t.left \in 0 .. MaxBackoff
        BY DEF Loop, Timers
    <3>2. Max({t.left - 1, 0}) \in 0 .. MaxBackoff
        BY <3>1, PairBounds, Limits
    <3> QED
        BY <3>1, <3>2 DEF Timers
  <2>2. timers' = {older(t) : t \in timers} /\ timer' = timer /\ backoff' = backoff
      BY <1>9 DEF Elapse
  <2> HIDE DEF older
  <2>3. waited' \in 0 .. ReqTimeout
    <3>1. Min({waited + 1, ReqTimeout}) \in 0 .. ReqTimeout
      <4>1. waited \in Int /\ waited >= 0 /\ ReqTimeout \in Nat
          BY Limits DEF Loop
      <4>2. Min({waited + 1, ReqTimeout}) = IF waited + 1 <= ReqTimeout THEN waited + 1 ELSE ReqTimeout
          BY <4>1, PairBounds
      <4> QED
          BY <4>1, <4>2
    <3> QED
        BY <1>9, <3>1, Limits DEF Elapse
  <2> QED
      BY <2>1, <2>2, <2>3 DEF Loop
<1> QED
    BY <1>1, <1>3, <1>4, <1>5, <1>6, <1>7, <1>8, <1>9
    DEF Next, Polling, Charting, Tell, SetRange, RangeAnswered, RangeFails, ServerChanges, Publish, vars


--------------------------------------------------------------------------------
(* The chart *)

\* What is under way was asked for the chosen tab, and LIVE needs no answer.
Chart ==
    /\ mode \in Modes /\ series \in Modes /\ caption \in {"plain", "unavailable"}
    /\ asked \subseteq Ranges
    /\ asked \subseteq {mode}
    /\ ChartMatchesTab

LEMMA ChartInit == Init => Chart
    BY DEF Init, Chart, ChartMatchesTab, Modes

LEMMA ChartNext == Chart /\ [Next]_vars => Chart'
<1> SUFFICES ASSUME Chart, [Next]_vars PROVE Chart'
    OBVIOUS
<1>1. ASSUME UNCHANGED <<mode, series, caption, asked>> PROVE Chart'
    BY <1>1 DEF Chart, ChartMatchesTab
<1>2. CASE PollAnswered \/ RenderFails
  <2>1. UNCHANGED <<mode, caption, asked>> /\ (DrawLive(snap) \/ UNCHANGED series)
      BY <1>2 DEF PollAnswered, RenderFails, Answered
  <2>2. series' = series \/ (mode = "LIVE" /\ series' = "LIVE")
      BY <2>1 DEF DrawLive
  <2> QED
      BY <2>1, <2>2 DEF Chart, ChartMatchesTab
<1>3. ASSUME NEW m \in Modes, SetRange(m) PROVE Chart'
    BY <1>3 DEF SetRange, Chart, ChartMatchesTab, Modes
<1>4. ASSUME NEW r \in asked, RangeAnswered(r) PROVE Chart'
    BY <1>4 DEF RangeAnswered, Chart, ChartMatchesTab, Modes
<1>5. ASSUME NEW r \in asked, RangeFails(r) PROVE Chart'
    BY <1>5 DEF RangeFails, Chart, ChartMatchesTab
<1> QED
    BY <1>1, <1>2, <1>3, <1>4, <1>5
    DEF Next, Polling, Charting, Poll, PollRefused, PollFails, Tell, Hide, Show,
        ServerChanges, Publish, Elapse, vars

--------------------------------------------------------------------------------
(* What the page says of the age of its numbers *)

Dates ==
    /\ lastOk \in Ages /\ latest \in Ages /\ drawn \in Ages /\ snap \in Ages
    /\ text \in {"connecting", "waiting", "updated", "stale"}
    /\ server \in Servers
    /\ latest # Never => lastOk # Never

\* The label as freshness() would set it now, or would have a unit ago.
Told(slack) ==
    /\ ~ dimmed => lastOk <= ContactLimit + slack
    /\ text = "updated" => ~ dimmed /\ latest <= StaleAfter + slack
    /\ text \in {"connecting", "stale"} => dimmed

\* While the page is visible the label is never more than a unit behind.
Label ==
    /\ ~ due => Told(0)
    /\ seen => Told(1)

PageInv == Flags /\ Loop /\ Chart /\ Dates /\ Label

LEMMA FlagsNext == Flags /\ [Next]_vars => Flags'
<1> SUFFICES ASSUME Flags, [Next]_vars PROVE Flags'
    OBVIOUS
<1>1. ASSUME UNCHANGED vars PROVE Flags'
    BY <1>1, Zenon DEF Flags, vars
<1>2. ASSUME NEW t \in timers, Poll(t) PROVE Flags'
  <2>1. lost' \in BOOLEAN
    <3>1. CASE inflight
        BY <1>2, <3>1, Zenon DEF Poll, Flags
    <3>2. CASE ~ inflight
        BY <1>2, <3>2, Zenon DEF Poll, Flags
    <3> QED
        BY <3>1, <3>2, Zenon
  <2> QED
      BY <1>2, <2>1, Zenon DEF Poll, Flags
<1>3. ASSUME NEW contact, NEW age, Freshness(contact, age) PROVE dimmed' \in BOOLEAN
    BY <1>3, Zenon DEF Freshness, Stale
<1>4. ASSUME NEW pause, Again(pause) PROVE inflight' \in BOOLEAN /\ lost' \in BOOLEAN
    BY <1>4, Zenon DEF Again
<1>5. CASE PollAnswered \/ RenderFails
    BY <1>3, <1>4, <1>5, Zenon DEF PollAnswered, RenderFails, Answered, Flags
<1>6. CASE PollRefused
    BY <1>6, Zenon DEF PollRefused, Flags
<1>7. CASE PollFails
    BY <1>3, <1>4, <1>7, Zenon DEF PollFails, Flags
<1>8. CASE Tell
    BY <1>3, <1>8, Zenon DEF Tell, Flags
<1>9. CASE Hide \/ Show
    BY <1>9, Zenon DEF Hide, Show, Flags
<1>10. CASE \E m \in Modes : SetRange(m)
    BY <1>10, Zenon DEF SetRange, Flags
<1>11. CASE Charting
    BY <1>11, Zenon DEF Charting, RangeAnswered, RangeFails, Flags
<1>12. CASE ServerChanges \/ Publish
    BY <1>12, Zenon DEF ServerChanges, Publish, Flags
<1>13. CASE Elapse
    BY <1>13, Zenon DEF Elapse, Flags
<1> QED
    BY <1>1, <1>2, <1>5, <1>6, <1>7, <1>8, <1>9, <1>10, <1>11, <1>12, <1>13, Zenon DEF Next, Polling

LEMMA FreshnessTold ==
    ASSUME NEW contact \in Ages, NEW age \in Ages, age # Never => contact # Never,
           Freshness(contact, age), lastOk' = contact, latest' = age
    PROVE  Told(0)' /\ text' \in {"connecting", "waiting", "updated", "stale"}
<1>1. dimmed' <=> Stale(contact, age)
    BY Zenon DEF Freshness
<1>2. ~ dimmed' => contact <= ContactLimit
    BY <1>1, Limits DEF Stale, Ages
<1>3. CASE age = Never /\ contact = Never
  <2>1. text' = "connecting"
      BY <1>3, Zenon DEF Freshness
  <2>2. Stale(contact, age)
      BY <1>3, Limits DEF Stale
  <2> QED
      BY <1>1, <1>2, <2>1, <2>2 DEF Told
<1>4. CASE age = Never /\ contact # Never
  <2>1. text' = "waiting"
      BY <1>4, Zenon DEF Freshness
  <2> QED
      BY <1>2, <2>1, Limits DEF Told, Ages
<1>5. CASE age # Never /\ Stale(contact, age)
  <2>1. text' = "stale"
      BY <1>5, Zenon DEF Freshness
  <2> QED
      BY <1>1, <1>5, <2>1 DEF Told
<1>6. CASE age # Never /\ ~ Stale(contact, age)
  <2>1. text' = "updated"
      BY <1>6, Zenon DEF Freshness
  <2>2. age <= StaleAfter
      BY <1>6, Limits DEF Stale, Ages
  <2> QED
      BY <1>1, <1>2, <1>6, <2>1, <2>2, Limits DEF Told, Ages
<1> QED
    BY <1>3, <1>4, <1>5, <1>6

\* A label that was right stays right to within a unit.
LEMMA ToldLater ==
    ASSUME Dates, Told(0), lastOk' = Older(lastOk), latest' = Older(latest), UNCHANGED <<text, dimmed>>
    PROVE  Told(1)'
<1>1. Older(lastOk) <= lastOk + 1 /\ Older(latest) <= latest + 1
      /\ (Older(latest) = Never <=> latest = Never)
    BY OlderAge DEF Dates
<1>2. lastOk \in Int /\ latest \in Int /\ Older(lastOk) \in Int /\ Older(latest) \in Int
    BY OlderAge DEF Dates, Ages
<1> QED
    BY <1>1, <1>2, Limits DEF Told

LEMMA DatesInit == Init => Dates /\ Label
<1>1. Never \in Ages
    BY Limits DEF Ages
<1>2. Init => ~ seen /\ due
    BY Zenon DEF Init
<1> QED
    BY <1>1, <1>2 DEF Init, Dates, Label

LEMMA DatesNext == Flags /\ Dates /\ Label /\ [Next]_vars => Dates' /\ Label'
<1> SUFFICES ASSUME Flags, Dates, Label, [Next]_vars PROVE Dates' /\ Label'
    OBVIOUS
<1>1. ASSUME UNCHANGED <<seen, data, label>>, snap' \in Ages, server' \in Servers
      PROVE  Dates' /\ Label'
  <2>1. Dates'
      BY <1>1 DEF Dates
  <2>2. due' = due /\ seen' = seen
      BY <1>1
  <2>3. (Told(0) => Told(0)') /\ (Told(1) => Told(1)')
      BY <1>1 DEF Told
  <2> QED
      BY <2>1, <2>2, <2>3, Zenon DEF Label
<1>2. ASSUME NEW contact \in Ages, NEW age \in Ages, age # Never => contact # Never,
             Freshness(contact, age), lastOk' = contact, latest' = age,
             drawn' \in Ages, UNCHANGED <<snap, server>>
      PROVE  Dates' /\ Label'
  <2>1. Told(0)' /\ text' \in {"connecting", "waiting", "updated", "stale"}
      BY <1>2, FreshnessTold
  <2>2. Dates'
      BY <1>2, <2>1 DEF Dates
  <2>3. Told(1)'
      BY <2>1, <2>2, Limits DEF Told, Dates, Ages
  <2> QED
      BY <2>1, <2>2, <2>3, Zenon DEF Label
<1>3. CASE PollAnswered \/ RenderFails
  <2>1. 0 \in Ages /\ 0 # Never /\ snap \in Ages
      BY Limits DEF Ages, Dates
  <2>2. drawn' \in {drawn, snap, Never} /\ Never \in Ages
      BY <1>3, Limits DEF PollAnswered, RenderFails, Ages
  <2>3. Freshness(0, snap) /\ lastOk' = 0 /\ latest' = snap /\ UNCHANGED <<snap, server>>
      BY <1>3 DEF PollAnswered, RenderFails, Answered
  <2>4. drawn' \in Ages
      BY <2>1, <2>2 DEF Dates
  <2> QED
      BY <1>2, <2>1, <2>3, <2>4
<1>4. CASE PollFails \/ Tell
  <2>1. Freshness(lastOk, latest) /\ UNCHANGED <<lastOk, latest, drawn, snap, server>>
      BY <1>4 DEF PollFails, Tell
  <2> QED
      BY <1>2, <2>1 DEF Dates
<1>5. CASE Hide
  <2>1. UNCHANGED <<data, label, remote>> /\ ~ seen'
      BY <1>5, Zenon DEF Hide
  <2>2. Dates' /\ (Told(0) => Told(0)')
      BY <2>1 DEF Dates, Told
  <2>3. due' = due /\ ~ seen'
      BY <2>1
  <2> QED
      BY <2>2, <2>3, Zenon DEF Label
<1>6. CASE ServerChanges \/ Publish
  <2>1. snap' \in Ages /\ server' \in Servers
      BY <1>6, Limits DEF ServerChanges, Publish, Dates, Ages
  <2>2. UNCHANGED <<seen, data, label>>
      BY <1>6, Zenon DEF ServerChanges, Publish
  <2> QED
      BY <1>1, <2>1, <2>2
<1>7. CASE Elapse
  <2>1. /\ lastOk' = Older(lastOk) /\ latest' = Older(latest) /\ drawn' = Older(drawn)
        /\ snap' = Older(snap) /\ UNCHANGED <<text, dimmed, server>>
      BY <1>7 DEF Elapse
  <2>2. Dates'
      BY <2>1, OlderAge DEF Dates
  <2>3. due' = TRUE /\ seen' = ~ hidden /\ (hidden \/ ~ due)
      BY <1>7, Zenon DEF Elapse, OnTime
  <2>4. CASE hidden
      BY <2>2, <2>3, <2>4, Zenon DEF Label
  <2>5. CASE ~ hidden
    <3>1. Told(0)
        BY <2>3, <2>5, Zenon DEF Label
    <3>2. Told(1)'
        BY <2>1, <3>1, ToldLater
    <3> QED
        BY <2>2, <2>3, <3>2, Zenon DEF Label
  <2> QED
      BY <2>4, <2>5
<1>8. ASSUME UNCHANGED <<seen, data, label, snap, server>> PROVE Dates' /\ Label'
    BY <1>1, <1>8 DEF Dates
<1>9. ASSUME UNCHANGED vars PROVE UNCHANGED <<seen, data, label, snap, server>>
    BY <1>9, Zenon DEF vars
<1>10. ASSUME NEW t \in timers, Poll(t) PROVE UNCHANGED <<seen, data, label, snap, server>>
    BY <1>10, Zenon DEF Poll
<1>11. ASSUME PollRefused \/ Show \/ (\E m \in Modes : SetRange(m)) \/ Charting
       PROVE  UNCHANGED <<seen, data, label, snap, server>>
    BY <1>11, Zenon DEF PollRefused, Show, SetRange, Charting, RangeAnswered, RangeFails
<1> QED
    BY <1>3, <1>4, <1>5, <1>6, <1>7, <1>8, <1>9, <1>10, <1>11, Zenon DEF Next, Polling

LEMMA PageInvariant == Spec => []PageInv
<1>1. Init => PageInv
  <2>1. Init => Flags
      BY Zenon DEF Init, Flags
  <2> QED
      BY <2>1, LoopInit, ChartInit, DatesInit DEF PageInv
<1>2. PageInv /\ [Next]_vars => PageInv'
    BY FlagsNext, LoopNext, ChartNext, DatesNext DEF PageInv
<1> QED
    BY <1>1, <1>2, PTL DEF Spec

--------------------------------------------------------------------------------
(* The theorems *)

\* Every variable keeps its type.
THEOREM DashboardTypeCorrect == Spec => []TypeOK
<1>1. PageInv => {hidden, seen, leaving, inflight, lost, dimmed, due} \subseteq BOOLEAN
    BY Zenon DEF PageInv, Flags
<1>2. PageInv => TypeOK
    BY <1>1 DEF PageInv, Loop, Chart, Dates, TypeOK
<1> QED
    BY <1>2, PageInvariant, PTL

\* The page never has two chains of polls, however often it is hidden and shown
\* while a poll is in flight.
THEOREM NeverTwoLoops == Spec => []OneLoop
<1>1. PageInv => OneLoop
    BY DEF PageInv, Loop, OneLoop
<1> QED
    BY <1>1, PageInvariant, PTL

\* The chart shows the chosen tab, unless it is loading or says that it failed to.
THEOREM ChartShowsTheTab == Spec => []ChartMatchesTab
<1>1. PageInv => ChartMatchesTab
    BY DEF PageInv, Chart
<1> QED
    BY <1>1, PageInvariant, PTL

\* What the page says of its age is true, to within a unit, whatever is late, lost,
\* hidden or thrown (src/web/dashboard.html, freshness).
THEOREM PageIsHonest == Spec => []Honest
<1>1. ASSUME PageInv, seen
      PROVE  /\ text = "updated" => ~ dimmed /\ latest <= StaleAfter + 1
             /\ ~ dimmed => text \in {"updated", "waiting"} /\ lastOk <= ContactLimit + 1
  <2>1. Told(1) /\ Dates
      BY <1>1, Zenon DEF PageInv, Label
  <2> QED
      BY <2>1 DEF Told, Dates
<1>2. PageInv => Honest
    BY <1>1, Zenon DEF Honest
<1> QED
    BY <1>2, PageInvariant, PTL

================================================================================
