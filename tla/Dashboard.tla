------------------------------- MODULE Dashboard -------------------------------
(****************************************************************************)
(* The dashboard page, the script of src/web/dashboard.html: the loop that  *)
(* polls /api/status, what the page says about the age of what it shows,    *)
(* and the range tabs of the chart.  The script is one event loop; timers,  *)
(* answers, clicks and changes of visibility come in any order.             *)
(*                                                                          *)
(* Time is counted in a unit of seconds.  Every date is kept as the time    *)
(* since, so the clocks of browser and server are taken to agree.  What a   *)
(* snapshot contains is left out: only its age matters here.                *)
(****************************************************************************)
EXTENDS Naturals, FiniteSetsExt

CONSTANTS
    Cadence,      \* CAD
    ReqTimeout,   \* REQ_TIMEOUT
    MaxBackoff,   \* the longest pause between two polls
    StaleAfter,   \* stale_after_secs of the snapshots
    Ranges        \* the tabs of the chart besides LIVE

ASSUME TimesAssumption ==
    /\ {Cadence, ReqTimeout, MaxBackoff, StaleAfter} \subseteq Nat \ {0}
    /\ Cadence <= MaxBackoff
ASSUME RangesAssumption == "LIVE" \notin Ranges

VARIABLES
    hidden, seen,      \* document.hidden; was the page visible for a whole unit?
    leaving,           \* is the browser on its way to another page?
    timers, timer,     \* timers armed for poll(), and the handle of the last one
    inflight, waited,  \* is a poll in flight, and for how long?
    lost,              \* is it one that will never be answered?
    backoff,           \* the pause before the next poll
    lastOk,            \* time since the last answer
    latest, drawn,     \* age of the last snapshot, and of the oldest numbers shown
    text, dimmed,      \* what freshness() shows, and the class "stale"
    due,               \* is freshness() due in this unit?
    mode,              \* chart.mode: the chosen tab
    series,            \* the tab whose data the chart shows
    caption,           \* what the caption adds: nothing, or that loading failed
    asked,             \* the range whose request is under way, if any
    server,            \* does it answer, refuse the cookie, fail, or keep everyone waiting?
    snap               \* age of the snapshot it holds

visible == <<hidden, seen, leaving>>
loop == <<timers, timer, inflight, waited, lost, backoff>>
data == <<lastOk, latest, drawn>>
label == <<text, dimmed, due>>
chart == <<mode, series, caption, asked>>
remote == <<server, snap>>
vars == <<visible, loop, data, label, chart, remote>>

--------------------------------------------------------------------------------
Modes == Ranges \cup {"LIVE"}

\* No contact for this long, and the page is stale whatever it shows.
ContactLimit == 2 * ReqTimeout
\* Ages are told apart up to here; Never also stands for what is not there.
Oldest == Max({StaleAfter, ContactLimit}) + 2
Never == Oldest + 1
Ages == 0 .. Never
Older(age) == IF age < Oldest THEN age + 1 ELSE age

\* It answers; it does not accept the session (which another tab may renew);
\* it refuses connections or answers with an error; or it does not answer.
Servers == {"up", "refusing", "down", "hung"}
Timers == [id : {1, 2}, left : 0 .. MaxBackoff]

--------------------------------------------------------------------------------
(* The poll loop *)

Arm(others, delay) ==
    LET id == CHOOSE i \in {1, 2} : \A t \in others : t.id # i
    IN  timers' = others \cup {[id |-> id, left |-> delay]} /\ timer' = id

ScheduleOnly(delay) == Arm(timers, delay)      \* mutant: no clearTimeout
\* schedule(): clearTimeout(timer), then a new one.
Schedule(delay) == Arm({t \in timers : t.id # timer}, delay)

\* A timer fires: poll(), unless one is in flight.
Poll(t) ==
    /\ t.left = 0
    /\ timers' = timers \ {t}
    /\ inflight' = TRUE
    /\ IF inflight THEN UNCHANGED <<waited, lost>>
       ELSE waited' = 0 /\ lost' \in {FALSE, server = "hung"}
    /\ UNCHANGED <<visible, timer, backoff, data, label, chart, remote>>

\* The end of poll(), the redirect to the sign-in page excepted.
Again(pause) ==
    /\ inflight' = FALSE /\ waited' = 0 /\ lost' = FALSE
    /\ backoff' = pause
    /\ IF hidden THEN UNCHANGED <<timers, timer>> ELSE Schedule(pause)

\* freshness(), given what it reads.
StaleByContact(contact, age) == contact > ContactLimit     \* mutant: the data may be of any age
Stale(contact, age) ==
    \/ contact > ContactLimit
    \/ age # Never /\ age > StaleAfter
Freshness(contact, age) ==
    /\ dimmed' = Stale(contact, age)
    /\ text' = CASE age = Never /\ contact = Never -> "connecting"
                 [] age = Never /\ contact # Never -> "waiting"
                 [] age # Never /\ Stale(contact, age) -> "stale"
                 [] OTHER -> "updated"

\* lastTs: a snapshot is rendered once.  After a null, any is a new one.
Fresh(age) == age \notin {Never, latest}

\* Mutant: the live data is drawn whatever tab is chosen.
DrawAlways(age) == series' = IF Fresh(age) THEN "LIVE" ELSE series
\* render() draws the chart too, if it is live.
DrawLive(age) == series' = IF Fresh(age) /\ mode = "LIVE" THEN "LIVE" ELSE series

\* 200, whatever becomes of the snapshot.
Answered ==
    /\ inflight /\ ~ lost /\ server = "up"
    /\ Again(Cadence)
    /\ lastOk' = 0 /\ latest' = snap
    /\ Freshness(0, snap)
    /\ UNCHANGED <<visible, due, mode, caption, asked, remote>>

\* The snapshot is drawn if it is a new one; null, before the first collection,
\* leaves the screen as it is.
PollAnswered ==
    /\ Answered
    /\ drawn' = IF Fresh(snap) THEN snap ELSE drawn
    /\ DrawLive(snap)

\* render() throws, which is caught: some of the earlier numbers stay, but the
\* snapshot counts as the latest one and will not be rendered again.
RenderFails ==
    /\ Answered
    /\ Fresh(snap)
    /\ drawn' \in IF drawn = Never THEN {Never, snap} ELSE {drawn}
    /\ DrawLive(snap) \/ UNCHANGED series

\* 401: off to the sign-in page, and no further poll.
PollRefused ==
    /\ inflight /\ ~ lost /\ server = "refusing"
    /\ leaving' = TRUE
    /\ inflight' = FALSE /\ waited' = 0 /\ lost' = FALSE
    /\ UNCHANGED <<hidden, seen, timers, timer, backoff, data, label, chart, remote>>

Forever == FALSE             \* mutant: no abort
Impatient == waited = ReqTimeout
\* 60 % more, rounded up to the unit.
Uncapped(pause) == (pause * 8 + 4) \div 5      \* mutant: no limit
Longer(pause) == Min({(pause * 8 + 4) \div 5, MaxBackoff})

\* An error, or an abort after REQ_TIMEOUT.
PollFails ==
    /\ inflight /\ (server = "down" \/ Impatient)
    /\ Again(Longer(backoff))
    /\ Freshness(lastOk, latest)
    /\ UNCHANGED <<visible, data, due, chart, remote>>

\* setInterval(freshness, 1000)
Tell ==
    /\ due
    /\ due' = FALSE
    /\ Freshness(lastOk, latest)
    /\ UNCHANGED <<visible, loop, data, chart, remote>>

Hide ==
    /\ ~ hidden
    /\ hidden' = TRUE /\ seen' = FALSE
    /\ timers' = {t \in timers : t.id # timer}
    /\ UNCHANGED <<leaving, timer, inflight, waited, lost, backoff, data, label, chart, remote>>

Show ==
    /\ hidden
    /\ hidden' = FALSE
    /\ Schedule(0)
    /\ UNCHANGED <<seen, leaving, inflight, waited, lost, backoff, data, label, chart, remote>>

--------------------------------------------------------------------------------
(* The chart *)

\* setRange(), on a click, or each minute for the chosen range: what was asked
\* before is aborted, so that the answers it may still get are never looked at
\* (the sequence number that setRange compares as well guards the same).
SetRange(m) ==
    /\ ~ hidden
    /\ mode' = m /\ caption' = "plain"
    /\ IF m = "LIVE" THEN asked' = {} /\ series' = "LIVE"
       ELSE asked' = {m} /\ UNCHANGED series
    /\ UNCHANGED <<visible, loop, data, label, remote>>

\* Both series arrived.
RangeAnswered(r) ==
    /\ server = "up"
    /\ asked' = asked \ {r}
    /\ series' = r /\ caption' = "plain"
    /\ UNCHANGED <<visible, loop, data, label, mode, remote>>

\* One of them failed; a 401 leaves the page, too.
RangeFails(r) ==
    /\ server \in {"down", "refusing"}
    /\ leaving' = (leaving \/ server = "refusing")
    /\ asked' = asked \ {r}
    /\ caption' = "unavailable"
    /\ UNCHANGED <<hidden, seen, loop, data, label, mode, series, remote>>

--------------------------------------------------------------------------------
(* The server, the browser and time *)

ServerChanges ==
    /\ server' \in Servers \ {server}
    /\ UNCHANGED <<visible, loop, data, label, chart, snap>>

\* The collector publishes; a restart of the server forgets the snapshot.
Publish ==
    /\ snap' \in {0, Never} \ {snap}
    /\ UNCHANGED <<visible, loop, data, label, chart, server>>

\* While the page is visible its timers fire, and answers arrive, within a unit.
OnTime ==
    /\ ~ due
    /\ \A t \in timers : t.left > 0
    /\ inflight => (lost \/ server = "hung") /\ ~ Impatient

Elapse ==
    /\ hidden \/ OnTime
    /\ timers' = {[t EXCEPT !.left = Max({@ - 1, 0})] : t \in timers}
    /\ waited' = IF inflight THEN Min({waited + 1, ReqTimeout}) ELSE 0
    /\ lastOk' = Older(lastOk) /\ latest' = Older(latest)
    /\ drawn' = Older(drawn) /\ snap' = Older(snap)
    /\ due' = TRUE /\ seen' = ~ hidden
    /\ UNCHANGED <<hidden, leaving, timer, inflight, lost, backoff, text, dimmed, chart, server>>

--------------------------------------------------------------------------------
\* The page is loaded: poll() at once, and nothing shown yet.  To leave it is
\* the end; the page that a sign-in leads back to starts here again.
Init ==
    /\ hidden \in BOOLEAN /\ seen = FALSE /\ leaving = FALSE
    /\ timers = {} /\ timer = 1 /\ inflight = TRUE /\ waited = 0 /\ lost = FALSE
    /\ backoff = Cadence
    /\ lastOk = Never /\ latest = Never /\ drawn = Never
    /\ text = "connecting" /\ dimmed = FALSE /\ due = TRUE
    /\ mode = "LIVE" /\ series = "LIVE" /\ caption = "plain" /\ asked = {}
    /\ server \in Servers /\ snap \in Ages

Polling == (\E t \in timers : Poll(t)) \/ PollAnswered \/ RenderFails \/ PollRefused \/ PollFails
Charting == \E r \in asked : RangeAnswered(r) \/ RangeFails(r)

Next ==
    \/ Polling \/ Tell \/ Hide \/ Show
    \/ \E m \in Modes : SetRange(m)
    \/ Charting
    \/ ServerChanges \/ Publish \/ Elapse

Spec == Init /\ [][Next]_vars
\* The browser runs what is due, and time passes.
FairSpec == Spec /\ WF_vars(Polling \/ Tell \/ Elapse)

--------------------------------------------------------------------------------
(* Properties *)

\* Every variable keeps its type.
TypeOK ==
    /\ {hidden, seen, leaving, inflight, lost, dimmed, due} \subseteq BOOLEAN
    /\ timers \subseteq Timers /\ timer \in {1, 2} /\ waited \in 0 .. ReqTimeout
    /\ backoff \in 1 .. MaxBackoff
    /\ {lastOk, latest, drawn, snap} \subseteq Ages
    /\ text \in {"connecting", "waiting", "updated", "stale"}
    /\ mode \in Modes /\ series \in Modes /\ caption \in {"plain", "unavailable"}
    /\ asked \subseteq Ranges
    /\ server \in Servers

\* However visibility changes and answers are late, the page has one chain of
\* polls: never two timers, each of which would arm the next.
OneLoop == \A t, u \in timers : t = u

\* What the page says is true, to within a unit: once it has been visible for a
\* while, "updated" stands for a collection within the server's limit and is not
\* dimmed, and a page that is not dimmed has heard of the server lately, if only
\* that it waits for its first collection after a restart.
Honest ==
    seen => /\ text = "updated" => ~ dimmed /\ latest <= StaleAfter + 1
            /\ ~ dimmed => text \in {"updated", "waiting"} /\ lastOk <= ContactLimit + 1

\* Under "updated" stand no old numbers, which is what freshness() is for.  (They
\* do, once render() throws: the snapshot counts as shown before it is rendered.)
NothingFrozen == seen /\ text = "updated" /\ drawn # Never => drawn <= StaleAfter + 1

\* Whatever was clicked, refreshed and answered in whatever order, a chart that
\* is not loading, and does not say it failed to, shows the tab that is chosen.
ChartMatchesTab == asked = {} /\ caption = "plain" => series = mode

\* A server that answers, to a visible page with a session, and collects.
Healthy ==
    /\ ~ hidden /\ ~ leaving /\ server = "up"
    /\ snap + Cadence < StaleAfter

\* Once all is well for good, the page shows it: no outage, absence or stuck
\* request before leaves it without a poll, or dimmed.
Recovers == <>[]Healthy => <>[](text = "updated")

================================================================================
