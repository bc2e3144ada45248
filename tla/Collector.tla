------------------------------- MODULE Collector -------------------------------
(****************************************************************************)
(* The collector loop of src/main.rs and what /healthz makes of it: tick,   *)
(* reconnect, list, query, publish, write, and the age of what was          *)
(* published.                                                               *)
(*                                                                          *)
(* Times are seconds, and each is kept as the time since something, so no   *)
(* clock grows without bound.  What a collection contains is module         *)
(* DockerCollector's business; here it succeeds or fails, and takes time.   *)
(****************************************************************************)
EXTENDS Integers, FiniteSetsExt

CONSTANTS
    Tick,        \* cfg.interval
    PerCall,     \* PER_CALL_TIMEOUT
    MaxWrite,    \* the longest a write takes, the wait for a compaction included
    MaxBack      \* bound: how far the wall clock is set back, in all

ASSUME TimesAssumption == {Tick, PerCall} \subseteq Nat \ {0} /\ {MaxWrite, MaxBack} \subseteq Nat

VARIABLES
    phase,     \* where the loop is
    spent,     \* time spent there
    since,     \* time since the last tick, up to Tick
    client,    \* the Docker client: none, or connected to a daemon that lives or is gone
    daemon,    \* the Docker daemon: up, wedged (it never answers) or down
    draft,     \* age of the snapshot being collected, by the wall clock
    snap,      \* the published snapshot
    stuck,     \* does the write hang for ever?
    upFor,     \* how long the daemon has been up
    unseen,    \* how long ago the daemon last answered a listing
    back       \* how far the wall clock was set back

loop == <<phase, spent, since, draft>>
history == <<upFor, unseen, back>>
vars == <<loop, client, daemon, snap, stuck, history>>

--------------------------------------------------------------------------------
(* The limits of the loop *)

\* tick.mul_f32(0.6).max(Duration::from_secs(2))
Budget == Max({(Tick * 3) \div 5, 2})
OneTick == Tick               \* mutant: any missed tick is stale
StaleAfter == Max({3 * Tick, 30})

\* A collection, and a round of the loop, at their longest.
Collection == PerCall + Budget
Round == Max({Tick, Collection + MaxWrite})
\* Ages are told apart up to here.
Recovery == 2 * Round + Collection
Oldest == Max({StaleAfter + MaxBack, Recovery}) + 1

None == [there |-> FALSE, age |-> 0, error |-> FALSE]
Enter(p) == phase' = p /\ spent' = 0

--------------------------------------------------------------------------------
(* The loop *)

\* A failed connection leaves no client; one over TCP does not fail here.
Connected(c) ==
    IF c # "none" THEN {c} ELSE IF daemon = "down" THEN {"none", "gone"} ELSE {"live"}

ClientKept(error) == client     \* mutant: the dead client is used again
\* A client is dropped after any error.
ClientAfter(error) == IF error THEN "none" ELSE client

\* docker = None on an error, then publish, then start to write.
Publish(age, error) ==
    /\ snap' = [there |-> TRUE, age |-> age, error |-> error]
    /\ Enter("write")
    /\ draft' = 0

\* A tick: connect if need be, stamp the snapshot, and ask for the containers.
\* Without a client there is nothing to wait for.
Wake ==
    /\ phase = "sleep" /\ since = Tick
    /\ since' = 0
    /\ \E c \in Connected(client) :
          /\ client' = c
          /\ IF c = "none" THEN Publish(0, TRUE)
             ELSE Enter("list") /\ draft' = 0 /\ UNCHANGED snap
    /\ UNCHANGED <<daemon, stuck, history>>

ListAnswered ==
    /\ phase = "list" /\ daemon = "up" /\ client = "live"
    /\ Enter("calls")
    /\ unseen' = 0
    /\ UNCHANGED <<since, draft, client, daemon, snap, stuck, upFor, back>>

\* A daemon that was up all along has answered by now.
Unanswered == upFor < spent

\* The listing is refused, or takes longer than a call may.
ListFails ==
    /\ phase = "list"
    /\ daemon = "down" \/ client = "gone" \/ (spent = PerCall /\ Unanswered)
    /\ client' = ClientAfter(TRUE)
    /\ Publish(draft, TRUE)
    /\ UNCHANGED <<since, daemon, stuck, history>>

\* All containers were asked; calls that fail cost their values only.
CallsDone ==
    /\ phase = "calls"
    /\ daemon = "wedged" => spent >= PerCall
    /\ client' = ClientAfter(FALSE)
    /\ Publish(draft, FALSE)
    /\ UNCHANGED <<since, daemon, stuck, history>>

OverBudget ==
    /\ phase = "calls" /\ spent = Budget /\ Unanswered
    /\ client' = ClientAfter(TRUE)
    /\ Publish(draft, TRUE)
    /\ UNCHANGED <<since, daemon, stuck, history>>

\* The blocking task ends, stored or not.
WriteEnds ==
    /\ phase = "write" /\ ~ stuck
    /\ Enter("sleep")
    /\ UNCHANGED <<since, draft, client, daemon, snap, stuck, history>>

--------------------------------------------------------------------------------
(* GET /healthz *)

\* now_secs().saturating_sub(ts)
AgeSecs(s) == Max({s.age, 0})

NeverStale ==                   \* mutant: the age is not looked at
    IF ~ snap.there THEN "starting" ELSE IF snap.error THEN "degraded" ELSE "ok"
Healthz ==
    IF ~ snap.there THEN "starting"
    ELSE IF AgeSecs(snap) > StaleAfter THEN "stale"
    ELSE IF snap.error THEN "degraded" ELSE "ok"

--------------------------------------------------------------------------------
(* The daemon, the disk and the clock *)

\* A daemon that goes down takes the connections to it along.
DaemonChanges ==
    /\ daemon' \in {"up", "wedged", "down"} \ {daemon}
    /\ client' = IF daemon' = "down" /\ client = "live" THEN "gone" ELSE client
    /\ upFor' = 0
    /\ UNCHANGED <<loop, snap, stuck, unseen, back>>

WriteHangs ==
    /\ phase = "write" /\ ~ stuck
    /\ stuck' = TRUE
    /\ UNCHANGED <<loop, client, daemon, snap, history>>

\* The wall clock is set back; ages by it shrink.
StepBack ==
    /\ \E d \in 1 .. MaxBack - back :
          /\ back' = back + d
          /\ snap' = IF snap.there THEN [snap EXCEPT !.age = @ - d] ELSE snap
          /\ draft' = IF phase \in {"list", "calls"} THEN draft - d ELSE draft
    /\ UNCHANGED <<phase, spent, since, client, daemon, stuck, upFor, unseen>>

\* What the loop waits for comes in time: its timers, and a write that is not stuck.
OnTime ==
    CASE phase = "sleep" -> since < Tick
      [] phase = "list" -> spent < PerCall
      [] phase = "calls" -> spent < Budget
      [] OTHER -> stuck \/ spent < MaxWrite

Later(t, limit) == Min({t + 1, limit})
Elapse ==
    /\ OnTime
    /\ spent' = IF phase = "sleep" \/ stuck THEN 0 ELSE spent + 1
    /\ since' = Later(since, Tick)
    /\ draft' = IF phase \in {"list", "calls"} THEN draft + 1 ELSE draft
    /\ snap' = IF snap.there THEN [snap EXCEPT !.age = Later(@, Oldest)] ELSE snap
    /\ upFor' = IF daemon = "up" THEN Later(upFor, Oldest) ELSE 0
    /\ unseen' = Later(unseen, Oldest)
    /\ UNCHANGED <<phase, client, daemon, stuck, back>>

--------------------------------------------------------------------------------
Init ==
    /\ phase = "sleep" /\ spent = 0 /\ since = Tick /\ draft = 0
    /\ client = "none" /\ daemon \in {"up", "wedged", "down"}
    /\ snap = None /\ stuck = FALSE
    /\ upFor = 0 /\ unseen = Oldest /\ back = 0

Next ==
    \/ Wake \/ ListAnswered \/ ListFails \/ CallsDone \/ OverBudget \/ WriteEnds
    \/ DaemonChanges \/ WriteHangs \/ StepBack \/ Elapse

Spec == Init /\ [][Next]_vars

--------------------------------------------------------------------------------
(* Properties *)

\* A collector that is alive is never called stale, however long its calls and
\* writes take within their limits.
NotCalledStale == ~ stuck => Healthz # "stale"

\* "ok" means that the daemon answered a listing not long ago: neither a hung
\* collector nor a daemon out of reach keeps the answer ok, and a clock that is
\* set back delays it by no more than it was set back.
OkIsSeen == Healthz = "ok" => unseen <= StaleAfter + back

\* Once the daemon has been back for two rounds of the loop, it is seen again:
\* no client outlives the daemon it was connected to by more than one tick.
BackInTime == upFor > Recovery /\ ~ stuck => Healthz \notin {"starting", "degraded"}

================================================================================
