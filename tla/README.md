# vm-vitals in TLA+

vm-vitals is one Rust process that watches one machine: a collector samples the
host and its containers, SQLite keeps half a year of history in three resolutions, a
small HTTP server shows it on a dashboard, and passkeys decide who may look. This
directory holds its models, the TLC configurations that check them and the
TLAPS proofs. Line numbers refer to the sources under `src/`.

## The system

| component | state | operations | works with |
|---|---|---|---|
| Enrolment and sign-in (`auth.rs`) | `Store` (passkeys, user id) in memory, `auth.json` and `auth.json.tmp` on disk, the one-time enrolment code, pending ceremonies, sessions | `register_start`, `register_finish`, `login_start`, `login_finish`, `persist`, `AuthState::new` | every request handler runs concurrently; `std` locks, never held over file operations |
| Ceremonies and sessions (`auth.rs`, `main.rs:181-192`) | three maps id -> deadline | `insert_capped`, `new_session`, `session_valid`, `logout`, removal at finish, `sweep` | the sweeper task; the wall clock |
| History: roll-up and retention (`store.rs`) | tables `samples` (three tiers) and `meta.last_compact` | `write`, `compact`, `series` | collector and compactor tasks under one write lock; readers with connections of their own |
| History: metric names (`store.rs`) | table `metric`, the memo `Store.ids` | `metric_id`, the garbage collection in `compact`, `series` | as above |
| History: opening (`store.rs:49-124`) | schema and `user_version` | `Store::open`, `migrate` | runs once, before anything else |
| Collector loop (`main.rs:101-164`, `collect/mod.rs`) | last snapshot, Docker client | one tick: stamp, connect, collect, publish, write | Docker collector, store, `/healthz` |
| Docker collector (`collect/docker.rs`) | CPU counters per container | listing, two calls per container, 16 in flight, within limits and a budget | the Docker daemon |
| HTTP surface (`web.rs`) | none of its own | `require_api_auth`, `healthz`, `status`, `series` | all of the above |
| Start-up and configuration (`config.rs`, `main.rs`) | the configuration | `load`, the refusals, opening the store, spawning the tasks, serving | store, `require_api_auth` |
| Dashboard and sign-in pages (`web/*.html`) | poll timer, chosen range, age label | callbacks of one event loop | the HTTP surface |
| Host metrics (`collect/host.rs`) | counters of `sysinfo` | `collect` | pure input |

What is hard about it, and therefore what the models are for:

* **Requests interleave.** A finish holds the store lock to push a credential and
  to serialize the list, but writes and renames without it, and rolls back under
  the lock again. Every start reads under one lock and writes under another.
* **The disk and the process fail.** A save can fail at each file operation, the
  process can stop between any two, a power cut can undo a rename.
* **Clocks.** Deadlines are wall-clock times taken before the lock they are used
  under; machines sleep; clocks are set back.
* **Roll-up is incremental.** A compaction recomputes some buckets, out of rows
  that it also prunes, from a `last_compact` that may be old or unreadable, while
  samples arrive late.
* **The daemon answers late, in part, or not at all**, and containers restart while
  they are measured.
* **A cache sits outside the transaction** that creates what it caches.
* **A migration is a row of statements, not one transaction**, and decides by
  what it finds whether to drop anything at all.
* **The page is one event loop** re-entered by timers, answers that are late or
  never come, clicks, and changes of visibility.

What makes each component correct is stated with its module below;
`PROJECT.json` lists every hazard at its line with the properties that watch it.

## Modules

| module | models | composed of |
|---|---|---|
| `AdminAccount` | what enrolment promises, without locks, files or crashes | - |
| `Enrolment` | enrolment, sign-in, `persist`, start, crash | - |
| `EnrolmentAccount` | `Enrolment` implements `AdminAccount` | EXTENDS `Enrolment`, INSTANCE `AdminAccount` |
| `MCEnrolment` | symmetry for TLC | EXTENDS `EnrolmentAccount` |
| `EnrolmentProofs` | theorems, for any number of handlers | EXTENDS `EnrolmentAccount` |
| `Ceremonies` | lifetimes: caps, deadlines, sweeper | - |
| `MCCeremonies` | small caps and lifetimes | EXTENDS `Ceremonies` |
| `CeremoniesProofs` | theorems | EXTENDS `Ceremonies` |
| `Rollup` | the three tiers of one metric | - |
| `RollupProofs` | theorems, and lemmas about buckets and folds | EXTENDS `Rollup` |
| `MetricIds` | names, ids, the memo, one reader | - |
| `MCMetricIds` | symmetry for TLC | EXTENDS `MetricIds` |
| `MetricIdsProofs` | theorems | EXTENDS `MetricIds` |
| `StoreOpen` | `Store::open`, the migration, upgrades | - |
| `Startup` | configuration, `run`, the gate of the API | EXTENDS `StoreOpen` |
| `StartupProofs` | theorems about `Startup` and its store | EXTENDS `Startup` |
| `Collector` | the loop, the Docker client, `/healthz` | - |
| `CollectorProofs` | theorems | EXTENDS `Collector` |
| `DockerCollector` | one collection, call by call | - |
| `MCDockerCollector` | symmetry for TLC | EXTENDS `DockerCollector` |
| `DockerCollectorProofs` | theorems | EXTENDS `DockerCollector` |
| `Dashboard` | the poll loop, the age label, the range tabs | - |
| `DashboardProofs` | theorems | EXTENDS `Dashboard` |

The models meet only through what they abstract of each other: a ceremony or
session may vanish at any moment in `Enrolment` (`Lapse`, `EndSession`), for the
reasons `Ceremonies` gives; anything may be begun or finished in `Ceremonies`,
for the reasons `Enrolment` gives; which rows leave the database is arbitrary in
`MetricIds`, and is `Rollup`'s subject; `Collector` takes a collection to end
within its budget while the daemon is up, which `DockerCollector` shows as long as
few containers hang, and `MaxWrite` stands for the wait behind `Rollup`'s
compaction. `Startup` composes `StoreOpen` with the rest of `run`: its steps
are steps of the store's, and a process that dies closes the store wherever it
was. `Rollup` and `MetricIds` start from the tables that `Startup` leaves;
`Dashboard` sees of the server only whether it answers and how old its snapshot
is.

### Enrolment

One variable per piece of state of `AuthState` (`passkeys`, `user`, `codeOpen`,
`reg`, `auth`, `sessions`), the handlers (`pc`, and `req` for their local
variables), and a small file system: `path` and `tmp` are the inodes named
`auth.json` and `auth.json.tmp`, `linked` is the one `auth.json` names after a
power cut. `acked` is history: the credentials whose enrolment was reported as
successful; `races` is history, too, see below. A step is one critical section or one file operation:

    register_start    RegStartSession, RegStartMode, RegStartCode, RegStartUser,
                      RegStartRemember, RegStartInsert
    register_finish   RegFinishTake, RegFinishPush, [persist], RegFinishRollback
                      or RegFinishClear, RegFinishBurn, NewSession
    login_start       LoginStart
    login_finish      LoginFinishTake, [persist], NewSession
    persist           PersistSnapshot, PersistOpen, PersistWrite, PersistRename
                      (PersistRenameLost: another handler renamed tmp already;
                      PersistFault: the operation fails)

Two handlers that persist at once truncate, write and rename the *same* temporary
inode, as in the code; a write over another handler's longer text leaves its tail
(`Overlay`), and such a file does not parse. WebAuthn messages are abstracted to
"verifies with some key" or "is refused".

Some consequences of this concurrency nothing in the code prevents. `Watch`, a
conjunct of `Next` that only looks, records in `races` which of them an
execution has met, so that a property can say which of them it survives, with
any number of handlers and everything else still interleaving:

| race | what has happened | the code |
|---|---|---|
| `saves` | two finishes were between their push and the end of `persist` (or of the roll-back), or a sign-in in `persist`, at once | `auth.rs:146-165`, `446-447` |
| `starts` | two starts hold two different user ids to be remembered | `auth.rs:365-378` |
| `clear` | a bootstrap start has passed its checks while a finish has cleared the map and not yet burned the code | `auth.rs:455-461` |
| `sign-in` | a sign-in has begun on a credential that `auth.json` does not have | `auth.rs:468-490` |
| `rename` | a power cut has taken back a rename that had returned | `auth.rs:162` |

### AdminAccount, EnrolmentAccount

The account is a set of admins that only grows: the first claims it with the
code, every other is added once somebody has been granted a session; who was
told to be enrolled is; sessions are granted to admins only, and end. The
refinement maps `admins` to the credentials in `auth.json` (`Ids(Saved.passkeys)`)
and `granted` to the count of sessions: an enrolment takes effect with the
rename of `persist`, and every other step, failure and crash is a stutter, the
grant of a session or the end of some. It holds for any handlers up to the first
of the races `saves`, `sign-in` and `rename`.

### Ceremonies

`maps` is `AuthState.reg`, `.auth` and `.sessions` with only the deadlines in
them; `held` is what a handler computed before it takes the lock. Two clocks run:
`now`, which the code reads, and `real`, which nobody does. `Elapse` and
`Suspend` move both, `StepBack` sets only `now` back. `late` is raised when
something is redeemed or honoured (`Live`) more after its time to live, measured on
`real`, than the clock was set back by. The sweeper reads the clock once and then
visits the three maps, one lock at a time.

### Rollup

A rolled-up row's avg, min and max are functions of the samples behind it, so a
row is that set of samples and its weight `n`. Widths and retentions keep the
order of the code's 300 s and 3600 s, 2 d, 30 d and 180 d on a small scale.
The collector stamps a sample and writes it up to `MaxLate` later; the compactor
reads the clock and runs on time, or up to `MaxSlip` later after the fault
`slip`. Each kind of fault (`write`, `compact`, `meta`: `last_compact` cannot be
read and counts as 0, `clock`, `restart`, `slip`) may strike once. `stored` is
history.

### MetricIds

A write transaction inserts a point per name; `MetricId` consults the memo and
otherwise the transaction's own table. The memo is updated at once, the table at
commit, and `WriteFails` rolls back only the latter. Ids are SQLite rowids: one
more than the largest in use, so collected ids are used again. The reader of
`/api/series` takes two steps, with two snapshots.

### Collector

Times are seconds, with the code's own formulas for the budget and for
`stale_after`, and each is kept as an age, so the state space is finite without a
horizon. A tick is `Wake` (timer, lazy connection, `ts`), then `ListAnswered` or
`ListFails`, `CallsDone` or `OverBudget` (both end in `Publish`), then
`WriteEnds`. The daemon is up, wedged or down at any time; a client is lost with
the daemon it was connected to; a write may hang for ever (`stuck`); the wall
clock may be set back. `unseen` is history: how long ago a listing was answered.

### StoreOpen, Startup

`file` is what the next connection finds: `user_version` and, for each table and
the index, the release whose layout it has (`Absent` for none, `Legacy` for a
file from before versions). Each statement of `migrate` is a step that commits on
its own; `lag` holds the earlier contents that a power cut may bring back, since
the journal is only synced at a checkpoint. The index names columns of its
release's `samples`, so `CreateIndex` is disabled on any other, as the statement
fails. `Kill` and `PowerCut` strike anywhere, `Upgrade` while the process is down.
Releases only go up: the roll-back of a bad deploy to the previous binary
(`SPEC.md:269-272`) is not a step, see the findings.

`Startup` runs it inside `run`: any combination of what `load` tells apart (a token
from the environment or the file, blank, short or long; none, half or both of
`rp_id` and `rp_origin`, or both but invalid; address; interval; an `auth.json`
that does or does not parse) passes or fails each check in the code's order. A
`data_dir` that cannot be created (`main.rs:53`) ends the process before it has opened
anything, which is a `Stop`. `Answered` is `require_api_auth` for a request.

### DockerCollector

`List` gives every container a job: `inspect`, then `stats` if it was listed as
running. At most `MaxInflight` calls are out; each is answered at once or hangs
until `CallLimit`. Containers start, stop and go between any two steps. `used`
is what a container really used, `total` the counter Docker reports for it, which
starts from zero with every start.

### Dashboard

`timers` are the timers armed for `poll`, `timer` the handle in the script:
a poll that was scheduled without clearing the last would leave two. A poll is
answered, refused, fails, or is aborted after `ReqTimeout`; `lost` marks a request that
nobody will answer. Every date is kept as an age, in units of several seconds, and
the clocks of browser and server agree. `PollAnswered`, `RenderFails` and
`PollFails` are the end of `poll`, with the drawing and `freshness` in them.
`latest` is the age of the snapshot that `freshness` judges by, `drawn` that of the
oldest numbers on the screen: `RenderFails` moves the one and not the other, and
whether `render` got as far as the chart is open. A snapshot is rendered only if it
is not the last one seen (`Fresh`).
`SetRange` is a click on a tab or the minute's refresh, whose requests are
answered or fail in `RangeAnswered` and `RangeFails`. `Elapse` waits for what is
due while the page is visible (`OnTime`): timers of hidden pages may be
throttled for as long as the browser likes. The sequence number of `setRange`
has no variable: the abort alone already makes answers to earlier
requests go unseen.

## Runs

Every run finishes within three minutes on two workers.

| run | what it shows |
|---|---|
| `enrolment` | Two requests interleave, saves fail, the process stops anywhere and renames get lost. Whatever happens, no second admin comes in through the code (`OneBootstrap`) and nobody is locked out (`NotLockedOut`). Until two saves overlap, `auth.json` parses (`ReadableInTurn`) and a failed enrolment leaves nothing behind (`MemoryMatchesDisk`); until that or a lost rename, an enrolment reported as saved is known (`AckedIsKnown`); until that or a sign-in on an unsaved credential, the whole implements `AdminAccount` (`AccountKept`): no saved admin is ever dropped, nobody is told of an enrolment that is not on disk, none comes in but by the code or after a session, no session exists without a saved admin. Until two starts make up user ids at once, there is one (`OneUserId`); until a start overtakes the clear, no bootstrap ceremony outlives bootstrap (`NoParkedBootstrap`). |
| `enrolment_torn_file` | Once two saves overlap, `AuthFileReadable` fails: a finding, see below. |
| `ceremonies` | Two handlers and a sweeper, suspends and a clock set back included: the caps hold (`Bounded`), nothing is good for longer than its time to live plus what the clock was set back by (`NothingLate`), eviction takes the oldest while the clock is not set back (`OldestGoesFirst`), and everything goes in the end (`Forgotten`). |
| `rollup` | Any one fault: no sample is counted twice (`CountedOnce`), no bucket is rewritten from part of its samples (`NoPartialRewrite`; while the clock is not set back). As long as compactions come on schedule, a bucket that is final has every sample of its span that was written before its 5-minute bucket ended (`CompleteOnSchedule`), and none of these is pruned before the next tier counted it (`NothingLost`). |
| `rollup_gap` | After one missed compaction `FinalIsComplete` fails: a finding. |
| `metric_ids` | Through collection, re-used ids and restarts, and while writes succeed: memo and table agree and samples are filed under their metric (`FiledWhileWritesSucceed`). Failed writes included: names without samples are gone (`NoOrphanName`), and a reader answers with the metric it was asked for unless a compaction falls between its statements (`AnswersUnlessCompacted`). |
| `metric_ids_rollback` | `FiledByMetric` fails once a write was rolled back: a finding. |
| `collector` | A live collector is never called stale (`NotCalledStale`); "ok" means the daemon answered a listing within `stale_after`, plus what the clock was set back (`OkIsSeen`); a daemon that came back is seen within two rounds (`BackInTime`). |
| `docker_collector` | CPU usage is never over-reported, and exact without a restart (`ReportsWhatWasUsed`); it is measured against the last complete collection (`WindowIsLastCollection`); the budget is exceeded only if more containers hang than may be in flight (`SickCostTheirOwn`). |
| `startup` | Any configuration, any earlier file, and two stops or power cuts anywhere: a store that opened has this release's tables, index and version (`OpenedIsCurrent`); a release never drops what it recorded itself (`OwnHistoryKept`); whoever the API answers presented the token or a session, or asked a server left open on loopback (`OnlyTheEntitled`); a sound configuration serves again (`StartsAgain`). |
| `dashboard` | Timers, answers, failing renders, clicks and visibility in any order: one chain of polls (`OneLoop`); "updated" only over a recent collection, and no page that looks well without contact (`Honest`); no data under the wrong tab (`ChartMatchesTab`); and a page that says "updated" again once all is well, whatever came before (`Recovers`). |
| `dashboard_frozen` | A render that throws leaves old numbers under "updated" (`NothingFrozen`): a finding. |

### Bounds, and why they are enough

* *Enrolment*: two handlers are enough for every pair of critical sections to
  interleave; three passkeys for one enrolment to be confused with another and a third
  to be lost; three inodes for `auth.json`, a temporary file and the one a power
  cut brings back. Three ceremonies and three sessions let a bootstrap, a parked
  bootstrap or an added device, and a sign-in happen in one behaviour; two faults
  and two crashes let a failure meet the recovery from an earlier one. Each race happens
  within these bounds and each is needed: without any one of the races it names,
  every property that names some is violated.
* *Ceremonies*: one map holds two entries and the others one, and three things
  are begun, so both maps of ceremonies overflow (that of sessions does not: for
  its cap there is `MapsAreBounded`); times to
  live differ. One step back of
  the clock, as far as it likes. `Horizon` stops the clock; nothing begins whose deadline
  lies beyond it (`Room`), so the bound never hides an expiry.
* *Rollup*: 3 fine buckets of raw data, 3 coarse ones of 5-minute data and a
  horizon beyond the coarsest retention, so each tier is filled, rolled up and
  pruned. Two samples are enough for a bucket to have one part that survives and
  one that does not. One fault of six kinds; any two pass as well, in four and a half minutes. What matters of the code's constants is stated
  as `WidthsAssumption` and `RetentionAssumption`; the code satisfies both amply.
* *MetricIds*: two names and three ids: an id freed by one name and taken by the
  other, and one left to spare.
* *Collector*: the default interval of 15 s, and the longest write for which
  `NotCalledStale` holds with it, 21 s; with 22 it fails. With an interval of 5 s,
  where `stale_after` is at its minimum of 30 s, it holds up to 18 s at least.
* *DockerCollector*: two containers and one call in flight, so a container waits
  for a slot that another holds; limits of 1 and 3 units, the proportions of 3 s
  and 9 s. Two starts let one container restart, or both run; a horizon of 5 leaves room for three collections, one of them over budget.
* *Startup*: two releases and a file older than both, so a file may be two
  versions behind and an upgrade may follow an upgrade that was interrupted.
  Two stops: one in the rebuild, one in the recovery from it; three pass as well.
* *Dashboard*: what matters of 5 s, 8 s, 20 s and 45 s is that a pause can grow and
  reach its limit, and that no contact for two timeouts comes before the age of
  the data or after it, which both occur with 1, 1, 2 and 3 units. One range beside
  LIVE: what is asked for a range aborts what was asked before, so two ranges only add
  a second name for the same states (they pass as well, in four and a half minutes).

`MaxCeremonies`, `MaxSessions`, `MaxFaults`, `MaxCrashes`, `MaxSteps`,
`MaxBegun`, `MaxSamples`, `MaxLate`, `MaxSlip`, `MaxId`, `MaxStarts`, `MaxStops`,
`MaxBack` and `Horizon` exist for TLC only.

### Fairness

Three properties need it, each a `FairSpec` of its module.

* `Forgotten`: weak fairness of the sweeper, a task of its own that ticks for
  ever and blocks on nothing but short critical sections, and of `Elapse`: time
  passes. Handlers get none: clients may go away at any point.
* `StartsAgain`: weak fairness of `Boot`: a process that was started goes on to its
  next statement. Nobody is bound to start it, and stops are bounded, so the
  property speaks of the starts after the last.
* `Recovers`: weak fairness of `Polling \/ Tell \/ Elapse`: the browser runs what is
  due, and time passes. The server, the user and the chart get none; that the server
  answers for good is the property's premise.

## Findings

Disagreements between what the sources say and what they do, each with a run
that reproduces it:

1. `auth.rs:155` - all saves share `auth.json.tmp` and do not exclude each other;
   one truncates the file that another is about to rename, so `auth.json` is
   empty or torn for a while, and a crash in that window blocks the next
   start, which the comment at `auth.rs:147` rules out.
2. `store.rs:237` - the bucket that `last_compact` lies in is skipped when
   `last_compact` is older than two widths: it stays partial for ever.
3. `store.rs:136` - ids of a rolled-back transaction stay in the memo; later
   samples are filed under ids that belong to other names.
4. `dashboard.html:534` - a snapshot counts as shown before it is rendered. If
   `render` throws, the earlier numbers stay, the snapshot is not rendered again,
   and `freshness` calls the page updated by the age of a snapshot that nobody sees:
   what the comment at `dashboard.html:541-543` calls the exact failure that this
   page exists to surface.

More behaviours of the same roots show when the passing configurations are
loosened, and explain why these are as they are:

* each race that `Watch` records breaks what excludes it, within the bounds of the
  run. Overlapping saves (`saves`): the roll-back of a failed enrolment pops the
  *last* credential, which may be another's that was saved and reported meanwhile
  (`AckedIsKnown`, `auth.rs:447`), an older snapshot is renamed last (`AccountKept`,
  `auth.rs:150`), a sign-in saves a credential that is then rolled back
  (`MemoryMatchesDisk`). `sign-in`: a session from a credential that never is
  saved (`AccountKept`). `starts`: two user ids (`OneUserId`, `auth.rs:367-378`).
  `clear`: a start that passed the code check inserts its ceremony after the clear
  (`NoParkedBootstrap`, `auth.rs:458`; the re-check at finish still refuses it,
  which is what `OneBootstrap` shows). `rename`: a power cut takes an acknowledged
  enrolment away (`AckedIsKnown`, `AccountKept`), as the directory is not synced
  after `auth.rs:162`;
* without their conditions on the clock, `OldestGoesFirst` fails (`auth.rs:287`):
  after the clock was set back, the newest ceremony expires soonest; and so does
  `NoPartialRewrite` (`store.rs:238`);
* with `MaxLate = 2`, or with a compaction one unit late, `FinalIsComplete` fails
  without any compaction being missed: a sample written after the compaction that
  follows its bucket's end may be in no recomputed bucket, for the rounding of
  finding 2. The stamp is taken before the collection (`collect/mod.rs:63`), which
  may last 12 s at the default interval, so this is one sample per bucket at most.
  `CompleteOnSchedule` and `NothingLost` leave exactly these out (`InTime`): with
  one unit more, TLC finds them violated;
* `OpenedIsCurrent` fails if releases may also go down: an upgrade that is stopped
  between its drops and its version, and then rolled back, is taken by the older
  release for its own file, and `CREATE TABLE IF NOT EXISTS` papers over tables
  of the newer one, which `store.rs:34-36` means to exclude. `meta` is never
  dropped at all, and so must never change its layout;
* an interval of zero is accepted by `load` and ends the process by a panic in the
  collector's task (`main.rs:115`), although `main.rs:35-36` calls a misconfiguration
  an operator problem and not a crash. `StartsAgain` calls such a configuration unsound;
* with a token and no passkeys the page itself is served to anybody, the API answers
  it 401, and the page goes to `/` for its sign-in, which is the page itself
  (`dashboard.html:517`): it reloads for ever;
* `Honest` does not say "not dimmed, hence recent numbers": a server that has
  restarted answers `null`, the page says it waits for the first collection, and
  the numbers from before stay on the screen undimmed (`dashboard.html:533,547`),
  where `docs/DESIGN.md:164-165` would "hold last value, dim it". It does say that such
  a page has heard of the server lately;
* a range that fails to load leaves the chart of the earlier one, under the new
  tab and the words "unavailable" (`dashboard.html:379`), which is why
  `ChartMatchesTab` is about plain captions; and the requests of a range have no
  timeout, so one that is never answered is only given up at the next minute or click;
* `AnswersTheQuestion` without the exception for compactions fails: `series`
  looks up the id and reads the rows in two transactions (`store.rs:188`), and
  the id may change hands in between;
* with a budget of no more than two limits, that is with an interval of 10 s or
  less, `SickCostTheirOwn` fails: one container that hangs uses up 6 s, the whole
  collection is dropped at every tick, and Docker is reported as unreachable
  (`docker.rs:27` expects it to cost its own sample);
* usage over a restart is reported as usage of the new run alone if its counter has
  passed the old one (`docker.rs:187`), which is why `ReportsWhatWasUsed` only says
  "no more than was used" then.

The rounding up of the retention cut (`ceil_bucket`) turns out to be needed only
when `last_compact` is unreadable or the clock steps: otherwise the other
bound, two widths back, is far behind the cut. Without the `meta` fault, rounding
it down breaks nothing.

## Proofs

Every safety property that a passing run checks is also a theorem: for any
value of the constants that satisfies the `ASSUME`s of its module, without the
small sets and numbers of the configuration. `PROJECT.json` lists which theorem
states which property. Each module `XProofs` follows one line: an inductive
invariant of `X` out of named parts, a lemma per action or group of actions, the
invariant as a temporal lemma, and the theorems from it.

What is assumed, beyond types, is what the code has. (The races of `Enrolment` are not
assumptions: they are part of the properties, and everything is proved up to the first
of them, with any number of handlers.)

| assumption | where | why the code satisfies it |
|---|---|---|
| finitely many handlers (`HandlersAssumption`), containers, names | `Enrolment`, `Ceremonies`, `DockerCollector`, `MetricIds` | one process; without it a cardinality says nothing |
| `WidthsAssumption`, `RetentionAssumption` | `Rollup` | the constants of `store.rs` nest, and keep three buckets at least |
| `Hour <= Horizon` | `Rollup` | about the bound alone: the clock starts below `Hour` |
| `Round + Collection <= StaleAfter` | `AliveIsNotStale` | at the default interval it leaves 21 s for a write; with 22 s TLC finds a live collector called stale, so the hypothesis is as weak as can be there |
| `2 * PerCall < Budget` | `SickContainersCostTheirOwn` | every interval above 10 s; see the findings for the others |

### EnrolmentProofs

For any number of handlers, and whatever races happen:

* `TypeCorrect`. The invariant is `Typed`: besides the types, a handler past the
  mode check of a start or at the push of a finish holds a mode other than a
  sign-in's, without which the push would not preserve the type of `passkeys`.
* `OnlyOneBootstrap`. "A bootstrap credential is only ever first" is not
  inductive, because a start replaces the list in memory by the one on disk.
  `OneBootstrapInv` adds `Copies`: the same holds of every snapshot a handler
  carries and of every file, linked or not. The push keeps it because
  authorization is re-checked under the lock that guards the push; the roll-back
  because it takes from the end.
* `NobodyLockedOut`. The roll-backs are what makes this hard: each pops a
  credential, not necessarily its own. `PaidForInv` counts: the list is at least as
  long as the number of handlers that may still pop one, plus one as soon as a
  bootstrap has been saved or the code is burned.

For any number of handlers, up to the first race of a kind; what fails and where the
process stops is open, and so is all other interleaving. Each invariant says
what holds while the history is free of the race, and that the race is not on:

* `FileAlwaysReadable`, `FailedFinishLeavesNothing`, from `TurnInv`. While saves
  come in turn (`~ SavesOverlap`) at most one handler is between its push and
  the end of its save, wherever the others are. So memory is what `auth.json` says,
  but for one credential that is that handler's own (`Pushed`), and the pop takes
  the right one. `SaveInv` follows the temporary file (empty, then whole, then
  renamed) and `FilesSound` keeps it apart from what a start may read, `linked`
  included, so that lost renames do no harm.
* `PasskeysShareTheUser`, from `UserInv`: handlers that are about to remember a user
  id agree on it (`~ StartsOverlap`); everything that carries one, the snapshots
  and the files included, carries the store's. Saves may overlap.
* `NoBootstrapIsParked`, from `ParkedInv`: what was inserted before the clear is
  dropped by it, who asks after the burn is refused by the code; who is past the
  checks in between is the race, and without it none is.
* `AckedStaysKnown`, from `AckedInv`: `OnlyRenameSaves` shows that, lost renames
  apart, the rename is the one step that changes what `auth.json` says, and that it
  only adds; an answer comes after its own credential is in there (`Secured`).
* the refinement `AccountIsKept`, from `AccountInv`: sign-ins rest on a saved
  passkey, a bootstrap on nobody being enrolled, an added device on an earlier
  session (`Rests`). `AccountSimulates` maps the rename to `Claim` or `AddDevice`,
  an answer to `Grant`, a logout or a crash to `End`, and all else to a stutter.

### CeremoniesProofs

`CeremoniesInv` remembers when each entry was begun: a deadline is at most the
birth plus the time to live, and exactly that while the clock was never set back
(`InTime`), in the maps and in what handlers hold before they take the lock.
From it follow `NothingIsLate`, `MapsAreBounded` (an insertion evicts before it
adds, by cardinalities), and the action property `TheOldestGoes`: equal times to
live make the order of deadlines the order of age, up to which handler gets the
lock first.

### RollupProofs

The weight of a rolled-up row is a fold over the rows below it. What a fold
computes is proved by taking a least counterexample, first over finite sets
(`HasLeast`, `SumsExist`, `TotalCounts`), so `NoneIsCountedTwice` is about the
fold itself. The lemmas about `Bucket` and `CeilBucket` need only division.

`RollupInv` says of every row that its samples are of its bucket and that it weighs
as many as it has, and, while the clock was not set back, that whatever a row has
counted is still in the tier below as far as that is kept (`StillRaw`,
`StillFine`). `NoRowIsTruncated` rests on it: the cut is rounded up, so all of a
recomputed bucket is still there. A compaction that fails, a `last_compact` that
reads 0 and any time out of service leave the invariant alone.

`ScheduleInv` adds, for as long as compactions come when due, that two of them are
one width apart (`Scheduled`), and how far a bucket must lie back to be complete
(`Complete`), which gives `FinalBucketsAreComplete` and `NothingIsLost`. Both hold for
any `MaxLate`; the larger it is, the fewer samples are `InTime`, and beyond one
width none is. That is the code's own limit, not the proof's.

### MetricIdsProofs

`MetricInv` follows the tables in pairs, what is committed and what the open
transaction would commit: names belong to one id each, the memo repeats the
transaction's table inside it and the committed one outside, and the reader
still holds the right id unless a compaction came between. That the memo is
right needs "no write failed"; that no name is orphaned does not. That a new id
is above all others is again a largest-element argument (`HasLargest`).

### StartupProofs

`StoreInv` says what each statement of the migration finds (`Migrating`) and
what a file's version says of its tables (`Consistent`), and the latter of every
file in `lag`, because a power cut may bring any of them back. `Checked` says
what a configuration has passed once the server runs. `HistoryIsKept` is an action
property: a file recorded by the installed release has its version, so no start of
that release reaches a drop.

### CollectorProofs

`WithinRound` bounds every age by the time since the loop woke, in two ways: by
`since`, and by what the phases so far allow. The three theorems bound the age
of the snapshot, what `unseen` can be when it was published without an error
(`StampedBefore`), and how long an error can outlast the daemon's return
(`SeenAgain`: a round to find the client gone, one to connect and list).

### DockerCollectorProofs

`Counters` relates every sample taken to what its container has used since:
the same amount while it runs on, at most that once it was started again
(`Since`), and dates the samples kept by the collection that took them. `Slots`
is the argument about the budget: a container that waits while time passes waits for
`MaxInflight` others that hang, and unless more than that many hang, each of these
has hung since the listing, so everything is over after two limits.

### DashboardProofs

`Loop` says that at most one timer is armed, and that it is the one whose handle
the script has; `Chart` that whatever is under way was asked for the chosen tab;
`Label` that the label is what `freshness()` would set now, or would have a unit ago
while the page is visible. A failed render moves `latest` as any answer does, which is
why `PageIsHonest` is about the snapshot and not about the numbers.

### What stays with TLC

* The three liveness properties `Forgotten`, `StartsAgain` and `Recovers`: fairness
  and `ENABLED` are beyond TLAPS here.
* The four properties that the code violates, as a counterexample is a matter for
  TLC.

TLC has checked the inductive invariants, too, as invariants of the passing
configurations, so none of them is out of reach; and what is called as weak as can
be above was found violated one step further.

## Not modelled, and the plan

What is left of the plan:

| module | what | why |
|---|---|---|
| `CeremoniesProofs` | a sweep leaves no entry that was due when it began | the safety half of `Forgotten` |
| `DashboardProofs` | a page that is visible and due always has a step to take | the safety half of `Recovers` |

Not modelled:

* *HTTP surface*: the arguments of `series` and its limit on points, response
  headers, the pages' delivery: each is a function of one request.
* *Dashboard*: drawing, layout, and a container's severity.
* *Sign-in page*: two requests and a browser prompt in a row, per button. Its
  server side is `Enrolment`.
* *Host metrics* (`collect/host.rs`): reads counters and converts units.
* WebAuthn itself (a library) and the signature counters of passkeys.
* SQLite below the level of a commit: transactions are atomic. They are also
  durable, except in `StoreOpen` and `Startup`, where the latest may be taken back.
