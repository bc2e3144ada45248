----------------------------- MODULE StartupProofs -----------------------------
(****************************************************************************)
(* Theorems about Startup, and the store that it opens, for any releases,   *)
(* any number of stops, and whatever configurations the process is started  *)
(* with.                                                                    *)
(****************************************************************************)
EXTENDS Startup, TLAPS

--------------------------------------------------------------------------------
(* The store *)

\* No file is of a later release than the installed one.  One of its version
\* has its tables and index whole; one with its samples, its version; and
\* an index goes with its table.
Consistent(f) ==
    /\ f \in File
    /\ f.version <= release
    /\ f.by <= release /\ f.samples <= release /\ f.metric <= release /\ f.index <= release
    /\ f.version = release => f.samples = release /\ f.metric = release /\ f.index = release
    /\ f.by = release => f.version = release
    /\ f.samples = Absent => f.index = Absent

Fresh(layout) == layout \in {Absent, release}

\* What each statement of migrate() finds.
Migrating ==
    /\ step = "drop_samples" => file.version # release
    /\ step = "drop_metric" => file.version # release /\ file.samples = Absent
    /\ step = "create_metric" => Fresh(file.metric) /\ Fresh(file.samples) /\ Fresh(file.index)
    /\ step = "create_samples" =>
          file.metric = release /\ Fresh(file.samples) /\ Fresh(file.index)
    /\ step = "create_index" =>
          file.metric = release /\ file.samples = release /\ Fresh(file.index)
    /\ step \in {"set_version", "open"} =>
          file.metric = release /\ file.samples = release /\ file.index = release
    /\ step = "open" => file.version = release

StoreTyped ==
    /\ release \in Releases /\ stops \in 0 .. MaxStops
    /\ step \in OpenSteps \cup {"closed", "open"}

StoreInv == StoreTyped /\ Migrating /\ Consistent(file) /\ \A f \in lag : Consistent(f)

\* A file that no release of this product has versioned is never of the
\* installed one.
LEMMA StoreInvInit == StoreInit => StoreInv
<1> SUFFICES ASSUME StoreInit PROVE StoreInv
    OBVIOUS
<1>1. release \in Nat /\ release # 0
    BY ReleasesAssumption DEF StoreInit
<1>2. NewFile \in File /\ LegacyFile \in File
    BY DEF NewFile, LegacyFile, File, Layouts, Absent, Legacy
<1>3. Consistent(file)
    BY <1>1, <1>2 DEF StoreInit, Consistent, NewFile, LegacyFile, Absent, Legacy
<1> QED
    BY <1>3, MaxStopsAssumption DEF StoreInit, StoreInv, StoreTyped, Migrating

\* A statement that keeps the file consistent, and leaves what the next one
\* expects, keeps the invariant: what it overwrote is as good as it was.
LEMMA StoreInvCommit ==
    ASSUME StoreInv, NEW contents, NEW next \in OpenSteps \cup {"closed", "open"},
           Commit(contents, next), Consistent(contents), Migrating'
    PROVE  StoreInv'
<1>1. release' = release /\ stops' = stops /\ step' = next /\ file' = contents
    BY DEF Commit
<1>2. \A f : Consistent(f)' <=> Consistent(f)
    BY <1>1 DEF Consistent
<1>3. \A f \in lag' : f \in lag \/ f = file
    BY DEF Commit
<1> QED
    BY <1>1, <1>2, <1>3 DEF StoreInv, StoreTyped

LEMMA ReleaseTyped ==
    ASSUME StoreInv PROVE release \in Nat /\ release # 0
    BY ReleasesAssumption DEF StoreInv, StoreTyped

\* The statements of migrate(), and the collector's writes.
LEMMA StoreInvMigrate ==
    ASSUME StoreInv, Migrate \/ Record PROVE StoreInv'
<1> USE ReleaseTyped
<1>1. Consistent(file) /\ file \in File
    BY DEF StoreInv, Consistent
<1>2. CASE ReadVersion
  <2>1. UNCHANGED <<release, file, lag, stops>>
      BY <1>2 DEF ReadVersion
  <2>2. Migrating'
      BY <1>1, <1>2 DEF ReadVersion, HasTables, Migrating, Consistent, Fresh
  <2> QED
      BY <1>2, <2>1, <2>2 DEF ReadVersion, StoreInv, StoreTyped, Consistent, OpenSteps, CreateSteps
<1>3. CASE DropSamples
  <2> DEFINE contents == [file EXCEPT !.samples = Absent, !.index = Absent, !.by = Absent]
  <2>1. Commit(contents, "drop_metric") /\ file.version # release
      BY <1>3 DEF DropSamples, StoreInv, Migrating
  <2>2. contents \in File
      BY <1>1 DEF File, Layouts
  <2>3. Consistent(contents)
      BY <1>1, <2>1, <2>2 DEF Consistent, File, Absent
  <2>4. Migrating'
      BY <1>1, <2>1 DEF Commit, Migrating, File
  <2> QED
      BY <2>1, <2>3, <2>4, StoreInvCommit DEF OpenSteps
<1>4. CASE DropMetric
  <2> DEFINE contents == [file EXCEPT !.metric = Absent]
  <2>1. Commit(contents, "create_metric") /\ file.version # release /\ file.samples = Absent
      BY <1>4 DEF DropMetric, StoreInv, Migrating
  <2>2. contents \in File
      BY <1>1 DEF File, Layouts
  <2>3. Consistent(contents)
      BY <1>1, <2>1, <2>2 DEF Consistent, File, Absent
  <2>4. Migrating'
      BY <1>1, <2>1 DEF Commit, Migrating, File, Consistent, Fresh
  <2> QED
      BY <2>1, <2>3, <2>4, StoreInvCommit DEF OpenSteps, CreateSteps
<1>5. CASE CreateMetric
  <2> DEFINE contents == [file EXCEPT !.metric = CreatedIfAbsent(@)]
  <2>1. Commit(contents, "create_samples")
        /\ Fresh(file.metric) /\ Fresh(file.samples) /\ Fresh(file.index)
      BY <1>5 DEF CreateMetric, StoreInv, Migrating
  <2>2. contents \in File /\ contents.metric = release
      BY <1>1, <2>1 DEF File, Layouts, CreatedIfAbsent, Fresh, StoreInv, StoreTyped
  <2>3. Consistent(contents)
      BY <1>1, <2>1, <2>2 DEF Consistent, File
  <2>4. Migrating'
      BY <1>1, <2>1, <2>2 DEF Commit, Migrating, File, Fresh
  <2> QED
      BY <2>1, <2>3, <2>4, StoreInvCommit DEF OpenSteps, CreateSteps
<1>6. CASE CreateSamples
  <2> DEFINE contents == [file EXCEPT !.samples = CreatedIfAbsent(@)]
  <2>1. Commit(contents, "create_index")
        /\ file.metric = release /\ Fresh(file.samples) /\ Fresh(file.index)
      BY <1>6 DEF CreateSamples, StoreInv, Migrating
  <2>2. contents \in File /\ contents.samples = release
      BY <1>1, <2>1 DEF File, Layouts, CreatedIfAbsent, Fresh, StoreInv, StoreTyped
  <2>3. Consistent(contents)
      BY <1>1, <2>1, <2>2 DEF Consistent, File, Absent
  <2>4. Migrating'
      BY <1>1, <2>1, <2>2 DEF Commit, Migrating, File, Fresh
  <2> QED
      BY <2>1, <2>3, <2>4, StoreInvCommit DEF OpenSteps, CreateSteps
<1>7. CASE CreateIndex
  <2> DEFINE contents == [file EXCEPT !.index = CreatedIfAbsent(@)]
  <2>1. Commit(contents, "set_version")
        /\ file.metric = release /\ file.samples = release /\ Fresh(file.index)
      BY <1>7 DEF CreateIndex, StoreInv, Migrating
  <2>2. contents \in File /\ contents.index = release
      BY <1>1, <2>1 DEF File, Layouts, CreatedIfAbsent, Fresh, StoreInv, StoreTyped
  <2>3. Consistent(contents)
      BY <1>1, <2>1, <2>2 DEF Consistent, File, Absent
  <2>4. Migrating'
      BY <1>1, <2>1, <2>2 DEF Commit, Migrating, File
  <2> QED
      BY <2>1, <2>3, <2>4, StoreInvCommit DEF OpenSteps, CreateSteps
<1>8. CASE SetVersion
  <2> DEFINE contents == [file EXCEPT !.version = release]
  <2>1. Commit(contents, "open")
        /\ file.metric = release /\ file.samples = release /\ file.index = release
      BY <1>8 DEF SetVersion, StoreInv, Migrating
  <2>2. contents \in File /\ contents.version = release
      BY <1>1, <2>1 DEF File, StoreInv, StoreTyped
  <2>3. Consistent(contents)
      BY <1>1, <2>1, <2>2 DEF Consistent, File, Absent
  <2>4. Migrating'
      BY <1>1, <2>1, <2>2 DEF Commit, Migrating, File
  <2> QED
      BY <2>1, <2>3, <2>4, StoreInvCommit
<1>9. CASE Record
  <2> DEFINE contents == [file EXCEPT !.by = release]
  <2>1. Commit(contents, "open") /\ file.version = release
        /\ file.metric = release /\ file.samples = release /\ file.index = release
      BY <1>9 DEF Record, Open, StoreInv, Migrating
  <2>2. contents \in File
      BY <1>1, <2>1 DEF File, Layouts, StoreInv, StoreTyped
  <2>3. Consistent(contents)
      BY <1>1, <2>1, <2>2 DEF Consistent, File, Absent
  <2>4. Migrating'
      BY <1>1, <2>1, <2>2 DEF Commit, Migrating, File
  <2> QED
      BY <2>1, <2>3, <2>4, StoreInvCommit
<1> QED
    BY <1>2, <1>3, <1>4, <1>5, <1>6, <1>7, <1>8, <1>9 DEF Migrate

\* What the rest of the world does to the store.
LEMMA StoreInvWorld ==
    ASSUME StoreInv, OpenFile \/ Checkpoint \/ Kill \/ PowerCut \/ Upgrade PROVE StoreInv'
<1>1. \A f : Consistent(f) /\ release' = release => Consistent(f)'
    BY DEF Consistent
<1>2. CASE OpenFile \/ Checkpoint
    BY <1>1, <1>2 DEF OpenFile, Checkpoint, StoreInv, StoreTyped, Migrating, OpenSteps, Fresh
<1>3. CASE Kill \/ PowerCut
  <2>1. release' = release /\ step' = "closed" /\ stops' \in 0 .. MaxStops
      BY <1>3, MaxStopsAssumption DEF Kill, PowerCut, StoreInv, StoreTyped
  <2>2. file' \in lag \cup {file} /\ lag' \subseteq lag
      BY <1>3 DEF Kill, PowerCut
  <2>3. \A f \in lag' \cup {file'} : Consistent(f)'
      BY <1>1, <2>1, <2>2 DEF StoreInv
  <2> QED
      BY <2>1, <2>3 DEF StoreInv, StoreTyped, Migrating
<1>4. CASE Upgrade
  <2>1. UNCHANGED <<step, file, lag, stops>> /\ step = "closed"
      BY <1>4 DEF Upgrade, Closed
  <2>2. release' \in Releases /\ release' > release /\ release' \in Nat /\ release \in Nat
      BY <1>4, ReleasesAssumption DEF Upgrade, StoreInv, StoreTyped
  <2>3. ASSUME NEW f, Consistent(f) PROVE Consistent(f)'
    <3>1. f.version \in Int /\ f.by \in Int /\ f.samples \in Int /\ f.metric \in Int /\ f.index \in Int
      <4>1. Layouts \subseteq Int /\ Releases \cup {Legacy} \subseteq Int
          BY ReleasesAssumption DEF Layouts, Absent, Legacy
      <4>2. f \in File
          BY <2>3 DEF Consistent
      <4> QED
          BY <4>1, <4>2 DEF File
    <3> QED
        BY <2>2, <2>3, <3>1 DEF Consistent
  <2> QED
      BY <2>1, <2>2, <2>3 DEF StoreInv, StoreTyped, Migrating
<1> QED
    BY <1>2, <1>3, <1>4


--------------------------------------------------------------------------------
(* Start-up *)

\* What a configuration has been through when run() is in a phase.
Loaded == cfg.valid /\ \A source \in WebToken : Text(source) = "long"
Readable == cfg.rp = "none" \/ (cfg.rp = "both" /\ cfg.readable)
Refused == ~ Credentials /\ cfg.bind # "loopback"

Checked ==
    /\ phase \in {"auth", "refuse", "store", "spawned", "serving"} => Loaded
    /\ phase \in {"refuse", "store", "spawned", "serving"} => Readable
    /\ phase \in {"store", "spawned", "serving"} => ~ Refused

\* The store is open exactly from its own phase on.
Phased ==
    /\ phase \in Phases /\ cfg \in Configurations
    /\ Running => Open
    /\ ~ Closed => Running \/ phase = "store"

StartupInv == StoreInv /\ Phased /\ Checked

LEMMA NoConfigurationTyped == NoConfiguration \in Configurations
    BY DEF NoConfiguration, Configurations, Texts

LEMMA StartupInvInit == Init => StartupInv
<1> SUFFICES ASSUME Init PROVE StartupInv
    OBVIOUS
<1>1. StoreInv /\ Closed
    BY StoreInvInit DEF Init, StoreInit, Closed
<1>2. phase = "down" /\ cfg \in Configurations
    BY NoConfigurationTyped DEF Init
<1> QED
    BY <1>1, <1>2 DEF StartupInv, Phased, Checked, Phases, Running, Closed, Open

\* The steps of run() that leave the store alone: each passes to the next phase
\* what it has checked, or gives up before the store is open.
LEMMA StartupInvRun ==
    ASSUME StartupInv, Launch \/ Load \/ AuthInit \/ Refuse \/ Spawn \/ Serve
    PROVE  StartupInv'
<1>1. UNCHANGED storeVars
    BY DEF Launch, Load, AuthInit, Refuse, Spawn, Serve
<1>2. StoreInv'
    BY <1>1 DEF StartupInv, StoreInv, StoreTyped, Migrating, Consistent, storeVars, Fresh
<1>3. step' = step
    BY <1>1 DEF storeVars
<1>4. ASSUME Down, step = "closed" PROVE Phased' /\ Checked'
    BY <1>3, <1>4, NoConfigurationTyped DEF Down, Phased, Checked, Phases, Running, Closed, Open
<1>5. ASSUME phase \notin {"store", "spawned", "serving"} PROVE step = "closed"
    BY <1>5 DEF StartupInv, Phased, Closed, Running
<1>6. ASSUME NEW p, Enter(p) PROVE phase' = p /\ cfg' = cfg
    BY <1>6 DEF Enter
<1>7. CASE Launch
    BY <1>2, <1>3, <1>5, <1>7 DEF Launch, StartupInv, Phased, Checked, Phases, Running, Closed, Open
<1>8. CASE Load
  <2>1. CASE Enter("auth")
    <3>1. Loaded
        BY <1>8, <2>1, <1>6 DEF Load, Down, Loaded
    <3>2. Loaded'
        BY <2>1, <3>1, <1>6 DEF Loaded, WebToken, Given, Text
    <3> QED
        BY <1>2, <1>3, <1>5, <1>8, <2>1, <3>2, <1>6
        DEF Load, StartupInv, Phased, Checked, Phases, Running, Closed, Open
  <2> QED
      BY <1>2, <1>4, <1>5, <1>8, <2>1 DEF Load, StartupInv
<1>9. CASE AuthInit
  <2>1. CASE Enter("refuse")
    <3>1. Readable /\ Loaded
        BY <1>9, <2>1, <1>6 DEF AuthInit, Down, Readable, StartupInv, Checked
    <3>2. Readable' /\ Loaded'
        BY <2>1, <3>1, <1>6 DEF Readable, Loaded, WebToken, Given, Text
    <3> QED
        BY <1>2, <1>3, <1>5, <1>9, <2>1, <3>2, <1>6
        DEF AuthInit, StartupInv, Phased, Checked, Phases, Running, Closed, Open
  <2> QED
      BY <1>2, <1>4, <1>5, <1>9, <2>1 DEF AuthInit, StartupInv
<1>10. CASE Refuse
  <2>1. CASE Enter("store")
    <3>1. ~ Refused /\ Readable /\ Loaded
        BY <1>10, <2>1, <1>6 DEF Refuse, Down, Refused, StartupInv, Checked
    <3>2. ~ Refused' /\ Readable' /\ Loaded'
        BY <2>1, <3>1, <1>6 DEF Refused, Credentials, Passkeys, Readable, Loaded, WebToken, Given, Text
    <3> QED
        BY <1>2, <1>3, <1>5, <1>10, <2>1, <3>2, <1>6
        DEF Refuse, StartupInv, Phased, Checked, Phases, Running, Closed, Open
  <2> QED
      BY <1>2, <1>4, <1>5, <1>10, <2>1 DEF Refuse, StartupInv
<1>11. CASE Spawn \/ Serve
  <2>1. phase' \in {"spawned", "serving"} /\ cfg' = cfg /\ Open
      BY <1>11, <1>6 DEF Spawn, Serve, StartupInv, Phased, Running
  <2>2. ~ Refused /\ Readable /\ Loaded
      BY <1>11 DEF Spawn, Serve, StartupInv, Checked
  <2>3. ~ Refused' /\ Readable' /\ Loaded'
      BY <2>1, <2>2 DEF Refused, Credentials, Passkeys, Readable, Loaded, WebToken, Given, Text
  <2> QED
      BY <1>2, <1>3, <2>1, <2>3 DEF StartupInv, Phased, Checked, Phases, Running, Open
<1> QED
    BY <1>7, <1>8, <1>9, <1>10, <1>11

\* The steps of the store within a phase.
LEMMA StartupInvStore ==
    ASSUME StartupInv, OpenStore \/ Collect \/ Flush \/ Install PROVE StartupInv'
<1>1. UNCHANGED <<phase, cfg>>
    BY DEF OpenStore, Collect, Flush, Install
<1>2. StoreInv'
    BY StoreInvMigrate, StoreInvWorld DEF OpenStore, Collect, Flush, Install, StartupInv
<1>3. Checked'
    BY <1>1 DEF StartupInv, Checked, Refused, Credentials, Passkeys, Readable, Loaded, WebToken, Given, Text
<1>4. CASE OpenStore
    BY <1>1, <1>2, <1>3, <1>4 DEF OpenStore, StartupInv, Phased, Running
<1>5. CASE Collect
    BY <1>1, <1>2, <1>3, <1>5 DEF Collect, Record, Commit, StartupInv, Phased, Running, Closed, Open
<1>6. CASE Flush \/ Install
    BY <1>1, <1>2, <1>3, <1>6
    DEF Flush, Checkpoint, Install, Upgrade, StartupInv, Phased, Running, Closed, Open
<1> QED
    BY <1>4, <1>5, <1>6

\* The process ends.
LEMMA StartupInvEnd ==
    ASSUME StartupInv, CollectorPanics \/ Stop \/ PowerFails PROVE StartupInv'
<1>1. Down /\ step' = "closed"
    BY DEF CollectorPanics, Stop, PowerFails, Kill, PowerCut
<1>2. StoreInv'
  <2>1. CASE CollectorPanics
      BY <2>1 DEF CollectorPanics, StartupInv, StoreInv, StoreTyped, Migrating, Consistent, Fresh
  <2> QED
      BY <2>1, StoreInvWorld DEF Stop, PowerFails, StartupInv
<1> QED
    BY <1>1, <1>2, NoConfigurationTyped
    DEF Down, StartupInv, Phased, Checked, Phases, Running, Closed, Open

LEMMA StartupInvNext == StartupInv /\ [Next]_vars => StartupInv'
<1>1. ASSUME StartupInv, UNCHANGED vars PROVE StartupInv'
    BY <1>1 DEF vars, storeVars, StartupInv, StoreInv, StoreTyped, Migrating, Consistent, Fresh,
                Phased, Checked, Refused, Credentials, Passkeys, Readable, Loaded, WebToken,
                Given, Text, Running, Closed, Open
<1> QED
    BY <1>1, StartupInvRun, StartupInvStore, StartupInvEnd DEF Next

LEMMA StartupInvariant == Spec => []StartupInv
    BY StartupInvInit, StartupInvNext, PTL DEF Spec

--------------------------------------------------------------------------------
(* The theorems *)

\* Every variable keeps its type, and the store is open exactly from its own
\* phase of start-up on.
THEOREM StartupTypeCorrect == Spec => []TypeOK
<1>1. StartupInv => TypeOK
    BY DEF StartupInv, StoreInv, StoreTyped, Phased, Consistent, TypeOK
<1> QED
    BY <1>1, StartupInvariant, PTL

\* Whatever stops and power cuts an upgrade of the database met, a store that
\* Store::open() returned has the tables, the index and the version of the
\* installed release.
THEOREM OpenedStoreIsCurrent == Spec => []OpenedIsCurrent
<1>1. StartupInv => OpenedIsCurrent
    BY DEF StartupInv, StoreInv, Migrating, OpenedIsCurrent, Open
<1> QED
    BY <1>1, StartupInvariant, PTL

\* Nothing but a power cut takes back samples that the installed release has
\* recorded: no start of it finds a reason to drop them.
THEOREM HistoryIsKept == Spec => OwnHistoryKept
<1>1. ASSUME StartupInv, [Next]_vars
      PROVE  [file.by = release /\ file'.by = Absent => PowerCut]_storeVars
  <2> SUFFICES ASSUME file.by = release, file'.by = Absent PROVE PowerCut
      OBVIOUS
  <2>1. file.version = release /\ release # Absent /\ file \in File
      BY <1>1, ReleaseTyped DEF StartupInv, StoreInv, Consistent, Absent
  <2>2. file' # file
      BY <2>1
  <2>3. ~ DropSamples
      BY <1>1, <2>1 DEF StartupInv, StoreInv, Migrating, DropSamples
  <2>4. CASE OpenStore \/ Collect
      BY <1>1, <2>1, <2>2, <2>3, <2>4
      DEF OpenStore, Collect, OpenFile, Migrate, ReadVersion, DropMetric, CreateMetric, CreateSamples,
          CreateIndex, SetVersion, Record, Commit, File
  <2>5. CASE PowerFails
      BY <2>5 DEF PowerFails
  <2> QED
      BY <1>1, <2>2, <2>4, <2>5
      DEF Next, vars, storeVars, Launch, Load, AuthInit, Refuse, Spawn, Serve, Flush, Checkpoint,
          CollectorPanics, Stop, Kill, Install, Upgrade
<1> QED
    BY <1>1, StartupInvariant, PTL DEF Spec, OwnHistoryKept

\* Whatever the configuration, the API answers nobody but who presents the
\* token of the operator, or a session, unless the server is on loopback and
\* nothing but blanks was configured.
THEOREM NobodyElseIsAnswered == Spec => []OnlyTheEntitled
<1>1. ASSUME StartupInv, phase = "serving", NEW r \in Requests, Answered(r)
      PROVE  \/ \E source \in r.bearer : Text(source) = "long"
             \/ r.session /\ cfg.rp = "both" /\ cfg.readable
             \/ /\ {cfg.env, cfg.token} \subseteq {"none", "blank"} /\ cfg.rp = "none"
                /\ cfg.bind = "loopback"
  <2>1. Loaded /\ Readable /\ ~ Refused
      BY <1>1 DEF StartupInv, Checked
  <2>2. CASE WebToken # {} /\ r.bearer = WebToken
      BY <2>1, <2>2 DEF Loaded
  <2>3. CASE Passkeys /\ r.session
      BY <2>1, <2>3 DEF Passkeys, Readable
  <2>4. CASE WebToken = {} /\ ~ Passkeys
    <3>1. ~ Given("env") /\ ~ Given("file")
        BY <2>4, Zenon DEF WebToken
    <3>2. cfg.env \in {"none", "blank"} /\ cfg.token \in {"none", "blank"}
        BY <3>1 DEF Given, Text
    <3>3. cfg.rp = "none" /\ cfg.bind = "loopback"
        BY <2>1, <2>4 DEF Readable, Passkeys, Refused, Credentials
    <3> QED
        BY <3>2, <3>3
  <2> QED
      BY <1>1, <2>2, <2>3, <2>4 DEF Answered
<1>2. StartupInv => OnlyTheEntitled
    BY <1>1 DEF OnlyTheEntitled
<1> QED
    BY <1>2, StartupInvariant, PTL

================================================================================
