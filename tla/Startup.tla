-------------------------------- MODULE Startup --------------------------------
(****************************************************************************)
(* From a configuration to a server that answers: load() of src/config.rs,  *)
(* run() of src/main.rs with Store::open() in the middle of it, and         *)
(* require_api_auth() of src/web.rs, which decides by what start-up let     *)
(* through who may read the API.                                            *)
(*                                                                          *)
(* The operator may change the configuration, or install a later release,   *)
(* whenever the process is down; the process may be killed, and the power   *)
(* cut, at any time.  A text of the configuration is only what load() tells *)
(* apart: not given, blank, shorter than MIN_TOKEN_LEN, or long enough.     *)
(****************************************************************************)
EXTENDS StoreOpen

VARIABLES
    phase,     \* how far run() got
    cfg        \* the configuration the process was started with

vars == <<storeVars, phase, cfg>>

--------------------------------------------------------------------------------
(* The configuration *)

Texts == {"none", "blank", "short", "long"}
\* valid: the file parses, with known keys only and an address to bind to.
\* env and token: $VITALS_TOKEN and web.token.  rp: web.rp_id and web.rp_origin,
\* of which none, half or both are set; unfit, both, but not to a URL and an id
\* that goes with it.  readable: does auth.json, if there is one, parse?
Configurations ==
    [valid : BOOLEAN, env : Texts, token : Texts, rp : {"none", "half", "unfit", "both"},
     bind : {"loopback", "public"}, interval : {"zero", "positive"}, readable : BOOLEAN]
\* What is left of a configuration when no process runs.
NoConfiguration ==
    [valid |-> FALSE, env |-> "none", token |-> "none", rp |-> "none",
     bind |-> "loopback", interval |-> "zero", readable |-> FALSE]

Phases == {"down", "load", "auth", "refuse", "store", "spawned", "serving"}
Down == phase' = "down" /\ cfg' = NoConfiguration
Enter(p) == phase' = p /\ UNCHANGED cfg
Sources == {"env", "file"}
Text(source) == IF source = "env" THEN cfg.env ELSE cfg.token

\* Trimmed, and dropped if nothing is left.
Given(source) == Text(source) \notin {"none", "blank"}
\* from_env.or(from_file): where the token comes from that /api/* asks for.
WebToken ==
    IF Given("env") THEN {"env"} ELSE IF Given("file") THEN {"file"} ELSE {}
Passkeys == cfg.rp = "both"

--------------------------------------------------------------------------------
(* run() *)

Launch ==
    /\ phase = "down"
    /\ phase' = "load"
    /\ cfg' \in Configurations
    /\ UNCHANGED storeVars

\* config::load(): the file, then the length of the token.
Load ==
    /\ phase = "load"
    /\ IF cfg.valid /\ \A source \in WebToken : Text(source) = "long"
       THEN Enter("auth") ELSE Down
    /\ UNCHANGED storeVars

\* Passkeys need both halves of the relying party, fit for each other, and a
\* readable auth.json.  A data_dir that cannot be created ends the process
\* before that, as Stop.
AuthInit ==
    /\ phase = "auth"
    /\ IF cfg.rp = "none" \/ (cfg.rp = "both" /\ cfg.readable)
       THEN Enter("refuse") ELSE Down
    /\ UNCHANGED storeVars

\* Mutant: a token that load() dropped as blank counts.
SomethingInTheFile == Passkeys \/ WebToken # {} \/ cfg.token # "none"
Credentials == Passkeys \/ WebToken # {}

\* Nothing is published without a credential.
Refuse ==
    /\ phase = "refuse"
    /\ IF Credentials \/ cfg.bind = "loopback" THEN Enter("store") ELSE Down
    /\ UNCHANGED storeVars

OpenStore == phase = "store" /\ (OpenFile \/ Migrate) /\ UNCHANGED <<phase, cfg>>

SpawnFirst ==      \* mutant: the tasks do not wait for the store
    /\ phase = "store"
    /\ Enter("spawned")
    /\ UNCHANGED storeVars
\* tokio::spawn of the collector, the compactor and the sweeper.
Spawn ==
    /\ phase = "store" /\ Open
    /\ Enter("spawned")
    /\ UNCHANGED storeVars

\* TcpListener::bind and axum::serve; an address in use ends the process, as Kill.
Serve ==
    /\ phase = "spawned"
    /\ Enter("serving")
    /\ UNCHANGED storeVars

Boot == Load \/ AuthInit \/ Refuse \/ OpenStore \/ Spawn \/ Serve

--------------------------------------------------------------------------------
(* The tasks, and what ends the process *)

Running == phase \in {"spawned", "serving"}
Collect == Running /\ cfg.interval = "positive" /\ Record /\ UNCHANGED <<phase, cfg>>
Flush == Checkpoint /\ UNCHANGED <<phase, cfg>>

\* interval() of a zero period panics in the collector's task, whenever that
\* first runs, and a panic aborts the release build.
CollectorPanics ==
    /\ Running /\ cfg.interval = "zero"
    /\ Down
    /\ step' = "closed"
    /\ UNCHANGED <<release, file, lag, stops>>

Stop == phase # "down" /\ Kill /\ Down
PowerFails == PowerCut /\ Down
Install == phase = "down" /\ Upgrade /\ UNCHANGED <<phase, cfg>>

--------------------------------------------------------------------------------
(* require_api_auth *)

\* bearer: whose text the request presents, if any; session: a live cookie.
Requests == [bearer : {{}, {"env"}, {"file"}}, session : BOOLEAN]

\* The token that was configured, a session if passkeys are on, or no gate.
Answered(r) ==
    \/ WebToken # {} /\ r.bearer = WebToken
    \/ Passkeys /\ r.session
    \/ WebToken = {} /\ ~ Passkeys

--------------------------------------------------------------------------------
Init == StoreInit /\ phase = "down" /\ cfg = NoConfiguration

Next ==
    \/ Launch \/ Load \/ AuthInit \/ Refuse \/ OpenStore \/ Spawn \/ Serve
    \/ Collect \/ Flush \/ CollectorPanics \/ Stop \/ PowerFails \/ Install

Spec == Init /\ [][Next]_vars
\* A process that was started runs on until something ends it.
FairSpec == Spec /\ WF_vars(Boot)

--------------------------------------------------------------------------------
(* Properties *)

\* Every variable keeps its type, and the store is open exactly from its own
\* phase of start-up on.
TypeOK ==
    /\ release \in Releases /\ file \in File /\ lag \subseteq File /\ stops \in 0 .. MaxStops
    /\ step \in OpenSteps \cup {"closed", "open"}
    /\ phase \in Phases /\ cfg \in Configurations
    /\ Running => Open
    /\ ~ Closed => Running \/ phase = "store"

\* Whoever is answered presented a token of full length that the operator
\* gave, or signed in with a passkey, or asked a server that is open by
\* choice: nothing but blanks was configured, and only loopback reaches it.
OnlyTheEntitled ==
    phase = "serving" =>
        \A r \in Requests : Answered(r) =>
            \/ \E source \in r.bearer : Text(source) = "long"
            \/ r.session /\ cfg.rp = "both" /\ cfg.readable
            \/ /\ {cfg.env, cfg.token} \subseteq {"none", "blank"} /\ cfg.rp = "none"
               /\ cfg.bind = "loopback"

\* A configuration that nothing is wrong with.
Sound ==
    /\ cfg.valid /\ cfg.interval = "positive"
    /\ {cfg.env, cfg.token} \subseteq {"none", "blank", "long"}
    /\ cfg.rp \in {"none", "both"} /\ (cfg.rp = "both" => cfg.readable)
    /\ cfg.bind = "loopback" \/ cfg.rp = "both" \/ "long" \in {cfg.env, cfg.token}

\* Once nothing stops the process any more, a start with a sound configuration
\* ends in serving, whatever the stops and upgrades before it left on the disk.
StartsAgain == phase = "load" /\ Sound /\ stops = MaxStops ~> phase = "serving"

================================================================================
