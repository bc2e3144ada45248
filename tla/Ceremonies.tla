------------------------------- MODULE Ceremonies -------------------------------
(****************************************************************************)
(* How long anything is remembered: the three bounded maps of AuthState in  *)
(* src/auth.rs (pending registrations, pending sign-ins, live sessions),    *)
(* the deadlines in them, and the timer that sweeps them.                   *)
(*                                                                          *)
(* Deadlines are wall-clock times, and several of them are computed before  *)
(* the lock they are used under, so handlers and the sweeper can act on a   *)
(* time that has passed.  Two clocks run: the wall clock the code reads,    *)
(* which can be set back, and real time; the machine can be suspended.      *)
(* What a ceremony is about and who may begin it is Enrolment's business.   *)
(****************************************************************************)
EXTENDS Naturals, FiniteSets, Functions

Starts == {"reg", "auth"}
Kinds == Starts \cup {"sessions"}

CONSTANTS
    Handlers,     \* request handlers that may be running at the same time
    Cap,          \* per map: MAX_CEREMONIES or MAX_SESSIONS
    Ttl,          \* per map: CEREMONY_TTL or SESSION_TTL
    MaxSteps,     \* bound: how often the wall clock is set back
    MaxBegun,     \* bound: ceremonies and sessions ever begun
    Horizon       \* bound: the time at which nothing new begins

ASSUME HandlersAssumption == IsFiniteSet(Handlers)
ASSUME CapAssumption == Cap \in [Kinds -> Nat \ {0}]
ASSUME TtlAssumption == Ttl \in [Kinds -> Nat \ {0}]
ASSUME BoundsAssumption ==
    {MaxSteps, MaxBegun, Horizon} \subseteq Nat

VARIABLES
    maps,      \* per map, the deadline of every id in it
    held,      \* what each handler is about to insert
    sweep,     \* the map the sweeper visits next, and the time it read
    now,       \* SystemTime::now()
    real,      \* real time
    steps,     \* how often the wall clock was set back
    born,      \* when each id was handed out, in real time
    late       \* was anything ever accepted at or past its time to live?

vars == <<maps, held, sweep, now, real, steps, born, late>>

Ids == 1 .. MaxBegun
Begun == Cardinality(DOMAIN born)
Nothing == [kind |-> "none", id |-> 0, exp |-> 0]
Claims == [kind : Kinds, id : 0 .. MaxBegun, exp : Nat]

--------------------------------------------------------------------------------
(* Operations on one map *)

Clock == now

PastDeadline(kind) == Clock - Ttl[kind]    \* mutant
\* SystemTime::now() + CEREMONY_TTL, or + SESSION_TTL
Deadline(kind) == Clock + Ttl[kind]

\* retain(exp > t)
Unexpired(m, t) == Restrict(m, {k \in DOMAIN m : m[k] > t})

\* min_by_key(exp): any of the entries that expire soonest.
Newest(m) == {k \in DOMAIN m : \A j \in DOMAIN m : m[j] <= m[k]}    \* mutant
Soonest(m) == {k \in DOMAIN m : \A j \in DOMAIN m : m[k] <= m[j]}

Unbounded(m, cap) == {m}    \* mutant: nothing is evicted
\* What may be left once a slot is free.
WithSlot(m, cap) ==
    IF Cardinality(DOMAIN m) < cap THEN {m}
    ELSE {Restrict(m, DOMAIN m \ {k}) : k \in Soonest(m)}

With(m, id, exp) == [k \in DOMAIN m \cup {id} |-> IF k = id THEN exp ELSE m[k]]
Without(m, id) == Restrict(m, DOMAIN m \ {id})

\* How far the wall clock is behind real time: what it was set back by.
Behind == real - now

\* Accepting an id after its lifetime is what must not happen; a clock set back
\* stretches lifetimes by as much, and by no more.
Accept(kind, id) == late' = (late \/ real - born[id] >= Ttl[kind] + Behind)

StillThere(m, id) == TRUE     \* mutant: leaves expiry to the sweeper
\* exp > SystemTime::now()
Live(m, id) == m[id] > Clock

--------------------------------------------------------------------------------
(* Handlers *)

Free(w) == held[w] = Nothing
Put(w, c) == held' = [held EXCEPT ![w] = c]
\* Bounds: everything handed out expires before the clock stops, and a slot is
\* kept for the session of a finish under way.
Room(kind, n) ==
    /\ now + Ttl[kind] <= Horizon
    /\ Begun + Cardinality({w \in Handlers : held[w].kind = "sessions"}) + n <= MaxBegun

\* /auth/{register,login}/start: the deadline is an argument of insert_capped,
\* computed before it takes the lock.
Start(w, kind) ==
    /\ Free(w) /\ Room(kind, 1)
    /\ Put(w, [kind |-> kind, id |-> Begun + 1, exp |-> Deadline(kind)])
    /\ born' = [k \in 1 .. Begun + 1 |-> IF k = Begun + 1 THEN real ELSE born[k]]
    /\ UNCHANGED <<maps, sweep, now, real, steps, late>>

\* insert_capped
InsertCapped(w) ==
    /\ held[w].kind \in Starts
    /\ LET c == held[w] IN
       \E m \in WithSlot(Unexpired(maps[c.kind], Clock), Cap[c.kind]) :
          maps' = [maps EXCEPT ![c.kind] = With(m, c.id, c.exp)]
    /\ Put(w, Nothing)
    /\ UNCHANGED <<sweep, now, real, steps, born, late>>

\* /auth/{register,login}/finish takes the ceremony out whatever its age, and
\* goes on only with one that has not expired; the response may then be refused.
Finish(w, kind) ==
    /\ Free(w) /\ Room("sessions", 1)
    /\ \E id \in DOMAIN maps[kind] :
          /\ maps' = [maps EXCEPT ![kind] = Without(@, id)]
          /\ \/ /\ Live(maps[kind], id)
                /\ Accept(kind, id)
                /\ \/ Put(w, [kind |-> "sessions", id |-> 0, exp |-> 0])
                   \/ UNCHANGED held
             \/ /\ ~ Live(maps[kind], id)
                /\ UNCHANGED <<late, held>>
    /\ UNCHANGED <<sweep, now, real, steps, born>>

\* A bootstrap drops every pending registration before it issues the session.
Clear(w) ==
    /\ held[w].kind = "sessions"
    /\ maps' = [maps EXCEPT !["reg"] = << >>]
    /\ UNCHANGED <<held, sweep, now, real, steps, born, late>>

\* new_session
NewSession(w) ==
    /\ held[w].kind = "sessions" /\ now + Ttl["sessions"] <= Horizon
    /\ \E m \in WithSlot(Unexpired(maps["sessions"], Clock), Cap["sessions"]) :
          maps' = [maps EXCEPT !["sessions"] = With(m, Begun + 1, Deadline("sessions"))]
    /\ born' = [k \in 1 .. Begun + 1 |-> IF k = Begun + 1 THEN real ELSE born[k]]
    /\ Put(w, Nothing)
    /\ UNCHANGED <<sweep, now, real, steps, late>>

\* session_valid
SessionValid(id) ==
    /\ id \in DOMAIN maps["sessions"]
    /\ \/ /\ Live(maps["sessions"], id)
          /\ Accept("sessions", id)
          /\ UNCHANGED maps
       \/ /\ ~ Live(maps["sessions"], id)
          /\ maps' = [maps EXCEPT !["sessions"] = Without(@, id)]
          /\ UNCHANGED late
    /\ UNCHANGED <<held, sweep, now, real, steps, born>>

\* POST /logout
Logout(id) ==
    /\ id \in DOMAIN maps["sessions"]
    /\ maps' = [maps EXCEPT !["sessions"] = Without(@, id)]
    /\ UNCHANGED <<held, sweep, now, real, steps, born, late>>

--------------------------------------------------------------------------------
(* The sweeper: one reading of the clock, then the three locks in turn *)

SweepStart ==
    /\ sweep.next = "none"
    /\ sweep' = [next |-> "reg", at |-> Clock]
    /\ UNCHANGED <<maps, held, now, real, steps, born, late>>

AuthForgotten(kind) == IF kind = "reg" THEN "sessions" ELSE "none"     \* mutant
After(kind) ==
    CASE kind = "reg" -> "auth" [] kind = "auth" -> "sessions" [] OTHER -> "none"

SweepMap ==
    /\ sweep.next # "none"
    /\ maps' = [maps EXCEPT ![sweep.next] = Unexpired(@, sweep.at)]
    /\ sweep' = IF After(sweep.next) = "none" THEN [next |-> "none", at |-> 0]
                ELSE [sweep EXCEPT !.next = After(@)]
    /\ UNCHANGED <<held, now, real, steps, born, late>>

--------------------------------------------------------------------------------
(* Time *)

Elapse ==
    /\ now < Horizon
    /\ real' = real + 1 /\ now' = now + 1
    /\ UNCHANGED <<maps, held, sweep, steps, born, late>>

\* The machine is suspended and resumed.
Suspend ==
    /\ \E d \in 1 .. Horizon :
          /\ now + d <= Horizon
          /\ real' = real + d /\ now' = now + d
    /\ UNCHANGED <<maps, held, sweep, steps, born, late>>

\* The wall clock is set back.
StepBack ==
    /\ steps < MaxSteps
    /\ steps' = steps + 1
    /\ \E t \in 0 .. Horizon : t < now /\ now' = t
    /\ UNCHANGED <<maps, held, sweep, real, born, late>>

\* A request that touches none of the maps.
Idle == UNCHANGED vars

--------------------------------------------------------------------------------
Init ==
    /\ maps = [kind \in Kinds |-> << >>]
    /\ held = [w \in Handlers |-> Nothing]
    /\ sweep = [next |-> "none", at |-> 0]
    /\ now = 0 /\ real = 0 /\ steps = 0
    /\ born = << >>
    /\ late = FALSE

Handle(w) ==
    \/ \E kind \in Starts : Start(w, kind) \/ Finish(w, kind)
    \/ InsertCapped(w) \/ Clear(w) \/ NewSession(w)

Session == \E id \in Ids : SessionValid(id) \/ Logout(id)
Sweep == SweepStart \/ SweepMap
Time == Elapse \/ Suspend \/ StepBack

Next == (\E w \in Handlers : Handle(w)) \/ Session \/ Sweep \/ Time \/ Idle

Spec == Init /\ [][Next]_vars

\* The sweeper is a task of its own that ticks for ever, and time passes.
FairSpec == Spec /\ WF_vars(Sweep) /\ WF_vars(Elapse)

--------------------------------------------------------------------------------
(* Properties *)

\* Every variable keeps its type.
TypeOK ==
    /\ maps = [kind \in Kinds |-> maps[kind]]
    /\ \A kind \in Kinds : /\ DOMAIN maps[kind] \subseteq DOMAIN born
                           /\ maps[kind] \in [DOMAIN maps[kind] -> Nat]
    /\ held \in [Handlers -> Claims \cup {Nothing}]
    /\ sweep \in [next : Kinds \cup {"none"}, at : Nat]
    /\ now \in 0 .. Horizon /\ real \in Nat /\ steps \in 0 .. MaxSteps
    /\ DOMAIN born \subseteq Ids /\ born \in [DOMAIN born -> Nat]
    /\ late \in BOOLEAN

\* No map ever outgrows its cap, however many unauthenticated starts race.
Bounded == \A kind \in Kinds : Cardinality(DOMAIN maps[kind]) <= Cap[kind]

\* An unexpired ceremony or session that an insertion pushes out makes room in
\* a map otherwise full of ones begun no earlier: the newest are never the ones
\* to go, although deadlines are computed outside the lock; unless the clock was
\* set back, when the newest expires soonest.
Evicted(kind) == {k \in DOMAIN maps[kind] \ DOMAIN maps'[kind] : maps[kind][k] > now}
Inserted(kind) == DOMAIN maps'[kind] \ DOMAIN maps[kind]
NoOlder(kind, k) == {j \in DOMAIN maps'[kind] \ Inserted(kind) : born[j] >= born[k]}
OldestGoesFirst ==
    [][steps' = 0 => \A kind \in Kinds : Inserted(kind) # {} =>
          \A k \in Evicted(kind) : Cardinality(NoOlder(kind, k)) >= Cap[kind] - 1]_vars

\* Nothing is redeemed or honoured once its time to live has really passed, also
\* when the machine slept through it and the sweeper has not been round; a clock
\* set back adds at most what it was set back by.
NothingLate == ~ late

\* Every ceremony and every session is forgotten in the end, also by a process
\* nobody signs in to again, and after the clock was set back.
Remembered(id) == \E kind \in Kinds : id \in DOMAIN maps[kind]
Forgotten == \A id \in Ids : Remembered(id) ~> ~ Remembered(id)

================================================================================
