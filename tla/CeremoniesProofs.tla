---------------------------- MODULE CeremoniesProofs ----------------------------
(****************************************************************************)
(* Theorems about Ceremonies, for any finite number of handlers, any caps   *)
(* and times to live, and any bounds.                                       *)
(****************************************************************************)
EXTENDS Ceremonies, FiniteSetTheorems, TLAPS

--------------------------------------------------------------------------------
(* The inductive invariant *)

\* A deadline is at most a time to live after its ceremony or session was
\* begun, and exactly that unless the clock was ever set back.
InTime(exp, id, kind) ==
    /\ exp <= born[id] + Ttl[kind]
    /\ steps = 0 => exp = born[id] + Ttl[kind]

Entries(m, kind) ==
    /\ m \in [DOMAIN m -> Nat]
    /\ DOMAIN m \subseteq DOMAIN born
    /\ \A k \in DOMAIN m : InTime(m[k], k, kind)
    /\ Cardinality(DOMAIN m) <= Cap[kind]

Maps == /\ DOMAIN maps = Kinds /\ maps = [kind \in Kinds |-> maps[kind]]
        /\ \A kind \in Kinds : Entries(maps[kind], kind)

\* What a handler is about to insert.
ClaimOK(c) ==
    /\ c \in Claims \cup {Nothing}
    /\ c.kind \in Starts => c.id \in DOMAIN born /\ InTime(c.exp, c.id, c.kind)
Held == held \in [Handlers -> Claims \cup {Nothing}] /\ \A w \in Handlers : ClaimOK(held[w])

\* The wall clock is never ahead.
Clocks ==
    /\ now \in 0 .. Horizon /\ real \in Nat /\ steps \in 0 .. MaxSteps
    /\ now <= real
    /\ steps = 0 => now = real

\* Ids are handed out in order, and a slot is kept for every session owed.
Owed == {w \in Handlers : held[w].kind = "sessions"}
Born ==
    /\ Begun \in Nat /\ born \in [1 .. Begun -> Nat]
    /\ Begun + Cardinality(Owed) <= MaxBegun

Sweeping == sweep \in [next : Kinds \cup {"none"}, at : Nat]

CeremoniesInv == Maps /\ Held /\ Clocks /\ Born /\ Sweeping /\ late \in BOOLEAN /\ ~ late

--------------------------------------------------------------------------------
(* Lemmas *)

LEMMA TtlNat == \A kind \in Kinds : Ttl[kind] \in Nat /\ Cap[kind] \in Nat \ {0}
    BY TtlAssumption, CapAssumption

LEMMA OwedFinite ==
    IsFiniteSet(Owed) /\ Cardinality(Owed) \in Nat
<1>1. Owed \subseteq Handlers
    BY DEF Owed
<1> QED
    BY <1>1, HandlersAssumption, FS_Subset, FS_CardinalityType

\* What is in a map is a finite set of ids.
LEMMA MapFinite ==
    ASSUME Born, NEW S, S \subseteq DOMAIN born
    PROVE  IsFiniteSet(S) /\ Cardinality(S) \in Nat
<1>1. IsFiniteSet(1 .. Begun)
    BY FS_Interval DEF Born
<1>2. S \subseteq 1 .. Begun
    BY DEF Born
<1> QED
    BY <1>1, <1>2, FS_Subset, FS_CardinalityType

\* Removing entries, in whatever way, keeps a map in order.
LEMMA RestrictEntries ==
    ASSUME Born, NEW kind \in Kinds, NEW m, Entries(m, kind), NEW S \in SUBSET DOMAIN m
    PROVE  Entries(Restrict(m, S), kind) /\ DOMAIN Restrict(m, S) = S
<1>1. DOMAIN Restrict(m, S) = S /\ \A k \in S : Restrict(m, S)[k] = m[k]
    BY DEF Restrict
<1>2. Restrict(m, S) \in [S -> Nat]
    BY DEF Restrict, Entries
<1>3. S \subseteq DOMAIN born /\ DOMAIN m \subseteq DOMAIN born
    BY DEF Entries
<1>4. Cardinality(S) <= Cardinality(DOMAIN m) /\ Cardinality(S) \in Nat /\ Cardinality(DOMAIN m) \in Nat
    BY <1>3, MapFinite, FS_Subset
<1>5. Cardinality(S) <= Cap[kind]
    BY <1>4, TtlNat DEF Entries
<1> QED
    BY <1>1, <1>2, <1>3, <1>5 DEF Entries

\* What insert_capped makes room in has room.
LEMMA SlotIsFree ==
    ASSUME Born, NEW kind \in Kinds, NEW u, Entries(u, kind), NEW m \in WithSlot(u, Cap[kind])
    PROVE  Entries(m, kind) /\ DOMAIN m \subseteq DOMAIN u /\ Cardinality(DOMAIN m) < Cap[kind]
<1>1. IsFiniteSet(DOMAIN u) /\ Cardinality(DOMAIN u) \in Nat
    BY MapFinite DEF Entries
<1>2. CASE Cardinality(DOMAIN u) < Cap[kind]
    BY <1>2 DEF WithSlot
<1>3. CASE ~ (Cardinality(DOMAIN u) < Cap[kind])
  <2>1. PICK k \in Soonest(u) : m = Restrict(u, DOMAIN u \ {k})
      BY <1>3 DEF WithSlot
  <2>2. k \in DOMAIN u
      BY DEF Soonest
  <2>3. Entries(m, kind) /\ DOMAIN m = DOMAIN u \ {k}
      BY <2>1, RestrictEntries
  <2>4. Cardinality(DOMAIN m) = Cardinality(DOMAIN u) - 1
      BY <1>1, <2>2, <2>3, FS_RemoveElement
  <2>5. Cardinality(DOMAIN u) <= Cap[kind]
      BY DEF Entries
  <2> QED
      BY <1>1, <2>3, <2>4, <2>5, TtlNat
<1> QED
    BY <1>2, <1>3

\* An id that is handed out is new, and was begun now.
LEMMA BornGrows ==
    ASSUME Born, real \in Nat,
           born' = [k \in 1 .. Begun + 1 |-> IF k = Begun + 1 THEN real ELSE born[k]]
    PROVE  /\ Begun' = Begun + 1 /\ born' \in [1 .. Begun' -> Nat]
           /\ DOMAIN born \subseteq DOMAIN born' /\ Begun + 1 \in DOMAIN born'
           /\ Begun + 1 \notin DOMAIN born /\ born'[Begun + 1] = real
           /\ \A k \in DOMAIN born : born'[k] = born[k]
<1>1. DOMAIN born' = 1 .. Begun + 1 /\ Begun \in Nat /\ DOMAIN born = 1 .. Begun
    BY DEF Born
<1>2. Cardinality(1 .. Begun + 1) = Begun + 1
    BY <1>1, FS_Interval
<1>3. Begun' = Begun + 1
    BY <1>1, <1>2 DEF Begun
<1> QED
    BY <1>1, <1>3 DEF Born

\* An order that holds of ids begun before is not disturbed by new ones.
LEMMA EntriesKept ==
    ASSUME NEW kind \in Kinds, NEW m, Entries(m, kind), steps' = steps,
           DOMAIN born \subseteq DOMAIN born', \A k \in DOMAIN born : born'[k] = born[k]
    PROVE  Entries(m, kind)'
    BY DEF Entries, InTime

LEMMA ClaimKept ==
    ASSUME NEW c, ClaimOK(c), steps' = steps,
           DOMAIN born \subseteq DOMAIN born', \A k \in DOMAIN born : born'[k] = born[k]
    PROVE  ClaimOK(c)'
    BY DEF ClaimOK, InTime

\* The entry that insert_capped adds to a map with a free slot.
LEMMA WithEntry ==
    ASSUME NEW m, IsFiniteSet(DOMAIN m), m \in [DOMAIN m -> Nat], NEW cap \in Nat,
           Cardinality(DOMAIN m) < cap, NEW id, NEW exp \in Nat, NEW w, w = With(m, id, exp)
    PROVE  /\ DOMAIN w = DOMAIN m \cup {id} /\ w \in [DOMAIN w -> Nat]
           /\ Cardinality(DOMAIN w) <= cap
<1>1. Cardinality(DOMAIN m) \in Nat
    BY FS_CardinalityType
<1>2. Cardinality(DOMAIN m \cup {id})
          = IF id \in DOMAIN m THEN Cardinality(DOMAIN m) ELSE Cardinality(DOMAIN m) + 1
    BY FS_AddElement
<1>3. Cardinality(DOMAIN m \cup {id}) <= cap
    BY <1>1, <1>2
<1>4. DOMAIN w = DOMAIN m \cup {id}
    BY DEF With
<1>5. w \in [DOMAIN w -> Nat]
    BY DEF With
<1> QED
    BY <1>3, <1>4, <1>5

LEMMA WithEntries ==
    ASSUME Born, NEW kind \in Kinds, NEW m, Entries(m, kind), Cardinality(DOMAIN m) < Cap[kind],
           NEW id \in DOMAIN born, NEW exp \in Nat, InTime(exp, id, kind)
    PROVE  Entries(With(m, id, exp), kind)
<1>1. IsFiniteSet(DOMAIN m) /\ m \in [DOMAIN m -> Nat] /\ Cap[kind] \in Nat
    BY MapFinite, TtlNat DEF Entries
<1>2. PICK w : w = With(m, id, exp)
    OBVIOUS
<1>3. DOMAIN w = DOMAIN m \cup {id} /\ w \in [DOMAIN w -> Nat] /\ Cardinality(DOMAIN w) <= Cap[kind]
    BY <1>1, <1>2, WithEntry
<1>4. DOMAIN w \subseteq DOMAIN born
    BY <1>3 DEF Entries
<1>5. \A k \in DOMAIN w : InTime(w[k], k, kind)
    BY <1>2 DEF Entries, With
<1> QED
    BY <1>2, <1>3, <1>4, <1>5 DEF Entries

\* An operation on one map that leaves it in order leaves all of them so.
LEMMA OneMap ==
    ASSUME Maps, NEW kind \in Kinds, NEW m, maps' = [maps EXCEPT ![kind] = m],
           steps' = steps, DOMAIN born \subseteq DOMAIN born',
           \A k \in DOMAIN born : born'[k] = born[k],
           Entries(m, kind)'
    PROVE  Maps'
<1>1. DOMAIN maps' = Kinds /\ maps' = [k \in Kinds |-> maps'[k]]
    BY DEF Maps
<1>2. ASSUME NEW k \in Kinds PROVE Entries(maps[k], k)'
  <2>1. CASE k = kind
    <3>1. maps'[k] = m
        BY <2>1 DEF Maps
    <3> QED
        BY <2>1, <3>1 DEF Entries, InTime
  <2>2. CASE k # kind
    <3>1. maps'[k] = maps[k] /\ Entries(maps[k], k)
        BY <2>2 DEF Maps
    <3> QED
        BY <3>1 DEF Entries, InTime
  <2> QED
      BY <2>1, <2>2
<1> QED
    BY <1>1, <1>2 DEF Maps

\* The handlers' claims when one of them changes.
LEMMA OneClaim ==
    ASSUME Held, NEW w \in Handlers, NEW c, Put(w, c), steps' = steps,
           DOMAIN born \subseteq DOMAIN born', \A k \in DOMAIN born : born'[k] = born[k],
           ClaimOK(c)'
    PROVE  Held'
<1>1. held' \in [Handlers -> Claims \cup {Nothing}]
    BY DEF Held, Put, ClaimOK
<1>2. ASSUME NEW h \in Handlers PROVE ClaimOK(held[h])'
  <2>1. CASE h = w
    <3>1. held'[h] = c
        BY <2>1 DEF Held, Put
    <3> QED
        BY <2>1, <3>1 DEF ClaimOK, InTime
  <2>2. CASE h # w
    <3>1. held'[h] = held[h] /\ ClaimOK(held[h])
        BY <2>2 DEF Held, Put
    <3> QED
        BY <3>1 DEF ClaimOK, InTime
  <2> QED
      BY <2>1, <2>2
<1> QED
    BY <1>1, <1>2 DEF Held

\* The sessions owed when a handler's claim changes.
LEMMA OwedMoves ==
    ASSUME Held, NEW w \in Handlers, NEW c, Put(w, c)
    PROVE  /\ c.kind # "sessions" /\ held[w].kind # "sessions" => Cardinality(Owed)' = Cardinality(Owed)
           /\ c.kind # "sessions" /\ held[w].kind = "sessions"
                  => Cardinality(Owed)' = Cardinality(Owed) - 1
           /\ c.kind = "sessions" /\ held[w].kind # "sessions"
                  => Cardinality(Owed)' = Cardinality(Owed) + 1
<1>1. \A h \in Handlers : held'[h] = IF h = w THEN c ELSE held[h]
    BY DEF Held, Put
<1>2. CASE c.kind # "sessions" /\ held[w].kind # "sessions"
  <2>1. Owed' = Owed
      BY <1>1, <1>2 DEF Owed
  <2> QED
      BY <1>2, <2>1
<1>3. CASE c.kind # "sessions" /\ held[w].kind = "sessions"
  <2>1. Owed' = Owed \ {w} /\ w \in Owed
      BY <1>1, <1>3 DEF Owed
  <2>2. Cardinality(Owed \ {w}) = Cardinality(Owed) - 1
      BY <2>1, OwedFinite, FS_RemoveElement
  <2> QED
      BY <1>3, <2>1, <2>2
<1>4. CASE c.kind = "sessions" /\ held[w].kind # "sessions"
  <2>1. Owed' = Owed \cup {w} /\ w \notin Owed
      BY <1>1, <1>4 DEF Owed
  <2>2. Cardinality(Owed \cup {w}) = Cardinality(Owed) + 1
      BY <2>1, OwedFinite, FS_AddElement
  <2> QED
      BY <1>4, <2>1, <2>2
<1> QED
    BY <1>2, <1>3, <1>4

LEMMA NothingIsOK == ClaimOK(Nothing) /\ ClaimOK(Nothing)' /\ Nothing.kind = "none"
    BY DEF ClaimOK, Nothing, Starts

LEMMA InTimeNow ==
    ASSUME Clocks, NEW kind \in Kinds
    PROVE  /\ Deadline(kind) \in Nat
           /\ Deadline(kind) <= real + Ttl[kind]
           /\ steps = 0 => Deadline(kind) = real + Ttl[kind]
    BY TtlNat DEF Clocks, Deadline, Clock

\* Taking an entry out, as finish, logout and session_valid do.
LEMMA WithoutKeeps ==
    ASSUME CeremoniesInv, NEW kind \in Kinds, NEW id, UNCHANGED <<steps, born>>,
           maps' = [maps EXCEPT ![kind] = Without(@, id)]
    PROVE  Maps'
<1>1. PICK m : m = Without(maps[kind], id)
    OBVIOUS
<1>2. Entries(m, kind)
    BY <1>1, RestrictEntries DEF CeremoniesInv, Maps, Without
<1>3. maps' = [maps EXCEPT ![kind] = m]
    BY <1>1
<1> QED
    BY <1>2, <1>3, EntriesKept, OneMap DEF CeremoniesInv

\* What has not expired is within its time to live.
LEMMA LiveIsInTime ==
    ASSUME CeremoniesInv, NEW kind \in Kinds, NEW id \in DOMAIN maps[kind],
           Live(maps[kind], id), Accept(kind, id)
    PROVE  ~ late' /\ late' \in BOOLEAN
<1>1. maps[kind][id] \in Nat /\ maps[kind][id] <= born[id] + Ttl[kind]
      /\ maps[kind][id] > now /\ born[id] \in Nat /\ real \in Nat /\ now \in Nat /\ Ttl[kind] \in Nat
    BY TtlNat DEF CeremoniesInv, Maps, Entries, InTime, Live, Clock, Clocks, Born
<1>2. ~ (real - born[id] >= Ttl[kind] + Behind)
    BY <1>1 DEF Behind
<1> QED
    BY <1>2 DEF Accept, CeremoniesInv

LEMMA EmptyEntries ==
    ASSUME NEW kind \in Kinds
    PROVE  Entries(<< >>, kind)
<1>1. DOMAIN << >> = {} /\ << >> \in [{} -> Nat]
    OBVIOUS
<1> QED
    BY <1>1, FS_EmptySet, TtlNat DEF Entries

--------------------------------------------------------------------------------
(* The invariant is kept, an action at a time *)

LEMMA StartKeeps ==
    ASSUME CeremoniesInv, NEW w \in Handlers, NEW kind \in Starts, Start(w, kind)
    PROVE  CeremoniesInv'
<1> USE DEF CeremoniesInv
<1>1. kind \in Kinds /\ kind # "sessions"
    BY DEF Kinds, Starts
<1>2. PICK c : c = [kind |-> kind, id |-> Begun + 1, exp |-> Deadline(kind)]
    OBVIOUS
<1>3. Put(w, c) /\ held[w] = Nothing
    BY <1>2 DEF Start, Free
<1>4. /\ Begun' = Begun + 1 /\ born' \in [1 .. Begun' -> Nat]
      /\ DOMAIN born \subseteq DOMAIN born' /\ Begun + 1 \in DOMAIN born'
      /\ born'[Begun + 1] = real
      /\ \A k \in DOMAIN born : born'[k] = born[k]
    BY BornGrows DEF Start, Clocks
<1>5. Begun + Cardinality(Owed) + 1 <= MaxBegun
    BY DEF Start, Room, Owed
<1>6. Cardinality(Owed)' = Cardinality(Owed)
    BY <1>1, <1>2, <1>3, OwedMoves, NothingIsOK
<1>7. Born'
    BY <1>4, <1>5, <1>6, OwedFinite, BoundsAssumption DEF Born
<1>8. ClaimOK(c)'
  <2>1. c \in Claims
      BY <1>1, <1>2, <1>5, InTimeNow, OwedFinite, BoundsAssumption DEF Claims, Born
  <2>2. c.id \in DOMAIN born' /\ c.exp <= born'[c.id] + Ttl[c.kind]
        /\ (steps' = 0 => c.exp = born'[c.id] + Ttl[c.kind])
      BY <1>1, <1>2, <1>4, InTimeNow DEF Start
  <2> QED
      BY <2>1, <2>2 DEF ClaimOK, InTime
<1>9. Held'
    BY <1>3, <1>4, <1>8, OneClaim DEF Start
<1>10. Maps'
  <2>1. maps' = maps /\ steps' = steps
      BY DEF Start
  <2>2. ASSUME NEW k \in Kinds PROVE Entries(maps[k], k)'
    <3>1. PICK m : m = maps[k]
        OBVIOUS
    <3>2. Entries(m, k)'
        BY <1>4, <2>1, <3>1, EntriesKept DEF Maps
    <3> QED
        BY <2>1, <3>1, <3>2 DEF Entries, InTime
  <2> QED
      BY <2>1, <2>2 DEF Maps
<1> QED
    BY <1>7, <1>9, <1>10 DEF Start, Clocks, Sweeping

LEMMA InsertKeeps ==
    ASSUME CeremoniesInv, NEW w \in Handlers, InsertCapped(w)
    PROVE  CeremoniesInv'
<1> USE DEF CeremoniesInv
<1>1. PICK c : c = held[w]
    OBVIOUS
<1>2. c.kind \in Kinds /\ c.kind # "sessions" /\ c.kind \in Starts /\ ClaimOK(c)
    BY <1>1 DEF InsertCapped, Kinds, Starts, Held
<1>3. c.id \in DOMAIN born /\ c.exp \in Nat /\ InTime(c.exp, c.id, c.kind)
  <2>1. c # Nothing
      BY <1>2 DEF Nothing, Starts
  <2> QED
      BY <1>2, <2>1 DEF ClaimOK, Claims
<1>4. PICK u : u = Unexpired(maps[c.kind], Clock)
    OBVIOUS
<1>5. Entries(u, c.kind)
    BY <1>2, <1>4, RestrictEntries DEF Maps, Unexpired
<1>6. PICK m \in WithSlot(u, Cap[c.kind]) :
          maps' = [maps EXCEPT ![c.kind] = With(m, c.id, c.exp)]
    BY <1>1, <1>4 DEF InsertCapped
<1>7. Entries(m, c.kind) /\ Cardinality(DOMAIN m) < Cap[c.kind]
    BY <1>2, <1>5, SlotIsFree
<1>8. PICK x : x = With(m, c.id, c.exp)
    OBVIOUS
<1>9. Entries(x, c.kind)
    BY <1>2, <1>3, <1>7, <1>8, WithEntries
<1>10. steps' = steps /\ born' = born /\ Put(w, Nothing)
    BY DEF InsertCapped
<1>11. Maps'
  <2>1. Entries(x, c.kind)'
      BY <1>2, <1>9, <1>10, EntriesKept
  <2> QED
      BY <1>2, <1>6, <1>8, <1>10, <2>1, OneMap
<1>12. Held'
    BY <1>10, NothingIsOK, OneClaim
<1>13. Cardinality(Owed)' = Cardinality(Owed)
    BY <1>1, <1>2, <1>10, OwedMoves, NothingIsOK
<1>14. Born'
    BY <1>10, <1>13 DEF Born, Begun
<1> QED
    BY <1>11, <1>12, <1>14 DEF InsertCapped, Clocks, Sweeping

LEMMA FinishKeeps ==
    ASSUME CeremoniesInv, NEW w \in Handlers, NEW kind \in Starts, Finish(w, kind)
    PROVE  CeremoniesInv'
<1> USE DEF CeremoniesInv
<1>1. kind \in Kinds /\ kind # "sessions"
    BY DEF Kinds, Starts
<1>2. PICK id \in DOMAIN maps[kind] :
          /\ maps' = [maps EXCEPT ![kind] = Without(@, id)]
          /\ \/ /\ Live(maps[kind], id)
                /\ Accept(kind, id)
                /\ \/ Put(w, [kind |-> "sessions", id |-> 0, exp |-> 0])
                   \/ UNCHANGED held
             \/ /\ ~ Live(maps[kind], id)
                /\ UNCHANGED <<late, held>>
    BY DEF Finish
<1>3. born' = born /\ steps' = steps /\ held[w] = Nothing
      /\ UNCHANGED <<sweep, now, real, steps, born>>
    BY DEF Finish, Free
<1>4. Maps'
    BY <1>1, <1>2, <1>3, WithoutKeeps
<1>5. ~ late' /\ late' \in BOOLEAN
  <2>1. CASE Live(maps[kind], id) /\ Accept(kind, id)
      BY <1>1, <1>2, <2>1, LiveIsInTime
  <2>2. CASE late' = late
      BY <2>2
  <2> QED
      BY <1>2, <2>1, <2>2
<1>6. CASE held' = held
  <2>1. Held'
      BY <1>3, <1>6 DEF Held, ClaimOK, InTime
  <2>2. Born'
      BY <1>3, <1>6 DEF Born, Begun, Owed
  <2> QED
      BY <1>3, <1>4, <1>5, <2>1, <2>2 DEF Clocks, Sweeping
<1>7. CASE Put(w, [kind |-> "sessions", id |-> 0, exp |-> 0])
  <2>1. PICK c : c = [kind |-> "sessions", id |-> 0, exp |-> 0]
      OBVIOUS
  <2>2. c.kind = "sessions" /\ c \in Claims
      BY <2>1, BoundsAssumption DEF Claims, Kinds
  <2>3. ClaimOK(c)'
      BY <2>2 DEF ClaimOK, Starts
  <2>4. Held'
      BY <1>3, <1>7, <2>1, <2>3, OneClaim
  <2>5. Cardinality(Owed)' = Cardinality(Owed) + 1
      BY <1>3, <1>7, <2>1, <2>2, OwedMoves, NothingIsOK
  <2>6. Begun + Cardinality(Owed) + 1 <= MaxBegun
      BY DEF Finish, Room, Owed
  <2>7. Begun' = Begun
      BY <1>3 DEF Begun
  <2>8. Born'
      BY <1>3, <2>5, <2>6, <2>7, OwedFinite, BoundsAssumption DEF Born
  <2> QED
      BY <1>3, <1>4, <1>5, <2>4, <2>8 DEF Clocks, Sweeping
<1> QED
    BY <1>2, <1>6, <1>7

LEMMA ClearKeeps ==
    ASSUME CeremoniesInv, NEW w \in Handlers, Clear(w)
    PROVE  CeremoniesInv'
<1> USE DEF CeremoniesInv
<1>1. born' = born /\ steps' = steps /\ "reg" \in Kinds
    BY DEF Clear, Kinds, Starts
<1>2. PICK m : m = << >>
    OBVIOUS
<1>3. Maps'
    BY <1>1, <1>2, EmptyEntries, EntriesKept, OneMap DEF Clear
<1> QED
    BY <1>1, <1>3 DEF Clear, Held, ClaimOK, InTime, Born, Begun, Owed, Clocks, Sweeping

LEMMA NewSessionKeeps ==
    ASSUME CeremoniesInv, NEW w \in Handlers, NewSession(w)
    PROVE  CeremoniesInv'
<1> USE DEF CeremoniesInv
<1>1. "sessions" \in Kinds
    BY DEF Kinds
<1>2. PICK u : u = Unexpired(maps["sessions"], Clock)
    OBVIOUS
<1>3. Entries(u, "sessions")
    BY <1>1, <1>2, RestrictEntries DEF Maps, Unexpired
<1>4. PICK m \in WithSlot(u, Cap["sessions"]) :
          maps' = [maps EXCEPT !["sessions"] = With(m, Begun + 1, Deadline("sessions"))]
    BY <1>2 DEF NewSession
<1>5. Entries(m, "sessions") /\ Cardinality(DOMAIN m) < Cap["sessions"]
    BY <1>1, <1>3, SlotIsFree
<1>6. /\ Begun' = Begun + 1 /\ born' \in [1 .. Begun' -> Nat]
      /\ DOMAIN born \subseteq DOMAIN born' /\ Begun + 1 \in DOMAIN born'
      /\ born'[Begun + 1] = real
      /\ \A k \in DOMAIN born : born'[k] = born[k]
    BY BornGrows DEF NewSession, Clocks
<1>7. steps' = steps /\ Put(w, Nothing) /\ held[w].kind = "sessions"
    BY DEF NewSession
<1>8. Cardinality(Owed)' = Cardinality(Owed) - 1
    BY <1>7, OwedMoves, NothingIsOK
<1>9. Born'
    BY <1>6, <1>8, OwedFinite, BoundsAssumption DEF Born
<1>10. PICK id, exp, x : id = Begun + 1 /\ exp = Deadline("sessions") /\ x = With(m, id, exp)
    OBVIOUS
<1>11. Entries(m, "sessions")'
    BY <1>1, <1>5, <1>6, <1>7, EntriesKept
<1>12. exp \in Nat /\ InTime(exp, id, "sessions")'
    BY <1>1, <1>6, <1>7, <1>10, InTimeNow DEF InTime
<1>13. Entries(x, "sessions")'
  <2>1. IsFiniteSet(DOMAIN m) /\ m \in [DOMAIN m -> Nat] /\ Cap["sessions"] \in Nat
      BY <1>1, <1>5, MapFinite, TtlNat DEF Entries
  <2>2. /\ DOMAIN x = DOMAIN m \cup {id} /\ x \in [DOMAIN x -> Nat]
        /\ Cardinality(DOMAIN x) <= Cap["sessions"]
      BY <1>5, <1>10, <1>12, <2>1, WithEntry
  <2>3. DOMAIN x \subseteq DOMAIN born'
      BY <1>6, <1>10, <1>11, <2>2 DEF Entries
  <2>4. \A k \in DOMAIN x : InTime(x[k], k, "sessions")'
      BY <1>10, <1>11, <1>12 DEF Entries, InTime, With
  <2> QED
      BY <2>2, <2>3, <2>4 DEF Entries
<1>14. Maps'
    BY <1>1, <1>4, <1>6, <1>7, <1>10, <1>13, OneMap
<1>15. Held'
    BY <1>6, <1>7, NothingIsOK, OneClaim
<1> QED
    BY <1>9, <1>14, <1>15 DEF NewSession, Clocks, Sweeping

LEMMA SessionKeeps ==
    ASSUME CeremoniesInv, NEW id \in Ids, SessionValid(id) \/ Logout(id)
    PROVE  CeremoniesInv'
<1> USE DEF CeremoniesInv
<1>1. UNCHANGED <<held, sweep, now, real, steps, born>>
    BY DEF SessionValid, Logout
<1>2. id \in DOMAIN maps["sessions"] /\ "sessions" \in Kinds
    BY DEF SessionValid, Logout, Kinds
<1>3. maps' = maps \/ maps' = [maps EXCEPT !["sessions"] = Without(@, id)]
    BY DEF SessionValid, Logout
<1>4. Maps'
  <2>1. CASE maps' = maps
      BY <1>1, <2>1 DEF Maps, Entries, InTime
  <2>2. CASE maps' = [maps EXCEPT !["sessions"] = Without(@, id)]
      BY <1>1, <1>2, <2>2, WithoutKeeps
  <2> QED
      BY <1>3, <2>1, <2>2
<1>5. ~ late' /\ late' \in BOOLEAN
  <2>1. CASE Live(maps["sessions"], id) /\ Accept("sessions", id)
      BY <1>2, <2>1, LiveIsInTime
  <2>2. CASE late' = late
      BY <2>2
  <2> QED
      BY <2>1, <2>2 DEF SessionValid, Logout
<1> QED
    BY <1>1, <1>4, <1>5 DEF Held, ClaimOK, InTime, Born, Begun, Owed, Clocks, Sweeping

LEMMA SweepKeeps ==
    ASSUME CeremoniesInv, Sweep
    PROVE  CeremoniesInv'
<1> USE DEF CeremoniesInv
<1>1. UNCHANGED <<held, now, real, steps, born, late>>
    BY DEF Sweep, SweepStart, SweepMap
<1>2. Held' /\ Born' /\ Clocks'
    BY <1>1 DEF Held, ClaimOK, InTime, Born, Begun, Owed, Clocks
<1>3. CASE SweepStart
  <2>1. Maps'
      BY <1>1, <1>3 DEF SweepStart, Maps, Entries, InTime
  <2>2. Sweeping'
      BY <1>3 DEF SweepStart, Sweeping, Kinds, Starts, Clock, Clocks
  <2> QED
      BY <1>1, <1>2, <2>1, <2>2
<1>4. CASE SweepMap
  <2>1. PICK kind : kind = sweep.next
      OBVIOUS
  <2>2. kind \in Kinds
      BY <1>4, <2>1 DEF SweepMap, Sweeping
  <2>3. PICK m : m = Unexpired(maps[kind], sweep.at)
      OBVIOUS
  <2>4. Entries(m, kind)
      BY <2>2, <2>3, RestrictEntries DEF Maps, Unexpired
  <2>5. maps' = [maps EXCEPT ![kind] = m]
      BY <1>4, <2>1, <2>3 DEF SweepMap
  <2>6. Maps'
      BY <1>1, <2>2, <2>4, <2>5, EntriesKept, OneMap
  <2>7. Sweeping'
    <3>1. After(kind) \in Kinds \cup {"none"}
        BY <2>2 DEF After, Kinds, Starts
    <3> QED
        BY <1>4, <2>1, <3>1 DEF SweepMap, Sweeping
  <2> QED
      BY <1>1, <1>2, <2>6, <2>7
<1> QED
    BY <1>3, <1>4 DEF Sweep

LEMMA TimeKeeps ==
    ASSUME CeremoniesInv, Time
    PROVE  CeremoniesInv'
<1> USE DEF CeremoniesInv
<1>1. UNCHANGED <<maps, held, sweep, born, late>>
    BY DEF Time, Elapse, Suspend, StepBack
<1>2. Clocks' /\ (steps' = steps \/ steps' # 0)
  <2>1. CASE Elapse
      BY <2>1, BoundsAssumption DEF Elapse, Clocks
  <2>2. CASE Suspend
      BY <2>2, BoundsAssumption DEF Suspend, Clocks
  <2>3. CASE StepBack
      BY <2>3, BoundsAssumption DEF StepBack, Clocks
  <2> QED
      BY <2>1, <2>2, <2>3 DEF Time
<1>3. Maps'
    BY <1>1, <1>2 DEF Maps, Entries, InTime
<1>4. Held'
    BY <1>1, <1>2 DEF Held, ClaimOK, InTime
<1> QED
    BY <1>1, <1>2, <1>3, <1>4 DEF Born, Begun, Owed, Sweeping

LEMMA InitIsInv == Init => CeremoniesInv
<1> SUFFICES ASSUME Init PROVE CeremoniesInv
    OBVIOUS
<1> USE DEF Init
<1>1. Begun = 0 /\ DOMAIN born = {}
    BY FS_EmptySet DEF Begun
<1>2. Owed = {} /\ Cardinality(Owed) = 0
  <2>1. Owed = {}
      BY DEF Owed, Nothing
  <2> QED
      BY <2>1, FS_EmptySet
<1>3. Born
    BY <1>1, <1>2, BoundsAssumption DEF Born
<1>4. Maps
    BY EmptyEntries DEF Maps
<1>5. Held
    BY NothingIsOK DEF Held
<1>6. Clocks
    BY BoundsAssumption DEF Clocks
<1> QED
    BY <1>3, <1>4, <1>5, <1>6 DEF CeremoniesInv, Sweeping

LEMMA NextKeeps == CeremoniesInv /\ [Next]_vars => CeremoniesInv'
<1> SUFFICES ASSUME CeremoniesInv, [Next]_vars PROVE CeremoniesInv'
    OBVIOUS
<1>1. CASE UNCHANGED vars
    BY <1>1 DEF vars, CeremoniesInv, Maps, Entries, InTime, Held, ClaimOK, Clocks, Born, Begun, Owed,
       Sweeping
<1>2. CASE \E w \in Handlers : Handle(w)
    BY <1>2, StartKeeps, FinishKeeps, InsertKeeps, ClearKeeps, NewSessionKeeps DEF Handle
<1>3. CASE Session
    BY <1>3, SessionKeeps DEF Session
<1> QED
    BY <1>1, <1>2, <1>3, SweepKeeps, TimeKeeps DEF Next, Idle

\* Handlers, sweeper and clocks keep the inductive invariant: entries know when
\* they were begun, and none outlives what it was given then.
THEOREM CeremoniesInvariant == Spec => []CeremoniesInv
    BY InitIsInv, NextKeeps, PTL DEF Spec

--------------------------------------------------------------------------------
(* Theorems *)

\* Every variable keeps its type.
THEOREM CeremoniesTypeCorrect == Spec => []TypeOK
<1>1. CeremoniesInv => TypeOK
  <2> SUFFICES ASSUME CeremoniesInv PROVE TypeOK
      OBVIOUS
  <2> USE DEF CeremoniesInv
  <2>1. /\ maps = [kind \in Kinds |-> maps[kind]]
        /\ \A kind \in Kinds : /\ DOMAIN maps[kind] \subseteq DOMAIN born
                               /\ maps[kind] \in [DOMAIN maps[kind] -> Nat]
      BY DEF Maps, Entries
  <2>2. DOMAIN born = 1 .. Begun /\ Begun \in Nat /\ Begun <= MaxBegun
      BY OwedFinite, BoundsAssumption DEF Born
  <2>3. DOMAIN born \subseteq Ids
      BY <2>2, BoundsAssumption DEF Ids
  <2>4. born \in [DOMAIN born -> Nat]
      BY DEF Born
  <2> QED
      BY <2>1, <2>3, <2>4 DEF TypeOK, Held, Clocks, Sweeping
<1> QED
    BY <1>1, CeremoniesInvariant, PTL

\* No map outgrows its cap, however many handlers insert at the same time.
THEOREM MapsAreBounded == Spec => []Bounded
<1>1. CeremoniesInv => Bounded
    BY DEF CeremoniesInv, Maps, Entries, Bounded
<1> QED
    BY <1>1, CeremoniesInvariant, PTL

\* Nothing is redeemed or honoured past its time to live, however many handlers
\* run, wherever the sweeper is, and whatever the clock was set back by.
THEOREM NothingIsLate == Spec => []NothingLate
<1>1. CeremoniesInv => NothingLate
    BY DEF CeremoniesInv, NothingLate
<1> QED
    BY <1>1, CeremoniesInvariant, PTL

\* The entry insert_capped makes room by is the only unexpired one to go, and
\* it goes from a full map in which it was the first to be begun.
LEMMA InsertionEvictsTheOldest ==
    ASSUME CeremoniesInv, steps = 0, NEW kind \in Kinds, NEW u, u = Unexpired(maps[kind], Clock),
           NEW m \in WithSlot(u, Cap[kind]), NEW id, NEW exp,
           maps' = [maps EXCEPT ![kind] = With(m, id, exp)],
           NEW other \in Kinds, Inserted(other) # {}, NEW k \in Evicted(other)
    PROVE  Cardinality(NoOlder(other, k)) >= Cap[other] - 1
<1> USE DEF CeremoniesInv
<1>1. other = kind
  <2>1. other # kind => maps'[other] = maps[other]
      BY DEF Maps
  <2> QED
      BY <2>1 DEF Inserted
<1>2. DOMAIN maps'[kind] = DOMAIN m \cup {id}
    BY DEF Maps, With
<1>3. Entries(u, kind) /\ DOMAIN u \subseteq DOMAIN maps[kind]
      /\ \A j \in DOMAIN maps[kind] : maps[kind][j] > now => j \in DOMAIN u
    BY RestrictEntries DEF Maps, Unexpired, Clock
<1>4. k \in DOMAIN u /\ k \notin DOMAIN m \cup {id}
    BY <1>1, <1>2, <1>3 DEF Evicted
<1>5. ~ (Cardinality(DOMAIN u) < Cap[kind])
    BY <1>4 DEF WithSlot
<1>6. k \in Soonest(u) /\ DOMAIN m = DOMAIN u \ {k}
  <2>1. PICK s \in Soonest(u) : m = Restrict(u, DOMAIN u \ {s})
      BY <1>5 DEF WithSlot
  <2>2. DOMAIN m = DOMAIN u \ {s}
      BY <1>3, <2>1, RestrictEntries
  <2> QED
      BY <1>4, <2>1, <2>2
<1>7. DOMAIN u \ {k} \subseteq NoOlder(kind, k)
  <2>1. ASSUME NEW j \in DOMAIN u \ {k} PROVE born[j] >= born[k]
    <3>1. u[k] <= u[j] /\ InTime(u[k], k, kind) /\ InTime(u[j], j, kind)
        BY <1>3, <1>4, <1>6, <2>1 DEF Soonest, Entries
    <3>2. born[j] \in Nat /\ born[k] \in Nat /\ Ttl[kind] \in Nat
        BY <1>3, <1>4, <2>1, TtlNat DEF Entries, Born
    <3> QED
        BY <3>1, <3>2 DEF InTime
  <2> QED
      BY <1>2, <1>3, <1>6, <2>1 DEF NoOlder, Inserted
<1>8. IsFiniteSet(NoOlder(kind, k)) /\ Cardinality(NoOlder(kind, k)) \in Nat
  <2>1. NoOlder(kind, k) \subseteq DOMAIN born
      BY DEF NoOlder, Inserted, Maps, Entries
  <2> QED
      BY <2>1, MapFinite
<1>9. IsFiniteSet(DOMAIN u) /\ Cardinality(DOMAIN u) \in Nat
    BY <1>3, MapFinite DEF Entries
<1>10. Cardinality(DOMAIN u \ {k}) = Cardinality(DOMAIN u) - 1
    BY <1>4, <1>9, FS_RemoveElement
<1>11. Cardinality(DOMAIN u \ {k}) <= Cardinality(NoOlder(kind, k))
    BY <1>7, <1>8, FS_Subset
<1> QED
    BY <1>1, <1>5, <1>8, <1>9, <1>10, <1>11, TtlNat

\* No step but an insertion puts an id into a map.
LEMMA OnlyInsertionsInsert ==
    ASSUME CeremoniesInv, Next, NEW kind \in Kinds, Inserted(kind) # {}
    PROVE  \E w \in Handlers : InsertCapped(w) \/ NewSession(w)
<1> USE DEF CeremoniesInv
<1>1. SUFFICES ASSUME \A w \in Handlers : ~ InsertCapped(w) /\ ~ NewSession(w) PROVE FALSE
    OBVIOUS
<1>2. maps' # maps
    BY DEF Inserted
<1>3. ASSUME NEW k \in Kinds, NEW id, maps' = [maps EXCEPT ![k] = Without(@, id)] PROVE FALSE
  <2>1. PICK m : m = Without(maps[k], id)
      OBVIOUS
  <2>2. DOMAIN m \subseteq DOMAIN maps[k]
      BY <1>3, <2>1, RestrictEntries DEF Maps, Without
  <2> QED
      BY <1>3, <2>1, <2>2 DEF Maps, Inserted
<1>4. CASE \E w \in Handlers : Handle(w)
  <2>1. PICK w \in Handlers : Handle(w)
      BY <1>4
  <2>2. ~ Clear(w)
    <3>1. SUFFICES ASSUME Clear(w) PROVE FALSE
        OBVIOUS
    <3>2. DOMAIN << >> = {}
        OBVIOUS
    <3> QED
        BY <3>1, <3>2 DEF Clear, Maps, Inserted
  <2>3. ~ \E k \in Starts : Start(w, k) \/ Finish(w, k)
      BY <1>2, <1>3 DEF Start, Finish, Kinds
  <2> QED
      BY <1>1, <2>1, <2>2, <2>3 DEF Handle
<1>5. ~ Session
    BY <1>2, <1>3 DEF Session, SessionValid, Logout, Kinds
<1>6. ~ Sweep
  <2>1. SUFFICES ASSUME SweepMap PROVE FALSE
      BY <1>2 DEF Sweep, SweepStart
  <2>2. PICK m : m = Unexpired(maps[sweep.next], sweep.at)
      OBVIOUS
  <2>3. sweep.next \in Kinds
      BY <2>1 DEF SweepMap, Sweeping
  <2>4. DOMAIN m \subseteq DOMAIN maps[sweep.next]
      BY <2>2, <2>3, RestrictEntries DEF Maps, Unexpired
  <2> QED
      BY <2>1, <2>2, <2>3, <2>4 DEF SweepMap, Maps, Inserted
<1>7. ~ Time /\ ~ Idle
    BY <1>2 DEF Time, Elapse, Suspend, StepBack, Idle, vars
<1> QED
    BY <1>4, <1>5, <1>6, <1>7 DEF Next

\* What an unexpired ceremony or session is pushed out for, the newest are never
\* the ones to go: deadlines are computed before the lock is taken, by any number
\* of handlers, and still the map goes by age unless the clock was set back.
THEOREM TheOldestGoes == Spec => OldestGoesFirst
<1> DEFINE Step == steps' = 0 => \A kind \in Kinds : Inserted(kind) # {} =>
          \A k \in Evicted(kind) : Cardinality(NoOlder(kind, k)) >= Cap[kind] - 1
<1>1. CeremoniesInv /\ [Next]_vars => [Step]_vars
  <2> SUFFICES ASSUME CeremoniesInv, Next, steps' = 0, NEW kind \in Kinds, Inserted(kind) # {},
                      NEW k \in Evicted(kind)
               PROVE  Cardinality(NoOlder(kind, k)) >= Cap[kind] - 1
      BY Zenon
  <2>1. steps = 0
    <3>1. \/ StepBack /\ steps' = steps + 1
          \/ steps' = steps
      <4>1. CASE \E w \in Handlers : Handle(w)
          BY <4>1 DEF Handle, Start, Finish, InsertCapped, Clear, NewSession
      <4>2. CASE Session \/ Sweep
          BY <4>2 DEF Session, SessionValid, Logout, Sweep, SweepStart, SweepMap
      <4>3. CASE Time \/ Idle
          BY <4>3 DEF Time, Elapse, Suspend, StepBack, Idle, vars
      <4> QED
          BY <4>1, <4>2, <4>3 DEF Next
    <3>2. steps \in Nat
        BY BoundsAssumption DEF CeremoniesInv, Clocks
    <3> QED
        BY <3>1, <3>2
  <2>2. PICK w \in Handlers : InsertCapped(w) \/ NewSession(w)
      BY OnlyInsertionsInsert, Zenon
  <2>3. CASE InsertCapped(w)
    <3>1. PICK c : c = held[w]
        OBVIOUS
    <3>2. c.kind \in Kinds
        BY <2>3, <3>1 DEF InsertCapped, Kinds
    <3>3. PICK u : u = Unexpired(maps[c.kind], Clock)
        OBVIOUS
    <3>4. PICK m \in WithSlot(u, Cap[c.kind]) :
              maps' = [maps EXCEPT ![c.kind] = With(m, c.id, c.exp)]
        BY <2>3, <3>1, <3>3 DEF InsertCapped
    <3> QED
        BY <2>1, <3>2, <3>3, <3>4, InsertionEvictsTheOldest
  <2>4. CASE NewSession(w)
    <3>1. PICK u : u = Unexpired(maps["sessions"], Clock)
        OBVIOUS
    <3>2. PICK m \in WithSlot(u, Cap["sessions"]) :
              maps' = [maps EXCEPT !["sessions"] = With(m, Begun + 1, Deadline("sessions"))]
        BY <2>4, <3>1 DEF NewSession
    <3>3. PICK id, exp : id = Begun + 1 /\ exp = Deadline("sessions")
        OBVIOUS
    <3>4. "sessions" \in Kinds
        BY DEF Kinds
    <3> QED
        BY <2>1, <3>1, <3>2, <3>3, <3>4, InsertionEvictsTheOldest
  <2> QED
      BY <2>2, <2>3, <2>4
<1> QED
    BY <1>1, CeremoniesInvariant, PTL DEF Spec, OldestGoesFirst

================================================================================
