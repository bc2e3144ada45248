------------------------------- MODULE Enrolment -------------------------------
(****************************************************************************)
(* Who may sign in: the account of src/auth.rs, at the granularity of its   *)
(* locks.  Handlers run the routes /auth/register/{start,finish} and        *)
(* /auth/login/{start,finish}; each step below is one critical section (or  *)
(* one file operation) of the code, and any other handler, a crash, or a    *)
(* failing disk may come between two steps.                                 *)
(*                                                                          *)
(* Abstracted: the WebAuthn messages (a finish presents a credential that   *)
(* verifies, or is rejected), the signature counters, and the age of        *)
(* ceremonies and sessions, which may lapse at any moment here and are the  *)
(* subject of module Ceremonies.                                            *)
(****************************************************************************)
EXTENDS Naturals, Sequences, FiniteSets

CONSTANTS
    Handlers,        \* request handlers that may be running at the same time
    Passkeys,        \* credentials the authenticators can offer
    Inodes,          \* files that can exist under data_dir at the same time
    NoInode,         \* "no such directory entry" and "no open descriptor"
    MaxCeremonies,   \* bound: ceremonies ever begun
    MaxSessions,     \* bound: sessions ever issued
    MaxFaults,       \* bound: file operations that fail
    MaxCrashes       \* bound: crashes and power cuts

ASSUME NoInodeAssumption == NoInode \notin Inodes
ASSUME HandlersAssumption == IsFiniteSet(Handlers)
ASSUME BoundsAssumption ==
    {MaxCeremonies, MaxSessions, MaxFaults, MaxCrashes} \subseteq Nat

VARIABLES
    running,    \* is the process up?
    passkeys,   \* Store.passkeys, in memory
    user,       \* Store.user_id, in memory (0: None)
    codeOpen,   \* bootstrap: is the one-time enrolment code still valid?
    reg,        \* pending registrations
    auth,       \* pending sign-ins
    sessions,   \* live session tokens
    pc, req,    \* where each handler is, and what it holds
    file,       \* contents of the inodes
    path, tmp,  \* the inodes named auth.json and auth.json.tmp
    linked,     \* the inode auth.json names after a power cut
    begun, issued, faults, crashes,   \* counters, bounded by the constants
    acked,      \* credentials whose enrolment was reported as successful
    races       \* history: the kinds of race (see Watch) that have happened

memory == <<running, passkeys, user, codeOpen>>
maps == <<reg, auth, sessions>>
disk == <<file, path, tmp, linked>>
counters == <<begun, issued, faults, crashes>>
state == <<memory, maps, pc, req, disk, counters, acked>>
vars == <<state, races>>

--------------------------------------------------------------------------------
(* Data *)

Modes == {"Bootstrap", "AddDevice"}
\* A Passkey, with the ceremony it came from: how it was authorized and the
\* user id its authenticator was given.
Credential == [id : Passkeys, how : Modes, uid : Nat]

\* What persist() serializes and AuthState::new() parses.
Document == [passkeys : Seq(Credential), user : Nat]
NoDocument == [passkeys |-> << >>, user |-> 0]

Content == [state : {"empty", "whole", "torn"}, doc : Document]
Empty == [state |-> "empty", doc |-> NoDocument]
Torn == [state |-> "torn", doc |-> NoDocument]
Whole(d) == [state |-> "whole", doc |-> d]

Registration == [id : Nat, mode : Modes, uid : Nat]
SignIn == [id : Nat, keys : SUBSET Passkeys]

Request == [mode : Modes \cup {"Login"}, token : Nat,
            id : Nat, uid : Nat, key : SUBSET Passkeys,
            doc : Document, fd : Inodes \cup {NoInode}]
Requests == [Handlers -> Request]
NoRequest == [mode |-> "Login", token |-> 0, id |-> 0, uid |-> 0, key |-> {},
              doc |-> NoDocument, fd |-> NoInode]

RegStartSteps == {"rs_registered", "rs_code", "rs_user", "rs_remember", "rs_insert"}
PersistSteps == {"snapshot", "open", "write", "rename"}
FinishSteps == PersistSteps \cup {"push", "failed", "clear", "burn", "session"}
Steps == {"idle"} \cup RegStartSteps \cup FinishSteps

Ids(keys) == {keys[i].id : i \in 1 .. Len(keys)}
Idle(w) == running /\ pc[w] = "idle"
At(w, step) == running /\ pc[w] = step
Goto(w, step) == pc' = [pc EXCEPT ![w] = step]
\* The handler answers and forgets what it held.
Respond(w) == Goto(w, "idle") /\ req' = [req EXCEPT ![w] = NoRequest]

\* Room left under the bounds, counting the handlers that already claimed some.
CeremonyRoom == begun + Cardinality({w \in Handlers : pc[w] \in RegStartSteps}) < MaxCeremonies
SessionRoom == issued + Cardinality({w \in Handlers : pc[w] \in FinishSteps}) < MaxSessions

--------------------------------------------------------------------------------
(* POST /auth/register/start *)

\* signed_in = session_valid(jar): the token counts as presented only if live.
RegStartSession(w) ==
    /\ Idle(w) /\ CeremonyRoom
    /\ \E t \in sessions \cup {0} : req' = [req EXCEPT ![w].token = t]
    /\ Goto(w, "rs_registered")
    /\ UNCHANGED <<memory, maps, disk, counters, acked>>

\* match (registered(), signed_in)
RegStartMode(w) ==
    /\ At(w, "rs_registered")
    /\ \/ /\ passkeys = << >>
          /\ req' = [req EXCEPT ![w].mode = "Bootstrap"]
          /\ Goto(w, "rs_code")
       \/ /\ passkeys # << >> /\ req[w].token # 0
          /\ req' = [req EXCEPT ![w].mode = "AddDevice"]
          /\ Goto(w, "rs_user")
       \/ /\ passkeys # << >> /\ req[w].token = 0
          /\ Respond(w)
    /\ UNCHANGED <<memory, maps, disk, counters, acked>>

\* bootstrap_token() and the comparison with the code the client sent.
RegStartCode(w) ==
    /\ At(w, "rs_code")
    /\ \/ codeOpen /\ Goto(w, "rs_user") /\ UNCHANGED req
       \/ Respond(w)
    /\ UNCHANGED <<memory, maps, disk, counters, acked>>

\* user_id.unwrap_or_else(Uuid::new_v4), under a first store lock; the number
\* of the ceremony stands for its random id and for a fresh uuid.
RegStartUser(w) ==
    /\ At(w, "rs_user")
    /\ begun' = begun + 1
    /\ req' = [req EXCEPT ![w].id = begun + 1,
                          ![w].uid = IF user = 0 THEN begun + 1 ELSE user]
    /\ Goto(w, "rs_remember")
    /\ UNCHANGED <<memory, maps, disk, issued, faults, crashes, acked>>

\* Mutant: the intended user id is forgotten.
UserForgotten(w) ==
    /\ At(w, "rs_remember")
    /\ Goto(w, "rs_insert")
    /\ UNCHANGED <<memory, maps, req, disk, counters, acked>>
\* user_id.get_or_insert(user_id), under a second store lock.
RegStartRemember(w) ==
    /\ At(w, "rs_remember")
    /\ user' = IF user = 0 THEN req[w].uid ELSE user
    /\ Goto(w, "rs_insert")
    /\ UNCHANGED <<running, passkeys, codeOpen, maps, req, disk, counters, acked>>

RegStartInsert(w) ==
    /\ At(w, "rs_insert")
    /\ reg' = reg \cup {[id |-> req[w].id, mode |-> req[w].mode, uid |-> req[w].uid]}
    /\ Respond(w)
    /\ UNCHANGED <<memory, auth, sessions, disk, counters, acked>>

--------------------------------------------------------------------------------
(* POST /auth/register/finish *)

\* The ceremony leaves the map before anything else is looked at; a response
\* that does not verify ends the request there.
RegFinishTake(w) ==
    /\ Idle(w) /\ SessionRoom
    /\ \E c \in reg, k \in Passkeys, t \in sessions \cup {0} :
          /\ reg' = reg \ {c}
          /\ \/ /\ Goto(w, "push")
                /\ req' = [req EXCEPT ![w] = [@ EXCEPT !.mode = c.mode, !.uid = c.uid,
                                                       !.key = {k}, !.token = t]]
             \/ UNCHANGED <<pc, req>>
    /\ UNCHANGED <<memory, auth, sessions, disk, counters, acked>>

NotRechecked(mode, token) == TRUE     \* mutant: trusts what start decided
\* Authorization re-checked at finish, under the lock that guards the push.
Authorized(mode, token) ==
    IF mode = "Bootstrap" THEN passkeys = << >> ELSE token \in sessions

RegFinishPush(w) ==
    /\ At(w, "push")
    /\ \/ \E k \in req[w].key :
             /\ Authorized(req[w].mode, req[w].token)
             /\ k \notin Ids(passkeys)
             /\ passkeys' = Append(passkeys, [id |-> k, how |-> req[w].mode, uid |-> req[w].uid])
             /\ Goto(w, "snapshot")
             /\ UNCHANGED req
       \/ /\ ~ Authorized(req[w].mode, req[w].token) \/ req[w].key \subseteq Ids(passkeys)
          /\ Respond(w)
          /\ UNCHANGED passkeys
    /\ UNCHANGED <<running, user, codeOpen, maps, disk, counters, acked>>

NotRolledBack(keys) == keys      \* mutant: the failed credential stays
RolledBackToNone(keys) == << >>  \* mutant: clear() for pop()
\* What is left once persist() failed.
RolledBack(keys) == SubSeq(keys, 1, Len(keys) - 1)

\* persist() failed: Vec::pop, whichever credential is last by now.
RegFinishRollback(w) ==
    /\ At(w, "failed") /\ req[w].mode # "Login"
    /\ passkeys' = RolledBack(passkeys)
    /\ Respond(w)
    /\ UNCHANGED <<running, user, codeOpen, maps, disk, counters, acked>>

\* Mutant: nothing is cleared.
ClearForgotten(w) ==
    /\ At(w, "clear")
    /\ Goto(w, "burn")
    /\ UNCHANGED <<memory, maps, req, disk, counters, acked>>
\* A bootstrap drops every other pending registration ...
RegFinishClear(w) ==
    /\ At(w, "clear")
    /\ reg' = {}
    /\ Goto(w, "burn")
    /\ UNCHANGED <<memory, auth, sessions, req, disk, counters, acked>>

\* ... and then closes enrolment, under another lock.
RegFinishBurn(w) ==
    /\ At(w, "burn")
    /\ codeOpen' = FALSE
    /\ Goto(w, "session")
    /\ UNCHANGED <<running, passkeys, user, maps, req, disk, counters, acked>>

--------------------------------------------------------------------------------
(* POST /auth/login/start and /auth/login/finish *)

\* The passkeys are cloned and the ceremony is parked; a ceremony waits for its
\* finish anyway, so the two locks are one step.
LoginStart(w) ==
    /\ Idle(w) /\ CeremonyRoom
    /\ passkeys # << >>
    /\ auth' = auth \cup {[id |-> begun + 1, keys |-> Ids(passkeys)]}
    /\ begun' = begun + 1
    /\ UNCHANGED <<memory, reg, sessions, pc, req, disk, issued, faults, crashes, acked>>

\* The assertion is verified against the keys cloned at start; whatever becomes
\* of the counter update, a session follows.
LoginFinishTake(w) ==
    /\ Idle(w) /\ SessionRoom
    /\ \E c \in auth :
          /\ auth' = auth \ {c}
          /\ \/ /\ Goto(w, "snapshot")
                /\ \E k \in c.keys : req' = [req EXCEPT ![w].mode = "Login", ![w].key = {k}]
             \/ UNCHANGED <<pc, req>>
    /\ UNCHANGED <<memory, reg, sessions, disk, counters, acked>>

\* A finish without a ceremony in the map, or any route refused outright.
Refuse(w) == Idle(w) /\ UNCHANGED state

--------------------------------------------------------------------------------
(* persist(): serialize under the store lock, then write and rename without it *)

InUse == ({path, tmp, linked} \cup {req[w].fd : w \in Handlers}) \ {NoInode}
\* Inodes with neither a name nor a descriptor are freed.
Freed(f, used) == [i \in Inodes |-> IF i \in used THEN f[i] ELSE Empty]

PersistSnapshot(w) ==
    /\ At(w, "snapshot")
    /\ req' = [req EXCEPT ![w].doc = [passkeys |-> passkeys, user |-> user]]
    /\ Goto(w, "open")
    /\ UNCHANGED <<memory, maps, disk, counters, acked>>

\* Mutant: auth.json is written in place.
OpenInPlace(w) ==
    /\ At(w, "open")
    /\ \E i \in Inodes :
          /\ IF path = NoInode THEN i \notin InUse ELSE i = path
          /\ tmp' = i /\ path' = i
          /\ file' = [file EXCEPT ![i] = Empty]
          /\ req' = [req EXCEPT ![w].fd = i]
    /\ Goto(w, "write")
    /\ UNCHANGED <<memory, maps, linked, counters, acked>>
\* open_private(tmp): create or truncate.
PersistOpen(w) ==
    /\ At(w, "open")
    /\ \E i \in Inodes :
          /\ IF tmp = NoInode THEN i \notin InUse ELSE i = tmp
          /\ tmp' = i
          /\ file' = [file EXCEPT ![i] = Empty]
          /\ req' = [req EXCEPT ![w].fd = i]
    /\ Goto(w, "write")
    /\ UNCHANGED <<memory, maps, path, linked, counters, acked>>

\* Bytes written at the start of a file another handler may have written since
\* this one truncated it: a longer text keeps its tail.
Overlay(old, d) ==
    CASE old.state = "empty" -> {Whole(d)}
      [] old.state = "whole" /\ Len(old.doc.passkeys) < Len(d.passkeys) -> {Whole(d)}
      [] old.state = "whole" /\ Len(old.doc.passkeys) > Len(d.passkeys) -> {Torn}
      [] OTHER -> {Whole(d), Torn}

PersistWrite(w) ==
    /\ At(w, "write")
    /\ \E c \in Overlay(file[req[w].fd], req[w].doc) :
          file' = [file EXCEPT ![req[w].fd] = c]
    /\ Goto(w, "rename")
    /\ UNCHANGED <<memory, maps, req, path, tmp, linked, counters, acked>>

ErrorIgnored(w, saved) ==        \* mutant: a failed save counts as a success
    IF req[w].mode = "Bootstrap" THEN "clear" ELSE "session"
\* Where a handler goes after persist().
AfterPersist(w, saved) ==
    IF ~ saved THEN "failed"
    ELSE IF req[w].mode = "Bootstrap" THEN "clear" ELSE "session"

\* The descriptor of w is closed, files nothing refers to are gone.
Closed(w) == req' = [req EXCEPT ![w].fd = NoInode, ![w].doc = NoDocument]
UsedBy(v, p, l, t) == ({p, l, t} \cup {req[u].fd : u \in Handlers \ {v}}) \ {NoInode}

\* rename(tmp, auth.json): moves whatever tmp names by now.
PersistRename(w) ==
    /\ At(w, "rename") /\ tmp # NoInode
    /\ path' = tmp
    /\ tmp' = NoInode
    /\ file' = Freed(file, UsedBy(w, path', linked, tmp'))
    /\ Goto(w, AfterPersist(w, TRUE))
    /\ Closed(w)
    /\ UNCHANGED <<memory, maps, linked, counters, acked>>

\* rename(tmp, auth.json) when another handler has already moved tmp away.
PersistRenameLost(w) ==
    /\ At(w, "rename") /\ tmp = NoInode
    /\ Goto(w, AfterPersist(w, FALSE))
    /\ Closed(w)
    /\ file' = Freed(file, UsedBy(w, path, linked, tmp))
    /\ UNCHANGED <<memory, maps, path, tmp, linked, counters, acked>>

\* Any of the file operations fails; a failing write may leave a prefix.
PersistFault(w) ==
    /\ running /\ pc[w] \in {"open", "write", "rename"}
    /\ faults < MaxFaults
    /\ faults' = faults + 1
    /\ \E f \in {file} \cup {[file EXCEPT ![i] = Torn] :
                               i \in IF pc[w] = "write" THEN {req[w].fd} ELSE {}} :
          file' = Freed(f, UsedBy(w, path, linked, tmp))
    /\ Goto(w, AfterPersist(w, FALSE))
    /\ Closed(w)
    /\ UNCHANGED <<memory, maps, path, tmp, linked, begun, issued, crashes, acked>>

StaleToken == issued             \* mutant: a number that is not fresh
\* hex32(): a token no session had before.
FreshToken == issued + 1

\* new_session() and the 200 answer; a sign-in gets here even if persist failed.
NewSession(w) ==
    /\ \/ At(w, "session")
       \/ At(w, "failed") /\ req[w].mode = "Login"
    /\ issued' = issued + 1
    /\ sessions' = sessions \cup {FreshToken}
    /\ acked' = IF req[w].mode = "Login" THEN acked ELSE acked \cup req[w].key
    /\ Respond(w)
    /\ UNCHANGED <<memory, reg, auth, disk, begun, faults, crashes>>

--------------------------------------------------------------------------------
(* What the environment and the timers do *)

\* A ceremony expires, is swept, or is evicted.
Lapse ==
    /\ \/ \E c \in reg : reg' = reg \ {c} /\ UNCHANGED auth
       \/ \E c \in auth : auth' = auth \ {c} /\ UNCHANGED reg
    /\ UNCHANGED <<memory, sessions, pc, req, disk, counters, acked>>

\* POST /logout, or the session expires, is swept, or is evicted.
EndSession ==
    /\ \E s \in sessions : sessions' = sessions \ {s}
    /\ UNCHANGED <<memory, reg, auth, pc, req, disk, counters, acked>>

\* The directory entry of the last rename reaches the disk.
FlushDirectory ==
    /\ linked # path
    /\ linked' = path
    /\ file' = Freed(file, (InUse \ {linked}) \cup ({path, tmp} \ {NoInode}))
    /\ UNCHANGED <<memory, maps, pc, req, path, tmp, counters, acked>>

\* Everything in memory is gone; a power cut also undoes renames that are not
\* on the disk yet.
Crash ==
    /\ running /\ crashes < MaxCrashes
    /\ crashes' = crashes + 1
    /\ running' = FALSE
    /\ passkeys' = << >> /\ user' = 0 /\ codeOpen' = FALSE
    /\ reg' = {} /\ auth' = {} /\ sessions' = {}
    /\ pc' = [w \in Handlers |-> "idle"]
    /\ req' = [w \in Handlers |-> NoRequest]
    /\ \/ UNCHANGED <<path, linked>>
       \/ path' = linked /\ UNCHANGED linked
    /\ file' = Freed(file, {path', linked', tmp} \ {NoInode})
    /\ UNCHANGED <<tmp, begun, issued, faults, acked>>

Readable == path # NoInode => file[path].state = "whole"
Saved == IF path = NoInode THEN NoDocument ELSE file[path].doc

\* AuthState::new(): no file is an empty store, an unreadable one is fatal.
Start ==
    /\ ~ running /\ Readable
    /\ running' = TRUE
    /\ passkeys' = Saved.passkeys
    /\ user' = Saved.user
    /\ codeOpen' = (Saved.passkeys = << >>)
    /\ UNCHANGED <<maps, pc, req, disk, counters, acked>>

StartRefused == ~ running /\ ~ Readable /\ UNCHANGED state

--------------------------------------------------------------------------------
Init ==
    /\ running = FALSE
    /\ passkeys = << >> /\ user = 0 /\ codeOpen = FALSE
    /\ reg = {} /\ auth = {} /\ sessions = {}
    /\ pc = [w \in Handlers |-> "idle"]
    /\ req = [w \in Handlers |-> NoRequest]
    /\ file = [i \in Inodes |-> Empty]
    /\ path = NoInode /\ tmp = NoInode /\ linked = NoInode
    /\ begun = 0 /\ issued = 0 /\ faults = 0 /\ crashes = 0
    /\ acked = {} /\ races = {}

RegisterStart(w) ==
    \/ RegStartSession(w) \/ RegStartMode(w) \/ RegStartCode(w)
    \/ RegStartUser(w) \/ RegStartRemember(w) \/ RegStartInsert(w)

RegisterFinish(w) ==
    \/ RegFinishTake(w) \/ RegFinishPush(w) \/ RegFinishRollback(w)
    \/ RegFinishClear(w) \/ RegFinishBurn(w)

Persist(w) ==
    \/ PersistSnapshot(w) \/ PersistOpen(w) \/ PersistWrite(w)
    \/ PersistRename(w) \/ PersistRenameLost(w) \/ PersistFault(w)

Handle(w) ==
    \/ RegisterStart(w) \/ RegisterFinish(w) \/ Persist(w)
    \/ LoginStart(w) \/ LoginFinishTake(w) \/ NewSession(w) \/ Refuse(w)

Step ==
    \/ \E w \in Handlers : Handle(w)
    \/ Lapse \/ EndSession \/ FlushDirectory
    \/ Crash \/ Start \/ StartRefused

--------------------------------------------------------------------------------
(* What nothing in the code prevents.  Handlers are only serialized inside  *)
(* a critical section, and the directory is never synced; the history       *)
(* variable records which of the consequences an execution has met, so that *)
(* a property may say which of them it survives.                            *)

\* Between its push and the end of its persist() or of its roll-back; a sign-in
\* in persist().
Saving(w) == pc[w] \in PersistSteps \/ (pc[w] = "failed" /\ req[w].mode # "Login")

\* Two finishes save at the same time: both open auth.json.tmp, and a roll-back
\* may pop the credential of the other.
SavesOverlap == \E u, w \in Handlers : u # w /\ Saving(u) /\ Saving(w)

\* Two starts found no user id and are about to remember one each.
StartsOverlap ==
    \E u, w \in Handlers :
        /\ pc[u] = "rs_remember" /\ pc[w] = "rs_remember"
        /\ req[u].uid # req[w].uid

\* A bootstrap start has passed its checks, and is on its way to the map that a
\* finish has already cleared, but has not yet burned the code of.
StartOvertakesClear ==
    \E u, w \in Handlers :
        /\ pc[u] = "burn"
        /\ pc[w] \in {"rs_user", "rs_remember", "rs_insert"} /\ req[w].mode = "Bootstrap"

\* A sign-in was begun with a credential that is not saved yet.
SignInAhead == \E c \in auth : ~ (c.keys \subseteq Ids(Saved.passkeys))

\* A power cut takes back a rename that had returned.
RenameUndone == running /\ ~ running' /\ path' # path

Watch ==
    races' = races \cup {r \in {"saves"} : SavesOverlap'}
                   \cup {r \in {"starts"} : StartsOverlap'}
                   \cup {r \in {"clear"} : StartOvertakesClear'}
                   \cup {r \in {"sign-in"} : SignInAhead'}
                   \cup {r \in {"rename"} : RenameUndone}

Next == Step /\ Watch

Spec == Init /\ [][Next]_vars

--------------------------------------------------------------------------------
(* Properties *)

Flags == running \in BOOLEAN /\ codeOpen \in BOOLEAN

StateOK ==
    /\ Flags
    /\ passkeys \in Seq(Credential) /\ user \in Nat
    /\ reg \subseteq Registration /\ auth \subseteq SignIn
    /\ sessions \subseteq Nat \ {0}
    /\ pc \in [Handlers -> Steps] /\ req \in Requests
    /\ file \in [Inodes -> Content]
    /\ {path, tmp, linked} \subseteq Inodes \cup {NoInode}
    /\ {begun, issued, faults, crashes} \subseteq Nat
    /\ acked \subseteq Passkeys

\* Every variable keeps its type.
TypeOK == StateOK /\ races \subseteq {"saves", "starts", "clear", "sign-in", "rename"}

\* A bootstrap enrolment is only ever the first entry of a list.
FirstOnly(keys) == \A i \in 1 .. Len(keys) : keys[i].how = "Bootstrap" => i = 1

\* At most one admin ever came in through the enrolment code: a ceremony parked
\* while the account was unclaimed cannot add a second one, whatever handlers
\* finish, fail and roll back in between.
OneBootstrap == FirstOnly(passkeys)

\* While the process runs, the enrolment code is only ever burned for good if
\* some passkey is left to sign in with: no interleaving of finishes and
\* roll-backs ends with neither, which would lock everybody out.
NotLockedOut == running /\ ~ codeOpen => passkeys # << >>

\* Once enrolment is closed no bootstrap ceremony waits to be finished, unless
\* a start overtook the clearing of the map.
NoParkedBootstrap ==
    "clear" \notin races /\ running /\ ~ codeOpen => \A c \in reg : c.mode # "Bootstrap"

\* auth.json is absent or parses at every instant, so that a crash at any point
\* does not block the next start.
AuthFileReadable == Readable

\* ... which takes one save at a time: whatever else handlers do meanwhile, a
\* failing save, a crash or a power cut anywhere in persist() leaves a file
\* that parses.
ReadableInTurn == "saves" \notin races => Readable

\* A credential whose enrolment was reported as successful is known to the
\* process and to every later one: while saves come in turn, only a power cut
\* that takes a rename back can make it forgotten.
AckedIsKnown == races \cap {"saves", "rename"} = {} /\ running => acked \subseteq Ids(passkeys)

\* A finish that failed leaves nothing behind: while saves come in turn, memory
\* and auth.json agree on who is enrolled whenever nobody saves.
MemoryMatchesDisk ==
    "saves" \notin races /\ running /\ (\A w \in Handlers : ~ Saving(w))
        => passkeys = Saved.passkeys

\* The user id a passkey was created for is the one the store remembers, across
\* overlapping saves, roll-backs and restarts, unless two starts made one up at
\* the same time.
OneUserId == "starts" \notin races => \A i \in 1 .. Len(passkeys) : passkeys[i].uid = user

================================================================================
