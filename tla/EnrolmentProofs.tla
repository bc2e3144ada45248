---------------------------- MODULE EnrolmentProofs ----------------------------
(****************************************************************************)
(* Theorems about Enrolment, for any number of handlers, passkeys, inodes   *)
(* and faults: first what holds whatever races happen, then what holds up   *)
(* to a race of some kind, the refinement of AdminAccount among it.         *)
(****************************************************************************)
EXTENDS EnrolmentAccount, FiniteSetTheorems, SequenceTheorems, TLAPS

--------------------------------------------------------------------------------
(* Type correctness *)

\* A handler that carries a ceremony's mode never takes it for a sign-in's.
ModeSteps == {"rs_code", "rs_user", "rs_remember", "rs_insert", "push"}
ModeKnown == \A w \in Handlers : pc[w] \in ModeSteps => req[w].mode \in Modes

Typed == StateOK /\ ModeKnown

\* The contents the file operations leave behind are contents.
LEMMA ContentsTyped ==
    /\ Empty \in Content /\ Torn \in Content
    /\ \A d \in Document : Whole(d) \in Content
    /\ \A old, d : Overlay(old, d) \subseteq {Whole(d), Torn}
    /\ \A used : \A f \in [Inodes -> Content] : Freed(f, used) \in [Inodes -> Content]
<1>1. NoDocument \in Document
    BY DEF NoDocument, Document
<1>2. Empty \in Content /\ Torn \in Content
    BY <1>1 DEF Empty, Torn, Content
<1>3. \A d \in Document : Whole(d) \in Content
    BY DEF Whole, Content
<1>4. \A old, d : Overlay(old, d) \subseteq {Whole(d), Torn}
    BY DEF Overlay
<1>5. \A used : \A f \in [Inodes -> Content] : Freed(f, used) \in [Inodes -> Content]
    BY <1>2 DEF Freed
<1> QED
    BY <1>2, <1>3, <1>4, <1>5

\* Requests stay requests whichever fields of one a step sets.
LEMMA RequestTyped ==
    /\ NoRequest \in Request
    /\ \A q \in Requests, w \in Handlers :
          /\ [q EXCEPT ![w] = NoRequest] \in Requests
          /\ \A t \in Nat : [q EXCEPT ![w].token = t] \in Requests
          /\ \A m \in Modes : [q EXCEPT ![w].mode = m] \in Requests
          /\ \A n, u \in Nat : [q EXCEPT ![w].id = n, ![w].uid = u] \in Requests
          /\ \A m \in Modes, u \in Nat, k \in Passkeys, t \in Nat :
                [q EXCEPT ![w] = [@ EXCEPT !.mode = m, !.uid = u, !.key = {k}, !.token = t]] \in Requests
          /\ \A k \in Passkeys : [q EXCEPT ![w].mode = "Login", ![w].key = {k}] \in Requests
          /\ \A d \in Document : [q EXCEPT ![w].doc = d] \in Requests
          /\ \A i \in Inodes : [q EXCEPT ![w].fd = i] \in Requests
          /\ [q EXCEPT ![w].fd = NoInode, ![w].doc = NoDocument] \in Requests
<1>1. NoDocument \in Document
    BY DEF NoDocument, Document
<1>2. NoRequest \in Request
    BY <1>1 DEF NoRequest, Request
<1> SUFFICES ASSUME NEW q \in Requests, NEW w \in Handlers
    PROVE /\ [q EXCEPT ![w] = NoRequest] \in Requests
          /\ \A t \in Nat : [q EXCEPT ![w].token = t] \in Requests
          /\ \A m \in Modes : [q EXCEPT ![w].mode = m] \in Requests
          /\ \A n, u \in Nat : [q EXCEPT ![w].id = n, ![w].uid = u] \in Requests
          /\ \A m \in Modes, u \in Nat, k \in Passkeys, t \in Nat :
                [q EXCEPT ![w] = [@ EXCEPT !.mode = m, !.uid = u, !.key = {k}, !.token = t]] \in Requests
          /\ \A k \in Passkeys : [q EXCEPT ![w].mode = "Login", ![w].key = {k}] \in Requests
          /\ \A d \in Document : [q EXCEPT ![w].doc = d] \in Requests
          /\ \A i \in Inodes : [q EXCEPT ![w].fd = i] \in Requests
          /\ [q EXCEPT ![w].fd = NoInode, ![w].doc = NoDocument] \in Requests
    BY <1>2
<1>3. [q EXCEPT ![w] = NoRequest] \in Requests
    BY <1>2 DEF Requests
<1>4. \A t \in Nat : [q EXCEPT ![w].token = t] \in Requests
    BY DEF Request, Requests
<1>5. \A m \in Modes : [q EXCEPT ![w].mode = m] \in Requests
    BY DEF Request, Requests
<1> q[w] \in Request
    BY DEF Requests
<1>r. \A r \in Request : [q EXCEPT ![w] = r] \in Requests
    BY DEF Requests
<1>6. ASSUME NEW n \in Nat, NEW u \in Nat
      PROVE  [q EXCEPT ![w].id = n, ![w].uid = u] \in Requests
  <2> DEFINE r == [q[w] EXCEPT !.id = n, !.uid = u]
  <2>1. r \in Request
      BY DEF Request
  <2>2. [q EXCEPT ![w] = r] \in Requests
      BY <1>r, <2>1
  <2>3. [q EXCEPT ![w].id = n, ![w].uid = u] = [q EXCEPT ![w] = r]
      BY DEF Requests
  <2> QED
      BY <2>2, <2>3
<1>7. ASSUME NEW m \in Modes, NEW u \in Nat, NEW k \in Passkeys, NEW t \in Nat
      PROVE  [q EXCEPT ![w] = [@ EXCEPT !.mode = m, !.uid = u, !.key = {k}, !.token = t]] \in Requests
  <2> DEFINE r == [q[w] EXCEPT !.mode = m, !.uid = u, !.key = {k}, !.token = t]
  <2>1. r \in Request
    <3>1. {k} \in SUBSET Passkeys /\ m \in Modes \cup {"Login"}
        OBVIOUS
    <3> QED
        BY <3>1 DEF Request
  <2> QED
      BY <1>r, <2>1
<1>8. \A k \in Passkeys : [q EXCEPT ![w].mode = "Login", ![w].key = {k}] \in Requests
    BY DEF Request, Requests
<1>9. \A d \in Document : [q EXCEPT ![w].doc = d] \in Requests
    BY DEF Request, Requests
<1>10. \A i \in Inodes : [q EXCEPT ![w].fd = i] \in Requests
    BY DEF Request, Requests
<1>11. [q EXCEPT ![w].fd = NoInode, ![w].doc = NoDocument] \in Requests
    BY <1>1 DEF Request, Requests
<1> QED
    BY <1>3, <1>4, <1>5, <1>6, <1>7, <1>8, <1>9, <1>10, <1>11

\* The initial state is typed.
LEMMA TypedInit == Init => Typed
<1> SUFFICES ASSUME Init PROVE Typed
    OBVIOUS
<1>1. << >> \in Seq(Credential)
    OBVIOUS
<1>2. pc \in [Handlers -> Steps] /\ req \in Requests
    BY RequestTyped DEF Init, Steps, Requests
<1>3. file \in [Inodes -> Content]
    BY ContentsTyped DEF Init
<1>4. ModeKnown
    BY DEF Init, ModeKnown, ModeSteps
<1>5. Flags
    BY Zenon DEF Init, Flags
<1>6. StateOK
    BY <1>1, <1>2, <1>3, <1>5 DEF Init, StateOK
<1> QED
    BY <1>4, <1>6 DEF Typed

\* What a step of handler w has to keep to.
LEMMA HandlerStep ==
    ASSUME Typed, NEW w \in Handlers, NEW step \in Steps,
           Goto(w, step), req' \in Requests,
           \A v \in Handlers \ {w} : req'[v] = req[v],
           step \in ModeSteps => req'[w].mode \in Modes
    PROVE  pc' \in [Handlers -> Steps] /\ ModeKnown'
BY DEF Typed, StateOK, ModeKnown, Goto

\* What the fields of a request are.
LEMMA RequestFields ==
    ASSUME Typed, NEW w \in Handlers
    PROVE  /\ req \in Requests /\ req[w] \in Request
           /\ req[w].token \in Nat /\ req[w].id \in Nat /\ req[w].uid \in Nat
           /\ req[w].key \subseteq Passkeys /\ req[w].doc \in Document
           /\ req[w].fd \in Inodes \cup {NoInode}
           /\ \A m : [req EXCEPT ![w].mode = m][w].mode = m
<1>1. req \in Requests
    BY DEF Typed, StateOK
<1>2. req[w] \in Request /\ DOMAIN req = Handlers
    BY <1>1 DEF Requests
<1>3. /\ req[w].token \in Nat /\ req[w].id \in Nat /\ req[w].uid \in Nat
      /\ req[w].key \subseteq Passkeys /\ req[w].doc \in Document
      /\ req[w].fd \in Inodes \cup {NoInode}
    BY <1>2 DEF Request
<1>4. \A m : [req EXCEPT ![w].mode = m][w].mode = m
    BY <1>2 DEF Request
<1> QED
    BY <1>1, <1>2, <1>3, <1>4

\* What a handler's move leaves typed: where handlers are and what they hold.
HandlersTyped == pc \in [Handlers -> Steps] /\ req \in Requests /\ ModeKnown

LEMMA RespondTyped ==
    ASSUME Typed, NEW w \in Handlers, Respond(w) PROVE HandlersTyped'
<1>1. req' = [req EXCEPT ![w] = NoRequest] /\ Goto(w, "idle")
    BY DEF Respond
<1>2. req \in Requests /\ DOMAIN req = Handlers
    BY RequestFields DEF Requests
<1>3. req' \in Requests /\ \A v \in Handlers \ {w} : req'[v] = req[v]
    BY <1>1, <1>2, RequestTyped
<1> QED
    BY <1>1, <1>3, HandlerStep DEF HandlersTyped, Steps, ModeSteps

LEMMA GotoTyped ==
    ASSUME Typed, NEW w \in Handlers, NEW step \in Steps, Goto(w, step), UNCHANGED req,
           step \in ModeSteps => req[w].mode \in Modes
    PROVE  HandlersTyped'
<1>1. req' \in Requests /\ \A v \in Handlers : req'[v] = req[v]
    BY RequestFields
<1> QED
    BY <1>1, HandlerStep DEF HandlersTyped

\* The steps of /auth/register/start are typed.
LEMMA TypedRegisterStart ==
    ASSUME Typed, NEW w \in Handlers, RegisterStart(w) PROVE Typed'
<1> USE DEF memory, maps, disk, counters
<1>0. req \in Requests /\ DOMAIN req = Handlers
    BY RequestFields DEF Requests
<1>f. Flags'
    BY Zenon DEF RegisterStart, RegStartSession, RegStartMode, RegStartCode, Typed, StateOK,
                 RegStartUser, RegStartRemember, RegStartInsert, Flags
<1>1. CASE RegStartSession(w)
  <2>1. PICK t \in sessions \cup {0} : req' = [req EXCEPT ![w].token = t]
      BY <1>1 DEF RegStartSession
  <2>2. t \in Nat
      BY DEF Typed, StateOK
  <2>3. req' \in Requests /\ \A v \in Handlers \ {w} : req'[v] = req[v]
      BY <1>0, <2>1, <2>2, RequestTyped
  <2>4. HandlersTyped'
      BY <1>1, <2>3, HandlerStep
         DEF RegStartSession, Steps, RegStartSteps, ModeSteps, HandlersTyped
  <2> QED
      BY <1>f, <1>1, <2>4 DEF RegStartSession, Typed, StateOK, HandlersTyped
<1>2. CASE RegStartMode(w)
  <2>1. ASSUME NEW m \in Modes, NEW step \in Steps,
               req' = [req EXCEPT ![w].mode = m], Goto(w, step)
        PROVE  HandlersTyped'
    <3>1. req' \in Requests /\ \A v \in Handlers \ {w} : req'[v] = req[v]
        BY <1>0, <2>1, RequestTyped
    <3>2. req'[w].mode = m
        BY <2>1, RequestFields
    <3> QED
        BY <2>1, <3>1, <3>2, HandlerStep DEF HandlersTyped
  <2>2. "Bootstrap" \in Modes /\ "AddDevice" \in Modes
      BY DEF Modes
  <2>3. "rs_code" \in Steps /\ "rs_user" \in Steps
      BY DEF Steps, RegStartSteps
  <2>4. ASSUME req' = [req EXCEPT ![w].mode = "Bootstrap"], Goto(w, "rs_code")
        PROVE  HandlersTyped'
      BY <2>1, <2>2, <2>3, <2>4
  <2>5. ASSUME req' = [req EXCEPT ![w].mode = "AddDevice"], Goto(w, "rs_user")
        PROVE  HandlersTyped'
      BY <2>1, <2>2, <2>3, <2>5
  <2>6. HandlersTyped'
      BY <1>2, <2>4, <2>5, RespondTyped DEF RegStartMode
  <2> QED
      BY <1>f, <1>2, <2>6 DEF RegStartMode, Typed, StateOK, HandlersTyped
<1>3. CASE RegStartCode(w)
  <2>1. pc[w] = "rs_code" /\ req[w].mode \in Modes
      BY <1>3 DEF RegStartCode, At, Typed, ModeKnown, ModeSteps
  <2>2. Respond(w) \/ (Goto(w, "rs_user") /\ UNCHANGED req)
      BY <1>3 DEF RegStartCode
  <2>3. HandlersTyped'
      BY <2>1, <2>2, RespondTyped, GotoTyped DEF Steps, RegStartSteps
  <2> QED
      BY <1>f, <1>3, <2>3 DEF RegStartCode, Typed, StateOK, HandlersTyped
<1>4. CASE RegStartUser(w)
  <2> DEFINE u == IF user = 0 THEN begun + 1 ELSE user
  <2>1. begun + 1 \in Nat /\ u \in Nat
      BY DEF Typed, StateOK
  <2>2. req' = [req EXCEPT ![w].id = begun + 1, ![w].uid = u] /\ Goto(w, "rs_remember")
      BY <1>4 DEF RegStartUser
  <2>3. req[w].mode \in Modes
      BY <1>4 DEF RegStartUser, At, Typed, ModeKnown, ModeSteps
  <2> HIDE DEF u
  <2>4. req' \in Requests /\ \A v \in Handlers \ {w} : req'[v] = req[v]
      BY <1>0, <2>1, <2>2, RequestTyped
  <2>5. req'[w].mode = req[w].mode
      BY <1>0, <2>2, RequestFields DEF Request
  <2>6. HandlersTyped'
      BY <2>2, <2>3, <2>4, <2>5, HandlerStep DEF Steps, RegStartSteps, HandlersTyped
  <2> QED
      BY <1>f, <1>4, <2>1, <2>6 DEF RegStartUser, Typed, StateOK, HandlersTyped
<1>5. CASE RegStartRemember(w)
  <2>1. req[w].mode \in Modes
      BY <1>5 DEF RegStartRemember, At, Typed, ModeKnown, ModeSteps
  <2>2. HandlersTyped'
      BY <1>5, <2>1, GotoTyped DEF RegStartRemember, Steps, RegStartSteps
  <2>3. user' \in Nat
      BY <1>5, RequestFields DEF RegStartRemember, Typed, StateOK
  <2> QED
      BY <1>f, <1>5, <2>2, <2>3 DEF RegStartRemember, Typed, StateOK, HandlersTyped
<1>6. CASE RegStartInsert(w)
  <2>1. req[w].mode \in Modes
      BY <1>6 DEF RegStartInsert, At, Typed, ModeKnown, ModeSteps
  <2>2. HandlersTyped'
      BY <1>6, RespondTyped DEF RegStartInsert
  <2>3. [id |-> req[w].id, mode |-> req[w].mode, uid |-> req[w].uid] \in Registration
      BY <2>1, RequestFields DEF Registration
  <2>4. reg' \subseteq Registration
      BY <1>6, <2>3 DEF RegStartInsert, Typed, StateOK
  <2> QED
      BY <1>f, <1>6, <2>2, <2>4 DEF RegStartInsert, Typed, StateOK, HandlersTyped
<1> QED
    BY <1>1, <1>2, <1>3, <1>4, <1>5, <1>6 DEF RegisterStart

\* The steps of /auth/register/finish are typed, persist() aside.
LEMMA TypedRegisterFinish ==
    ASSUME Typed, NEW w \in Handlers, RegisterFinish(w) PROVE Typed'
<1> USE DEF memory, maps, disk, counters
<1>0. req \in Requests /\ DOMAIN req = Handlers
    BY RequestFields DEF Requests
<1>f. Flags'
    BY Zenon DEF RegisterFinish, RegFinishTake, RegFinishPush, RegFinishRollback,
                 RegFinishClear, RegFinishBurn, Typed, StateOK, Flags
<1>1. CASE RegFinishTake(w)
  <2>1. PICK c \in reg, k \in Passkeys, t \in sessions \cup {0} :
          /\ reg' = reg \ {c}
          /\ \/ /\ Goto(w, "push")
                /\ req' = [req EXCEPT ![w] = [@ EXCEPT !.mode = c.mode, !.uid = c.uid,
                                                       !.key = {k}, !.token = t]]
             \/ UNCHANGED <<pc, req>>
      BY <1>1 DEF RegFinishTake
  <2>2. c.mode \in Modes /\ c.uid \in Nat /\ t \in Nat
      BY DEF Typed, StateOK, Registration
  <2>3. ASSUME req' = [req EXCEPT ![w] = [@ EXCEPT !.mode = c.mode, !.uid = c.uid,
                                                   !.key = {k}, !.token = t]],
               Goto(w, "push")
        PROVE  HandlersTyped'
    <3>1. req' \in Requests /\ \A v \in Handlers \ {w} : req'[v] = req[v]
        BY <1>0, <2>2, <2>3, RequestTyped
    <3>2. req'[w].mode = c.mode
        BY <1>0, <2>3, RequestFields DEF Request
    <3> QED
        BY <2>2, <2>3, <3>1, <3>2, HandlerStep DEF HandlersTyped, Steps, FinishSteps
  <2>4. ASSUME UNCHANGED <<pc, req>> PROVE HandlersTyped'
      BY <2>4 DEF Typed, StateOK, ModeKnown, HandlersTyped
  <2>5. HandlersTyped'
      BY <2>1, <2>3, <2>4
  <2> QED
      BY <1>f, <1>1, <2>1, <2>5 DEF RegFinishTake, Typed, StateOK, HandlersTyped
<1>2. CASE RegFinishPush(w)
  <2>1. pc[w] = "push" /\ req[w].mode \in Modes
      BY <1>2 DEF RegFinishPush, At, Typed, ModeKnown, ModeSteps
  <2>2. HandlersTyped'
      BY <1>2, RespondTyped, GotoTyped
         DEF RegFinishPush, Steps, FinishSteps, PersistSteps, ModeSteps
  <2>3. \A k \in req[w].key :
          Append(passkeys, [id |-> k, how |-> req[w].mode, uid |-> req[w].uid]) \in Seq(Credential)
    <3>1. \A k \in req[w].key : [id |-> k, how |-> req[w].mode, uid |-> req[w].uid] \in Credential
        BY <2>1, RequestFields DEF Credential
    <3> QED
        BY <3>1, AppendProperties DEF Typed, StateOK
  <2>4. passkeys' \in Seq(Credential)
      BY <1>2, <2>3 DEF RegFinishPush, Typed, StateOK
  <2> QED
      BY <1>f, <1>2, <2>2, <2>4 DEF RegFinishPush, Typed, StateOK, HandlersTyped
<1>3. CASE RegFinishRollback(w)
  <2>1. passkeys' \in Seq(Credential)
    <3>1. passkeys \in Seq(Credential) /\ Len(passkeys) \in Nat
        BY DEF Typed, StateOK
    <3>2. \A i \in 1 .. Len(passkeys) - 1 : passkeys[i] \in Credential
        BY <3>1
    <3>3. SubSeq(passkeys, 1, Len(passkeys) - 1) \in Seq(Credential)
        BY <3>1, <3>2, SubSeqProperties
    <3> QED
        BY <1>3, <3>3 DEF RegFinishRollback, RolledBack
  <2>2. HandlersTyped'
      BY <1>3, RespondTyped DEF RegFinishRollback
  <2> QED
      BY <1>f, <1>3, <2>1, <2>2 DEF RegFinishRollback, Typed, StateOK, HandlersTyped
<1>4. CASE RegFinishClear(w)
  <2>1. HandlersTyped'
      BY <1>4, GotoTyped DEF RegFinishClear, Steps, FinishSteps, ModeSteps
  <2> QED
      BY <1>f, <1>4, <2>1 DEF RegFinishClear, Typed, StateOK, HandlersTyped
<1>5. CASE RegFinishBurn(w)
  <2>1. HandlersTyped'
      BY <1>5, GotoTyped DEF RegFinishBurn, Steps, FinishSteps, ModeSteps
  <2> QED
      BY <1>f, <1>5, <2>1 DEF RegFinishBurn, Typed, StateOK, HandlersTyped
<1> QED
    BY <1>1, <1>2, <1>3, <1>4, <1>5 DEF RegisterFinish

\* Where persist() leaves a handler.
LEMMA AfterPersistTyped ==
    ASSUME NEW w, NEW saved
    PROVE  AfterPersist(w, saved) \in Steps \ ModeSteps
BY DEF AfterPersist, Steps, FinishSteps, ModeSteps

\* Closing the descriptor and moving on keeps handlers typed.
LEMMA ClosedTyped ==
    ASSUME Typed, NEW w \in Handlers, NEW saved, Goto(w, AfterPersist(w, saved)), Closed(w)
    PROVE  HandlersTyped'
<1>1. req \in Requests /\ DOMAIN req = Handlers
    BY RequestFields DEF Requests
<1>2. req' \in Requests /\ \A v \in Handlers \ {w} : req'[v] = req[v]
    BY <1>1, RequestTyped DEF Closed
<1> QED
    BY <1>2, AfterPersistTyped, HandlerStep DEF HandlersTyped

\* The file operations of persist() are typed.
LEMMA TypedPersist ==
    ASSUME Typed, NEW w \in Handlers, Persist(w) PROVE Typed'
<1> USE DEF memory, maps, disk, counters
<1>0. req \in Requests /\ DOMAIN req = Handlers
    BY RequestFields DEF Requests
<1>f. Flags'
    BY Zenon DEF Persist, PersistSnapshot, PersistOpen, PersistWrite, PersistRename,
                 PersistRenameLost, PersistFault, Typed, StateOK, Flags
<1>d. file \in [Inodes -> Content]
    BY DEF Typed, StateOK
<1>1. CASE PersistSnapshot(w)
  <2>1. [passkeys |-> passkeys, user |-> user] \in Document
      BY DEF Typed, StateOK, Document
  <2>2. req' \in Requests /\ \A v \in Handlers \ {w} : req'[v] = req[v]
      BY <1>0, <1>1, <2>1, RequestTyped DEF PersistSnapshot
  <2>3. HandlersTyped'
      BY <1>1, <2>2, HandlerStep
         DEF PersistSnapshot, Steps, FinishSteps, PersistSteps, ModeSteps, HandlersTyped
  <2> QED
      BY <1>f, <1>1, <2>3 DEF PersistSnapshot, Typed, StateOK, HandlersTyped
<1>2. CASE PersistOpen(w)
  <2>1. PICK i \in Inodes : /\ tmp' = i /\ file' = [file EXCEPT ![i] = Empty]
                            /\ req' = [req EXCEPT ![w].fd = i]
      BY <1>2 DEF PersistOpen
  <2>2. req' \in Requests /\ \A v \in Handlers \ {w} : req'[v] = req[v]
      BY <1>0, <2>1, RequestTyped
  <2>3. HandlersTyped'
      BY <1>2, <2>2, HandlerStep
         DEF PersistOpen, Steps, FinishSteps, PersistSteps, ModeSteps, HandlersTyped
  <2>4. file' \in [Inodes -> Content]
      BY <1>d, <2>1, ContentsTyped
  <2> QED
      BY <1>f, <1>2, <2>1, <2>3, <2>4 DEF PersistOpen, Typed, StateOK, HandlersTyped
<1>3. CASE PersistWrite(w)
  <2>1. PICK c \in Overlay(file[req[w].fd], req[w].doc) : file' = [file EXCEPT ![req[w].fd] = c]
      BY <1>3 DEF PersistWrite
  <2>2. c \in Content
      BY <2>1, ContentsTyped, RequestFields
  <2>3. file' \in [Inodes -> Content]
      BY <1>d, <2>1, <2>2
  <2>4. HandlersTyped'
      BY <1>3, GotoTyped DEF PersistWrite, Steps, FinishSteps, PersistSteps, ModeSteps
  <2> QED
      BY <1>f, <1>3, <2>3, <2>4 DEF PersistWrite, Typed, StateOK, HandlersTyped
<1>4. CASE PersistRename(w)
  <2>1. HandlersTyped'
      BY <1>4, ClosedTyped DEF PersistRename
  <2>2. file' \in [Inodes -> Content]
      BY <1>4, <1>d, ContentsTyped DEF PersistRename
  <2> QED
      BY <1>f, <1>4, <2>1, <2>2 DEF PersistRename, Typed, StateOK, HandlersTyped
<1>5. CASE PersistRenameLost(w)
  <2>1. HandlersTyped'
      BY <1>5, ClosedTyped DEF PersistRenameLost
  <2>2. file' \in [Inodes -> Content]
      BY <1>5, <1>d, ContentsTyped DEF PersistRenameLost
  <2> QED
      BY <1>f, <1>5, <2>1, <2>2 DEF PersistRenameLost, Typed, StateOK, HandlersTyped
<1>6. CASE PersistFault(w)
  <2>1. HandlersTyped'
      BY <1>6, ClosedTyped DEF PersistFault
  <2>2. PICK f \in {file} \cup {[file EXCEPT ![i] = Torn] :
                                 i \in IF pc[w] = "write" THEN {req[w].fd} ELSE {}} :
          file' = Freed(f, UsedBy(w, path, linked, tmp))
      BY <1>6 DEF PersistFault
  <2>3. f \in [Inodes -> Content]
      BY <1>d, <2>2, ContentsTyped
  <2>4. file' \in [Inodes -> Content]
      BY <2>2, <2>3, ContentsTyped
  <2> QED
      BY <1>f, <1>6, <2>1, <2>4 DEF PersistFault, Typed, StateOK, HandlersTyped
<1> QED
    BY <1>1, <1>2, <1>3, <1>4, <1>5, <1>6 DEF Persist

\* The steps of /auth/login/{start,finish} and the session both flows end with
\* are typed.
LEMMA TypedLogin ==
    ASSUME Typed, NEW w \in Handlers,
           LoginStart(w) \/ LoginFinishTake(w) \/ NewSession(w) \/ Refuse(w)
    PROVE  Typed'
<1> USE DEF memory, maps, disk, counters
<1>0. req \in Requests /\ DOMAIN req = Handlers
    BY RequestFields DEF Requests
<1>f. Flags'
    BY Zenon DEF LoginStart, LoginFinishTake, NewSession, Refuse, state, Typed, StateOK, Flags
<1>1. CASE LoginStart(w)
  <2>1. Ids(passkeys) \subseteq Passkeys
    <3>1. \A i \in 1 .. Len(passkeys) : passkeys[i] \in Credential
        BY DEF Typed, StateOK
    <3> QED
        BY <3>1 DEF Ids, Credential
  <2>2. auth' \subseteq SignIn /\ begun' \in Nat
      BY <1>1, <2>1 DEF LoginStart, SignIn, Typed, StateOK
  <2>3. HandlersTyped'
      BY <1>1 DEF LoginStart, Typed, StateOK, ModeKnown, HandlersTyped
  <2> QED
      BY <1>f, <1>1, <2>2, <2>3 DEF LoginStart, Typed, StateOK, HandlersTyped
<1>2. CASE LoginFinishTake(w)
  <2>1. PICK c \in auth :
          /\ auth' = auth \ {c}
          /\ \/ /\ Goto(w, "snapshot")
                /\ \E k \in c.keys : req' = [req EXCEPT ![w].mode = "Login", ![w].key = {k}]
             \/ UNCHANGED <<pc, req>>
      BY <1>2 DEF LoginFinishTake
  <2>2. c.keys \subseteq Passkeys
      BY DEF SignIn, Typed, StateOK
  <2>3. ASSUME NEW k \in c.keys, Goto(w, "snapshot"),
               req' = [req EXCEPT ![w].mode = "Login", ![w].key = {k}]
        PROVE  HandlersTyped'
    <3>1. req' \in Requests /\ \A v \in Handlers \ {w} : req'[v] = req[v]
        BY <1>0, <2>2, <2>3, RequestTyped
    <3> QED
        BY <2>3, <3>1, HandlerStep DEF HandlersTyped, Steps, FinishSteps, PersistSteps, ModeSteps
  <2>4. ASSUME UNCHANGED <<pc, req>> PROVE HandlersTyped'
      BY <2>4 DEF Typed, StateOK, ModeKnown, HandlersTyped
  <2>5. HandlersTyped'
      BY <2>1, <2>3, <2>4
  <2> QED
      BY <1>f, <1>2, <2>1, <2>5 DEF LoginFinishTake, Typed, StateOK, HandlersTyped
<1>3. CASE NewSession(w)
  <2>1. HandlersTyped'
      BY <1>3, RespondTyped DEF NewSession
  <2>2. sessions' \subseteq Nat \ {0} /\ issued' \in Nat
    <3>1. issued + 1 \in Nat \ {0}
        BY DEF Typed, StateOK
    <3> QED
        BY <1>3, <3>1 DEF NewSession, FreshToken, Typed, StateOK
  <2>3. acked' \subseteq Passkeys
      BY <1>3, RequestFields DEF NewSession, Typed, StateOK
  <2> QED
      BY <1>f, <1>3, <2>1, <2>2, <2>3 DEF NewSession, Typed, StateOK, HandlersTyped
<1>4. CASE Refuse(w)
    BY <1>f, <1>4 DEF Refuse, state, Typed, StateOK, ModeKnown
<1> QED
    BY <1>1, <1>2, <1>3, <1>4

Environment == Lapse \/ EndSession \/ FlushDirectory \/ Crash \/ Start \/ StartRefused

\* What a start finds in the directory is a document.
LEMMA SavedTyped == Typed => Saved \in Document
<1>1. NoDocument \in Document
    BY DEF NoDocument, Document
<1> QED
    BY <1>1 DEF Typed, StateOK, Saved, Content

\* Timers, crashes and starts are typed.
LEMMA TypedEnvironment == ASSUME Typed, Environment PROVE Typed'
<1> USE DEF memory, maps, disk, counters
<1>f. Flags'
    BY Zenon DEF Environment, Lapse, EndSession, FlushDirectory, Crash, Start, StartRefused,
                 state, Typed, StateOK, Flags
<1>d. file \in [Inodes -> Content]
    BY DEF Typed, StateOK
<1>1. CASE Lapse
    BY <1>f, <1>1 DEF Lapse, Typed, StateOK, ModeKnown
<1>2. CASE EndSession
    BY <1>f, <1>2 DEF EndSession, Typed, StateOK, ModeKnown
<1>3. CASE FlushDirectory
  <2>1. file' \in [Inodes -> Content]
      BY <1>3, <1>d, ContentsTyped DEF FlushDirectory
  <2> QED
      BY <1>f, <1>3, <2>1 DEF FlushDirectory, Typed, StateOK, ModeKnown
<1>4. CASE Crash
  <2>1. file' \in [Inodes -> Content]
      BY <1>4, <1>d, ContentsTyped DEF Crash
  <2>2. pc' \in [Handlers -> Steps] /\ req' \in Requests
      BY <1>4, RequestTyped DEF Crash, Steps, Requests
  <2>3. ModeKnown'
      BY <1>4 DEF Crash, ModeKnown, ModeSteps
  <2>4. << >> \in Seq(Credential)
      OBVIOUS
  <2>5. /\ passkeys' \in Seq(Credential) /\ user' \in Nat
        /\ reg' \subseteq Registration /\ auth' \subseteq SignIn
        /\ sessions' \subseteq Nat \ {0}
      BY <1>4, <2>4 DEF Crash
  <2>6. {path', tmp', linked'} \subseteq Inodes \cup {NoInode}
      BY <1>4 DEF Crash, Typed, StateOK
  <2>7. {begun', issued', faults', crashes'} \subseteq Nat /\ acked' \subseteq Passkeys
      BY <1>4 DEF Crash, Typed, StateOK
  <2> QED
      BY <1>f, <2>1, <2>2, <2>3, <2>5, <2>6, <2>7 DEF Typed, StateOK
<1>5. CASE Start
  <2>1. passkeys' \in Seq(Credential) /\ user' \in Nat
      BY <1>5, SavedTyped DEF Start, Document
  <2> QED
      BY <1>f, <1>5, <2>1 DEF Start, Typed, StateOK, ModeKnown
<1>6. CASE StartRefused
    BY <1>f, <1>6 DEF StartRefused, state, Typed, StateOK, ModeKnown
<1> QED
    BY <1>1, <1>2, <1>3, <1>4, <1>5, <1>6 DEF Environment

\* A step is a handler's or the environment's.
LEMMA StepCases ==
    ASSUME Step
    PROVE  \/ \E w \in Handlers :
                \/ RegisterStart(w) \/ RegisterFinish(w) \/ Persist(w)
                \/ LoginStart(w) \/ LoginFinishTake(w) \/ NewSession(w) \/ Refuse(w)
           \/ Environment
BY DEF Step, Handle, Environment

LEMMA TypedNext == Typed /\ [Step]_state => Typed'
<1> SUFFICES ASSUME Typed, [Step]_state PROVE Typed'
    OBVIOUS
<1>1. CASE Step
    BY <1>1, StepCases, TypedRegisterStart, TypedRegisterFinish, TypedPersist, TypedLogin,
       TypedEnvironment
<1>2. CASE UNCHANGED state
  <2>1. Flags'
      BY <1>2, Zenon DEF state, memory, Typed, StateOK, Flags
  <2> QED
      BY <1>2, <2>1 DEF state, memory, maps, disk, counters, Typed, StateOK, ModeKnown
<1> QED
    BY <1>1, <1>2

\* A step changes the state as its action says, and the history as Watch says.
LEMMA StepOf ==
    ASSUME [Next]_vars
    PROVE  /\ [Step]_state
           /\ Watch \/ (UNCHANGED state /\ races' = races)
BY DEF Next, vars

\* Every variable keeps its type, through every interleaving of handlers, failing
\* disks and crashes; in particular a ceremony is never parked with a sign-in's
\* mode (src/auth.rs, RegMode).
THEOREM TypeCorrect == Spec => [](TypeOK /\ ModeKnown)
<1> DEFINE Recorded == races \subseteq {"saves", "starts", "clear", "sign-in", "rename"}
<1>1. Init => Typed /\ Recorded
    BY TypedInit DEF Init
<1>2. Typed /\ Recorded /\ [Next]_vars => Typed' /\ Recorded'
  <2> SUFFICES ASSUME Typed, Recorded, [Next]_vars PROVE Typed' /\ Recorded'
      OBVIOUS
  <2>1. Typed'
      BY StepOf, TypedNext
  <2>2. Recorded'
    <3>1. CASE Watch
        BY <3>1 DEF Watch
    <3>2. CASE races' = races
        BY <3>2
    <3> QED
        BY <3>1, <3>2, StepOf
  <2> QED
      BY <2>1, <2>2
<1>3. Typed /\ Recorded => TypeOK /\ ModeKnown
    BY DEF Typed, TypeOK
<1> QED
    BY <1>1, <1>2, <1>3, PTL DEF Spec

--------------------------------------------------------------------------------
(* What moves.  The list in memory comes back from the file, the file from  *)
(* a snapshot some handler took; none of the three is ever made up.         *)

\* A handler's step leaves the other handlers alone.
LEMMA Others ==
    ASSUME Typed, NEW w \in Handlers, Handle(w), NEW v \in Handlers \ {w}
    PROVE  pc'[v] = pc[v] /\ req'[v] = req[v]
<1>0. pc \in [Handlers -> Steps] /\ DOMAIN req = Handlers
    BY RequestFields DEF Typed, StateOK, Requests
<1>1. \A step : Goto(w, step) => pc'[v] = pc[v]
    BY <1>0 DEF Goto
<1>2. Respond(w) => pc'[v] = pc[v] /\ req'[v] = req[v]
    BY <1>0, <1>1 DEF Respond
<1>3. Closed(w) => req'[v] = req[v]
    BY <1>0 DEF Closed
<1>4. CASE RegisterStart(w)
    BY <1>0, <1>1, <1>2, <1>4 DEF RegisterStart, RegStartSession, RegStartMode, RegStartCode,
       RegStartUser, RegStartRemember, RegStartInsert
<1>5. CASE RegisterFinish(w)
    BY <1>0, <1>1, <1>2, <1>5 DEF RegisterFinish, RegFinishTake, RegFinishPush,
       RegFinishRollback, RegFinishClear, RegFinishBurn
<1>6. CASE Persist(w)
    BY <1>0, <1>1, <1>3, <1>6 DEF Persist, PersistSnapshot, PersistOpen, PersistWrite,
       PersistRename, PersistRenameLost, PersistFault
<1>7. CASE LoginStart(w) \/ LoginFinishTake(w) \/ NewSession(w) \/ Refuse(w)
    BY <1>0, <1>1, <1>2, <1>7 DEF LoginStart, LoginFinishTake, NewSession, Refuse, state
<1> QED
    BY <1>4, <1>5, <1>6, <1>7 DEF Handle

\* A handler that answers, opens its file or closes it keeps its snapshot or
\* drops it.
LEMMA DocKept ==
    ASSUME Typed, NEW w \in Handlers
    PROVE  /\ [req EXCEPT ![w] = NoRequest][w].doc = NoDocument
           /\ \A i : [req EXCEPT ![w].fd = i][w].doc = req[w].doc
           /\ [req EXCEPT ![w].fd = NoInode, ![w].doc = NoDocument][w].doc = NoDocument
<1>1. DOMAIN req = Handlers /\ req[w] \in Request
    BY RequestFields DEF Requests
<1>2. NoRequest.doc = NoDocument
    BY DEF NoRequest
<1> QED
    BY <1>1, <1>2 DEF Request

\* The snapshot of the list and the user id that a handler may take now.
Snapshot == [passkeys |-> passkeys, user |-> user]

LEMMA DocMoved ==
    ASSUME Typed, NEW w \in Handlers, Handle(w)
    PROVE  req'[w].doc \in {req[w].doc, NoDocument, Snapshot}
<1>q. DOMAIN req = Handlers /\ req[w] \in Request
    BY RequestFields DEF Requests
<1>r. Respond(w) => req'[w].doc = NoDocument
    BY DocKept DEF Respond
<1>c. Closed(w) => req'[w].doc = NoDocument
    BY DocKept DEF Closed
<1>m. \A m : [req EXCEPT ![w].mode = m][w].doc = req[w].doc
    BY <1>q DEF Request
<1>1. CASE RegisterStart(w)
  <2>1. CASE RegStartSession(w)
      BY <1>q, <2>1 DEF RegStartSession, Request
  <2>2. CASE RegStartMode(w)
      BY <1>r, <1>m, <2>2 DEF RegStartMode
  <2>3. CASE RegStartUser(w)
    <3>1. ASSUME NEW n, NEW u, req' = [req EXCEPT ![w].id = n, ![w].uid = u]
          PROVE  req'[w].doc = req[w].doc
        BY <1>q, <3>1 DEF Request
    <3> QED
        BY <2>3, <3>1 DEF RegStartUser
  <2>4. CASE RegStartCode(w) \/ RegStartRemember(w) \/ RegStartInsert(w)
      BY <1>r, <2>4 DEF RegStartCode, RegStartRemember, RegStartInsert
  <2> QED
      BY <1>1, <2>1, <2>2, <2>3, <2>4 DEF RegisterStart
<1>2. CASE RegFinishTake(w)
  <2>1. ASSUME NEW c, NEW k, NEW t,
               req' = [req EXCEPT ![w] = [@ EXCEPT !.mode = c.mode, !.uid = c.uid,
                                                   !.key = {k}, !.token = t]]
        PROVE  req'[w].doc = req[w].doc
      BY <1>q, <2>1 DEF Request
  <2> QED
      BY <1>2, <2>1 DEF RegFinishTake
<1>3. CASE LoginFinishTake(w)
  <2>1. ASSUME NEW k, req' = [req EXCEPT ![w].mode = "Login", ![w].key = {k}]
        PROVE  req'[w].doc = req[w].doc
      BY <1>q, <2>1 DEF Request
  <2> QED
      BY <1>3, <2>1 DEF LoginFinishTake
<1>4. CASE \/ RegFinishPush(w) \/ RegFinishRollback(w) \/ RegFinishClear(w) \/ RegFinishBurn(w)
           \/ LoginStart(w) \/ NewSession(w) \/ Refuse(w)
    BY <1>r, <1>4 DEF RegFinishPush, RegFinishRollback, RegFinishClear, RegFinishBurn,
       LoginStart, NewSession, Refuse, state
<1>5. CASE Persist(w)
  <2>1. CASE PersistSnapshot(w)
      BY <1>q, <2>1 DEF PersistSnapshot, Snapshot, Request
  <2>2. CASE PersistOpen(w)
      BY <2>2, DocKept DEF PersistOpen
  <2>3. CASE PersistWrite(w)
      BY <2>3 DEF PersistWrite
  <2> QED
      BY <1>c, <1>5, <2>1, <2>2, <2>3 DEF Persist, PersistRename, PersistRenameLost, PersistFault
<1> QED
    BY <1>1, <1>2, <1>3, <1>4, <1>5 DEF Handle, RegisterFinish

\* Contents are kept, emptied, cut short, or what some handler's snapshot says.
Contents(i) == {file[i], Empty, Torn} \cup {Whole(req[w].doc) : w \in Handlers}

LEMMA FileMoved ==
    ASSUME Typed, [Step]_state, NEW i \in Inodes PROVE file'[i] \in Contents(i)
<1> USE DEF Contents
<1>0. file \in [Inodes -> Content]
    BY DEF Typed, StateOK
<1>1. \A f, used : Freed(f, used)[i] \in {f[i], Empty}
    BY DEF Freed
<1>2. ASSUME NEW w \in Handlers, Persist(w) PROVE file'[i] \in Contents(i)
  <2>1. CASE PersistSnapshot(w) \/ PersistOpen(w)
      BY <1>0, <2>1 DEF PersistSnapshot, PersistOpen, disk
  <2>2. CASE PersistWrite(w)
      BY <1>0, <2>2, ContentsTyped DEF PersistWrite
  <2>3. CASE PersistRename(w) \/ PersistRenameLost(w)
      BY <1>1, <2>3 DEF PersistRename, PersistRenameLost
  <2>4. CASE PersistFault(w)
    <3>1. PICK f \in {file} \cup {[file EXCEPT ![j] = Torn] :
                                   j \in IF pc[w] = "write" THEN {req[w].fd} ELSE {}} :
            file' = Freed(f, UsedBy(w, path, linked, tmp))
        BY <2>4 DEF PersistFault
    <3>2. f[i] \in {file[i], Torn}
        BY <1>0, <3>1
    <3> QED
        BY <1>1, <3>1, <3>2
  <2> QED
      BY <1>2, <2>1, <2>2, <2>3, <2>4 DEF Persist
<1>3. ASSUME NEW w \in Handlers, Handle(w), ~ Persist(w) PROVE file' = file
    BY <1>3, Zenon DEF Handle, RegisterStart, RegisterFinish, RegStartSession, RegStartMode,
       RegStartCode, RegStartUser, RegStartRemember, RegStartInsert, RegFinishTake,
       RegFinishPush, RegFinishRollback, RegFinishClear, RegFinishBurn, LoginStart,
       LoginFinishTake, NewSession, Refuse, state, disk
<1>4. CASE FlushDirectory \/ Crash
    BY <1>1, <1>4 DEF FlushDirectory, Crash
<1>5. CASE Lapse \/ EndSession \/ Start \/ StartRefused \/ UNCHANGED state
    BY <1>5 DEF Lapse, EndSession, Start, StartRefused, state, disk
<1> QED
    BY <1>2, <1>3, <1>4, <1>5 DEF Step

\* Snapshots and files only ever move: whatever holds of all of them, and of what
\* is in memory, keeps holding of them.
LEMMA CopiesMoved ==
    ASSUME Typed, [Step]_state
    PROVE  /\ \A w \in Handlers : req'[w].doc \in {req[w].doc, NoDocument, Snapshot}
           /\ \A i \in Inodes : file'[i].doc \in {file[i].doc, NoDocument}
                                                  \cup {req[w].doc : w \in Handlers}
<1>1. \A i \in Inodes : file'[i].doc \in {file[i].doc, NoDocument} \cup {req[w].doc : w \in Handlers}
    BY FileMoved DEF Contents, Empty, Torn, Whole
<1>2. ASSUME NEW w \in Handlers PROVE req'[w].doc \in {req[w].doc, NoDocument, Snapshot}
  <2>1. ASSUME NEW v \in Handlers, Handle(v) PROVE req'[w].doc \in {req[w].doc, NoDocument, Snapshot}
      BY <2>1, DocMoved, Others
  <2>2. CASE Crash
      BY <2>2 DEF Crash, NoRequest
  <2>3. CASE Lapse \/ EndSession \/ FlushDirectory \/ Start \/ StartRefused \/ UNCHANGED state
      BY <2>3 DEF Lapse, EndSession, FlushDirectory, Start, StartRefused, state
  <2> QED
      BY <2>1, <2>2, <2>3 DEF Step
<1> QED
    BY <1>1, <1>2

\* What becomes of the list in memory.
LEMMA ListMoved ==
    ASSUME [Step]_state
    PROVE  \/ UNCHANGED passkeys
           \/ \E w \in Handlers : RegFinishPush(w) \/ RegFinishRollback(w)
           \/ Crash \/ Start
<1> USE DEF memory
<1>1. ASSUME NEW w \in Handlers, Handle(w), ~ RegFinishPush(w), ~ RegFinishRollback(w)
      PROVE  UNCHANGED passkeys
    BY <1>1, Zenon DEF Handle, RegisterStart, RegisterFinish, RegStartSession, RegStartMode,
       RegStartCode, RegStartUser, RegStartRemember, RegStartInsert, RegFinishTake,
       RegFinishClear, RegFinishBurn, LoginStart, LoginFinishTake, NewSession, Refuse, state,
       Persist, PersistSnapshot, PersistOpen, PersistWrite, PersistRename, PersistRenameLost,
       PersistFault
<1>2. CASE Lapse \/ EndSession \/ FlushDirectory \/ StartRefused \/ UNCHANGED state
    BY <1>2 DEF Lapse, EndSession, FlushDirectory, StartRefused, state
<1> QED
    BY <1>1, <1>2 DEF Step

\* A roll-back leaves a prefix of the list.
LEMMA RolledBackPrefix ==
    ASSUME NEW keys \in Seq(Credential)
    PROVE  \A i \in 1 .. Len(RolledBack(keys)) :
              i \in 1 .. Len(keys) /\ RolledBack(keys)[i] = keys[i]
<1>1. Len(keys) \in Nat
    OBVIOUS
<1> QED
    BY <1>1 DEF RolledBack

--------------------------------------------------------------------------------
(* At most one credential ever came in through the enrolment code: not in   *)
(* memory, not in a snapshot and not in a file.                             *)

OneBootstrapInv ==
    /\ Typed /\ OneBootstrap
    /\ \A w \in Handlers : FirstOnly(req[w].doc.passkeys)
    /\ \A i \in Inodes : FirstOnly(file[i].doc.passkeys)

LEMMA EmptyFirstOnly == FirstOnly(<< >>) /\ FirstOnly(NoDocument.passkeys)
BY DEF FirstOnly, NoDocument

\* The re-check under the lock is what keeps a second bootstrap out.
LEMMA OneBootstrapPush ==
    ASSUME Typed, OneBootstrap, NEW w \in Handlers, RegFinishPush(w) PROVE OneBootstrap'
<1>0. passkeys \in Seq(Credential)
    BY DEF Typed, StateOK
<1>1. ASSUME NEW k \in req[w].key, Authorized(req[w].mode, req[w].token),
             passkeys' = Append(passkeys, [id |-> k, how |-> req[w].mode, uid |-> req[w].uid])
      PROVE  OneBootstrap'
  <2>1. Len(passkeys') = Len(passkeys) + 1 /\ Len(passkeys) \in Nat
      BY <1>0, <1>1
  <2>2. \A i \in 1 .. Len(passkeys) : passkeys'[i] = passkeys[i]
      BY <1>0, <1>1
  <2>3. passkeys'[Len(passkeys) + 1].how = req[w].mode
      BY <1>0, <1>1
  <2>4. req[w].mode = "Bootstrap" => Len(passkeys) = 0
      BY <1>1 DEF Authorized
  <2>5. FirstOnly(passkeys)
      BY DEF OneBootstrap
  <2>6. ASSUME NEW i \in 1 .. Len(passkeys'), passkeys'[i].how = "Bootstrap" PROVE i = 1
      BY <2>1, <2>2, <2>3, <2>4, <2>5, <2>6 DEF FirstOnly
  <2> QED
      BY <2>6 DEF OneBootstrap, FirstOnly
<1>2. ASSUME UNCHANGED passkeys PROVE OneBootstrap'
    BY <1>2 DEF OneBootstrap, FirstOnly
<1> QED
    BY <1>1, <1>2 DEF RegFinishPush

LEMMA OneBootstrapNext == OneBootstrapInv /\ [Step]_state => OneBootstrapInv'
<1> SUFFICES ASSUME OneBootstrapInv, [Step]_state PROVE OneBootstrapInv'
    OBVIOUS
<1>0. Typed /\ Typed' /\ passkeys \in Seq(Credential) /\ path \in Inodes \cup {NoInode}
    BY TypedNext DEF OneBootstrapInv, Typed, StateOK
<1>1. ASSUME NEW w \in Handlers PROVE FirstOnly(req'[w].doc.passkeys)
  <2>1. req'[w].doc \in {req[w].doc, NoDocument, Snapshot}
      BY <1>0, CopiesMoved
  <2> QED
      BY <2>1, EmptyFirstOnly DEF Snapshot, OneBootstrapInv, OneBootstrap
<1>2. ASSUME NEW i \in Inodes PROVE FirstOnly(file'[i].doc.passkeys)
  <2>1. file'[i].doc \in {file[i].doc, NoDocument} \cup {req[w].doc : w \in Handlers}
      BY <1>0, CopiesMoved
  <2> QED
      BY <2>1, EmptyFirstOnly DEF OneBootstrapInv
<1>3. OneBootstrap'
  <2>1. ASSUME FirstOnly(passkeys') PROVE OneBootstrap'
      BY <2>1 DEF OneBootstrap, FirstOnly
  <2>2. CASE UNCHANGED passkeys
      BY <2>1, <2>2 DEF OneBootstrapInv, OneBootstrap
  <2>3. ASSUME NEW w \in Handlers, RegFinishPush(w) PROVE OneBootstrap'
      BY <1>0, <2>3, OneBootstrapPush DEF OneBootstrapInv
  <2>4. ASSUME NEW w \in Handlers, RegFinishRollback(w) PROVE FirstOnly(passkeys')
    <3>1. passkeys' = RolledBack(passkeys) /\ FirstOnly(passkeys)
        BY <2>4 DEF RegFinishRollback, OneBootstrapInv, OneBootstrap
    <3> QED
        BY <1>0, <3>1, RolledBackPrefix DEF FirstOnly
  <2>5. CASE Crash
      BY <2>1, <2>5, EmptyFirstOnly DEF Crash
  <2>6. CASE Start
    <3>1. FirstOnly(Saved.passkeys)
        BY <1>0, EmptyFirstOnly DEF Saved, OneBootstrapInv
    <3> QED
        BY <2>1, <2>6, <3>1 DEF Start
  <2> QED
      BY <2>1, <2>2, <2>3, <2>4, <2>5, <2>6, ListMoved
<1>4. (\A w \in Handlers : FirstOnly(req[w].doc.passkeys))'
    BY <1>1 DEF FirstOnly
<1>5. (\A i \in Inodes : FirstOnly(file[i].doc.passkeys))'
    BY <1>2 DEF FirstOnly
<1> QED
    BY <1>0, <1>3, <1>4, <1>5 DEF OneBootstrapInv

\* Whatever handlers do together, a ceremony parked while the account was
\* unclaimed never adds a second admin (src/auth.rs, register_finish).
THEOREM OnlyOneBootstrap == Spec => []OneBootstrap
<1>1. Init => OneBootstrapInv
  <2> SUFFICES ASSUME Init PROVE OneBootstrapInv
      OBVIOUS
  <2>1. NoRequest.doc = NoDocument /\ Empty.doc = NoDocument
      BY DEF NoRequest, Empty
  <2> QED
      BY <2>1, TypedInit, EmptyFirstOnly DEF Init, OneBootstrapInv, OneBootstrap
<1>2. OneBootstrapInv /\ [Next]_vars => OneBootstrapInv'
    BY StepOf, OneBootstrapNext
<1>3. OneBootstrapInv => OneBootstrap
    BY DEF OneBootstrapInv
<1> QED
    BY <1>1, <1>2, <1>3, PTL DEF Spec

--------------------------------------------------------------------------------
(* Nobody is locked out.                                                    *)
(* Every enrolment between its push and the end of its persist() may still  *)
(* take one credential off the list, and not always its own: the list must  *)
(* be long enough to pay for all of them, and for the credential that       *)
(* closed enrolment.                                                        *)

InFlight == {w \in Handlers : pc[w] \in PersistSteps \cup {"failed"} /\ req[w].mode # "Login"}
Claimed == ~ codeOpen \/ \E w \in Handlers : pc[w] \in {"clear", "burn"}
Owed == Cardinality(InFlight) + (IF Claimed THEN 1 ELSE 0)

\* A process that is down has no handlers.
DownIsIdle == ~ running => \A w \in Handlers : pc[w] = "idle"
PaidFor == running => Len(passkeys) >= Owed

PaidForInv == Typed /\ DownIsIdle /\ PaidFor

LEMMA InFlightFinite == IsFiniteSet(InFlight) /\ Cardinality(InFlight) \in Nat /\ Owed \in Nat
<1>1. InFlight \subseteq Handlers
    BY DEF InFlight
<1>2. IsFiniteSet(InFlight)
    BY <1>1, HandlersAssumption, FS_Subset
<1> QED
    BY <1>2, FS_CardinalityType DEF Owed

\* A step of a running process that neither starts nor ends an enrolment and
\* leaves the code open if it was.
LEMMA PaidForKept ==
    ASSUME PaidForInv, running, Typed', InFlight' = InFlight, Claimed' => Claimed,
           UNCHANGED <<running, passkeys>>
    PROVE  PaidForInv'
<1>1. Owed' = Cardinality(InFlight) + (IF Claimed' THEN 1 ELSE 0)
    BY DEF Owed
<1>2. Owed' <= Owed
    BY <1>1, InFlightFinite DEF Owed
<1>3. Owed' \in Nat
    BY <1>1, InFlightFinite
<1> QED
    BY <1>2, <1>3, InFlightFinite DEF PaidForInv, PaidFor, DownIsIdle, Typed, StateOK

\* A step that ends one enrolment: whatever it does with the code or with the
\* last credential is paid for.
LEMMA PaidForEnds ==
    ASSUME PaidForInv, running, Typed', UNCHANGED running,
           NEW w \in InFlight, InFlight' = InFlight \ {w},
           \/ UNCHANGED passkeys
           \/ Len(passkeys') = Len(passkeys) - 1 /\ (Claimed' => Claimed)
    PROVE  PaidForInv'
<1>1. Cardinality(InFlight') = Cardinality(InFlight) - 1
    BY InFlightFinite, FS_RemoveElement
<1>2. Len(passkeys) \in Nat /\ Len(passkeys) >= Owed
    BY DEF PaidForInv, PaidFor, Typed, StateOK
<1>3. Len(passkeys') >= Cardinality(InFlight) - 1 + (IF Claimed' THEN 1 ELSE 0)
    BY <1>2, InFlightFinite DEF Owed
<1>4. Len(passkeys') >= Owed'
    BY <1>1, <1>3 DEF Owed
<1> QED
    BY <1>4 DEF PaidForInv, PaidFor, DownIsIdle

\* Where the handlers are decides what is owed.
LEMMA InFlightKept ==
    ASSUME Typed, Typed', NEW w \in Handlers, NEW step, Goto(w, step),
           \A v \in Handlers \ {w} : req'[v] = req[v],
           w \in InFlight <=> (step \in PersistSteps \cup {"failed"} /\ req'[w].mode # "Login")
    PROVE  InFlight' = InFlight
BY DEF InFlight, Goto, Typed, StateOK

\* ... and a code that stays as it is stays unclaimed.
LEMMA ClaimedKept ==
    ASSUME Typed, NEW w \in Handlers, NEW step, Goto(w, step), UNCHANGED codeOpen,
           step \in {"clear", "burn"} => pc[w] \in {"clear", "burn"}
    PROVE  Claimed' => Claimed
<1>1. \A v \in Handlers : pc'[v] \in {"clear", "burn"} => pc[v] \in {"clear", "burn"}
    BY DEF Goto, Typed, StateOK
<1> QED
    BY <1>1, Zenon DEF Claimed

\* The shape of most steps.
LEMMA PaidForStep ==
    ASSUME PaidForInv, running, Typed', NEW w \in Handlers, NEW step, Goto(w, step),
           UNCHANGED <<running, passkeys, codeOpen>>,
           \A v \in Handlers \ {w} : req'[v] = req[v],
           w \in InFlight <=> (step \in PersistSteps \cup {"failed"} /\ req'[w].mode # "Login"),
           step \in {"clear", "burn"} => pc[w] \in {"clear", "burn"}
    PROVE  PaidForInv'
<1>1. InFlight' = InFlight
    BY InFlightKept DEF PaidForInv
<1>2. Claimed' => Claimed
    BY ClaimedKept DEF PaidForInv
<1> QED
    BY <1>1, <1>2, PaidForKept

\* A handler outside persist() answers.
LEMMA PaidForRespond ==
    ASSUME PaidForInv, running, Typed', NEW w \in Handlers, Respond(w), w \notin InFlight,
           UNCHANGED <<running, passkeys, codeOpen>>
    PROVE  PaidForInv'
<1>1. DOMAIN req = Handlers
    BY RequestFields DEF PaidForInv, Requests
<1>2. \A v \in Handlers \ {w} : req'[v] = req[v]
    BY <1>1 DEF Respond
<1>3. Goto(w, "idle")
    BY DEF Respond
<1> QED
    BY <1>2, <1>3, PaidForStep DEF PersistSteps

LEMMA PaidForRegisterStart ==
    ASSUME PaidForInv, Typed', NEW w \in Handlers, RegisterStart(w) PROVE PaidForInv'
<1> USE DEF memory, maps, disk, counters
<1>1. DOMAIN req = Handlers
    BY RequestFields DEF PaidForInv, Requests
<1>2. running /\ UNCHANGED <<running, passkeys, codeOpen>> /\ pc[w] \in {"idle"} \cup RegStartSteps
    BY DEF RegisterStart, RegStartSession, RegStartMode, RegStartCode, RegStartUser,
           RegStartRemember, RegStartInsert, Idle, At, RegStartSteps
<1>3. w \notin InFlight
    BY <1>2 DEF InFlight, RegStartSteps, PersistSteps
<1>4. ASSUME NEW step \in RegStartSteps, Goto(w, step), \A v \in Handlers \ {w} : req'[v] = req[v]
      PROVE  PaidForInv'
    BY <1>2, <1>3, <1>4, PaidForStep DEF RegStartSteps, PersistSteps
<1>5. ASSUME Respond(w) PROVE PaidForInv'
    BY <1>2, <1>3, <1>5, PaidForRespond
<1>6. CASE RegStartSession(w)
    BY <1>1, <1>4, <1>6 DEF RegStartSession, RegStartSteps
<1>7. CASE RegStartMode(w)
    BY <1>1, <1>4, <1>5, <1>7 DEF RegStartMode, RegStartSteps
<1>8. CASE RegStartCode(w)
    BY <1>4, <1>5, <1>8 DEF RegStartCode, RegStartSteps
<1>9. CASE RegStartUser(w)
    BY <1>1, <1>4, <1>9 DEF RegStartUser, RegStartSteps
<1>10. CASE RegStartRemember(w)
    BY <1>4, <1>10 DEF RegStartRemember, RegStartSteps
<1>11. CASE RegStartInsert(w)
    BY <1>5, <1>11 DEF RegStartInsert
<1> QED
    BY <1>6, <1>7, <1>8, <1>9, <1>10, <1>11 DEF RegisterStart

\* A push adds the credential it may have to give back.
LEMMA PaidForPush ==
    ASSUME PaidForInv, Typed', NEW w \in Handlers, RegFinishPush(w) PROVE PaidForInv'
<1> USE DEF memory, maps, disk, counters
<1>1. running /\ UNCHANGED <<running, codeOpen>> /\ pc[w] = "push" /\ req[w].mode # "Login"
    BY DEF RegFinishPush, At, PaidForInv, Typed, ModeKnown, ModeSteps, Modes
<1>2. w \notin InFlight
    BY <1>1 DEF InFlight, PersistSteps
<1>3. ASSUME Respond(w), UNCHANGED passkeys PROVE PaidForInv'
    BY <1>1, <1>2, <1>3, PaidForRespond
<1>4. ASSUME NEW c, passkeys' = Append(passkeys, c), Goto(w, "snapshot"), UNCHANGED req
      PROVE  PaidForInv'
  <2>1. InFlight' = InFlight \cup {w}
      BY <1>1, <1>4 DEF InFlight, PersistSteps, Goto, PaidForInv, Typed, StateOK
  <2>2. Cardinality(InFlight') = Cardinality(InFlight) + 1
      BY <1>2, <2>1, InFlightFinite, FS_AddElement
  <2>3. Claimed' => Claimed
      BY <1>1, <1>4, ClaimedKept DEF PaidForInv
  <2>4. passkeys \in Seq(Credential) /\ Len(passkeys) \in Nat /\ Len(passkeys) >= Owed
      BY <1>1 DEF PaidForInv, PaidFor, Typed, StateOK
  <2>5. Len(passkeys') = Len(passkeys) + 1
      BY <1>4, <2>4
  <2>6. Len(passkeys') >= Cardinality(InFlight) + 1 + (IF Claimed' THEN 1 ELSE 0)
      BY <2>3, <2>4, <2>5, InFlightFinite DEF Owed
  <2>7. Len(passkeys') >= Owed'
      BY <2>2, <2>6 DEF Owed
  <2> QED
      BY <1>1, <2>7 DEF PaidForInv, PaidFor, DownIsIdle
<1> QED
    BY <1>3, <1>4 DEF RegFinishPush

LEMMA PaidForStutter ==
    ASSUME PaidForInv, Typed', UNCHANGED <<running, passkeys, codeOpen, pc, req>>
    PROVE  PaidForInv'
<1>1. InFlight' = InFlight
    BY DEF InFlight
<1>2. Claimed' => Claimed
    BY Zenon DEF Claimed
<1>3. CASE running
    BY <1>1, <1>2, <1>3, PaidForKept
<1>4. CASE ~ running
    BY <1>4 DEF PaidForInv, PaidFor, DownIsIdle
<1> QED
    BY <1>3, <1>4

\* The rest of /auth/register/finish.
LEMMA PaidForRegisterFinish ==
    ASSUME PaidForInv, Typed', NEW w \in Handlers,
           RegFinishTake(w) \/ RegFinishRollback(w) \/ RegFinishClear(w) \/ RegFinishBurn(w)
    PROVE  PaidForInv'
<1> USE DEF memory, maps, disk, counters
<1>1. DOMAIN req = Handlers
    BY RequestFields DEF PaidForInv, Requests
<1>2. CASE RegFinishTake(w)
  <2>1. running /\ UNCHANGED <<running, passkeys, codeOpen>> /\ w \notin InFlight
      BY <1>2 DEF RegFinishTake, Idle, InFlight, PersistSteps
  <2>2. ASSUME Goto(w, "push"), \A v \in Handlers \ {w} : req'[v] = req[v] PROVE PaidForInv'
      BY <2>1, <2>2, PaidForStep DEF PersistSteps
  <2>3. ASSUME UNCHANGED <<pc, req>> PROVE PaidForInv'
      BY <2>1, <2>3, PaidForStutter
  <2> QED
      BY <1>1, <1>2, <2>2, <2>3 DEF RegFinishTake
<1>3. CASE RegFinishRollback(w)
  <2>1. running /\ UNCHANGED <<running, codeOpen>> /\ w \in InFlight /\ Goto(w, "idle")
      BY <1>3 DEF RegFinishRollback, At, InFlight, Respond
  <2>2. \A v \in Handlers \ {w} : req'[v] = req[v]
      BY <1>1, <1>3 DEF RegFinishRollback, Respond
  <2>3. InFlight' = InFlight \ {w}
      BY <2>1, <2>2 DEF InFlight, PersistSteps, Goto, PaidForInv, Typed, StateOK
  <2>4. Claimed' => Claimed
      BY <2>1, ClaimedKept DEF PaidForInv
  <2>5. Cardinality(InFlight) >= 1
      BY <2>1, InFlightFinite, FS_EmptySet
  <2>6. passkeys \in Seq(Credential) /\ Len(passkeys) \in Nat /\ Len(passkeys) >= 1
      BY <2>1, <2>5, InFlightFinite DEF PaidForInv, PaidFor, Owed, Typed, StateOK
  <2>7. Len(passkeys') = Len(passkeys) - 1
    <3>1. passkeys' = SubSeq(passkeys, 1, Len(passkeys) - 1)
        BY <1>3 DEF RegFinishRollback, RolledBack
    <3>2. \A i \in 1 .. Len(passkeys) - 1 : passkeys[i] \in Credential
        BY <2>6
    <3>3. 1 \in Int /\ Len(passkeys) - 1 \in Int
        BY <2>6
    <3>4. Len(passkeys') = IF 1 <= Len(passkeys) - 1 THEN Len(passkeys) - 1 - 1 + 1 ELSE 0
        BY <3>1, <3>2, <3>3, SubSeqProperties
    <3> DEFINE n == Len(passkeys)
    <3>5. n \in Nat /\ n >= 1
        BY <2>6
    <3>6. Len(passkeys') = IF 1 <= n - 1 THEN n - 1 - 1 + 1 ELSE 0
        BY <3>4
    <3>7. Len(passkeys') = n - 1
      <4> HIDE DEF n
      <4> QED
          BY <3>5, <3>6
    <3> QED
        BY <3>7
  <2> QED
      BY <2>1, <2>3, <2>4, <2>7, PaidForEnds
<1>4. CASE RegFinishClear(w)
    BY <1>4, PaidForStep DEF RegFinishClear, At, InFlight, PersistSteps
<1>5. CASE RegFinishBurn(w)
  <2>1. running /\ UNCHANGED <<running, passkeys>> /\ Goto(w, "session") /\ UNCHANGED req
      BY <1>5 DEF RegFinishBurn, At
  <2>2. Claimed /\ w \notin InFlight
      BY <1>5, Zenon DEF RegFinishBurn, At, Claimed, InFlight, PersistSteps
  <2>3. InFlight' = InFlight
      BY <2>1, <2>2, InFlightKept DEF PaidForInv, PersistSteps
  <2> QED
      BY <2>1, <2>2, <2>3, PaidForKept
<1> QED
    BY <1>2, <1>3, <1>4, <1>5

LEMMA PaidForLogin ==
    ASSUME PaidForInv, Typed', NEW w \in Handlers,
           LoginStart(w) \/ LoginFinishTake(w) \/ NewSession(w) \/ Refuse(w)
    PROVE  PaidForInv'
<1> USE DEF memory, maps, disk, counters
<1>1. DOMAIN req = Handlers /\ req[w] \in Request
    BY RequestFields DEF PaidForInv, Requests
<1>2. CASE LoginStart(w) \/ Refuse(w)
    BY <1>2, PaidForStutter DEF LoginStart, Refuse, state
<1>3. CASE LoginFinishTake(w)
  <2>1. running /\ UNCHANGED <<running, passkeys, codeOpen>> /\ w \notin InFlight
      BY <1>3 DEF LoginFinishTake, Idle, InFlight, PersistSteps
  <2>2. ASSUME NEW k, Goto(w, "snapshot"), req' = [req EXCEPT ![w].mode = "Login", ![w].key = {k}]
        PROVE  PaidForInv'
    <3>1. req'[w].mode = "Login" /\ \A v \in Handlers \ {w} : req'[v] = req[v]
        BY <1>1, <2>2 DEF Request
    <3> QED
        BY <2>1, <2>2, <3>1, PaidForStep
  <2>3. ASSUME UNCHANGED <<pc, req>> PROVE PaidForInv'
      BY <2>1, <2>3, PaidForStutter
  <2> QED
      BY <1>3, <2>2, <2>3 DEF LoginFinishTake
<1>4. CASE NewSession(w)
  <2>1. running /\ UNCHANGED <<running, passkeys, codeOpen>> /\ w \notin InFlight
      BY <1>4 DEF NewSession, At, InFlight, PersistSteps
  <2> QED
      BY <1>4, <2>1, PaidForRespond DEF NewSession
<1> QED
    BY <1>2, <1>3, <1>4

\* A save that succeeds ends an enrolment, one that fails leaves it in flight.
LEMMA PaidForPersist ==
    ASSUME PaidForInv, Typed', NEW w \in Handlers, Persist(w) PROVE PaidForInv'
<1> USE DEF memory, maps, disk, counters
<1>1. DOMAIN req = Handlers /\ req[w] \in Request
    BY RequestFields DEF PaidForInv, Requests
<1>2. running /\ UNCHANGED <<running, passkeys, codeOpen>> /\ pc[w] \in PersistSteps
    BY DEF Persist, PersistSnapshot, PersistOpen, PersistWrite, PersistRename,
           PersistRenameLost, PersistFault, At, PersistSteps
<1>3. w \in InFlight <=> req[w].mode # "Login"
    BY <1>2 DEF InFlight
<1>4. ASSUME NEW step \in PersistSteps \cup {"failed"}, Goto(w, step),
             \A v \in Handlers \ {w} : req'[v] = req[v], req'[w].mode = req[w].mode
      PROVE  PaidForInv'
    BY <1>2, <1>3, <1>4, PaidForStep DEF PersistSteps
<1>5. CASE PersistSnapshot(w)
    BY <1>1, <1>4, <1>5 DEF PersistSnapshot, PersistSteps, Request
<1>6. CASE PersistOpen(w)
  <2>1. PICK i : req' = [req EXCEPT ![w].fd = i]
      BY <1>6 DEF PersistOpen
  <2>2. req'[w].mode = req[w].mode /\ \A v \in Handlers \ {w} : req'[v] = req[v]
      BY <1>1, <2>1 DEF Request
  <2> QED
      BY <1>4, <1>6, <2>2 DEF PersistOpen, PersistSteps
<1>7. CASE PersistWrite(w)
    BY <1>4, <1>7 DEF PersistWrite, PersistSteps
<1>8. Closed(w) => req'[w].mode = req[w].mode /\ \A v \in Handlers \ {w} : req'[v] = req[v]
    BY <1>1 DEF Closed, Request
<1>9. CASE PersistRenameLost(w) \/ PersistFault(w)
  <2>1. Goto(w, AfterPersist(w, FALSE)) /\ Closed(w)
      BY <1>9 DEF PersistRenameLost, PersistFault
  <2>2. AfterPersist(w, FALSE) = "failed"
      BY DEF AfterPersist
  <2> QED
      BY <1>4, <1>8, <2>1, <2>2
<1>10. CASE PersistRename(w)
  <2>1. Goto(w, AfterPersist(w, TRUE)) /\ AfterPersist(w, TRUE) \in {"clear", "session"}
      BY <1>10 DEF PersistRename, AfterPersist
  <2>2. \A v \in Handlers \ {w} : req'[v] = req[v]
      BY <1>8, <1>10 DEF PersistRename
  <2>3. CASE w \in InFlight
    <3>1. InFlight' = InFlight \ {w}
        BY <2>1, <2>2, <2>3 DEF InFlight, PersistSteps, Goto, PaidForInv, Typed, StateOK
    <3> QED
        BY <1>2, <2>3, <3>1, PaidForEnds
  <2>4. CASE w \notin InFlight
    <3>1. AfterPersist(w, TRUE) = "session"
        BY <1>3, <2>4 DEF AfterPersist
    <3> QED
        BY <1>2, <2>1, <2>2, <2>4, <3>1, PaidForStep DEF PersistSteps
  <2> QED
      BY <2>3, <2>4
<1> QED
    BY <1>5, <1>6, <1>7, <1>9, <1>10 DEF Persist

LEMMA PaidForEnvironment ==
    ASSUME PaidForInv, Typed', Environment PROVE PaidForInv'
<1> USE DEF memory, maps, disk, counters
<1>1. CASE Lapse \/ EndSession \/ FlushDirectory \/ StartRefused
    BY <1>1, PaidForStutter DEF Lapse, EndSession, FlushDirectory, StartRefused, state
<1>2. CASE Crash
    BY <1>2 DEF Crash, PaidForInv, PaidFor, DownIsIdle
<1>3. CASE Start
  <2>1. \A w \in Handlers : pc'[w] = "idle"
      BY <1>3 DEF Start, PaidForInv, DownIsIdle
  <2>2. InFlight' = {}
      BY <2>1 DEF InFlight, PersistSteps
  <2>3. codeOpen' = (passkeys' = << >>)
      BY <1>3 DEF Start
  <2>4. Claimed' => passkeys' # << >>
      BY <2>1, <2>3 DEF Claimed
  <2>5. Cardinality(InFlight') = 0
      BY <2>2, FS_EmptySet
  <2>6. passkeys' \in Seq(Credential) /\ Len(passkeys') \in Nat
      BY DEF Typed, StateOK
  <2>7. Len(passkeys') >= 0 + (IF Claimed' THEN 1 ELSE 0)
      BY <2>4, <2>6
  <2> QED
      BY <2>1, <2>5, <2>7 DEF PaidForInv, PaidFor, DownIsIdle, Owed
<1> QED
    BY <1>1, <1>2, <1>3 DEF Environment

LEMMA PaidForInit == Init => PaidForInv
BY TypedInit DEF Init, PaidForInv, PaidFor, DownIsIdle

LEMMA PaidForNext == PaidForInv /\ [Step]_state => PaidForInv'
<1> SUFFICES ASSUME PaidForInv, [Step]_state PROVE PaidForInv'
    OBVIOUS
<1>1. Typed'
    BY TypedNext DEF PaidForInv
<1>2. ASSUME NEW w \in Handlers, Handle(w) PROVE PaidForInv'
    BY <1>1, <1>2, PaidForRegisterStart, PaidForRegisterFinish, PaidForPush, PaidForPersist,
       PaidForLogin DEF Handle, RegisterFinish
<1>3. CASE UNCHANGED state
    BY <1>1, <1>3, PaidForStutter DEF state, memory
<1> QED
    BY <1>1, <1>2, <1>3, PaidForEnvironment DEF Step, Environment

\* The enrolment code is only burned for good while some passkey is left, however
\* pushes, failing saves and roll-backs of any number of handlers interleave
\* (src/auth.rs, register_finish).
THEOREM NobodyLockedOut == Spec => []NotLockedOut
<1>1. PaidForInv => NotLockedOut
  <2> SUFFICES ASSUME PaidForInv, running, ~ codeOpen PROVE passkeys # << >>
      BY DEF NotLockedOut
  <2>1. Claimed
      BY Zenon DEF Claimed
  <2>2. Len(passkeys) >= 1
      BY <2>1, InFlightFinite DEF PaidForInv, PaidFor, Owed, Typed, StateOK
  <2> QED
      BY <2>2
<1>2. PaidForInv /\ [Next]_vars => PaidForInv'
    BY StepOf, PaidForNext
<1> QED
    BY <1>1, <1>2, PaidForInit, PTL DEF Spec

--------------------------------------------------------------------------------
(* A process that is down has nothing in memory.                            *)

Down ==
    ~ running => /\ passkeys = << >> /\ \A w \in Handlers : pc[w] = "idle"
                 /\ reg = {} /\ auth = {} /\ sessions = {}

\* Handlers only move while the process runs.
LEMMA HandlesUp ==
    ASSUME NEW w \in Handlers, Handle(w) PROVE running /\ UNCHANGED running
<1> USE DEF memory, Idle, At
<1>1. CASE RegisterStart(w)
    BY <1>1, Zenon DEF RegisterStart, RegStartSession, RegStartMode, RegStartCode,
       RegStartUser, RegStartRemember, RegStartInsert
<1>2. CASE RegisterFinish(w)
    BY <1>2, Zenon DEF RegisterFinish, RegFinishTake, RegFinishPush, RegFinishRollback,
       RegFinishClear, RegFinishBurn
<1>3. CASE Persist(w)
    BY <1>3, Zenon DEF Persist, PersistSnapshot, PersistOpen, PersistWrite, PersistRename,
       PersistRenameLost, PersistFault
<1>4. CASE LoginStart(w) \/ LoginFinishTake(w) \/ NewSession(w) \/ Refuse(w)
    BY <1>4, Zenon DEF LoginStart, LoginFinishTake, NewSession, Refuse, state
<1> QED
    BY <1>1, <1>2, <1>3, <1>4 DEF Handle

LEMMA DownNext == Down /\ [Step]_state => Down'
<1> SUFFICES ASSUME Down, [Step]_state PROVE Down'
    OBVIOUS
<1> USE DEF memory, maps
<1>1. ASSUME NEW w \in Handlers, Handle(w) PROVE Down'
  <2>1. running /\ UNCHANGED running
      BY <1>1, HandlesUp
  <2> QED
      BY <2>1, Zenon DEF Down
<1>2. CASE Crash
    BY <1>2 DEF Crash, Down
<1>3. CASE Start
    BY <1>3, Zenon DEF Start, Down
<1>4. CASE Lapse \/ EndSession \/ FlushDirectory \/ StartRefused \/ UNCHANGED state
  <2>1. /\ (running' <=> running) /\ passkeys' = passkeys /\ pc' = pc
        /\ reg' \subseteq reg /\ auth' \subseteq auth /\ sessions' \subseteq sessions
      BY <1>4 DEF Lapse, EndSession, FlushDirectory, StartRefused, state
  <2>2. CASE running
      BY <2>1, <2>2, Zenon DEF Down
  <2>3. CASE ~ running
    <3>1. /\ passkeys = << >> /\ \A w \in Handlers : pc[w] = "idle"
          /\ reg = {} /\ auth = {} /\ sessions = {}
        BY <2>3, Zenon DEF Down
    <3>2. /\ passkeys' = << >> /\ \A w \in Handlers : pc'[w] = "idle"
          /\ reg' = {} /\ auth' = {} /\ sessions' = {}
        BY <2>1, <3>1
    <3> QED
        BY <3>2, Zenon DEF Down
  <2> QED
      BY <2>2, <2>3
<1> QED
    BY <1>1, <1>2, <1>3, <1>4 DEF Step

Based == Typed /\ Down

LEMMA BasedInit == Init => Based
BY TypedInit DEF Init, Based, Down

LEMMA BasedNext == Based /\ [Step]_state => Based'
BY TypedNext, DownNext DEF Based

\* An answer, and a move that no other field follows.
LEMMA Moves ==
    ASSUME Typed, NEW w \in Handlers
    PROVE  /\ \A step : Goto(w, step) => pc'[w] = step
           /\ Respond(w) => pc'[w] = "idle" /\ req'[w] = NoRequest
           /\ Closed(w) => /\ req'[w].mode = req[w].mode /\ req'[w].key = req[w].key
                           /\ req'[w].uid = req[w].uid
<1>1. pc \in [Handlers -> Steps] /\ req \in Requests /\ DOMAIN req = Handlers
    BY DEF Typed, StateOK, Requests
<1>2. \A step : Goto(w, step) => pc'[w] = step
    BY <1>1 DEF Goto
<1>3. Respond(w) => pc'[w] = "idle" /\ req'[w] = NoRequest
    BY <1>1, <1>2 DEF Respond
<1>4. Closed(w) => /\ req'[w].mode = req[w].mode /\ req'[w].key = req[w].key
                   /\ req'[w].uid = req[w].uid
    BY <1>1 DEF Closed, Requests, Request
<1> QED
    BY <1>2, <1>3, <1>4

--------------------------------------------------------------------------------
(* The user id.  While no two starts have made one up at the same time, the *)
(* handlers that are about to remember one agree on it; everything that     *)
(* carries a user id, the snapshots and the files included, then carries    *)
(* the one the store remembers.                                             *)

\* Every passkey was created for the user id u.
CreatedFor(keys, u) == \A i \in 1 .. Len(keys) : keys[i].uid = u /\ u # 0

\* What a handler that starts or finishes a ceremony carries.
Carries(w) ==
    /\ pc[w] = "rs_remember" => req[w].uid # 0 /\ user \in {0, req[w].uid}
    /\ pc[w] \in {"rs_insert", "push"} => req[w].uid = user /\ user # 0

OneUser ==
    /\ ~ StartsOverlap
    /\ CreatedFor(passkeys, user)
    /\ \A c \in reg : c.uid = user /\ user # 0
    /\ \A w \in Handlers : Carries(w) /\ CreatedFor(req[w].doc.passkeys, req[w].doc.user)
    /\ \A i \in Inodes : CreatedFor(file[i].doc.passkeys, file[i].doc.user)

UserInv == Based /\ ("starts" \notin races => OneUser)

LEMMA NobodysKeys == Ids(<< >>) = {} /\ \A u : CreatedFor(<< >>, u)
BY DEF Ids, CreatedFor

\* The user id is settled by whoever remembers first.
LEMMA UserSettled ==
    ASSUME Typed, OneUser, NEW w \in Handlers, Handle(w)
    PROVE  /\ user' = user \/ (user = 0 /\ pc[w] = "rs_remember" /\ user' = req[w].uid)
           /\ CreatedFor(passkeys, user')
           /\ \A c \in reg : c.uid = user' /\ user' # 0
           /\ \A v \in Handlers \ {w} : Carries(v)'
<1> USE DEF memory
<1>1. user' = user \/ (user = 0 /\ pc[w] = "rs_remember" /\ user' = req[w].uid)
  <2>1. CASE RegStartRemember(w)
      BY <2>1 DEF RegStartRemember, At
  <2>2. CASE ~ RegStartRemember(w)
      BY <2>2, Zenon DEF Handle, RegisterStart, RegisterFinish, RegStartSession, RegStartMode,
         RegStartCode, RegStartUser, RegStartInsert, RegFinishTake, RegFinishPush,
         RegFinishRollback, RegFinishClear, RegFinishBurn, Persist, PersistSnapshot, PersistOpen,
         PersistWrite, PersistRename, PersistRenameLost, PersistFault, LoginStart,
         LoginFinishTake, NewSession, Refuse, state
  <2> QED
      BY <2>1, <2>2
<1>2. CreatedFor(passkeys, user')
    BY <1>1 DEF OneUser, CreatedFor
<1>3. \A c \in reg : c.uid = user' /\ user' # 0
    BY <1>1 DEF OneUser
<1>4. ASSUME NEW v \in Handlers \ {w} PROVE Carries(v)'
  <2>1. pc'[v] = pc[v] /\ req'[v] = req[v] /\ Carries(v)
      BY Others DEF OneUser
  <2>2. pc[v] = "rs_remember" /\ pc[w] = "rs_remember" => req[v].uid = req[w].uid
      BY DEF OneUser, StartsOverlap
  <2> QED
      BY <1>1, <2>1, <2>2 DEF Carries
<1> QED
    BY <1>1, <1>2, <1>3, <1>4

\* The handler that moves carries what it should.
LEMMA CarriesOn ==
    ASSUME Typed, OneUser, NEW w \in Handlers, Handle(w) PROVE Carries(w)'
<1> USE DEF memory
<1>0. /\ req \in Requests /\ DOMAIN req = Handlers /\ req[w] \in Request
      /\ begun \in Nat /\ user \in Nat /\ Carries(w)
    BY DEF Typed, StateOK, Requests, OneUser
<1>1. CASE RegStartUser(w)
  <2> DEFINE u == IF user = 0 THEN begun + 1 ELSE user
  <2>1. pc'[w] = "rs_remember" /\ user' = user /\ req' = [req EXCEPT ![w].id = begun + 1, ![w].uid = u]
      BY <1>1, Moves DEF RegStartUser
  <2>2. u # 0 /\ user \in {0, u}
      BY <1>0
  <2> HIDE DEF u
  <2>3. req'[w].uid = u
      BY <1>0, <2>1 DEF Request
  <2> QED
      BY <2>1, <2>2, <2>3 DEF Carries
<1>2. CASE RegStartRemember(w)
  <2>1. /\ pc[w] = "rs_remember" /\ pc'[w] = "rs_insert" /\ req' = req
        /\ user' = IF user = 0 THEN req[w].uid ELSE user
      BY <1>2, Moves DEF RegStartRemember, At
  <2> QED
      BY <1>0, <2>1 DEF Carries
<1>3. CASE RegFinishTake(w)
  <2>1. PICK c \in reg, k \in Passkeys, t \in sessions \cup {0} :
          \/ /\ Goto(w, "push")
             /\ req' = [req EXCEPT ![w] = [@ EXCEPT !.mode = c.mode, !.uid = c.uid,
                                                    !.key = {k}, !.token = t]]
          \/ UNCHANGED <<pc, req>>
      BY <1>3 DEF RegFinishTake
  <2>2. c.uid = user /\ user # 0 /\ user' = user /\ pc[w] = "idle"
      BY <1>3 DEF OneUser, RegFinishTake, Idle
  <2>3. \/ pc'[w] = "push" /\ req'[w].uid = c.uid
        \/ pc'[w] = "idle"
      BY <1>0, <2>1, <2>2, Moves DEF Request
  <2> QED
      BY <2>2, <2>3 DEF Carries
<1>4. CASE RegStartSession(w) \/ RegStartMode(w) \/ RegStartCode(w) \/ RegStartInsert(w)
  <2>1. pc'[w] \in {"rs_registered", "rs_code", "rs_user", "idle"}
      BY <1>4, Moves DEF RegStartSession, RegStartMode, RegStartCode, RegStartInsert
  <2> QED
      BY <2>1 DEF Carries
<1>5. CASE RegFinishPush(w) \/ RegFinishRollback(w) \/ RegFinishClear(w) \/ RegFinishBurn(w)
  <2>1. pc'[w] \in {"snapshot", "idle", "burn", "session"}
      BY <1>5, Moves DEF RegFinishPush, RegFinishRollback, RegFinishClear, RegFinishBurn
  <2> QED
      BY <2>1 DEF Carries
<1>6. CASE Persist(w)
  <2>1. pc'[w] \in {"open", "write", "rename", "failed", "clear", "session"}
      BY <1>6, Moves DEF Persist, PersistSnapshot, PersistOpen, PersistWrite, PersistRename,
         PersistRenameLost, PersistFault, AfterPersist
  <2> QED
      BY <2>1 DEF Carries
<1>7. CASE LoginStart(w) \/ LoginFinishTake(w) \/ NewSession(w) \/ Refuse(w)
  <2>1. pc'[w] \in {"idle", "snapshot"}
      BY <1>7, Moves DEF LoginStart, LoginFinishTake, NewSession, Refuse, state, Idle
  <2> QED
      BY <2>1 DEF Carries
<1> QED
    BY <1>1, <1>2, <1>3, <1>4, <1>5, <1>6, <1>7 DEF Handle, RegisterStart, RegisterFinish

\* A push enters the ceremony's user id, and a start parks the remembered one.
LEMMA OneUserHandler ==
    ASSUME Typed, OneUser, NEW w \in Handlers, Handle(w)
    PROVE  /\ CreatedFor(passkeys', user')
           /\ \A c \in reg' : c.uid = user' /\ user' # 0
<1> USE DEF memory, maps
<1>0. passkeys \in Seq(Credential) /\ Carries(w) /\ CreatedFor(passkeys, user')
      /\ \A c \in reg : c.uid = user' /\ user' # 0
    BY UserSettled DEF Typed, StateOK, OneUser
<1>1. CreatedFor(passkeys', user')
  <2>1. CASE RegFinishPush(w)
    <3>1. user' = user /\ req[w].uid = user /\ user # 0
        BY <1>0, <2>1 DEF RegFinishPush, At, Carries
    <3>2. ASSUME NEW k, NEW m, passkeys' = Append(passkeys, [id |-> k, how |-> m, uid |-> req[w].uid])
          PROVE  CreatedFor(passkeys', user')
      <4>1. Len(passkeys') = Len(passkeys) + 1 /\ Len(passkeys) \in Nat
            /\ passkeys'[Len(passkeys) + 1].uid = req[w].uid
            /\ \A i \in 1 .. Len(passkeys) : passkeys'[i] = passkeys[i]
          BY <1>0, <3>2
      <4>2. \A i \in 1 .. Len(passkeys') : i \in 1 .. Len(passkeys) \/ i = Len(passkeys) + 1
          BY <4>1
      <4> QED
          BY <1>0, <3>1, <4>1, <4>2 DEF CreatedFor
    <3> QED
        BY <1>0, <2>1, <3>2 DEF RegFinishPush
  <2>2. CASE RegFinishRollback(w)
      BY <1>0, <2>2, RolledBackPrefix DEF RegFinishRollback, CreatedFor
  <2>3. CASE UNCHANGED passkeys
      BY <1>0, <2>3
  <2>4. \/ UNCHANGED passkeys \/ RegFinishPush(w) \/ RegFinishRollback(w)
      BY Zenon DEF Handle, RegisterStart, RegisterFinish, RegStartSession, RegStartMode,
         RegStartCode, RegStartUser, RegStartRemember, RegStartInsert, RegFinishTake,
         RegFinishClear, RegFinishBurn, LoginStart, LoginFinishTake, NewSession, Refuse, state,
         Persist, PersistSnapshot, PersistOpen, PersistWrite, PersistRename, PersistRenameLost,
         PersistFault
  <2> QED
      BY <2>1, <2>2, <2>3, <2>4
<1>2. \A c \in reg' : c.uid = user' /\ user' # 0
  <2>1. CASE RegStartInsert(w)
    <3>1. /\ user' = user /\ req[w].uid = user /\ user # 0
          /\ reg' = reg \cup {[id |-> req[w].id, mode |-> req[w].mode, uid |-> req[w].uid]}
        BY <1>0, <2>1 DEF RegStartInsert, At, Carries
    <3> QED
        BY <1>0, <3>1
  <2>2. CASE RegFinishTake(w) \/ RegFinishClear(w)
      BY <1>0, <2>2 DEF RegFinishTake, RegFinishClear
  <2>3. \/ UNCHANGED reg \/ RegStartInsert(w) \/ RegFinishTake(w) \/ RegFinishClear(w)
      BY Zenon DEF Handle, RegisterStart, RegisterFinish, RegStartSession, RegStartMode,
         RegStartCode, RegStartUser, RegStartRemember, RegFinishPush, RegFinishRollback,
         RegFinishBurn, LoginStart, LoginFinishTake, NewSession, Refuse, state,
         Persist, PersistSnapshot, PersistOpen, PersistWrite, PersistRename, PersistRenameLost,
         PersistFault
  <2> QED
      BY <1>0, <2>1, <2>2, <2>3
<1> QED
    BY <1>1, <1>2

\* A restart reads the user id together with the passkeys it was given to.
LEMMA OneUserEnvironment ==
    ASSUME Based, OneUser, Environment \/ UNCHANGED state
    PROVE  /\ CreatedFor(passkeys', user')
           /\ \A c \in reg' : c.uid = user' /\ user' # 0
           /\ \A w \in Handlers : Carries(w)'
<1> USE DEF memory, maps
<1>1. CASE Crash
    BY <1>1, NobodysKeys DEF Crash, Carries
<1>2. CASE Start
  <2>1. reg' = {} /\ \A w \in Handlers : pc'[w] = "idle"
      BY <1>2 DEF Start, Based, Down
  <2>2. CreatedFor(Saved.passkeys, Saved.user)
      BY NobodysKeys DEF Saved, NoDocument, OneUser, Based, Typed, StateOK
  <2> QED
      BY <1>2, <2>1, <2>2 DEF Start, Carries
<1>3. CASE Lapse \/ EndSession \/ FlushDirectory \/ StartRefused \/ UNCHANGED state
  <2>1. passkeys' = passkeys /\ user' = user /\ reg' \subseteq reg /\ pc' = pc /\ req' = req
      BY <1>3 DEF Lapse, EndSession, FlushDirectory, StartRefused, state
  <2> QED
      BY <2>1 DEF OneUser, Carries
<1> QED
    BY <1>1, <1>2, <1>3 DEF Environment

LEMMA OneUserNext == UserInv /\ [Next]_vars => UserInv'
<1> SUFFICES ASSUME UserInv, [Next]_vars, "starts" \notin races' PROVE OneUser'
    BY StepOf, BasedNext DEF UserInv
<1>1. [Step]_state /\ Based /\ Typed
    BY StepOf DEF UserInv, Based
<1>2. "starts" \notin races /\ ~ StartsOverlap'
  <2>1. CASE Watch
      BY <2>1 DEF Watch
  <2>2. CASE UNCHANGED state /\ races' = races
      BY <2>2 DEF UserInv, OneUser, StartsOverlap, state
  <2> QED
      BY <2>1, <2>2, StepOf
<1>3. OneUser
    BY <1>2 DEF UserInv
<1>4. \A w \in Handlers : CreatedFor(req'[w].doc.passkeys, req'[w].doc.user)
  <2> TAKE w \in Handlers
  <2>1. req'[w].doc \in {req[w].doc, NoDocument, Snapshot}
      BY <1>1, CopiesMoved
  <2> QED
      BY <1>3, <2>1, NobodysKeys DEF Snapshot, NoDocument, OneUser
<1>5. \A i \in Inodes : CreatedFor(file'[i].doc.passkeys, file'[i].doc.user)
  <2> TAKE i \in Inodes
  <2>1. file'[i].doc \in {file[i].doc, NoDocument} \cup {req[w].doc : w \in Handlers}
      BY <1>1, CopiesMoved
  <2> QED
      BY <1>3, <2>1, NobodysKeys DEF NoDocument, OneUser
<1>6. /\ CreatedFor(passkeys', user')
      /\ \A c \in reg' : c.uid = user' /\ user' # 0
      /\ \A w \in Handlers : Carries(w)'
  <2>1. ASSUME NEW w \in Handlers, Handle(w) PROVE \A v \in Handlers : Carries(v)'
      BY <1>1, <1>3, <2>1, UserSettled, CarriesOn
  <2>2. (\E w \in Handlers : Handle(w)) \/ Environment \/ UNCHANGED state
      BY <1>1 DEF Step, Environment
  <2> QED
      BY <1>1, <1>3, <2>1, <2>2, OneUserHandler, OneUserEnvironment
<1> QED
    BY <1>2, <1>4, <1>5, <1>6 DEF OneUser, CreatedFor

\* The user id a passkey was created for is the one the store remembers, for any
\* number of handlers, across overlapping saves, roll-backs and restarts, up to two
\* starts that make one up at the same time (src/auth.rs, register_start's two locks).
THEOREM PasskeysShareTheUser == Spec => []OneUserId
<1>1. Init => UserInv
  <2> SUFFICES ASSUME Init PROVE Based /\ OneUser
      BY DEF UserInv
  <2>1. NoRequest.doc = NoDocument /\ Empty.doc = NoDocument
      BY DEF NoRequest, Empty
  <2>2. CreatedFor(NoDocument.passkeys, NoDocument.user) /\ CreatedFor(<< >>, 0)
      BY NobodysKeys DEF NoDocument
  <2> QED
      BY <2>1, <2>2, BasedInit DEF Init, OneUser, Carries, StartsOverlap
<1>2. UserInv => OneUserId
    BY DEF UserInv, OneUser, CreatedFor, OneUserId
<1> QED
    BY <1>1, <1>2, OneUserNext, PTL DEF Spec

--------------------------------------------------------------------------------
(* Bootstrap ceremonies.  From the moment a finish has cleared the map, no  *)
(* bootstrap start is on its way to it, unless it overtook the burn.        *)

Bootstrapping(w) == pc[w] \in {"rs_user", "rs_remember", "rs_insert"} /\ req[w].mode = "Bootstrap"

\* Enrolment is closed, or a finish is about to close it.
Closing == (running /\ ~ codeOpen) \/ \E w \in Handlers : pc[w] = "burn"

NothingParked ==
    Closing => /\ \A c \in reg : c.mode # "Bootstrap"
               /\ \A w \in Handlers : ~ Bootstrapping(w)

ParkedInv == Based /\ ("clear" \notin races => NothingParked)

\* Most steps neither close enrolment nor bring a bootstrap start further.
LEMMA ParkedKept ==
    ASSUME NothingParked, Closing' => Closing, \A c \in reg' : c \in reg \/ c.mode # "Bootstrap",
           \A w \in Handlers : Bootstrapping(w)' => Bootstrapping(w)
    PROVE  NothingParked'
BY DEF NothingParked

\* A handler's step closes enrolment only by clearing the map.
LEMMA ClosingKept ==
    ASSUME Typed, NEW w \in Handlers, Handle(w), pc'[w] # "burn", UNCHANGED codeOpen, Closing'
    PROVE  \/ running /\ ~ codeOpen
           \/ \E u \in Handlers \ {w} : pc[u] = "burn" /\ pc'[u] = "burn"
<1>1. (running' <=> running) /\ (codeOpen' <=> codeOpen)
    BY HandlesUp
<1>2. CASE \E u \in Handlers : pc'[u] = "burn"
    BY <1>2, Others
<1>3. CASE ~ \E u \in Handlers : pc'[u] = "burn"
  <2>1. running' /\ ~ codeOpen'
      BY <1>3, Zenon DEF Closing
  <2> QED
      BY <1>1, <2>1, Zenon
<1> QED
    BY <1>2, <1>3

LEMMA ParkedHandler ==
    ASSUME Typed, NothingParked, NEW w \in Handlers, Handle(w), ~ StartOvertakesClear'
    PROVE  NothingParked'
<1> USE DEF memory, maps
<1>0. /\ req \in Requests /\ DOMAIN req = Handlers /\ req[w] \in Request
      /\ \A v \in Handlers \ {w} : pc'[v] = pc[v] /\ req'[v] = req[v]
    BY Others DEF Typed, StateOK, Requests
<1>a. ASSUME Bootstrapping(w)' => Bootstrapping(w)
      PROVE  \A v \in Handlers : Bootstrapping(v)' => Bootstrapping(v)
    BY <1>0, <1>a DEF Bootstrapping
<1>b. ASSUME pc'[w] # "burn", UNCHANGED codeOpen PROVE Closing' => Closing
    BY <1>b, ClosingKept, Zenon DEF Closing
<1>1. CASE RegFinishClear(w)
  <2>1. pc'[w] = "burn" /\ reg' = {}
      BY <1>1, Moves DEF RegFinishClear
  <2> QED
      BY <2>1 DEF NothingParked, StartOvertakesClear, Bootstrapping
<1>2. CASE RegFinishBurn(w)
  <2>1. pc[w] = "burn" /\ pc'[w] = "session" /\ reg' = reg
      BY <1>2, Moves DEF RegFinishBurn, At
  <2>2. Closing
      BY <2>1, Zenon DEF Closing
  <2>3. Bootstrapping(w)' => Bootstrapping(w)
      BY <2>1 DEF Bootstrapping
  <2> QED
      BY <1>a, <2>1, <2>2, <2>3, ParkedKept
<1>3. CASE RegStartCode(w)
  <2>1. reg' = reg /\ pc'[w] # "burn" /\ UNCHANGED codeOpen
      BY <1>3, Moves, Zenon DEF RegStartCode
  <2>2. CASE Respond(w)
    <3>1. Bootstrapping(w)' => Bootstrapping(w)
        BY <2>2, Moves DEF Bootstrapping
    <3> QED
        BY <1>a, <1>b, <2>1, <3>1, ParkedKept
  <2>3. CASE codeOpen /\ Goto(w, "rs_user")
    <3>1. pc'[w] = "rs_user"
        BY <2>3, Moves
    <3>2. CASE Closing'
      <4>1. PICK u \in Handlers \ {w} : pc[u] = "burn" /\ pc'[u] = "burn"
          BY <2>1, <2>3, <3>2, ClosingKept, Zenon
      <4>2. Closing
          BY <4>1, Zenon DEF Closing
      <4>3. ~ Bootstrapping(w)'
          BY <3>1, <4>1 DEF StartOvertakesClear, Bootstrapping
      <4> QED
          BY <1>a, <2>1, <4>2, <4>3, ParkedKept
    <3>3. CASE ~ Closing'
        BY <3>3 DEF NothingParked
    <3> QED
        BY <3>2, <3>3
  <2> QED
      BY <1>3, <2>2, <2>3 DEF RegStartCode
<1>4. CASE RegStartInsert(w)
  <2>1. /\ pc[w] = "rs_insert" /\ pc'[w] = "idle"
        /\ reg' = reg \cup {[id |-> req[w].id, mode |-> req[w].mode, uid |-> req[w].uid]}
      BY <1>4, Moves DEF RegStartInsert, At
  <2>2. Closing' => Closing
      BY <1>4, <1>b, <2>1, Zenon DEF RegStartInsert
  <2>3. Closing => req[w].mode # "Bootstrap"
      BY <2>1 DEF NothingParked, Bootstrapping
  <2>4. ~ Bootstrapping(w)'
      BY <2>1 DEF Bootstrapping
  <2> QED
      BY <1>a, <2>1, <2>2, <2>3, <2>4 DEF NothingParked
<1>5. CASE RegStartMode(w)
  <2>1. /\ reg' = reg /\ UNCHANGED codeOpen
        /\ pc'[w] \in {"rs_code", "idle"} \/ (pc'[w] = "rs_user" /\ req'[w].mode = "AddDevice")
    <3>1. [req EXCEPT ![w].mode = "AddDevice"][w].mode = "AddDevice"
        BY <1>0 DEF Request
    <3> QED
        BY <1>5, <3>1, Moves DEF RegStartMode
  <2>2. ~ Bootstrapping(w)'
      BY <2>1 DEF Bootstrapping
  <2> QED
      BY <1>a, <1>b, <2>1, <2>2, ParkedKept
<1>6. CASE RegStartUser(w)
  <2>1. /\ reg' = reg /\ UNCHANGED codeOpen /\ pc[w] = "rs_user" /\ pc'[w] = "rs_remember"
        /\ \E n, u : req' = [req EXCEPT ![w].id = n, ![w].uid = u]
      BY <1>6, Moves DEF RegStartUser, At
  <2>2. req'[w].mode = req[w].mode
      BY <1>0, <2>1 DEF Request
  <2> QED
      BY <1>a, <1>b, <2>1, <2>2, ParkedKept DEF Bootstrapping
<1>7. CASE RegStartRemember(w)
  <2>1. /\ reg' = reg /\ UNCHANGED codeOpen /\ pc[w] = "rs_remember" /\ pc'[w] = "rs_insert"
        /\ req' = req
      BY <1>7, Moves DEF RegStartRemember, At
  <2> QED
      BY <1>a, <1>b, <2>1, ParkedKept DEF Bootstrapping
<1>8. CASE RegStartSession(w) \/ RegFinishTake(w) \/ RegFinishPush(w) \/ RegFinishRollback(w)
           \/ LoginStart(w) \/ LoginFinishTake(w) \/ NewSession(w) \/ Refuse(w) \/ Persist(w)
  <2>1. reg' \subseteq reg /\ UNCHANGED codeOpen
      BY <1>8 DEF RegStartSession, RegFinishTake, RegFinishPush, RegFinishRollback, LoginStart,
         LoginFinishTake, NewSession, Refuse, state, Persist, PersistSnapshot, PersistOpen,
         PersistWrite, PersistRename, PersistRenameLost, PersistFault
  <2>2. pc'[w] \in {"idle", "rs_registered", "push", "snapshot", "open", "write", "rename",
                    "failed", "clear", "session"}
    <3>1. CASE RegStartSession(w) \/ RegFinishTake(w) \/ RegFinishPush(w) \/ RegFinishRollback(w)
        BY <3>1, Moves DEF RegStartSession, RegFinishTake, RegFinishPush, RegFinishRollback, Idle
    <3>2. CASE LoginStart(w) \/ LoginFinishTake(w) \/ NewSession(w) \/ Refuse(w)
        BY <3>2, Moves DEF LoginStart, LoginFinishTake, NewSession, Refuse, state, Idle
    <3>3. CASE Persist(w)
        BY <3>3, Moves DEF Persist, PersistSnapshot, PersistOpen, PersistWrite, PersistRename,
           PersistRenameLost, PersistFault, AfterPersist
    <3> QED
        BY <1>8, <3>1, <3>2, <3>3
  <2>3. ~ Bootstrapping(w)'
      BY <2>2 DEF Bootstrapping
  <2> QED
      BY <1>a, <1>b, <2>1, <2>2, <2>3, ParkedKept
<1> QED
    BY <1>1, <1>2, <1>3, <1>4, <1>5, <1>6, <1>7, <1>8 DEF Handle, RegisterStart, RegisterFinish

LEMMA ParkedEnvironment ==
    ASSUME Based, NothingParked, Environment \/ UNCHANGED state PROVE NothingParked'
<1> USE DEF memory, maps
<1>1. CASE Crash \/ Start
  <2>1. reg' = {} /\ \A w \in Handlers : pc'[w] = "idle"
      BY <1>1 DEF Crash, Start, Based, Down
  <2> QED
      BY <2>1 DEF NothingParked, Bootstrapping
<1>2. CASE Lapse \/ EndSession \/ FlushDirectory \/ StartRefused \/ UNCHANGED state
  <2>1. /\ (running' <=> running) /\ (codeOpen' <=> codeOpen) /\ reg' \subseteq reg
        /\ pc' = pc /\ req' = req
      BY <1>2 DEF Lapse, EndSession, FlushDirectory, StartRefused, state
  <2>2. Closing' => Closing
      BY <2>1, Zenon DEF Closing
  <2> QED
      BY <2>1, <2>2, ParkedKept DEF Bootstrapping
<1> QED
    BY <1>1, <1>2 DEF Environment

LEMMA ParkedNext == ParkedInv /\ [Next]_vars => ParkedInv'
<1> SUFFICES ASSUME ParkedInv, [Next]_vars, "clear" \notin races' PROVE NothingParked'
    BY StepOf, BasedNext DEF ParkedInv
<1>1. [Step]_state /\ Based /\ Typed
    BY StepOf DEF ParkedInv, Based
<1>2. CASE Watch
  <2>1. "clear" \notin races /\ ~ StartOvertakesClear'
      BY <1>2 DEF Watch
  <2>2. NothingParked
      BY <2>1 DEF ParkedInv
  <2>3. (\E w \in Handlers : Handle(w)) \/ Environment \/ UNCHANGED state
      BY <1>1 DEF Step, Environment
  <2> QED
      BY <1>1, <2>1, <2>2, <2>3, ParkedHandler, ParkedEnvironment
<1>3. CASE UNCHANGED state /\ races' = races
    BY <1>1, <1>3, ParkedEnvironment DEF ParkedInv
<1> QED
    BY <1>2, <1>3, StepOf

\* Once enrolment is closed no bootstrap ceremony waits to be finished, for any number
\* of handlers, up to a start that overtakes the clearing of the map (src/auth.rs,
\* register_finish's clear before the code is burned).
THEOREM NoBootstrapIsParked == Spec => []NoParkedBootstrap
<1>1. Init => ParkedInv
    BY BasedInit DEF Init, ParkedInv, NothingParked, Bootstrapping
<1>2. ParkedInv => NoParkedBootstrap
    BY Zenon DEF ParkedInv, NothingParked, Closing, NoParkedBootstrap
<1> QED
    BY <1>1, <1>2, ParkedNext, PTL DEF Spec

--------------------------------------------------------------------------------
(* Saves in turn.  While no two finishes save at the same time, at most one *)
(* handler is between its push and the end of its persist() or roll-back;   *)
(* the others may be anywhere else.                                         *)

\* A push that no save has answered yet.
Unsaved(w) == pc[w] \in PersistSteps \cup {"failed"} /\ req[w].mode # "Login"

\* A file that may be read at the next start parses.
SoundFile(i) == i # NoInode => file[i].state = "whole"

\* auth.json is sound, also after a power cut, and is not the temporary file.
FilesSound ==
    /\ SoundFile(path) /\ SoundFile(linked)
    /\ tmp # NoInode => tmp \notin {path, linked}

\* How far the file that a handler saves has got.
SaveInv(w) ==
    /\ pc[w] \in {"open", "write", "rename"} => req[w].doc.passkeys = passkeys
    /\ pc[w] \in {"write", "rename"} => tmp # NoInode /\ req[w].fd = tmp
    /\ pc[w] = "write" => file[tmp] = Empty
    /\ pc[w] = "rename" => file[tmp] = Whole(req[w].doc)

\* The one credential in memory that auth.json does not have is the handler's own.
Pushed(w) ==
    \E k \in Passkeys :
       /\ req[w].key = {k} /\ k \notin Ids(Saved.passkeys)
       /\ passkeys = Append(Saved.passkeys, [id |-> k, how |-> req[w].mode, uid |-> req[w].uid])

\* A finish presents one credential.
Presents(w) == pc[w] = "push" => \E k \in Passkeys : req[w].key = {k}

Turns ==
    /\ ~ SavesOverlap
    /\ FilesSound
    /\ \A w \in Handlers : SaveInv(w) /\ Presents(w) /\ (Unsaved(w) => Pushed(w))
    /\ running /\ (\A w \in Handlers : ~ Unsaved(w)) => passkeys = Saved.passkeys

TurnInv == Based /\ ("saves" \notin races => Turns)

\* Seen from the one handler that saves: memory is what auth.json says, but for
\* its own push.
Alone(w) == \A v \in Handlers \ {w} : ~ Saving(v)
MemoryInv(w) ==
    /\ running /\ ~ Unsaved(w) => passkeys = Saved.passkeys
    /\ Unsaved(w) => Pushed(w)

LEMMA UnsavedSaves == \A w : Unsaved(w) => Saving(w)
BY DEF Unsaved, Saving

LEMMA TurnOf ==
    ASSUME Turns, NEW w \in Handlers, Saving(w) \/ \A v \in Handlers : ~ Saving(v)
    PROVE  Alone(w) /\ MemoryInv(w)
<1>1. Alone(w)
    BY DEF Turns, SavesOverlap, Alone
<1>2. \A v \in Handlers \ {w} : ~ Unsaved(v)
    BY <1>1, UnsavedSaves DEF Alone
<1>3. running /\ ~ Unsaved(w) => passkeys = Saved.passkeys
    BY <1>2, Zenon DEF Turns
<1>4. Unsaved(w) => Pushed(w)
    BY DEF Turns
<1> QED
    BY <1>1, <1>3, <1>4, Zenon DEF MemoryInv

LEMMA TurnsOf ==
    ASSUME NEW w \in Handlers, Alone(w)', FilesSound', SaveInv(w)', MemoryInv(w)',
           \A v \in Handlers : Presents(v)'
    PROVE  Turns'
<1>1. ~ SavesOverlap'
    BY DEF Alone, SavesOverlap
<1>2. \A v \in Handlers \ {w} : ~ Unsaved(v)' /\ SaveInv(v)'
    BY DEF Alone, Saving, Unsaved, SaveInv, PersistSteps
<1>3. \A v \in Handlers : SaveInv(v)' /\ Presents(v)' /\ (Unsaved(v)' => Pushed(v)')
    BY <1>2 DEF MemoryInv
<1>4. running' /\ (\A v \in Handlers : ~ Unsaved(v)') => passkeys' = (Saved.passkeys)'
    BY Zenon DEF MemoryInv
<1> QED
    BY <1>1, <1>3, <1>4, Zenon DEF Turns

\* A credential more is one id more, and is undone by a roll-back.
LEMMA AppendedKey ==
    ASSUME NEW keys \in Seq(Credential), NEW e \in Credential
    PROVE  /\ Ids(Append(keys, e)) = Ids(keys) \cup {e.id}
           /\ RolledBack(Append(keys, e)) = keys
           /\ Append(keys, e) # << >>
<1> DEFINE more == Append(keys, e)
<1>1. /\ more \in Seq(Credential) /\ more # << >> /\ Len(more) = Len(keys) + 1
      /\ \A i \in 1 .. Len(keys) : more[i] = keys[i]
      /\ more[Len(keys) + 1] = e
    BY AppendProperties
<1>2. Len(keys) \in Nat
    OBVIOUS
<1> HIDE DEF more
<1>3. Ids(more) = Ids(keys) \cup {e.id}
  <2>1. 1 .. Len(more) = (1 .. Len(keys)) \cup {Len(keys) + 1}
      BY <1>1, <1>2
  <2> QED
      BY <1>1, <2>1 DEF Ids
<1>4. RolledBack(more) = keys
  <2>1. Len(more) - 1 = Len(keys) /\ Len(keys) \in Int
      BY <1>1, <1>2
  <2>2. \A i \in 1 .. Len(keys) : more[i] \in Credential
      BY <1>1
  <2>3. /\ SubSeq(more, 1, Len(keys)) \in Seq(Credential)
        /\ Len(SubSeq(more, 1, Len(keys))) = IF 1 <= Len(keys) THEN Len(keys) - 1 + 1 ELSE 0
        /\ \A i \in 1 .. Len(keys) - 1 + 1 : SubSeq(more, 1, Len(keys))[i] = more[1 + i - 1]
      BY <2>1, <2>2, SubSeqProperties
  <2>4. Len(SubSeq(more, 1, Len(keys))) = Len(keys)
      BY <1>2, <2>3
  <2>5. \A i \in 1 .. Len(keys) : SubSeq(more, 1, Len(keys))[i] = keys[i]
      BY <1>1, <1>2, <2>3
  <2>6. SubSeq(more, 1, Len(keys)) = keys
      BY <2>3, <2>4, <2>5, SeqEqual
  <2> QED
      BY <2>1, <2>6 DEF RolledBack
<1> QED
    BY <1>1, <1>3, <1>4 DEF more

\* What is freed is what nothing refers to.
LEMMA FreedKeeps ==
    ASSUME Typed, NEW f, NEW used, NEW i \in Inodes, i \in used PROVE Freed(f, used)[i] = f[i]
BY DEF Freed

\* auth.json says what it said as long as it names the same untouched file.
LEMMA SavedKept ==
    ASSUME path' = path, path # NoInode => file'[path] = file[path]
    PROVE  Saved' = Saved
BY DEF Saved

\* Only a finish that verifies gets to its push.
LEMMA PresentsOn ==
    ASSUME Typed, Turns, NEW w \in Handlers, Handle(w) PROVE \A v \in Handlers : Presents(v)'
<1>0. req \in Requests /\ DOMAIN req = Handlers /\ req[w] \in Request
    BY DEF Typed, StateOK, Requests
<1>1. Presents(w)'
  <2>1. CASE RegFinishTake(w)
    <3>1. PICK c \in reg, k \in Passkeys, t \in sessions \cup {0} :
            \/ /\ Goto(w, "push")
               /\ req' = [req EXCEPT ![w] = [@ EXCEPT !.mode = c.mode, !.uid = c.uid,
                                                      !.key = {k}, !.token = t]]
            \/ UNCHANGED <<pc, req>>
        BY <2>1 DEF RegFinishTake
    <3>2. pc'[w] = "push" => req'[w].key = {k}
        BY <1>0, <2>1, <3>1 DEF RegFinishTake, Idle, Request
    <3> QED
        BY <3>2 DEF Presents
  <2>2. CASE RegisterStart(w)
      BY <2>2, Moves DEF RegisterStart, RegStartSession, RegStartMode, RegStartCode, RegStartUser,
         RegStartRemember, RegStartInsert, Presents
  <2>3. CASE RegFinishPush(w) \/ RegFinishRollback(w) \/ RegFinishClear(w) \/ RegFinishBurn(w)
      BY <2>3, Moves DEF RegFinishPush, RegFinishRollback, RegFinishClear, RegFinishBurn, Presents
  <2>4. CASE Persist(w)
      BY <2>4, Moves DEF Persist, PersistSnapshot, PersistOpen, PersistWrite, PersistRename,
         PersistRenameLost, PersistFault, AfterPersist, Presents
  <2>5. CASE LoginStart(w) \/ LoginFinishTake(w) \/ NewSession(w) \/ Refuse(w)
      BY <2>5, Moves DEF LoginStart, LoginFinishTake, NewSession, Refuse, state, Idle, Presents
  <2> QED
      BY <2>1, <2>2, <2>3, <2>4, <2>5 DEF Handle, RegisterFinish
<1>2. \A v \in Handlers \ {w} : Presents(v)'
    BY Others DEF Turns, Presents
<1> QED
    BY <1>1, <1>2

\* A handler that does not save, and leaves the passkeys and the disk alone.
LEMMA TurnsApart ==
    ASSUME Typed, Turns, NEW w \in Handlers, Handle(w), ~ Saving(w), ~ Saving(w)',
           UNCHANGED <<passkeys, disk>>
    PROVE  Turns'
<1>1. passkeys' = passkeys /\ file' = file /\ path' = path /\ tmp' = tmp /\ linked' = linked
    BY DEF disk
<1>2. Saved' = Saved
    BY <1>1, SavedKept
<1>3. \A v \in Handlers \ {w} : pc'[v] = pc[v] /\ req'[v] = req[v]
    BY Others
<1>4. ~ SavesOverlap'
    BY <1>3 DEF Turns, SavesOverlap, Saving
<1>5. FilesSound'
    BY <1>1 DEF Turns, FilesSound, SoundFile
<1>6. \A v \in Handlers \ {w} : /\ (Unsaved(v)' <=> Unsaved(v)) /\ (Pushed(v)' <=> Pushed(v))
                                 /\ SaveInv(v)'
    BY <1>1, <1>2, <1>3 DEF Turns, Unsaved, Pushed, SaveInv
<1>7. SaveInv(w)' /\ ~ Unsaved(w) /\ ~ Unsaved(w)'
    BY DEF Saving, Unsaved, SaveInv, PersistSteps
<1>8. \A v \in Handlers : SaveInv(v)' /\ Presents(v)' /\ (Unsaved(v)' => Pushed(v)')
    BY <1>6, <1>7, PresentsOn DEF Turns
<1>9. running' /\ (\A v \in Handlers : ~ Unsaved(v)') => passkeys' = (Saved.passkeys)'
  <2>1. (\A v \in Handlers : ~ Unsaved(v)') => \A v \in Handlers : ~ Unsaved(v)
      BY <1>6, <1>7
  <2>2. running
      BY HandlesUp
  <2>3. (\A v \in Handlers : ~ Unsaved(v)) => passkeys = Saved.passkeys
      BY <2>2, Zenon DEF Turns
  <2> QED
      BY <1>1, <1>2, <2>1, <2>3
<1> QED
    BY <1>4, <1>5, <1>8, <1>9, Zenon DEF Turns

\* A push is the beginning of a save.
LEMMA TurnsPush ==
    ASSUME Typed, Turns, NEW w \in Handlers, RegFinishPush(w), ~ SavesOverlap' PROVE Turns'
<1> USE DEF memory, disk
<1>0. Handle(w) /\ passkeys \in Seq(Credential) /\ req[w] \in Request
    BY DEF Handle, RegisterFinish, Typed, StateOK, Requests
<1>1. /\ pc[w] = "push" /\ running /\ UNCHANGED <<running, disk>> /\ ~ Saving(w)
      /\ file' = file /\ path' = path /\ tmp' = tmp /\ linked' = linked
    BY Zenon DEF RegFinishPush, At, Saving, PersistSteps
<1>2. CASE Respond(w) /\ UNCHANGED passkeys
  <2>1. ~ Saving(w)'
      BY <1>2, Moves DEF Saving, PersistSteps
  <2> QED
      BY <1>0, <1>1, <1>2, <2>1, TurnsApart
<1>3. ASSUME NEW k \in req[w].key, k \notin Ids(passkeys), Goto(w, "snapshot"), UNCHANGED req,
             passkeys' = Append(passkeys, [id |-> k, how |-> req[w].mode, uid |-> req[w].uid])
      PROVE  Turns'
  <2>1. pc'[w] = "snapshot" /\ req' = req
      BY <1>3, Moves
  <2>2. Saving(w)'
      BY <2>1 DEF Saving, PersistSteps
  <2>3. Alone(w)'
      BY <2>2 DEF Alone, SavesOverlap
  <2>4. \A v \in Handlers : ~ Saving(v)
      BY <1>0, <1>1, <2>3, Others DEF Alone, Saving
  <2>5. passkeys = Saved.passkeys
    <3>1. ~ Unsaved(w)
        BY <2>4, UnsavedSaves
    <3> QED
        BY <1>1, <2>4, <3>1, TurnOf, Zenon DEF MemoryInv
  <2>6. req[w].key = {k} /\ k \in Passkeys /\ req[w].mode \in Modes
      BY <1>1, <1>3 DEF Turns, Presents, Typed, ModeKnown, ModeSteps
  <2>7. Saved' = Saved
      BY <1>1, SavedKept
  <2>8. Pushed(w)'
    <3>1. k \notin Ids((Saved.passkeys)')
        BY <1>3, <2>5, <2>7
    <3>2. passkeys' = Append((Saved.passkeys)', [id |-> k, how |-> req'[w].mode, uid |-> req'[w].uid])
        BY <1>3, <2>1, <2>5, <2>7
    <3> QED
        BY <2>1, <2>6, <3>1, <3>2 DEF Pushed
  <2>9. Unsaved(w)'
      BY <2>1, <2>6 DEF Unsaved, PersistSteps, Modes
  <2>10. MemoryInv(w)'
      BY <2>8, <2>9, Zenon DEF MemoryInv
  <2>11. FilesSound'
      BY <1>1 DEF Turns, FilesSound, SoundFile
  <2>12. SaveInv(w)'
      BY <2>1 DEF SaveInv
  <2> QED
      BY <1>0, <2>3, <2>10, <2>11, <2>12, PresentsOn, TurnsOf
<1> QED
    BY <1>2, <1>3 DEF RegFinishPush

\* A roll-back takes away exactly what was pushed.
LEMMA TurnsRollback ==
    ASSUME Typed, Turns, NEW w \in Handlers, RegFinishRollback(w) PROVE Turns'
<1> USE DEF memory, disk
<1>0. Handle(w) /\ req[w] \in Request
    BY DEF Handle, RegisterFinish, Typed, StateOK, Requests
<1>1. /\ pc[w] = "failed" /\ req[w].mode # "Login" /\ pc'[w] = "idle"
      /\ UNCHANGED <<file, path, tmp, linked>> /\ passkeys' = RolledBack(passkeys)
    BY Moves, Zenon DEF RegFinishRollback, At
<1>2. Unsaved(w) /\ Saving(w)
    BY <1>1 DEF Unsaved, Saving
<1>3. Alone(w) /\ Pushed(w)
    BY <1>2, TurnOf DEF MemoryInv
<1>4. PICK k \in Passkeys :
        passkeys = Append(Saved.passkeys, [id |-> k, how |-> req[w].mode, uid |-> req[w].uid])
    BY <1>3 DEF Pushed
<1>5. [id |-> k, how |-> req[w].mode, uid |-> req[w].uid] \in Credential
    BY <1>0, <1>1 DEF Request, Credential
<1>6. Saved.passkeys \in Seq(Credential)
    BY SavedTyped DEF Document
<1>7. passkeys' = Saved.passkeys
    BY <1>1, <1>4, <1>5, <1>6, AppendedKey
<1>8. Saved' = Saved
    BY <1>1, SavedKept
<1>9. ~ Unsaved(w)'
    BY <1>1 DEF Unsaved, PersistSteps
<1>10. MemoryInv(w)'
    BY <1>7, <1>8, <1>9, Zenon DEF MemoryInv
<1>11. FilesSound'
    BY <1>1 DEF Turns, FilesSound, SoundFile
<1>12. SaveInv(w)'
    BY <1>1 DEF SaveInv
<1>13. Alone(w)'
    BY <1>0, <1>3, Others DEF Alone, Saving
<1> QED
    BY <1>0, <1>10, <1>11, <1>12, <1>13, PresentsOn, TurnsOf

\* A sign-in that verifies saves too.
LEMMA TurnsLogin ==
    ASSUME Typed, Turns, NEW w \in Handlers, LoginFinishTake(w), ~ SavesOverlap' PROVE Turns'
<1> USE DEF memory, disk
<1>0. Handle(w) /\ req[w] \in Request /\ DOMAIN req = Handlers
    BY DEF Handle, Typed, StateOK, Requests
<1>1. /\ pc[w] = "idle" /\ running /\ UNCHANGED <<running, passkeys, disk>> /\ ~ Saving(w)
      /\ file' = file /\ path' = path /\ tmp' = tmp /\ linked' = linked /\ passkeys' = passkeys
    BY Zenon DEF LoginFinishTake, Idle, Saving, PersistSteps
<1>2. CASE UNCHANGED <<pc, req>>
  <2>1. ~ Saving(w)'
      BY <1>1, <1>2 DEF Saving
  <2> QED
      BY <1>0, <1>1, <2>1, TurnsApart
<1>3. ASSUME NEW k, Goto(w, "snapshot"), req' = [req EXCEPT ![w].mode = "Login", ![w].key = {k}]
      PROVE  Turns'
  <2>1. pc'[w] = "snapshot" /\ req'[w].mode = "Login"
      BY <1>0, <1>3, Moves DEF Request
  <2>2. Saving(w)' /\ ~ Unsaved(w)'
      BY <2>1 DEF Saving, Unsaved, PersistSteps
  <2>3. Alone(w)'
      BY <2>2 DEF Alone, SavesOverlap
  <2>4. \A v \in Handlers : ~ Saving(v)
      BY <1>0, <1>1, <2>3, Others DEF Alone, Saving
  <2>5. passkeys = Saved.passkeys
    <3>1. ~ Unsaved(w)
        BY <2>4, UnsavedSaves
    <3> QED
        BY <1>1, <2>4, <3>1, TurnOf, Zenon DEF MemoryInv
  <2>6. Saved' = Saved
      BY <1>1, SavedKept
  <2>7. MemoryInv(w)'
      BY <1>1, <2>2, <2>5, <2>6, Zenon DEF MemoryInv
  <2>8. FilesSound'
      BY <1>1 DEF Turns, FilesSound, SoundFile
  <2>9. SaveInv(w)'
      BY <2>1 DEF SaveInv
  <2> QED
      BY <1>0, <2>3, <2>7, <2>8, <2>9, PresentsOn, TurnsOf
<1> QED
    BY <1>2, <1>3 DEF LoginFinishTake

\* A step of persist() that does not finish it, and touches neither memory nor
\* auth.json.
LEMMA MemorySaving ==
    ASSUME NEW w \in Handlers, MemoryInv(w), running, UNCHANGED <<memory, path>>,
           pc[w] \in PersistSteps, pc'[w] \in PersistSteps \cup {"failed"},
           req'[w].mode = req[w].mode, req'[w].key = req[w].key, req'[w].uid = req[w].uid,
           path # NoInode => file'[path] = file[path]
    PROVE  MemoryInv(w)'
<1> USE DEF memory
<1>1. Saved' = Saved
    BY SavedKept
<1>2. Unsaved(w)' <=> Unsaved(w)
    BY DEF Unsaved
<1>3. Unsaved(w) => Pushed(w)'
    BY <1>1 DEF MemoryInv, Pushed
<1>4. ~ Unsaved(w) => passkeys' = (Saved.passkeys)'
    BY <1>1 DEF MemoryInv
<1> QED
    BY <1>2, <1>3, <1>4, Zenon DEF MemoryInv


\* persist(), operation by operation.
LEMMA TurnsPersist ==
    ASSUME Typed, Turns, NEW w \in Handlers, Persist(w) PROVE Turns'
<1> USE DEF maps, disk, counters
<1>0. /\ pc \in [Handlers -> Steps] /\ req \in Requests /\ DOMAIN req = Handlers
      /\ req[w] \in Request /\ file \in [Inodes -> Content]
      /\ path \in Inodes \cup {NoInode} /\ linked \in Inodes \cup {NoInode}
      /\ tmp \in Inodes \cup {NoInode}
    BY DEF Typed, StateOK, Requests
<1>h. Handle(w) /\ running
    BY HandlesUp DEF Handle
<1>s. pc[w] \in PersistSteps
    BY <1>0 DEF Persist, PersistSnapshot, PersistOpen, PersistWrite, PersistRename,
       PersistRenameLost, PersistFault, At, PersistSteps
<1>f. /\ SoundFile(path) /\ SoundFile(linked)
      /\ tmp # NoInode => tmp \notin {path, linked}
      /\ SaveInv(w)
    BY DEF Turns, FilesSound
<1>m. MemoryInv(w)
    BY <1>s, TurnOf DEF Saving
<1>a. Alone(w)'
  <2>1. Alone(w)
      BY <1>s, TurnOf DEF Saving
  <2> QED
      BY <1>h, <2>1, Others DEF Alone, Saving
<1>p. \A v \in Handlers : Presents(v)'
    BY <1>h, PresentsOn
<1> SUFFICES FilesSound' /\ SaveInv(w)' /\ MemoryInv(w)'
    BY <1>a, <1>p, TurnsOf
<1>1. CASE PersistSnapshot(w)
  <2>1. /\ UNCHANGED <<memory, file, path, tmp, linked>>
        /\ pc'[w] = "open"
        /\ req' = [req EXCEPT ![w].doc = [passkeys |-> passkeys, user |-> user]]
      BY <1>1, Moves, Zenon DEF PersistSnapshot
  <2>2. /\ req'[w].mode = req[w].mode /\ req'[w].key = req[w].key /\ req'[w].uid = req[w].uid
        /\ req'[w].doc = [passkeys |-> passkeys, user |-> user]
      BY <1>0, <2>1 DEF Request
  <2>3. MemoryInv(w)'
      BY <1>h, <1>m, <1>s, <2>1, <2>2, MemorySaving DEF PersistSteps
  <2>4. FilesSound'
      BY <1>f, <2>1 DEF FilesSound, SoundFile
  <2>5. SaveInv(w)'
      BY <2>1, <2>2 DEF SaveInv, memory
  <2> QED
      BY <2>3, <2>4, <2>5
<1>2. CASE PersistOpen(w)
  <2>1. PICK i \in Inodes : /\ IF tmp = NoInode THEN i \notin InUse ELSE i = tmp
                            /\ tmp' = i /\ file' = [file EXCEPT ![i] = Empty]
                            /\ req' = [req EXCEPT ![w].fd = i]
      BY <1>2 DEF PersistOpen
  <2>2. pc[w] = "open" /\ UNCHANGED <<memory, path, linked>> /\ pc'[w] = "write"
      BY <1>2, Moves, Zenon DEF PersistOpen, At
  <2>3. i # path /\ i # linked /\ i # NoInode
    <3>1. i # NoInode
        BY NoInodeAssumption
    <3> QED
        BY <1>f, <2>1, <3>1 DEF InUse
  <2>4. /\ req'[w].mode = req[w].mode /\ req'[w].key = req[w].key /\ req'[w].uid = req[w].uid
        /\ req'[w].doc = req[w].doc /\ req'[w].fd = i
      BY <1>0, <2>1 DEF Request
  <2>5. file'[i] = Empty /\ \A j \in Inodes : j # i => file'[j] = file[j]
      BY <1>0, <2>1
  <2>6. MemoryInv(w)'
      BY <1>0, <1>h, <1>m, <1>s, <2>2, <2>3, <2>4, <2>5, MemorySaving DEF PersistSteps
  <2>7. FilesSound'
      BY <1>0, <1>f, <2>1, <2>2, <2>3, <2>5 DEF FilesSound, SoundFile
  <2>8. req[w].doc.passkeys = passkeys
      BY <1>f, <2>2 DEF SaveInv
  <2>9. SaveInv(w)'
      BY <2>1, <2>2, <2>3, <2>4, <2>5, <2>8 DEF SaveInv, memory
  <2> QED
      BY <2>6, <2>7, <2>9
<1>3. CASE PersistWrite(w)
  <2>1. /\ pc[w] = "write" /\ UNCHANGED <<memory, req, path, tmp, linked>>
        /\ pc'[w] = "rename"
      BY <1>3, Moves, Zenon DEF PersistWrite, At
  <2>2. /\ req[w].doc.passkeys = passkeys
        /\ tmp # NoInode /\ req[w].fd = tmp /\ file[tmp] = Empty
      BY <1>f, <2>1 DEF SaveInv
  <2>3. file' = [file EXCEPT ![tmp] = Whole(req[w].doc)]
      BY <1>3, <2>2 DEF PersistWrite, Overlay, Empty
  <2>4. file'[tmp] = Whole(req[w].doc) /\ \A j \in Inodes : j # tmp => file'[j] = file[j]
      BY <1>0, <2>2, <2>3
  <2>5. MemoryInv(w)'
      BY <1>0, <1>f, <1>h, <1>m, <1>s, <2>1, <2>2, <2>4, MemorySaving DEF PersistSteps
  <2>6. FilesSound'
      BY <1>0, <1>f, <2>1, <2>2, <2>4 DEF FilesSound, SoundFile
  <2>7. SaveInv(w)'
      BY <2>1, <2>2, <2>4 DEF SaveInv, memory
  <2> QED
      BY <2>5, <2>6, <2>7
<1>4. CASE PersistRename(w)
  <2>1. /\ pc[w] = "rename" /\ UNCHANGED <<memory, linked>>
        /\ pc'[w] \in {"clear", "session"}
        /\ path' = tmp /\ tmp' = NoInode
        /\ file' = Freed(file, UsedBy(w, path', linked, tmp'))
      BY <1>4, Moves, Zenon DEF PersistRename, At, AfterPersist
  <2>2. /\ tmp # NoInode /\ file[tmp] = Whole(req[w].doc)
        /\ req[w].doc.passkeys = passkeys
      BY <1>f, <2>1 DEF SaveInv
  <2>3. /\ file'[tmp] = file[tmp]
        /\ linked # NoInode => file'[linked] = file[linked]
      BY <1>0, <2>1, <2>2, FreedKeeps DEF UsedBy
  <2>4. (Saved.passkeys)' = passkeys
      BY <2>1, <2>2, <2>3 DEF Saved, Whole
  <2>5. FilesSound'
      BY <1>f, <2>1, <2>2, <2>3 DEF FilesSound, SoundFile, Whole
  <2>6. SaveInv(w)'
      BY <2>1 DEF SaveInv
  <2>7. ~ Unsaved(w)'
      BY <2>1 DEF Unsaved, PersistSteps
  <2>8. MemoryInv(w)'
      BY <2>1, <2>4, <2>7, Zenon DEF MemoryInv, memory
  <2> QED
      BY <2>5, <2>6, <2>8
<1>5. CASE PersistRenameLost(w)
    BY <1>5, <1>f DEF PersistRenameLost, At, SaveInv
<1>6. CASE PersistFault(w)
  <2>1. PICK f \in {file} \cup {[file EXCEPT ![i] = Torn] :
                                  i \in IF pc[w] = "write" THEN {req[w].fd} ELSE {}} :
          file' = Freed(f, UsedBy(w, path, linked, tmp))
      BY <1>6 DEF PersistFault
  <2>2. /\ UNCHANGED <<memory, path, tmp, linked>>
        /\ pc'[w] = "failed"
        /\ req'[w].mode = req[w].mode /\ req'[w].key = req[w].key /\ req'[w].uid = req[w].uid
      BY <1>6, Moves, Zenon DEF PersistFault, AfterPersist
  <2>3. \A j \in Inodes : j # tmp => f[j] = file[j]
    <3>1. pc[w] = "write" => req[w].fd = tmp
        BY <1>f DEF SaveInv
    <3> QED
        BY <1>0, <2>1, <3>1
  <2>4. \A j \in {path, linked} : j # NoInode => file'[j] = file[j]
    <3> SUFFICES ASSUME NEW j \in {path, linked}, j # NoInode PROVE file'[j] = file[j]
        OBVIOUS
    <3>1. j \in Inodes /\ j # tmp /\ j \in UsedBy(w, path, linked, tmp)
        BY <1>0, <1>f DEF UsedBy
    <3> QED
        BY <2>1, <2>3, <3>1, FreedKeeps
  <2>5. MemoryInv(w)'
      BY <1>h, <1>m, <1>s, <2>2, <2>4, MemorySaving DEF PersistSteps
  <2>6. FilesSound'
      BY <1>f, <2>2, <2>4 DEF FilesSound, SoundFile
  <2>7. SaveInv(w)'
      BY <2>2 DEF SaveInv
  <2> QED
      BY <2>5, <2>6, <2>7
<1> QED
    BY <1>1, <1>2, <1>3, <1>4, <1>5, <1>6 DEF Persist

\* The other critical sections of a handler are no part of a save.
LEMMA TurnsHandler ==
    ASSUME Typed, Turns, NEW w \in Handlers, Handle(w), ~ SavesOverlap' PROVE Turns'
<1> USE DEF memory, disk
<1>1. CASE RegFinishPush(w) \/ RegFinishRollback(w) \/ LoginFinishTake(w)
    BY <1>1, TurnsPush, TurnsRollback, TurnsLogin
<1>2. CASE Persist(w)
    BY <1>2, TurnsPersist
<1>3. CASE RegisterStart(w)
  <2>1. UNCHANGED <<passkeys, disk>> /\ pc[w] \notin FinishSteps
      BY <1>3, Zenon DEF RegisterStart, RegStartSession, RegStartMode, RegStartCode, RegStartUser,
         RegStartRemember, RegStartInsert, Idle, At, FinishSteps, PersistSteps
  <2>2. pc'[w] \in {"rs_registered", "rs_code", "rs_user", "rs_remember", "rs_insert", "idle"}
      BY <1>3, Moves DEF RegisterStart, RegStartSession, RegStartMode, RegStartCode, RegStartUser,
         RegStartRemember, RegStartInsert, At
  <2>3. ~ Saving(w) /\ ~ Saving(w)'
      BY <2>1, <2>2 DEF Saving, FinishSteps, PersistSteps
  <2> QED
      BY <2>1, <2>3, TurnsApart
<1>4. CASE RegFinishTake(w) \/ RegFinishClear(w) \/ RegFinishBurn(w)
  <2>1. UNCHANGED <<passkeys, disk>> /\ pc[w] \in {"idle", "clear", "burn"}
      BY <1>4, Zenon DEF RegFinishTake, RegFinishClear, RegFinishBurn, Idle, At
  <2>2. pc'[w] \in {"idle", "push", "burn", "session"}
      BY <1>4, <2>1, Moves DEF RegFinishTake, RegFinishClear, RegFinishBurn, Idle
  <2>3. ~ Saving(w) /\ ~ Saving(w)'
      BY <2>1, <2>2 DEF Saving, PersistSteps
  <2> QED
      BY <2>1, <2>3, TurnsApart
<1>5. CASE LoginStart(w) \/ NewSession(w) \/ Refuse(w)
  <2>1. /\ UNCHANGED <<passkeys, disk>>
        /\ pc[w] \in {"idle", "session"} \/ (pc[w] = "failed" /\ req[w].mode = "Login")
      BY <1>5, Zenon DEF LoginStart, NewSession, Refuse, Idle, At, state
  <2>2. pc'[w] = "idle"
      BY <1>5, Moves DEF LoginStart, NewSession, Refuse, Idle, state
  <2>3. ~ Saving(w) /\ ~ Saving(w)'
      BY <2>1, <2>2 DEF Saving, PersistSteps
  <2> QED
      BY <2>1, <2>3, TurnsApart
<1> QED
    BY <1>1, <1>2, <1>3, <1>4, <1>5 DEF Handle, RegisterFinish

\* Nothing that a save relies on has changed.
LEMMA TurnsKept ==
    ASSUME Turns, UNCHANGED <<running, passkeys, pc, req, tmp>>, Saved' = Saved, FilesSound',
           \A i \in {tmp} \ {NoInode} : file'[i] = file[i]
    PROVE  Turns'
<1>1. /\ ~ SavesOverlap'
      /\ \A w \in Handlers : /\ Presents(w)' /\ SaveInv(w)'
                             /\ (Unsaved(w)' <=> Unsaved(w)) /\ (Pushed(w)' <=> Pushed(w))
  <2>1. ~ SavesOverlap'
      BY DEF Turns, SavesOverlap, Saving
  <2>2. ASSUME NEW w \in Handlers PROVE Presents(w)' /\ SaveInv(w)'
      BY DEF Turns, Presents, SaveInv
  <2>3. ASSUME NEW w \in Handlers
        PROVE  (Unsaved(w)' <=> Unsaved(w)) /\ (Pushed(w)' <=> Pushed(w))
      BY DEF Unsaved, Pushed
  <2> QED
      BY <2>1, <2>2, <2>3
<1>2. running' /\ (\A w \in Handlers : ~ Unsaved(w)') => passkeys' = (Saved.passkeys)'
  <2>1. (running' <=> running) /\ passkeys' = passkeys /\ (Saved.passkeys)' = Saved.passkeys
      OBVIOUS
  <2>2. (\A w \in Handlers : ~ Unsaved(w)') => \A w \in Handlers : ~ Unsaved(w)
      BY <1>1
  <2>3. running /\ (\A w \in Handlers : ~ Unsaved(w)) => passkeys = Saved.passkeys
      BY Zenon DEF Turns
  <2> QED
      BY <2>1, <2>2, <2>3, Zenon
<1>3. \A w \in Handlers : SaveInv(w)' /\ Presents(w)' /\ (Unsaved(w)' => Pushed(w)')
    BY <1>1 DEF Turns
<1> QED
    BY <1>1, <1>2, <1>3, Zenon DEF Turns

\* When every handler is idle, all that matters is what the file says.
LEMMA TurnsIdle ==
    ASSUME \A w \in Handlers : pc'[w] = "idle", FilesSound',
           running' => passkeys' = (Saved.passkeys)'
    PROVE  Turns'
<1>1. ~ SavesOverlap'
    BY DEF SavesOverlap, Saving, PersistSteps
<1>2. \A w \in Handlers : SaveInv(w)' /\ Presents(w)' /\ ~ Unsaved(w)'
    BY DEF SaveInv, Presents, Unsaved, PersistSteps
<1> QED
    BY <1>1, <1>2, Zenon DEF Turns

\* The disk, the clock and the operator.
LEMMA TurnsEnvironment ==
    ASSUME Typed, Down, Turns,
           \/ Lapse \/ EndSession \/ FlushDirectory \/ Crash \/ Start \/ StartRefused
           \/ UNCHANGED state
    PROVE  Turns'
<1> USE DEF memory, disk
<1>0. /\ path \in Inodes \cup {NoInode} /\ linked \in Inodes \cup {NoInode}
      /\ tmp \in Inodes \cup {NoInode}
      /\ SoundFile(path) /\ SoundFile(linked)
      /\ tmp # NoInode => tmp \notin {path, linked}
    BY DEF Typed, StateOK, Turns, FilesSound
<1>1. CASE Lapse \/ EndSession \/ StartRefused \/ UNCHANGED state
  <2>1. UNCHANGED <<running, passkeys, pc, req, file, path, tmp, linked>>
      BY <1>1, Zenon DEF Lapse, EndSession, StartRefused, state
  <2>2. Saved' = Saved /\ FilesSound'
      BY <1>0, <2>1, SavedKept DEF FilesSound, SoundFile
  <2> QED
      BY <2>1, <2>2, TurnsKept
<1>2. CASE FlushDirectory
  <2>1. /\ UNCHANGED <<running, passkeys, pc, req, path, tmp>> /\ linked' = path
        /\ file' = Freed(file, (InUse \ {linked}) \cup ({path, tmp} \ {NoInode}))
      BY <1>2, Zenon DEF FlushDirectory
  <2>2. \A i \in {path, tmp} \ {NoInode} : file'[i] = file[i]
      BY <1>0, <2>1, FreedKeeps
  <2>3. Saved' = Saved /\ FilesSound'
      BY <1>0, <2>1, <2>2, SavedKept DEF FilesSound, SoundFile
  <2> QED
      BY <2>1, <2>2, <2>3, TurnsKept
<1>3. CASE Crash
  <2>1. /\ ~ running' /\ \A w \in Handlers : pc'[w] = "idle"
        /\ path' \in {path, linked} /\ linked' = linked /\ tmp' = tmp
        /\ file' = Freed(file, {path', linked', tmp} \ {NoInode})
      BY <1>3 DEF Crash
  <2>2. \A i \in {path', linked'} \ {NoInode} : file'[i] = file[i]
      BY <1>0, <2>1, FreedKeeps
  <2>3. FilesSound'
      BY <1>0, <2>1, <2>2 DEF FilesSound, SoundFile
  <2> QED
      BY <2>1, <2>3, TurnsIdle
<1>4. CASE Start
  <2>1. ~ running /\ passkeys' = Saved.passkeys /\ UNCHANGED <<pc, file, path, tmp, linked>>
      BY <1>4, Zenon DEF Start
  <2>2. \A w \in Handlers : pc'[w] = "idle"
      BY <2>1, Zenon DEF Down
  <2>3. Saved' = Saved /\ FilesSound'
      BY <1>0, <2>1, SavedKept DEF FilesSound, SoundFile
  <2> QED
      BY <2>1, <2>2, <2>3, TurnsIdle
<1> QED
    BY <1>1, <1>2, <1>3, <1>4

LEMMA TurnInvInit == Init => TurnInv
<1> SUFFICES ASSUME Init PROVE Turns
    BY BasedInit DEF TurnInv
<1>1. FilesSound /\ passkeys = Saved.passkeys
    BY DEF Init, FilesSound, SoundFile, Saved, NoDocument
<1>2. ~ SavesOverlap
    BY DEF Init, SavesOverlap, Saving, PersistSteps
<1>3. \A w \in Handlers : SaveInv(w) /\ Presents(w) /\ ~ Unsaved(w)
    BY DEF Init, SaveInv, Presents, Unsaved, PersistSteps
<1> QED
    BY <1>1, <1>2, <1>3, Zenon DEF Turns

LEMMA TurnInvNext == TurnInv /\ [Next]_vars => TurnInv'
<1> SUFFICES ASSUME TurnInv, [Next]_vars PROVE TurnInv'
    OBVIOUS
<1>1. [Step]_state /\ Based'
    BY StepOf, BasedNext DEF TurnInv
<1>2. ASSUME "saves" \notin races' PROVE Turns'
  <2>1. "saves" \notin races /\ (~ SavesOverlap' \/ UNCHANGED state)
      BY <1>2, StepOf DEF Watch
  <2>2. Turns /\ Typed /\ Down
      BY <2>1 DEF TurnInv, Based
  <2>3. CASE UNCHANGED state
      BY <2>2, <2>3, TurnsEnvironment
  <2>4. CASE ~ SavesOverlap'
      BY <1>1, <2>2, <2>4, TurnsHandler, TurnsEnvironment DEF Step
  <2> QED
      BY <2>1, <2>3, <2>4
<1> QED
    BY <1>1, <1>2 DEF TurnInv

LEMMA TurnsAlways == Spec => []TurnInv
BY TurnInvInit, TurnInvNext, PTL DEF Spec

\* With any number of handlers, and whatever fails: as long as no two finishes
\* save at the same time, auth.json parses at every instant, so no crash blocks
\* the next start (src/auth.rs, persist).
THEOREM FileAlwaysReadable == Spec => []ReadableInTurn
<1>1. TurnInv => ReadableInTurn
    BY DEF TurnInv, Turns, FilesSound, SoundFile, ReadableInTurn, Readable
<1> QED
    BY <1>1, TurnsAlways, PTL

\* A finish that failed leaves neither memory nor the file changed, while other
\* handlers start, sign in and finish between its steps (src/auth.rs,
\* register_finish, the pop after persist).
THEOREM FailedFinishLeavesNothing == Spec => []MemoryMatchesDisk
<1>1. TurnInv => MemoryMatchesDisk
    BY UnsavedSaves, Zenon DEF TurnInv, Turns, MemoryMatchesDisk
<1> QED
    BY <1>1, TurnsAlways, PTL

--------------------------------------------------------------------------------
(* What was acknowledged.  An enrolment takes effect with its rename, and   *)
(* as long as saves come in turn and no power cut takes a rename back,      *)
(* auth.json only ever gains credentials.                                   *)

\* The rename is where an enrolment takes effect ...
LEMMA RenameSaves ==
    ASSUME Typed, Turns, NEW w \in Handlers, PersistRename(w)
    PROVE  /\ (Saved.passkeys)' = passkeys
           /\ IF req[w].mode = "Login" THEN passkeys = Saved.passkeys ELSE Pushed(w)
           /\ pc[w] = "rename" /\ \A v \in Handlers \ {w} : ~ Unsaved(v)
<1>1. /\ pc[w] = "rename" /\ running /\ path' = tmp
      /\ file' = Freed(file, UsedBy(w, path', linked', tmp'))
    BY Zenon DEF PersistRename, At
<1>2. /\ tmp # NoInode /\ file[tmp] = Whole(req[w].doc) /\ req[w].doc.passkeys = passkeys
    BY <1>1 DEF Turns, SaveInv
<1>3. tmp \in Inodes /\ tmp \in UsedBy(w, path', linked', tmp')
    BY <1>1, <1>2 DEF Typed, StateOK, UsedBy
<1>4. (Saved.passkeys)' = passkeys
    BY <1>1, <1>2, <1>3, FreedKeeps DEF Saved, Whole
<1>5. Alone(w) /\ MemoryInv(w)
    BY <1>1, TurnOf DEF Saving, PersistSteps
<1>6. Unsaved(w) <=> req[w].mode # "Login"
    BY <1>1 DEF Unsaved, PersistSteps
<1>7. \A v \in Handlers \ {w} : ~ Unsaved(v)
    BY <1>5, UnsavedSaves DEF Alone
<1>8. IF req[w].mode = "Login" THEN passkeys = Saved.passkeys ELSE Pushed(w)
    BY <1>1, <1>5, <1>6, Zenon DEF MemoryInv
<1> QED
    BY <1>1, <1>4, <1>7, <1>8

\* ... which adds the handler's own credential, or nothing.
LEMMA RenameAdds ==
    ASSUME Typed, Turns, NEW w \in Handlers, PersistRename(w)
    PROVE  /\ req[w].mode = "Login" => (Saved.passkeys)' = Saved.passkeys
           /\ req[w].mode # "Login" =>
                 \E k \in Passkeys :
                    /\ req[w].key = {k} /\ k \notin Ids(Saved.passkeys)
                    /\ Ids((Saved.passkeys)') = Ids(Saved.passkeys) \cup {k}
                    /\ (Saved.passkeys)' # << >>
<1>1. req[w].mode = "Login" => (Saved.passkeys)' = Saved.passkeys
    BY RenameSaves
<1>2. ASSUME req[w].mode # "Login"
      PROVE  \E k \in Passkeys :
                /\ req[w].key = {k} /\ k \notin Ids(Saved.passkeys)
                /\ Ids((Saved.passkeys)') = Ids(Saved.passkeys) \cup {k}
                /\ (Saved.passkeys)' # << >>
  <2>1. PICK k \in Passkeys :
          /\ req[w].key = {k} /\ k \notin Ids(Saved.passkeys)
          /\ passkeys = Append(Saved.passkeys, [id |-> k, how |-> req[w].mode, uid |-> req[w].uid])
      BY <1>2, RenameSaves DEF Pushed
  <2>2. [id |-> k, how |-> req[w].mode, uid |-> req[w].uid] \in Credential
      BY <1>2 DEF Typed, StateOK, Requests, Request, Credential
  <2>3. Saved.passkeys \in Seq(Credential)
      BY SavedTyped DEF Document
  <2>4. Ids(passkeys) = Ids(Saved.passkeys) \cup {k} /\ passkeys # << >>
      BY <2>1, <2>2, <2>3, AppendedKey
  <2>5. (Saved.passkeys)' = passkeys
      BY RenameSaves
  <2> QED
      BY <2>1, <2>4, <2>5
<1> QED
    BY <1>1, <1>2

\* Nothing else changes what auth.json says.
LEMMA OnlyRenameSaves ==
    ASSUME Typed, Turns, [Step]_state, ~ RenameUndone, \A w \in Handlers : ~ PersistRename(w)
    PROVE  Saved' = Saved
<1> USE DEF disk
<1>0. /\ path \in Inodes \cup {NoInode} /\ file \in [Inodes -> Content]
      /\ path # NoInode => path # tmp
      /\ tmp \in Inodes \cup {NoInode}
    BY DEF Typed, StateOK, Turns, FilesSound
<1> SUFFICES path' = path /\ (path # NoInode => file'[path] = file[path])
    BY SavedKept
<1>1. CASE UNCHANGED disk
    BY <1>1
<1>2. ASSUME NEW w \in Handlers, Persist(w)
      PROVE  path' = path /\ (path # NoInode => file'[path] = file[path])
  <2>1. SaveInv(w)
      BY DEF Turns
  <2>2. CASE PersistSnapshot(w)
      BY <2>2 DEF PersistSnapshot
  <2>3. CASE PersistOpen(w)
      BY <1>0, <2>3 DEF PersistOpen, InUse
  <2>4. CASE PersistWrite(w)
    <3>1. req[w].fd = tmp
        BY <2>1, <2>4 DEF PersistWrite, At, SaveInv
    <3> QED
        BY <1>0, <2>4, <3>1 DEF PersistWrite
  <2>5. CASE PersistRenameLost(w)
      BY <2>1, <2>5 DEF PersistRenameLost, At, SaveInv
  <2>6. CASE PersistFault(w)
    <3>1. PICK f \in {file} \cup {[file EXCEPT ![i] = Torn] :
                                    i \in IF pc[w] = "write" THEN {req[w].fd} ELSE {}} :
            file' = Freed(f, UsedBy(w, path, linked, tmp))
        BY <2>6 DEF PersistFault
    <3>2. pc[w] = "write" => req[w].fd = tmp
        BY <2>1 DEF SaveInv
    <3>3. path # NoInode => f[path] = file[path]
        BY <1>0, <3>1, <3>2
    <3>4. path # NoInode => file'[path] = f[path]
        BY <1>0, <3>1, FreedKeeps DEF UsedBy
    <3> QED
        BY <2>6, <3>3, <3>4 DEF PersistFault
  <2> QED
      BY <1>2, <2>2, <2>3, <2>4, <2>5, <2>6 DEF Persist
<1>3. CASE FlushDirectory
  <2>1. path' = path /\ file' = Freed(file, (InUse \ {linked}) \cup ({path, tmp} \ {NoInode}))
      BY <1>3 DEF FlushDirectory
  <2> QED
      BY <1>0, <2>1, FreedKeeps
<1>4. CASE Crash
  <2>1. path' = path
      BY <1>4, Zenon DEF Crash, RenameUndone
  <2>2. file' = Freed(file, {path', linked', tmp} \ {NoInode})
      BY <1>4 DEF Crash
  <2> QED
      BY <1>0, <2>1, <2>2, FreedKeeps
<1>5. ASSUME NEW w \in Handlers, Handle(w) PROVE UNCHANGED disk \/ Persist(w)
    BY <1>5, Zenon DEF Handle, RegisterStart, RegisterFinish, RegStartSession, RegStartMode,
       RegStartCode, RegStartUser, RegStartRemember, RegStartInsert, RegFinishTake,
       RegFinishPush, RegFinishRollback, RegFinishClear, RegFinishBurn, LoginStart,
       LoginFinishTake, NewSession, Refuse, state
<1>6. Lapse \/ EndSession \/ Start \/ StartRefused \/ UNCHANGED state => UNCHANGED disk
    BY DEF Lapse, EndSession, Start, StartRefused, state
<1> QED
    BY <1>1, <1>2, <1>3, <1>4, <1>5, <1>6 DEF Step

\* A finish that is about to be answered has its credential in auth.json.
Secured(w) ==
    pc[w] \in {"clear", "burn", "session"} /\ req[w].mode # "Login"
        => \E k \in Ids(Saved.passkeys) : req[w].key = {k}

Earned == acked \subseteq Ids(Saved.passkeys) /\ \A w \in Handlers : Secured(w)

AckedInv == TurnInv /\ (races \cap {"saves", "rename"} = {} => Earned)

\* Only a rename, or an earlier step of the answer, leads towards it.
LEMMA TowardsTheAnswer ==
    ASSUME Typed, NEW w \in Handlers, Handle(w), ~ PersistRename(w),
           pc'[w] \in {"clear", "burn", "session"}
    PROVE  pc[w] \in {"clear", "burn", "session"} /\ req' = req
<1>1. CASE RegisterStart(w)
    BY <1>1, Moves DEF RegisterStart, RegStartSession, RegStartMode, RegStartCode, RegStartUser,
       RegStartRemember, RegStartInsert
<1>2. CASE RegFinishTake(w) \/ RegFinishPush(w) \/ RegFinishRollback(w)
    BY <1>2, Moves DEF RegFinishTake, RegFinishPush, RegFinishRollback, Idle
<1>3. CASE RegFinishClear(w) \/ RegFinishBurn(w)
    BY <1>3 DEF RegFinishClear, RegFinishBurn, At
<1>4. CASE Persist(w)
    BY <1>4, Moves DEF Persist, PersistSnapshot, PersistOpen, PersistWrite, PersistRenameLost,
       PersistFault, AfterPersist
<1>5. CASE LoginStart(w) \/ LoginFinishTake(w) \/ NewSession(w) \/ Refuse(w)
    BY <1>5, Moves DEF LoginStart, LoginFinishTake, NewSession, Refuse, state, Idle
<1> QED
    BY <1>1, <1>2, <1>3, <1>4, <1>5 DEF Handle, RegisterFinish

LEMMA EarnedHandler ==
    ASSUME Typed, Earned, NEW w \in Handlers, Handle(w), ~ PersistRename(w), Saved' = Saved
    PROVE  Earned'
<1>1. acked' \subseteq Ids(Saved.passkeys)
  <2>1. CASE NewSession(w)
    <3>1. acked' = IF req[w].mode = "Login" THEN acked ELSE acked \cup req[w].key
        BY <2>1 DEF NewSession
    <3>2. req[w].mode # "Login" => \E k \in Ids(Saved.passkeys) : req[w].key = {k}
        BY <2>1 DEF NewSession, At, Earned, Secured
    <3> QED
        BY <3>1, <3>2 DEF Earned
  <2>2. CASE UNCHANGED acked
      BY <2>2 DEF Earned
  <2>3. NewSession(w) \/ UNCHANGED acked
      BY Zenon DEF Handle, RegisterStart, RegisterFinish, RegStartSession, RegStartMode,
         RegStartCode, RegStartUser, RegStartRemember, RegStartInsert, RegFinishTake,
         RegFinishPush, RegFinishRollback, RegFinishClear, RegFinishBurn, Persist,
         PersistSnapshot, PersistOpen, PersistWrite, PersistRename, PersistRenameLost,
         PersistFault, LoginStart, LoginFinishTake, Refuse, state
  <2> QED
      BY <2>1, <2>2, <2>3
<1>2. \A v \in Handlers \ {w} : Secured(v)'
    BY Others DEF Earned, Secured
<1>3. Secured(w)'
    BY TowardsTheAnswer DEF Earned, Secured
<1> QED
    BY <1>1, <1>2, <1>3 DEF Earned

LEMMA EarnedRename ==
    ASSUME Typed, Turns, Earned, NEW w \in Handlers, PersistRename(w) PROVE Earned'
<1>1. /\ acked' = acked /\ req'[w].mode = req[w].mode /\ req'[w].key = req[w].key /\ Handle(w)
    BY Moves DEF PersistRename, Handle, Persist
<1>2. Ids(Saved.passkeys) \subseteq Ids((Saved.passkeys)')
    BY RenameAdds
<1>3. Secured(w)'
    BY <1>1, RenameAdds DEF Secured
<1>4. \A v \in Handlers \ {w} : Secured(v)'
    BY <1>1, <1>2, Others DEF Earned, Secured
<1> QED
    BY <1>1, <1>2, <1>3, <1>4 DEF Earned

LEMMA EarnedEnvironment ==
    ASSUME Earned, Saved' = Saved,
           \/ Lapse \/ EndSession \/ FlushDirectory \/ Crash \/ Start \/ StartRefused
           \/ UNCHANGED state
    PROVE  Earned'
<1>1. UNCHANGED acked
    BY DEF Lapse, EndSession, FlushDirectory, Crash, Start, StartRefused, state
<1>2. (\A w \in Handlers : pc'[w] = "idle") \/ UNCHANGED <<pc, req>>
    BY DEF Lapse, EndSession, FlushDirectory, Crash, Start, StartRefused, state
<1> QED
    BY <1>1, <1>2 DEF Earned, Secured

LEMMA AckedInvInit == Init => AckedInv
<1>1. Init => Earned
    BY DEF Init, Earned, Secured
<1> QED
    BY <1>1, TurnInvInit DEF AckedInv

\* What a step that meets no race may rely on.
LEMMA NoRaceYet ==
    ASSUME TurnInv, [Next]_vars, races' \cap {"saves", "rename"} = {}
    PROVE  /\ [Step]_state /\ Typed /\ Down /\ Turns /\ races \subseteq races'
           /\ ~ RenameUndone \/ UNCHANGED state
<1>1. races \subseteq races' /\ (~ RenameUndone \/ UNCHANGED state)
    BY StepOf DEF Watch
<1>2. "saves" \notin races
    BY <1>1
<1> QED
    BY <1>1, <1>2, StepOf DEF TurnInv, Based

LEMMA AckedInvNext == AckedInv /\ [Next]_vars => AckedInv'
<1> SUFFICES ASSUME AckedInv, [Next]_vars PROVE AckedInv'
    OBVIOUS
<1>1. TurnInv /\ TurnInv'
    BY TurnInvNext DEF AckedInv
<1>2. ASSUME races' \cap {"saves", "rename"} = {} PROVE Earned'
  <2>1. /\ [Step]_state /\ Typed /\ Turns /\ (~ RenameUndone \/ UNCHANGED state)
        /\ races \cap {"saves", "rename"} = {}
      BY <1>1, <1>2, NoRaceYet
  <2>2. Earned
      BY <2>1 DEF AckedInv
  <2>3. CASE \E w \in Handlers : PersistRename(w)
      BY <2>1, <2>2, <2>3, EarnedRename
  <2>4. CASE ~ \E w \in Handlers : PersistRename(w)
    <3>1. Saved' = Saved
      <4>1. CASE UNCHANGED state
          BY <4>1, SavedKept DEF state, disk
      <4>2. CASE ~ RenameUndone
          BY <2>1, <2>4, <4>2, OnlyRenameSaves
      <4> QED
          BY <2>1, <4>1, <4>2
    <3> QED
        BY <2>1, <2>2, <2>4, <3>1, EarnedHandler, EarnedEnvironment DEF Step
  <2> QED
      BY <2>3, <2>4
<1> QED
    BY <1>1, <1>2 DEF AckedInv

LEMMA AckedAlways == Spec => []AckedInv
BY AckedInvInit, AckedInvNext, PTL DEF Spec

\* A credential whose enrolment was reported as successful is known to the running
\* process and to every later one, until two finishes save at the same time or a
\* power cut takes a rename back: no failed save, roll-back, crash or step of
\* another handler takes it away (src/auth.rs, register_finish and AuthState::new).
THEOREM AckedStaysKnown == Spec => []AckedIsKnown
<1>1. AckedInv => AckedIsKnown
  <2> SUFFICES ASSUME AckedInv, races \cap {"saves", "rename"} = {}, running
               PROVE  acked \subseteq Ids(passkeys)
      BY Zenon DEF AckedIsKnown
  <2>1. acked \subseteq Ids(Saved.passkeys) /\ Typed /\ Turns
      BY DEF AckedInv, Earned, TurnInv, Based
  <2>2. CASE \A w \in Handlers : ~ Unsaved(w)
    <3>1. passkeys = Saved.passkeys
        BY <2>1, <2>2, Zenon DEF Turns
    <3> QED
        BY <2>1, <3>1
  <2>3. ASSUME NEW w \in Handlers, Unsaved(w) PROVE acked \subseteq Ids(passkeys)
    <3>1. PICK k \in Passkeys :
            passkeys = Append(Saved.passkeys, [id |-> k, how |-> req[w].mode, uid |-> req[w].uid])
        BY <2>1, <2>3 DEF Turns, Pushed
    <3>2. [id |-> k, how |-> req[w].mode, uid |-> req[w].uid] \in Credential
        BY <2>1, <2>3 DEF Typed, StateOK, Requests, Request, Unsaved, Credential
    <3>3. Saved.passkeys \in Seq(Credential)
        BY <2>1, SavedTyped DEF Document
    <3> QED
        BY <2>1, <3>1, <3>2, <3>3, AppendedKey
  <2> QED
      BY <2>2, <2>3
<1> QED
    BY <1>1, AckedAlways, PTL

--------------------------------------------------------------------------------
(* The account.  Until two saves overlap, a sign-in is begun on a           *)
(* credential that is not saved, or a rename is taken back, every step is a *)
(* step of AdminAccount or leaves the account alone.                        *)

\* What a handler past its first checks relies on: a sign-in on some saved passkey,
\* a bootstrap that is being saved on nobody being enrolled, and any other
\* enrolment on an earlier session.
Rests(w) ==
    /\ pc[w] \in FinishSteps \ {"push"} /\ req[w].mode = "Login" => Saved.passkeys # << >>
    /\ Unsaved(w) => IF req[w].mode = "Bootstrap" THEN Saved.passkeys = << >> ELSE issued > 0

Granted ==
    /\ ~ SignInAhead
    /\ sessions # {} => issued > 0
    /\ \A w \in Handlers : Rests(w)

AccountInv == AckedInv /\ (races \cap {"saves", "sign-in", "rename"} = {} => Granted)

\* A handler before the push, or done, relies on nothing.
LEMMA RestsOnNothing ==
    ASSUME NEW w, pc'[w] \notin FinishSteps \ {"push"} PROVE Rests(w)'
BY DEF Rests, Unsaved, FinishSteps, PersistSteps

\* A handler that moves on within a save, or not at all, relies on the same.
LEMMA RestsOn ==
    ASSUME NEW w, Rests(w), Saved' = Saved, issued > 0 => issued' > 0,
           req'[w].mode = req[w].mode,
           pc'[w] = pc[w] \/ {pc[w], pc'[w]} \subseteq PersistSteps \cup {"failed"}
    PROVE  Rests(w)'
<1>1. Unsaved(w)' <=> Unsaved(w)
    BY DEF Unsaved
<1>2. pc'[w] \in FinishSteps \ {"push"} <=> pc[w] \in FinishSteps \ {"push"}
    BY DEF FinishSteps, PersistSteps
<1> QED
    BY <1>1, <1>2 DEF Rests

\* A token is never handed out before it is counted.
LEMMA Counted ==
    ASSUME Typed, NEW w \in Handlers, Handle(w), sessions # {} => issued > 0
    PROVE  (sessions' # {} => issued' > 0) /\ (issued > 0 => issued' > 0)
<1> USE DEF counters, maps
<1>1. CASE NewSession(w)
    BY <1>1 DEF NewSession, Typed, StateOK
<1>2. CASE UNCHANGED <<sessions, issued>>
    BY <1>2
<1>3. NewSession(w) \/ UNCHANGED <<sessions, issued>>
    BY Zenon DEF Handle, RegisterStart, RegisterFinish, RegStartSession, RegStartMode,
       RegStartCode, RegStartUser, RegStartRemember, RegStartInsert, RegFinishTake,
       RegFinishPush, RegFinishRollback, RegFinishClear, RegFinishBurn, Persist,
       PersistSnapshot, PersistOpen, PersistWrite, PersistRename, PersistRenameLost,
       PersistFault, LoginStart, LoginFinishTake, Refuse, state
<1> QED
    BY <1>1, <1>2, <1>3

\* A push takes place when memory and auth.json agree, and authorized by both.
LEMMA RestsPush ==
    ASSUME Typed, Turns, Granted, NEW w \in Handlers, RegFinishPush(w), Saved' = Saved,
           ~ SavesOverlap'
    PROVE  Rests(w)'
<1>0. Handle(w) /\ pc[w] = "push" /\ running /\ issued' = issued /\ req[w].mode \in Modes
    BY Zenon DEF RegFinishPush, Handle, RegisterFinish, At, counters, Typed, ModeKnown, ModeSteps
<1>1. CASE Respond(w)
    BY <1>1, Moves, RestsOnNothing DEF FinishSteps, PersistSteps
<1>2. CASE Authorized(req[w].mode, req[w].token) /\ Goto(w, "snapshot") /\ UNCHANGED req
  <2>1. pc'[w] = "snapshot" /\ req' = req
      BY <1>2, Moves
  <2>2. Alone(w)'
      BY <2>1 DEF Alone, SavesOverlap, Saving, PersistSteps
  <2>3. \A v \in Handlers : ~ Saving(v)
      BY <1>0, <2>2, Others DEF Alone, Saving, PersistSteps
  <2>4. passkeys = Saved.passkeys
    <3>1. \A v \in Handlers : ~ Unsaved(v)
        BY <2>3, UnsavedSaves
    <3> QED
        BY <1>0, <3>1, Zenon DEF Turns
  <2>5. IF req[w].mode = "Bootstrap" THEN Saved.passkeys = << >> ELSE issued > 0
      BY <1>2, <2>4 DEF Authorized, Granted
  <2> QED
      BY <1>0, <2>1, <2>5 DEF Rests, Modes
<1> QED
    BY <1>1, <1>2 DEF RegFinishPush

\* A sign-in takes place with a saved credential.
LEMMA RestsLogin ==
    ASSUME Typed, Granted, NEW w \in Handlers, LoginFinishTake(w), Saved' = Saved
    PROVE  Rests(w)'
<1>0. req[w] \in Request /\ DOMAIN req = Handlers /\ pc[w] = "idle"
    BY DEF Typed, StateOK, Requests, LoginFinishTake, Idle
<1>1. PICK c \in auth :
        \/ /\ Goto(w, "snapshot")
           /\ \E k \in c.keys : req' = [req EXCEPT ![w].mode = "Login", ![w].key = {k}]
        \/ UNCHANGED <<pc, req>>
    BY DEF LoginFinishTake
<1>2. CASE UNCHANGED <<pc, req>>
    BY <1>0, <1>2, RestsOnNothing DEF FinishSteps, PersistSteps
<1>3. ASSUME NEW k \in c.keys, Goto(w, "snapshot"),
             req' = [req EXCEPT ![w].mode = "Login", ![w].key = {k}]
      PROVE  Rests(w)'
  <2>1. pc'[w] = "snapshot" /\ req'[w].mode = "Login"
      BY <1>0, <1>3, Moves DEF Request
  <2>2. Saved.passkeys # << >>
      BY NobodysKeys DEF Granted, SignInAhead
  <2> QED
      BY <2>1, <2>2 DEF Rests, Unsaved
<1> QED
    BY <1>1, <1>2, <1>3

LEMMA GrantedHandler ==
    ASSUME Typed, Turns, Granted, NEW w \in Handlers, Handle(w), ~ PersistRename(w),
           Saved' = Saved, ~ SavesOverlap', ~ SignInAhead'
    PROVE  Granted'
<1>c. (sessions' # {} => issued' > 0) /\ (issued > 0 => issued' > 0)
    BY Counted DEF Granted
<1>0. req[w] \in Request /\ DOMAIN req = Handlers /\ Rests(w)
    BY DEF Typed, StateOK, Requests, Granted
<1>v. \A v \in Handlers \ {w} : Rests(v)'
    BY <1>c, Others, RestsOn DEF Granted
<1> SUFFICES Rests(w)'
    BY <1>c, <1>v DEF Granted
<1>1. CASE RegFinishPush(w)
    BY <1>1, RestsPush
<1>2. CASE LoginFinishTake(w)
    BY <1>2, RestsLogin
<1>3. CASE RegisterStart(w)
  <2>1. pc'[w] \in RegStartSteps \cup {"idle"}
      BY <1>3, Moves DEF RegisterStart, RegStartSession, RegStartMode, RegStartCode,
         RegStartUser, RegStartRemember, RegStartInsert, RegStartSteps
  <2> QED
      BY <2>1, RestsOnNothing DEF RegStartSteps, FinishSteps, PersistSteps
<1>4. CASE RegFinishTake(w) \/ RegFinishRollback(w) \/ LoginStart(w) \/ NewSession(w) \/ Refuse(w)
  <2>1. pc'[w] \in {"idle", "push"}
      BY <1>4, Moves DEF RegFinishTake, RegFinishRollback, LoginStart, NewSession, Refuse, Idle,
         state
  <2> QED
      BY <2>1, RestsOnNothing DEF FinishSteps, PersistSteps
<1>5. CASE RegFinishClear(w) \/ RegFinishBurn(w)
  <2>1. /\ pc[w] \in {"clear", "burn"} /\ pc'[w] \in {"burn", "session"} /\ req' = req
      BY <1>5, Moves DEF RegFinishClear, RegFinishBurn, At
  <2> QED
      BY <1>0, <2>1 DEF Rests, Unsaved, FinishSteps, PersistSteps
<1>6. CASE Persist(w)
  <2>1. pc[w] \in PersistSteps /\ pc'[w] \in PersistSteps \cup {"failed"}
      BY <1>6, Moves DEF Persist, PersistSnapshot, PersistOpen, PersistWrite,
         PersistRenameLost, PersistFault, At, PersistSteps, AfterPersist
  <2>2. req'[w].mode = req[w].mode
    <3>1. CASE PersistSnapshot(w)
        BY <1>0, <3>1 DEF PersistSnapshot, Request
    <3>2. CASE PersistOpen(w)
        BY <1>0, <3>2 DEF PersistOpen, Request
    <3>3. CASE PersistWrite(w)
        BY <3>3 DEF PersistWrite
    <3>4. CASE PersistRenameLost(w) \/ PersistFault(w)
        BY <3>4, Moves DEF PersistRenameLost, PersistFault
    <3> QED
        BY <1>6, <3>1, <3>2, <3>3, <3>4 DEF Persist
  <2> QED
      BY <1>0, <1>c, <2>1, <2>2, RestsOn
<1> QED
    BY <1>1, <1>2, <1>3, <1>4, <1>5, <1>6 DEF Handle, RegisterFinish

LEMMA GrantedRename ==
    ASSUME Typed, Turns, Granted, NEW w \in Handlers, PersistRename(w), ~ SignInAhead'
    PROVE  Granted'
<1>1. /\ issued' = issued /\ sessions' = sessions /\ Handle(w)
      /\ req'[w].mode = req[w].mode /\ pc[w] = "rename"
      /\ pc'[w] = IF req[w].mode = "Bootstrap" THEN "clear" ELSE "session"
    BY Moves DEF PersistRename, Handle, Persist, maps, counters, At, AfterPersist
<1>2. Rests(w)'
  <2>1. ~ Unsaved(w)'
      BY <1>1 DEF Unsaved, PersistSteps
  <2>2. req[w].mode = "Login" => (Saved.passkeys)' # << >>
      BY <1>1, RenameAdds DEF Granted, Rests, FinishSteps, PersistSteps
  <2> QED
      BY <1>1, <2>1, <2>2 DEF Rests
<1>3. ASSUME NEW v \in Handlers \ {w} PROVE Rests(v)'
  <2>1. pc'[v] = pc[v] /\ req'[v] = req[v] /\ ~ Unsaved(v)
      BY <1>1, Others, RenameSaves
  <2>2. Saved.passkeys # << >> => (Saved.passkeys)' # << >>
      BY RenameAdds
  <2> QED
      BY <2>1, <2>2 DEF Granted, Rests, Unsaved
<1> QED
    BY <1>1, <1>2, <1>3 DEF Granted

LEMMA GrantedEnvironment ==
    ASSUME Granted, Saved' = Saved, ~ SignInAhead',
           \/ Lapse \/ EndSession \/ FlushDirectory \/ Crash \/ Start \/ StartRefused
           \/ UNCHANGED state
    PROVE  Granted' /\ UNCHANGED <<acked, issued>> /\ sessions' \subseteq sessions
<1> USE DEF counters, maps
<1>1. UNCHANGED <<acked, issued>> /\ sessions' \subseteq sessions
    BY DEF Lapse, EndSession, FlushDirectory, Crash, Start, StartRefused, state
<1>2. \/ \A w \in Handlers : pc'[w] = "idle"
      \/ UNCHANGED <<pc, req>>
    BY DEF Lapse, EndSession, FlushDirectory, Crash, Start, StartRefused, state
<1>3. ASSUME NEW w \in Handlers PROVE Rests(w)'
  <2>1. CASE pc'[w] = "idle"
      BY <2>1, RestsOnNothing DEF FinishSteps, PersistSteps
  <2>2. CASE UNCHANGED <<pc, req>>
      BY <1>1, <2>2, RestsOn DEF Granted
  <2> QED
      BY <1>2, <2>1, <2>2
<1> QED
    BY <1>1, <1>3 DEF Granted

\* What a step does that meets no race.
LEMMA AccountStep ==
    ASSUME AccountInv, [Next]_vars, races' \cap {"saves", "sign-in", "rename"} = {}
    PROVE  /\ Typed /\ Turns /\ Earned /\ Granted /\ Granted'
           /\ \/ \E w \in Handlers : PersistRename(w)
              \/ Saved' = Saved /\ \E w \in Handlers : Handle(w) /\ ~ PersistRename(w)
              \/ /\ Saved' = Saved /\ UNCHANGED <<acked, issued>>
                 /\ sessions' \subseteq sessions
<1>1. /\ [Step]_state /\ Typed /\ Turns /\ races \subseteq races'
      /\ ~ RenameUndone \/ UNCHANGED state
    BY NoRaceYet DEF AccountInv, AckedInv
<1>2. Earned /\ Granted
    BY <1>1 DEF AccountInv, AckedInv
<1>3. (~ SavesOverlap' /\ ~ SignInAhead') \/ UNCHANGED state
    BY StepOf DEF Watch
<1>4. ~ SignInAhead'
  <2>1. CASE UNCHANGED state
    <3>1. auth' = auth /\ Saved' = Saved
        BY <2>1, SavedKept DEF state, maps, disk
    <3> QED
        BY <1>2, <3>1 DEF Granted, SignInAhead
  <2> QED
      BY <1>3, <2>1
<1>5. CASE \E w \in Handlers : PersistRename(w)
    BY <1>1, <1>2, <1>4, <1>5, GrantedRename
<1>6. CASE ~ \E w \in Handlers : PersistRename(w)
  <2>1. Saved' = Saved
    <3>1. CASE UNCHANGED state
        BY <3>1, SavedKept DEF state, disk
    <3>2. CASE ~ RenameUndone
        BY <1>1, <1>6, <3>2, OnlyRenameSaves
    <3> QED
        BY <1>1, <3>1, <3>2
  <2>2. ASSUME NEW w \in Handlers, Handle(w), ~ SavesOverlap' PROVE Granted'
      BY <1>1, <1>2, <1>4, <1>6, <2>1, <2>2, GrantedHandler
  <2>3. CASE \/ Lapse \/ EndSession \/ FlushDirectory \/ Crash \/ Start \/ StartRefused
             \/ UNCHANGED state
      BY <1>1, <1>2, <1>4, <2>1, <2>3, GrantedEnvironment
  <2> QED
      BY <1>1, <1>2, <1>3, <1>6, <2>1, <2>2, <2>3 DEF Step
<1> QED
    BY <1>5, <1>6

\* What a grant rests on: a saved passkey, and an enrolment on its own.
LEMMA GrantRests ==
    ASSUME Earned, Granted, NEW w \in Handlers, NewSession(w)
    PROVE  /\ Saved.passkeys # << >>
           /\ req[w].mode # "Login" => \E k \in Ids(Saved.passkeys) : req[w].key = {k}
<1>1. CASE req[w].mode = "Login"
    BY <1>1 DEF NewSession, At, Granted, Rests, FinishSteps, PersistSteps
<1>2. CASE req[w].mode # "Login"
  <2>1. PICK k \in Ids(Saved.passkeys) : req[w].key = {k}
      BY <1>2 DEF NewSession, At, Earned, Secured
  <2>2. Saved.passkeys # << >>
      BY <2>1, NobodysKeys
  <2> QED
      BY <2>1, <2>2
<1> QED
    BY <1>1, <1>2

LEMMA AccountInvInit == Init => AccountInv /\ Account!Init
<1> SUFFICES ASSUME Init PROVE AccountInv /\ Account!Init
    OBVIOUS
<1>1. Saved.passkeys = << >>
    BY DEF Init, Saved, NoDocument
<1>2. \A w \in Handlers : Rests(w)
    BY DEF Init, Rests, Unsaved, FinishSteps, PersistSteps
<1>3. Granted
    BY <1>2 DEF Init, Granted, SignInAhead
<1>4. Account!Init
    BY <1>1, NobodysKeys DEF Init, Account!Init
<1> QED
    BY <1>3, <1>4, AckedInvInit DEF AccountInv

LEMMA AccountInvNext == AccountInv /\ [Next]_vars => AccountInv'
<1> SUFFICES ASSUME AccountInv, [Next]_vars PROVE AccountInv'
    OBVIOUS
<1>1. AckedInv'
    BY AckedInvNext DEF AccountInv
<1> QED
    BY <1>1, AccountStep DEF AccountInv

\* The steps of the account that steps of the handlers stand for.
LEMMA AccountSimulates ==
    ASSUME AccountInv, [Next]_vars
    PROVE  [races' \cap {"saves", "sign-in", "rename"} = {} => Account!Next]_(Account!vars)
<1> SUFFICES ASSUME races' \cap {"saves", "sign-in", "rename"} = {}
             PROVE  Account!Next \/ UNCHANGED Account!vars
    OBVIOUS
<1> DEFINE admins == Ids(Saved.passkeys)
<1>0. Typed /\ Turns /\ Earned /\ Granted
    BY AccountStep
<1>n. \A keys \in Seq(Credential) : keys # << >> => Ids(keys) # {}
    BY DEF Ids
<1>s. Saved.passkeys \in Seq(Credential)
    BY <1>0, SavedTyped DEF Document
<1>1. ASSUME NEW w \in Handlers, PersistRename(w)
      PROVE  Account!Next \/ UNCHANGED Account!vars
  <2>1. UNCHANGED <<acked, issued, sessions>> /\ pc[w] = "rename"
      BY <1>1 DEF PersistRename, maps, counters, At
  <2>2. CASE req[w].mode = "Login"
    <3>1. admins' = admins
        BY <1>0, <1>1, <2>2, RenameAdds
    <3> QED
        BY <2>1, <3>1 DEF Account!vars
  <2>3. CASE req[w].mode # "Login"
    <3>1. PICK k \in Passkeys : k \notin admins /\ admins' = admins \cup {k}
        BY <1>0, <1>1, <2>3, RenameAdds
    <3>2. Saved.passkeys # << >> => issued > 0
        BY <1>0, <2>1, <2>3 DEF Granted, Rests, Unsaved, PersistSteps
    <3>3. CASE Saved.passkeys = << >>
        BY <2>1, <3>1, <3>3, NobodysKeys DEF Account!Claim, Account!Next
    <3>4. CASE Saved.passkeys # << >>
        BY <1>n, <1>s, <2>1, <3>1, <3>2, <3>4 DEF Account!AddDevice, Account!Next
    <3> QED
        BY <3>3, <3>4
  <2> QED
      BY <2>2, <2>3
<1>2. ASSUME Saved' = Saved, NEW w \in Handlers, NewSession(w)
      PROVE  Account!Next
  <2>1. /\ Saved.passkeys # << >>
        /\ req[w].mode # "Login" => \E k \in admins : req[w].key = {k}
      BY <1>0, <1>2, GrantRests
  <2>2. /\ issued' = issued + 1 /\ sessions' = sessions \cup {issued'}
        /\ acked' = IF req[w].mode = "Login" THEN acked ELSE acked \cup req[w].key
      BY <1>2 DEF NewSession, FreshToken
  <2>3. admins # {} /\ admins' = admins
      BY <1>2, <1>n, <1>s, <2>1
  <2>4. acked' \in {acked} \cup {acked \cup {k} : k \in admins}
      BY <2>1, <2>2
  <2> QED
      BY <2>2, <2>3, <2>4 DEF Account!Grant, Account!Next
<1>3. CASE Saved' = Saved /\ UNCHANGED <<acked, issued>> /\ sessions' \subseteq sessions
  <2>1. admins' = admins
      BY <1>3
  <2>2. CASE sessions' = sessions
      BY <1>3, <2>1, <2>2 DEF Account!vars
  <2>3. CASE sessions' # sessions
      BY <1>3, <2>1, <2>3 DEF Account!End, Account!Next
  <2> QED
      BY <2>2, <2>3
<1>4. ASSUME NEW w \in Handlers, Handle(w), ~ PersistRename(w), ~ NewSession(w)
      PROVE  UNCHANGED <<acked, issued, sessions>>
    BY <1>4, Zenon DEF Handle, RegisterStart, RegisterFinish, RegStartSession, RegStartMode,
       RegStartCode, RegStartUser, RegStartRemember, RegStartInsert, RegFinishTake,
       RegFinishPush, RegFinishRollback, RegFinishClear, RegFinishBurn, Persist,
       PersistSnapshot, PersistOpen, PersistWrite, PersistRenameLost, PersistFault,
       LoginStart, LoginFinishTake, Refuse, state, counters, maps
<1>5. ASSUME Saved' = Saved, NEW w \in Handlers, Handle(w), ~ PersistRename(w)
      PROVE  Account!Next \/ UNCHANGED Account!vars
  <2>1. CASE NewSession(w)
      BY <1>2, <1>5, <2>1
  <2>2. CASE ~ NewSession(w)
      BY <1>3, <1>4, <1>5, <2>2
  <2> QED
      BY <2>1, <2>2
<1> QED
    BY <1>1, <1>3, <1>5, AccountStep

\* With any number of handlers, whatever file operation fails and wherever the
\* process stops: until a race that nothing in the code prevents (see Watch),
\* auth.json, the answers and the sessions are those of the account that
\* AdminAccount promises (src/auth.rs).
THEOREM AccountIsKept == Spec => AccountKept
<1>1. Init => AccountInv /\ Account!Init
    BY AccountInvInit
<1>2. AccountInv /\ [Next]_vars => AccountInv'
    BY AccountInvNext
<1>3. AccountInv /\ [Next]_vars
        => [races' \cap {"saves", "sign-in", "rename"} = {} => Account!Next]_(Account!vars)
    BY AccountSimulates
<1> QED
    BY <1>1, <1>2, <1>3, PTL DEF Spec, AccountKept
================================================================================
