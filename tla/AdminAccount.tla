------------------------------ MODULE AdminAccount ------------------------------
(****************************************************************************)
(* What src/auth.rs promises of the admin account, without locks, files or  *)
(* crashes: who is enrolled only ever grows, the first one came with the    *)
(* enrolment code and every other was added by somebody who had signed in,  *)
(* whoever was told to be enrolled is, and nobody has a session of an       *)
(* account that is not claimed.                                             *)
(****************************************************************************)
EXTENDS Naturals

CONSTANT Passkeys      \* credentials the authenticators can offer

VARIABLES
    admins,      \* who is enrolled, for good
    acked,       \* who was told so
    sessions,    \* live session tokens
    granted      \* sessions granted so far

vars == <<admins, acked, sessions, granted>>

--------------------------------------------------------------------------------
Init == admins = {} /\ acked = {} /\ sessions = {} /\ granted = 0

\* The account is claimed, with the one-time code.
Claim(k) ==
    /\ admins = {}
    /\ admins' = {k}
    /\ UNCHANGED <<acked, sessions, granted>>

\* A device is added by somebody who is, or was just, signed in.
AddDevice(k) ==
    /\ admins # {} /\ granted > 0 /\ k \notin admins
    /\ admins' = admins \cup {k}
    /\ UNCHANGED <<acked, sessions, granted>>

\* A session is granted, to an admin who signs in or who is told, with it, that
\* the enrolment is done.
Grant ==
    /\ admins # {}
    /\ granted' = granted + 1
    /\ sessions' = sessions \cup {granted'}
    /\ acked' \in {acked} \cup {acked \cup {k} : k \in admins}
    /\ UNCHANGED admins

\* Sessions end, one by one or all at once with the process.
End ==
    /\ sessions' \in (SUBSET sessions) \ {sessions}
    /\ UNCHANGED <<admins, acked, granted>>

Next == (\E k \in Passkeys : Claim(k) \/ AddDevice(k)) \/ Grant \/ End

Spec == Init /\ [][Next]_vars

================================================================================
