---------------------------- MODULE EnrolmentAccount ----------------------------
(****************************************************************************)
(* Enrolment implements AdminAccount: the admins are the credentials in     *)
(* auth.json, so that an enrolment takes effect with the rename, and every  *)
(* other step of the handlers, and a crash, leaves them alone.              *)
(****************************************************************************)
EXTENDS Enrolment

Account == INSTANCE AdminAccount WITH
    admins <- Ids(Saved.passkeys), granted <- issued

\* Whatever handlers do together, whatever file operation fails and wherever the
\* process stops, auth.json, the answers and the sessions are those of the
\* account that AdminAccount promises, up to the first overlap of two saves, the
\* first sign-in begun on a credential that is not saved, or the first rename
\* that a power cut takes back.
AccountKept ==
    /\ Account!Init
    /\ [][races' \cap {"saves", "sign-in", "rename"} = {} => Account!Next]_(Account!vars)

================================================================================
