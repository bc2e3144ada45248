------------------------------ MODULE MCEnrolment ------------------------------
(****************************************************************************)
(* Enrolment for TLC.  Handlers, passkeys and inodes are model values that  *)
(* the specification only compares, so they are interchangeable.            *)
(****************************************************************************)
EXTENDS EnrolmentAccount, TLC

Symmetry == Permutations(Handlers) \cup Permutations(Passkeys) \cup Permutations(Inodes)

================================================================================
