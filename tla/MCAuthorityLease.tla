-------------------------- MODULE MCAuthorityLease --------------------------
(* Model-checking instance of AuthorityLease. *)
EXTENDS AuthorityLease, TLC

ProcSymmetry == Permutations(Procs)
=============================================================================
