------------------------------ MODULE MCOutbox ------------------------------
(* Model-checking instance of Outbox. *)
EXTENDS Outbox, TLC

ProcSymmetry == Permutations(Procs)
InstSymmetry == Permutations(Insts)
=============================================================================
