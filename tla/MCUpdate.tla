------------------------------ MODULE MCUpdate ------------------------------
(* The updater for TLC: three releases, one of every fault.                *)
EXTENDS Update

=============================================================================
