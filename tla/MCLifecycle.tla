----------------------------- MODULE MCLifecycle -----------------------------
(* Small instances of Lifecycle for TLC: two demands, one of them the one  *)
(* the instance was spawned for, so no symmetry applies.                   *)
EXTENDS Lifecycle

=============================================================================
