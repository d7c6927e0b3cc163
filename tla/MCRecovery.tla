---------------------------- MODULE MCRecovery ----------------------------
(***************************************************************************)
(* Two configurations, PIDs that are reused, managers that crash.          *)
(***************************************************************************)
EXTENDS Recovery, TLC

PidSymmetry == Permutations(Pids)

=============================================================================
