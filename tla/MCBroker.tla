------------------------------ MODULE MCBroker ------------------------------
(* Small instances of Broker.  Identifiers are opaque to the broker: it    *)
(* only compares them, so they may be permuted.                            *)
EXTENDS Broker, TLC

Symmetry ==
  Permutations(Requests) \cup Permutations(Configurations) \cup Permutations(Snapshots)
=============================================================================
