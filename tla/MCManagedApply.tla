--------------------------- MODULE MCManagedApply ---------------------------
(* Small instances of ManagedApply.  Requests, identifiers, bodies and     *)
(* sources are only compared with each other.                              *)
EXTENDS ManagedApply, TLC

Symmetry == Permutations(Jobs) \cup Permutations(Ids)
            \cup Permutations(Bodies) \cup Permutations(Sources)
=============================================================================
