----------------------------- MODULE MCRowLocks -----------------------------
(* RowLocks on small instances: model values and the symmetries they allow. *)
EXTENDS RowLocks, TLC

Symmetry == Permutations(Sagas) \cup Permutations(Keys) \cup Permutations(Connections)
=============================================================================
