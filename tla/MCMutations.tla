---------------------------- MODULE MCMutations ----------------------------
(* Mutations on small instances: model values and the symmetries they allow. *)
EXTENDS Mutations, TLC

Symmetry == Permutations(Clients) \cup Permutations(Actors) \cup Permutations(Keys)

\* Bounds the workers: two commands after the start, and what follows the first.
FewRevisions == \A s \in Sagas : saga[s].revision <= 5
=============================================================================
