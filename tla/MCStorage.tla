----------------------------- MODULE MCStorage -----------------------------
(* Storage on small instances: model values and the symmetries they allow. *)
EXTENDS StorageLifecycle, StorageDocs, TLC

Symmetry == Permutations(Sagas) \cup Permutations(Actors) \cup Permutations(Keys)
                \cup Permutations(OrganizationIds) \cup Permutations(GrantIds)

\* Bounds a search for long runs: no effect fails and no lease is lost.
AllSucceed == \A s \in Sagas, e \in Slots :
    effect[s][e].state \notin {"failed", "unknown"} /\ effect[s][e].lease_until # "past"
=============================================================================
