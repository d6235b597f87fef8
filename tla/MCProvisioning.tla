--------------------------- MODULE MCProvisioning ---------------------------
(* Provisioning on one saga: model values and the symmetries they allow. *)
EXTENDS Provisioning, TLC

Symmetry == Permutations(Keys) \cup Permutations(OrganizationIds) \cup Permutations(GrantIds)
=============================================================================
