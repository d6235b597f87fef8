------------------------------ MODULE MCWorker ------------------------------
(* Worker on small instances; liveness is checked, so there is no symmetry. *)
EXTENDS Worker
=============================================================================
