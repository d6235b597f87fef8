---------------------------- MODULE MCListing ----------------------------
(* Listing on small instances: a bound on what happens to the sagas meanwhile. *)
EXTENDS Listing

\* At most two sagas at a time are anything but freshly started.
FewMoves == Cardinality({s \in Sagas : shown[s] \notin {"absent", "pending"}}) <= 2
=============================================================================
