-------------------------- MODULE StorageInvariant --------------------------
(***************************************************************************)
(* The inductive invariant behind the safety properties of Storage.  It is *)
(* a predicate of one saga row p, its effect rows E and its log, so that   *)
(* each transaction can be reasoned about as a function of rows.           *)
(***************************************************************************)
EXTENDS Storage

InFlight(E) == {e \in Slots : E[e].state = "in_flight"}
Open(row) == row.state \in {"in_flight", "unknown", "failed"}

\* Columns that go together: a lease belongs to an effect in flight and its
\* fence is that of the last claim; failed and unknown effects say why.
RowsAgree(E) ==
    \A e \in Slots :
        /\ E[e].state = "in_flight" => /\ E[e].lease_token = E[e].attempts
                                       /\ E[e].lease_until \in {"ahead", "past"}
        /\ E[e].state # "in_flight" => E[e].lease_token = NULL /\ E[e].lease_until = NULL
        /\ E[e].state \in {"failed", "unknown"} => E[e].last_error # NULL
        /\ E[e].state = "absent" => E[e].attempts = 0

\* The states each kind of effect can be in.
KindsAgree(E) ==
    /\ E[Create].state \notin {"compensated", "skipped"}
    /\ \A i \in Ordinals : /\ E[Put(i)].state # "compensated"
                           /\ E[Revoke(i)].state \notin {"applied", "skipped"}

\* A saga works on one effect at a time, and leaves it only when it is settled.
OneOpen(E) == \A e, f \in Slots : Open(E[e]) /\ Open(E[f]) => e = f

\* The organization comes first.
OrganizationFirst(p, E) ==
    /\ E[Create].state = "applied" => /\ p.organization_id = E[Create].external_id
                                      /\ p.organization_id # NULL
                                      /\ p.organization_residue
    /\ E[Create].state # "applied" =>
          /\ p.organization_id = NULL
          /\ ~ p.organization_residue
          /\ \A i \in Ordinals : /\ E[Put(i)].state \in {"absent", "pending", "skipped"}
                                 /\ E[Put(i)].attempts = 0
    /\ \A i \in Ordinals : E[Put(i)].state = "applied" => E[Put(i)].external_id # NULL

\* Revocations mirror the applied grants once cleanup is requested.
CleanupMirrors(p, E) ==
    /\ ~ p.cleanup_requested =>
          \A i \in Ordinals : /\ E[Revoke(i)].state = "absent"
                              /\ E[Put(i)].state # "skipped"
    /\ p.cleanup_requested =>
          /\ E[Create].state \in {"applied", "failed"}
          /\ \A i \in Ordinals :
                /\ E[Put(i)].state \in {"absent", "applied", "skipped"}
                /\ E[Put(i)].state = "applied" <=> E[Revoke(i)].state # "absent"
                /\ E[Put(i)].state = "applied" =>
                      E[Revoke(i)].external_id = E[Put(i)].external_id

EffectsConsistent(p, E) ==
    /\ RowsAgree(E) /\ KindsAgree(E) /\ OneOpen(E)
    /\ OrganizationFirst(p, E) /\ CleanupMirrors(p, E)

\* The status is the one refresh_saga_status would compute, except that an
\* effect in flight makes the saga "running".
ExpectedStatus(p, E) ==
    IF InFlight(E) # {}
    THEN IF p.cleanup_requested THEN "cleanup_running" ELSE "running"
    ELSE RefreshedStatus(E, p.cleanup_requested)

StatusConsistent(p, E) ==
    /\ E[Create].state # "absent"
    /\ p.status = ExpectedStatus(p, E)
    /\ p.status \in {"manual_review", "failed", "cleanup_failed"} => p.last_error # NULL

Consistent(p, E) ==
    \/ p = NoSaga /\ E = [e \in Slots |-> NoEffect]
    \/ EffectsConsistent(p, E) /\ StatusConsistent(p, E)

\* refresh_saga_status, claim_next, request_cleanup and quarantine_expired keep
\* every stored saga in one of the combinations of columns named above.
SagasConsistent == \A s \in Sagas : Consistent(saga[s], effect[s])
=============================================================================
