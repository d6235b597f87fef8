---------------------------- MODULE StorageDocs ----------------------------
(* Statements of the repository about sagas that Storage does not satisfy. *)
EXTENDS Storage

\* docs/plugin-card.md, state table: manual_review, on confirm_not_applied, is
\* followed by pending.
ConfirmNotAppliedLeadsToPending ==
    [][\A s \in Sagas, e \in Slots :
          /\ saga[s].status = "manual_review"
          /\ effect[s][e].state = "unknown"
          /\ effect'[s][e].state = "pending"
          => saga'[s].status = "pending"]_vars

\* provisioning-response.schema.json: a view has at most 65 steps, which is one
\* organization and 64 grants.
StepsFitResponseSchema ==
    \A s \in Sagas : Cardinality({e \in Slots : effect[s][e].state # "absent"}) <= 65
=============================================================================
