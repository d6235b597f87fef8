--------------------------- MODULE StorageProofs ---------------------------
(***************************************************************************)
(* The rows that Storage's transactions write are rows; SagasConsistent is *)
(* inductive, and so are the safety properties it implies.                 *)
(* Consistency is first a matter of the rows of one saga, which each       *)
(* transaction, as a function of rows, keeps consistent; that is lifted to *)
(* the actions of Storage, which leave the rows of other sagas alone.      *)
(***************************************************************************)
EXTENDS StorageInvariant, TLAPS

\* The slots are the creation, one put and one revocation per ordinal.
LEMMA SlotFacts ==
    /\ Create \in Slots /\ Create[1] = "create_organization" /\ Create[2] = 0
    /\ \A i \in Ordinals : /\ Put(i) \in Slots /\ Revoke(i) \in Slots
                           /\ Put(i)[1] = "put_entitlement" /\ Put(i)[2] = i
                           /\ Revoke(i)[1] = "revoke_entitlement" /\ Revoke(i)[2] = i
    /\ \A e \in Slots : \/ e = Create
                        \/ \E i \in Ordinals : e = Put(i) \/ e = Revoke(i)
  BY DEF Slots, Create, Put, Revoke

\* The slots of one kind.
LEMMA SlotKinds ==
    ASSUME NEW e \in Slots
    PROVE  /\ e[1] \in {"create_organization", "put_entitlement", "revoke_entitlement"}
           /\ e[1] = "create_organization" => e = Create
           /\ e[1] = "put_entitlement" => e[2] \in Ordinals /\ e = Put(e[2])
           /\ e[1] = "revoke_entitlement" => e[2] \in Ordinals /\ e = Revoke(e[2])
  BY SlotFacts DEF Create, Put, Revoke

\* Rows the transactions build from typed rows.
LEMMA ReleasedType ==
    ASSUME NEW row \in EffectRow, NEW state \in EffectStates, NEW error \in {NULL, "error"}
    PROVE  Released(row, state, error) \in EffectRow
  BY DEF Released, EffectRow

\* A new row, and the row of an effect that was never created.
LEMMA PendingType ==
    ASSUME NEW id \in OrganizationIds \cup GrantIds \cup {NULL}
    PROVE  PendingEffect(id) \in EffectRow /\ NoEffect \in EffectRow
  BY DEF PendingEffect, NoEffect, EffectRow, EffectStates

\* The row claim_next writes.
LEMMA ClaimedType ==
    ASSUME NEW row \in EffectRow
    PROVE  ClaimedEffect(row) \in EffectRow
<1>1. row.attempts + 1 \in Nat
  BY DEF EffectRow
<1>2. \A n \in Nat : [row EXCEPT !.state = "in_flight", !.attempts = n, !.lease_token = n,
                                 !.lease_until = "ahead", !.last_error = NULL] \in EffectRow
  BY DEF EffectRow, EffectStates
<1>3. QED
  BY <1>1, <1>2 DEF ClaimedEffect, Fence

\* The saga rows claim_next and quarantine_expired write.
LEMMA ClaimedSagaType ==
    ASSUME NEW p \in SagaRow
    PROVE  ClaimedSaga(p) \in SagaRow /\ QuarantinedSaga(p) \in SagaRow
<1>1. p.revision + 1 \in Nat
  BY DEF SagaRow
<1>2. \A st \in Statuses, n \in Nat, er \in {NULL, "error"} :
         [p EXCEPT !.status = st, !.revision = n, !.last_error = er] \in SagaRow
  BY DEF SagaRow
<1>3. {"cleanup_running", "running", "manual_review"} \subseteq Statuses
  BY DEF Statuses
<1>4. QED
  BY <1>1, <1>2, <1>3, Zenon DEF ClaimedSaga, QuarantinedSaga

\* What an outcome of each kind of effect may say.
LEMMA OutcomeType ==
    ASSUME NEW e \in Slots, NEW outcome \in Outcomes(e[1])
    PROVE  /\ outcome.state \in {"failed", "unknown", "applied", "compensated"}
           /\ outcome.id \in OrganizationIds \cup GrantIds \cup {NULL}
           /\ outcome.state = "applied" => e[1] # "revoke_entitlement" /\ outcome.id # NULL
           /\ e = Create /\ outcome.state = "applied" => outcome.id \in OrganizationIds
           /\ outcome.state = "compensated" => e[1] = "revoke_entitlement"
  BY SlotKinds, SlotFacts, NullAssumption DEF Outcomes

\* The row finalize_effect writes.
LEMMA SettledType ==
    ASSUME NEW row \in EffectRow, NEW e \in Slots, NEW outcome \in Outcomes(e[1])
    PROVE  SettledEffect(row, outcome) \in EffectRow
  BY OutcomeType DEF SettledEffect, Released, EffectRow, EffectStates

\* The organization is recorded from a well typed outcome.
LEMMA OrganizationType ==
    ASSUME NEW p \in SagaRow, NEW e \in Slots, NEW outcome \in Outcomes(e[1])
    PROVE  WithOrganization(p, e, outcome) \in SagaRow
  BY OutcomeType DEF WithOrganization, SagaRow

\* The saga row refresh_saga_status writes, whatever the effects.
LEMMA RefreshType ==
    ASSUME NEW p \in SagaRow, NEW E
    PROVE  Refresh(p, E) \in SagaRow
<1>1. RefreshedStatus(E, p.cleanup_requested) \in Statuses
  BY DEF RefreshedStatus, Statuses
<1>2. p.revision + 1 \in Nat
  BY DEF SagaRow
<1>3. \A st \in Statuses, n \in Nat, b \in BOOLEAN, er \in {NULL, "error"} :
         [p EXCEPT !.status = st, !.revision = n, !.organization_residue = b,
                   !.last_error = er] \in SagaRow
  BY DEF SagaRow
<1>4. QED
  BY <1>1, <1>2, <1>3, Zenon DEF Refresh

\* The effects request_cleanup writes.
LEMMA CleanedType ==
    ASSUME NEW E \in [Slots -> EffectRow]
    PROVE  CleanedEffects(E) \in [Slots -> EffectRow]
<1>1. SUFFICES ASSUME NEW e \in Slots
               PROVE  CleanedEffects(E)[e] \in EffectRow
  BY DEF CleanedEffects
<1>2. CASE e[1] = "put_entitlement" /\ E[e].state \in {"pending", "failed"}
  <2>1. CleanedEffects(E)[e] = [E[e] EXCEPT !.state = "skipped", !.last_error = "error"]
    BY <1>2 DEF CleanedEffects
  <2>2. QED
    BY <2>1 DEF EffectRow, EffectStates
<1>3. CASE e[1] = "revoke_entitlement" /\ E[Put(e[2])].state = "applied"
  <2>1. CleanedEffects(E)[e] = PendingEffect(E[Put(e[2])].external_id)
    BY <1>3 DEF CleanedEffects
  <2>2. E[Put(e[2])] \in EffectRow
    BY <1>3, SlotKinds, SlotFacts
  <2>3. QED
    BY <2>1, <2>2, PendingType DEF EffectRow
<1>4. CASE /\ ~ (e[1] = "put_entitlement" /\ E[e].state \in {"pending", "failed"})
           /\ ~ (e[1] = "revoke_entitlement" /\ E[Put(e[2])].state = "applied")
  <2>1. CleanedEffects(E)[e] = E[e]
    BY <1>4 DEF CleanedEffects
  <2>2. QED
    BY <2>1
<1>5. QED
  BY <1>2, <1>3, <1>4
-----------------------------------------------------------------------------
\* A retry's new row, and the saga row refreshed with it.
LEMMA ResolvedType ==
    ASSUME NEW p \in SagaRow, NEW e \in Slots, NEW old \in EffectRow,
           NEW resolution, NEW observed,
           NEW row \in Resolved(p, old, e[1], resolution, observed)
    PROVE  \/ row = ResetEffect(old)
           \/ /\ p.status = "manual_review"
              /\ \E o \in Outcomes(e[1]) : /\ row = SettledEffect(old, o)
                                           /\ o.state \in {"applied", "compensated"}
  BY DEF Resolved, Confirmation

\* The rows a retry and a quarantine put back.
LEMMA ResetType ==
    ASSUME NEW row \in EffectRow
    PROVE  /\ ResetEffect(row) \in EffectRow
           /\ QuarantinedEffect(row) \in EffectRow
  BY ReleasedType DEF ResetEffect, QuarantinedEffect, EffectStates

\* A retry's new row and the saga that records it.
LEMMA RetriedType ==
    ASSUME NEW p \in SagaRow, NEW e \in Slots, NEW old \in EffectRow,
           NEW resolution, NEW observed,
           NEW row \in Resolved(p, old, e[1], resolution, observed)
    PROVE  /\ row \in EffectRow
           /\ WithOrganization(p, e, [state |-> row.state, id |-> row.external_id]) \in SagaRow
<1>1. CASE row = ResetEffect(old)
  <2>1. row \in EffectRow
    BY <1>1, ResetType
  <2>2. row.state = "pending"
    BY <1>1 DEF ResetEffect, Released, EffectRow
  <2>3. QED
    BY <2>1, <2>2 DEF WithOrganization
<1>2. ASSUME NEW o \in Outcomes(e[1]), row = SettledEffect(old, o),
             o.state \in {"applied", "compensated"}
      PROVE  /\ row \in EffectRow
             /\ WithOrganization(p, e, [state |-> row.state, id |-> row.external_id]) \in SagaRow
  <2>1. row \in EffectRow
    BY <1>2, SettledType
  <2>2. row.state = o.state /\ (o.state = "applied" => row.external_id = o.id)
    BY <1>2 DEF SettledEffect, Released, EffectRow
  <2>3. QED
    BY <1>2, <2>1, <2>2, OutcomeType DEF WithOrganization, SagaRow
<1>3. QED
  BY <1>1, <1>2, ResolvedType

\* Appending a row to a saga's log, and completing a key's row.
LEMMA LogType ==
    ASSUME TypeOK, saga' \in [Sagas -> SagaRow],
           NEW s \in Sagas, NEW kind \in ActivityKinds, NEW e \in Slots \cup {NULL},
           Log(s, kind, e)
    PROVE  activity' \in [Sagas -> Seq(ActivityRow)]
<1>1. [kind |-> kind, effect |-> e, revision |-> saga'[s].revision] \in ActivityRow
  BY DEF ActivityRow, SagaRow
<1>2. QED
  BY <1>1 DEF Log, TypeOK

\* complete_mutation writes a row of the ledger.
LEMMA CompleteType ==
    ASSUME TypeOK, saga' \in [Sagas -> SagaRow],
           NEW s \in Sagas, NEW a \in Actors, NEW k \in Keys, NEW request \in Request,
           NEW operation \in {"start", "retry", "request_cleanup"},
           Complete(k, operation, a, s, request)
    PROVE  mutation' \in [Keys -> MutationRow \cup {NULL}]
<1>1. [operation |-> operation, actor |-> a, provisioning_id |-> s, request |-> request,
       response |-> [status |-> saga'[s].status, revision |-> saga'[s].revision]]
          \in MutationRow
  BY DEF MutationRow, SagaRow
<1>2. QED
  BY <1>1 DEF Complete, TypeOK

\* start keeps every column typed.
LEMMA StartTypes ==
    ASSUME TypeOK, NEW s \in Sagas, NEW a \in Actors, NEW n \in 0 .. MaxGrants,
           NEW k \in Keys, Start(s, a, n, k)
    PROVE  TypeOK'
<1>1. StartedSaga(a) \in SagaRow
  BY DEF StartedSaga, NoSaga, SagaRow, Statuses
<1>2. saga' \in [Sagas -> SagaRow]
  BY <1>1 DEF Start, TypeOK
<1>3. StartedEffects(n) \in [Slots -> EffectRow]
  BY PendingType DEF StartedEffects
<1>4. effect' \in [Sagas -> [Slots -> EffectRow]]
  BY <1>3 DEF Start, TypeOK
<1>5. activity' \in [Sagas -> Seq(ActivityRow)]
  BY <1>2, LogType DEF Start, ActivityKinds
<1>6. NoRequest \in Request
  BY DEF NoRequest, Request, Observations
<1>7. mutation' \in [Keys -> MutationRow \cup {NULL}]
  BY <1>2, <1>6, CompleteType DEF Start
<1>8. QED
  BY <1>2, <1>4, <1>5, <1>7 DEF Start, TypeOK

\* retry keeps every column typed.
LEMMA RetryTypes ==
    ASSUME TypeOK, NEW s \in Sagas, NEW a \in Actors, NEW k \in Keys,
           NEW request \in Request, Retry(s, a, k, request)
    PROVE  TypeOK'
<1>0. PICK e \in Selected(saga[s], effect[s]) :
       \E row \in Resolved(saga[s], effect[s][e], e[1], request.resolution, request.observed) :
          /\ effect' = [effect EXCEPT ![s][e] = row]
          /\ saga' = [saga EXCEPT ![s] =
                Refresh(WithOrganization(saga[s], e, [state |-> row.state, id |-> row.external_id]),
                        effect'[s])]
          /\ Log(s, "provisioning_retried", e)
  BY DEF Retry
<1>1. PICK row \in Resolved(saga[s], effect[s][e], e[1], request.resolution, request.observed) :
          /\ effect' = [effect EXCEPT ![s][e] = row]
          /\ saga' = [saga EXCEPT ![s] =
                Refresh(WithOrganization(saga[s], e, [state |-> row.state, id |-> row.external_id]),
                        effect'[s])]
          /\ Log(s, "provisioning_retried", e)
  BY <1>0
<1>2. e \in Slots /\ effect[s][e] \in EffectRow /\ saga[s] \in SagaRow
  BY DEF Selected, TypeOK
<1>3. /\ row \in EffectRow
      /\ WithOrganization(saga[s], e, [state |-> row.state, id |-> row.external_id]) \in SagaRow
  BY <1>2, RetriedType
<1>4. effect' \in [Sagas -> [Slots -> EffectRow]]
  BY <1>1, <1>2, <1>3 DEF TypeOK
<1>5. saga' \in [Sagas -> SagaRow]
  BY <1>1, <1>3, RefreshType DEF TypeOK
<1>6. activity' \in [Sagas -> Seq(ActivityRow)]
  BY <1>1, <1>2, <1>5, LogType DEF ActivityKinds
<1>7. mutation' \in [Keys -> MutationRow \cup {NULL}]
  BY <1>5, CompleteType DEF Retry
<1>8. QED
  BY <1>4, <1>5, <1>6, <1>7 DEF Retry, TypeOK

\* request_cleanup keeps every column typed.
LEMMA CleanupTypes ==
    ASSUME TypeOK, NEW s \in Sagas, NEW a \in Actors, NEW k \in Keys,
           NEW expected \in Nat, RequestCleanup(s, a, k, expected)
    PROVE  TypeOK'
<1>1. effect' \in [Sagas -> [Slots -> EffectRow]]
  BY CleanedType DEF RequestCleanup, TypeOK
<1>2. CleaningSaga(saga[s]) \in SagaRow
  BY DEF CleaningSaga, TypeOK, SagaRow
<1>3. saga' \in [Sagas -> SagaRow]
  BY <1>2, RefreshType DEF RequestCleanup, TypeOK
<1>4. activity' \in [Sagas -> Seq(ActivityRow)]
  BY <1>3, LogType DEF RequestCleanup, ActivityKinds
<1>5. [NoRequest EXCEPT !.expected_revision = expected] \in Request
  BY DEF NoRequest, Request, Observations
<1>6. mutation' \in [Keys -> MutationRow \cup {NULL}]
  BY <1>3, <1>5, CompleteType DEF RequestCleanup
<1>7. QED
  BY <1>1, <1>3, <1>4, <1>6 DEF RequestCleanup, TypeOK

\* quarantine_expired keeps every column typed.
LEMMA QuarantineTypes ==
    ASSUME TypeOK, NEW batch \in SUBSET Sagas, QuarantineExpired(batch)
    PROVE  TypeOK'
<1>1. \A s \in Sagas : QuarantinedSaga(saga[s]) \in SagaRow
  BY ClaimedSagaType DEF TypeOK
<1>2. saga' \in [Sagas -> SagaRow]
  BY <1>1 DEF QuarantineExpired, Quarantine, TypeOK
<1>3. PICK victim \in [batch -> Slots] :
          /\ effect' = [s \in Sagas |->
                IF s \in batch
                THEN [effect[s] EXCEPT ![victim[s]] = QuarantinedEffect(@)]
                ELSE effect[s]]
          /\ activity' = [s \in Sagas |->
                IF s \in batch
                THEN Append(activity[s], [kind |-> "effect_outcome_unknown",
                                          effect |-> victim[s],
                                          revision |-> saga'[s].revision])
                ELSE activity[s]]
  BY DEF QuarantineExpired, Quarantine
<1>4. effect' \in [Sagas -> [Slots -> EffectRow]]
  BY <1>3, ResetType DEF TypeOK
<1>5. activity' \in [Sagas -> Seq(ActivityRow)]
  <2>1. \A s \in batch : [kind |-> "effect_outcome_unknown", effect |-> victim[s],
                          revision |-> saga'[s].revision] \in ActivityRow
    BY <1>2 DEF ActivityRow, ActivityKinds, SagaRow
  <2>2. QED
    BY <1>3, <2>1 DEF TypeOK
<1>6. QED
  BY <1>2, <1>4, <1>5 DEF QuarantineExpired, Quarantine, TypeOK

\* claim_next keeps every column typed, and so is what it hands out.
LEMMA ClaimTypes ==
    ASSUME TypeOK, NEW s \in Sagas, ClaimNext(s)
    PROVE  TypeOK'
<1>1. PICK e \in Slots :
          /\ effect' = [effect EXCEPT ![s][e] = ClaimedEffect(@)]
          /\ saga' = [saga EXCEPT ![s] = ClaimedSaga(@)]
          /\ Log(s, "effect_claimed", e)
          /\ held' = held \cup
                {[saga |-> s, slot |-> e, lease_token |-> Fence(effect[s][e]),
                  organization_id |-> saga[s].organization_id,
                  external_id |-> effect[s][e].external_id]}
  BY DEF ClaimNext, Claim
<1>2. effect' \in [Sagas -> [Slots -> EffectRow]]
  BY <1>1, ClaimedType DEF TypeOK
<1>3. ClaimedSaga(saga[s]) \in SagaRow
  BY ClaimedSagaType DEF TypeOK
<1>4. saga' \in [Sagas -> SagaRow]
  BY <1>1, <1>3 DEF TypeOK
<1>5. activity' \in [Sagas -> Seq(ActivityRow)]
  BY <1>1, <1>4, LogType DEF ActivityKinds
<1>6. [saga |-> s, slot |-> e, lease_token |-> Fence(effect[s][e]),
       organization_id |-> saga[s].organization_id,
       external_id |-> effect[s][e].external_id] \in HeldRecord
  BY DEF HeldRecord, TypeOK, SagaRow, EffectRow, Fence
<1>7. QED
  BY <1>1, <1>2, <1>4, <1>5, <1>6 DEF ClaimNext, Claim, TypeOK

\* A call, or the refusal to make one, ends in an outcome of its effect's kind.
LEMMA AnswersAreOutcomes ==
    ASSUME NEW r \in HeldRecord
    PROVE  Answers(r) \subseteq Outcomes(r.slot[1])
<1>1. [state |-> "failed", id |-> NULL] \in Outcomes(r.slot[1])
  BY DEF Outcomes
<1>2. QED
  BY <1>1 DEF Answers

\* finalize_effect keeps every column typed.
LEMMA FinalizeTypes ==
    ASSUME TypeOK, NEW r \in held, NEW outcome \in Answers(r), FinalizeEffect(r, outcome)
    PROVE  TypeOK'
<1>1. /\ r.saga \in Sagas /\ r.slot \in Slots /\ outcome \in Outcomes(r.slot[1])
      /\ effect[r.saga][r.slot] \in EffectRow /\ saga[r.saga] \in SagaRow
  BY AnswersAreOutcomes DEF TypeOK, HeldRecord
<1>2. effect' \in [Sagas -> [Slots -> EffectRow]]
  BY <1>1, SettledType DEF FinalizeEffect, TypeOK
<1>3. WithOrganization(saga[r.saga], r.slot, outcome) \in SagaRow
  BY <1>1, OrganizationType
<1>4. saga' \in [Sagas -> SagaRow]
  BY <1>1, <1>3, RefreshType DEF FinalizeEffect, TypeOK
<1>5. OutcomeActivity[outcome.state] \in ActivityKinds
  BY <1>1, OutcomeType DEF OutcomeActivity, ActivityKinds
<1>6. activity' \in [Sagas -> Seq(ActivityRow)]
  BY <1>1, <1>4, <1>5, LogType DEF FinalizeEffect
<1>7. QED
  BY <1>2, <1>4, <1>6 DEF FinalizeEffect, TypeOK

\* The passing of a lease keeps every column typed.
LEMMA ExpiryTypes ==
    ASSUME TypeOK, NEW s \in Sagas, NEW e \in Slots, LeaseExpires(s, e)
    PROVE  TypeOK'
<1>1. [effect[s][e] EXCEPT !.lease_until = "past"] \in EffectRow
  <2>1. effect[s][e] \in EffectRow
    BY DEF TypeOK
  <2>2. QED
    BY <2>1 DEF EffectRow
<1>2. effect' = [effect EXCEPT ![s][e] = [@ EXCEPT !.lease_until = "past"]]
  BY DEF LeaseExpires
<1>3. effect' \in [Sagas -> [Slots -> EffectRow]]
  BY <1>1, <1>2 DEF TypeOK
<1>4. QED
  BY <1>3 DEF LeaseExpires, TypeOK

\* The requests Next draws are typed.
LEMMA RequestsType ==
    ASSUME TypeOK, NEW s \in Sagas
    PROVE  Requests(s) \subseteq Request /\ 1 .. saga[s].revision \subseteq Nat
  BY DEF Requests, Request, TypeOK, SagaRow

\* The empty tables are typed.
LEMMA InitTypes == Init => TypeOK
<1>1. NoSaga \in SagaRow
  BY DEF NoSaga, SagaRow, Statuses
<1>2. NoEffect \in EffectRow
  BY DEF NoEffect, EffectRow, EffectStates
<1>3. ASSUME Init
      PROVE  TypeOK
  <2>1. saga \in [Sagas -> SagaRow]
    BY <1>1, <1>3 DEF Init
  <2>2. effect \in [Sagas -> [Slots -> EffectRow]]
    BY <1>2, <1>3 DEF Init
  <2>3. activity \in [Sagas -> Seq(ActivityRow)]
    BY <1>3 DEF Init
  <2>4. mutation \in [Keys -> MutationRow \cup {NULL}] /\ held \subseteq HeldRecord
    BY <1>3 DEF Init
  <2>5. QED
    BY <2>1, <2>2, <2>3, <2>4 DEF TypeOK
<1>4. QED
  BY <1>3

\* Every step keeps every column typed.
LEMMA NextTypes == TypeOK /\ [Next]_vars => TypeOK'
<1>1. SUFFICES ASSUME TypeOK, [Next]_vars
               PROVE  TypeOK'
  OBVIOUS
<1>2. ASSUME NEW s \in Sagas, NEW a \in Actors, NEW n \in 0 .. MaxGrants, NEW k \in Keys,
             Start(s, a, n, k)
      PROVE  TypeOK'
  BY <1>1, <1>2, StartTypes
<1>3. ASSUME NEW s \in Sagas, NEW a \in Actors, NEW k \in Keys,
             NEW request \in Requests(s), Retry(s, a, k, request)
      PROVE  TypeOK'
  BY <1>1, <1>3, RetryTypes, RequestsType
<1>4. ASSUME NEW s \in Sagas, NEW a \in Actors, NEW k \in Keys,
             NEW expected \in 1 .. saga[s].revision, RequestCleanup(s, a, k, expected)
      PROVE  TypeOK'
  BY <1>1, <1>4, CleanupTypes, RequestsType
<1>5. ASSUME NEW batch \in SUBSET Sagas, QuarantineExpired(batch)
      PROVE  TypeOK'
  BY <1>1, <1>5, QuarantineTypes
<1>6. ASSUME NEW s \in Sagas, ClaimNext(s)
      PROVE  TypeOK'
  BY <1>1, <1>6, ClaimTypes
<1>7. ASSUME NEW r \in held, NEW outcome \in Answers(r), FinalizeEffect(r, outcome)
      PROVE  TypeOK'
  BY <1>1, <1>7, FinalizeTypes
<1>8. ASSUME NEW r \in held, FinalizeSuperseded(r) \/ WorkerLost(r)
      PROVE  TypeOK'
  BY <1>1, <1>8 DEF FinalizeSuperseded, WorkerLost, TypeOK
<1>9. ASSUME NEW s \in Sagas, NEW e \in Slots, LeaseExpires(s, e)
      PROVE  TypeOK'
  BY <1>1, <1>9, ExpiryTypes
<1>10. CASE UNCHANGED vars
  BY <1>1, <1>10 DEF vars, TypeOK
<1>11. QED
  BY <1>1, <1>2, <1>3, <1>4, <1>5, <1>6, <1>7, <1>8, <1>9, <1>10 DEF Next

\* Every reachable row of the database, and every record a worker holds, is of
\* its type, for any number of sagas, keys, workers and grants.
THEOREM Typing == Spec => []TypeOK
  BY InitTypes, NextTypes, PTL DEF Spec
-----------------------------------------------------------------------------
\* What a status says about the effects, phase by phase.
LEMMA StatusMeans ==
    ASSUME NEW p \in SagaRow, NEW E \in [Slots -> EffectRow],
           EffectsConsistent(p, E), StatusConsistent(p, E)
    PROVE  /\ p.status \in {"running", "cleanup_running"} <=> InFlight(E) # {}
           /\ p.status \in {"pending", "cleanup_pending"} =>
                 /\ InState(E, p.cleanup_requested, {"in_flight", "unknown", "failed"}) = {}
                 /\ PendingIn(E, p.cleanup_requested) # {}
           /\ p.status = "manual_review" =>
                 InState(E, p.cleanup_requested, {"unknown"}) # {}
           /\ p.status \in {"failed", "cleanup_failed"} =>
                 /\ InState(E, p.cleanup_requested, {"in_flight", "unknown"}) = {}
                 /\ InState(E, p.cleanup_requested, {"failed"}) # {}
           /\ p.status \in {"completed", "cleanup_completed"} =>
                 InState(E, p.cleanup_requested,
                         {"pending", "in_flight", "unknown", "failed"}) = {}
           /\ p.status \in {"cleanup_pending", "cleanup_running", "cleanup_failed",
                            "cleanup_completed"} => p.cleanup_requested
           /\ p.status \in {"pending", "running", "failed", "completed"} =>
                 ~ p.cleanup_requested
           /\ p.status # "absent"
<1> DEFINE c == p.cleanup_requested
<1>1. /\ Erring(E, c, "unknown") = InState(E, c, {"unknown"})
      /\ Erring(E, c, "failed") = InState(E, c, {"failed"})
  BY DEF EffectsConsistent, RowsAgree, Erring, InState, Phase
<1>2. c \in BOOLEAN
  BY DEF SagaRow
<1>3. CASE InFlight(E) # {}
  <2>1. p.status = IF c THEN "cleanup_running" ELSE "running"
    BY <1>3 DEF StatusConsistent, ExpectedStatus
  <2>2. QED
    BY <1>2, <1>3, <2>1
<1>4. CASE InFlight(E) = {}
  <2>1. p.status = RefreshedStatus(E, c)
    BY <1>4 DEF StatusConsistent, ExpectedStatus
  <2>2. CASE Erring(E, c, "unknown") # {}
    BY <1>1, <1>4, <2>1, <2>2 DEF RefreshedStatus
  <2>3. CASE Erring(E, c, "unknown") = {} /\ Erring(E, c, "failed") # {}
    <3>1. p.status = IF c THEN "cleanup_failed" ELSE "failed"
      BY <2>1, <2>3 DEF RefreshedStatus
    <3>2. InState(E, c, {"in_flight", "unknown"}) = {}
      BY <1>1, <1>4, <2>3 DEF InState, InFlight, Phase
    <3>3. QED
      BY <1>1, <1>2, <1>4, <2>3, <3>1, <3>2
  <2>4. CASE /\ Erring(E, c, "unknown") \cup Erring(E, c, "failed") = {}
             /\ Busy(E, c) # {}
    <3>1. p.status = IF c THEN "cleanup_pending" ELSE "pending"
      BY <2>1, <2>4 DEF RefreshedStatus
    <3>2. InState(E, c, {"in_flight", "unknown", "failed"}) = {}
      BY <1>1, <1>4, <2>4 DEF InState, InFlight, Phase
    <3>3. PendingIn(E, c) # {}
      BY <1>4, <2>4 DEF Busy, PendingIn, InFlight, Phase
    <3>4. QED
      BY <1>2, <1>4, <3>1, <3>2, <3>3
  <2>5. CASE /\ Erring(E, c, "unknown") \cup Erring(E, c, "failed") = {}
             /\ Busy(E, c) = {}
    <3>1. p.status = IF c THEN "cleanup_completed" ELSE "completed"
      BY <2>1, <2>5 DEF RefreshedStatus
    <3>2. InState(E, c, {"pending", "in_flight", "unknown", "failed"}) = {}
      BY <1>1, <2>5 DEF InState, Busy
    <3>3. QED
      BY <1>2, <1>4, <3>1, <3>2
  <2>6. QED
    BY <2>2, <2>3, <2>4, <2>5
<1>5. QED
  BY <1>3, <1>4

\* The rows of a stored saga are in the second disjunct of Consistent.
LEMMA StoredMeans ==
    ASSUME NEW p \in SagaRow, NEW E \in [Slots -> EffectRow],
           Consistent(p, E), p.status # "absent"
    PROVE  EffectsConsistent(p, E) /\ StatusConsistent(p, E)
  BY DEF Consistent, NoSaga

\* refresh_saga_status after the effect in flight has been settled.
LEMMA RefreshKeeps ==
    ASSUME NEW p \in SagaRow, NEW E \in [Slots -> EffectRow],
           EffectsConsistent(p, E), E[Create].state # "absent", InFlight(E) = {}
    PROVE  Consistent(Refresh(p, E), E)
<1> DEFINE q == Refresh(p, E)
<1>1. /\ q.cleanup_requested = p.cleanup_requested
      /\ q.organization_id = p.organization_id
      /\ q.organization_residue = (p.organization_id # NULL)
      /\ q.status = RefreshedStatus(E, p.cleanup_requested)
      /\ q.last_error = IF Erring(E, p.cleanup_requested, "unknown")
                              \cup Erring(E, p.cleanup_requested, "failed") # {}
                        THEN "error" ELSE NULL
  BY DEF Refresh, SagaRow
<1>2. OrganizationFirst(q, E) /\ CleanupMirrors(q, E)
  BY <1>1 DEF EffectsConsistent, OrganizationFirst, CleanupMirrors
<1>3. q.status \in {"manual_review", "failed", "cleanup_failed"} => q.last_error # NULL
  <2>1. q.status \in {"manual_review", "failed", "cleanup_failed"} =>
           Erring(E, p.cleanup_requested, "unknown")
              \cup Erring(E, p.cleanup_requested, "failed") # {}
    BY <1>1 DEF RefreshedStatus
  <2>2. QED
    BY <1>1, <2>1, NullAssumption
<1>4. StatusConsistent(q, E)
  BY <1>1, <1>3 DEF StatusConsistent, ExpectedStatus
<1>5. QED
  BY <1>2, <1>4 DEF EffectsConsistent, Consistent
\* Outside the phase it works on, a consistent saga has nothing open but a
\* failed creation it gave up when cleanup was requested; then there is no
\* revocation at all.
LEMMA OutsidePhase ==
    ASSUME NEW p \in SagaRow, NEW E \in [Slots -> EffectRow], EffectsConsistent(p, E),
           NEW e \in Slots, e \notin Phase(p.cleanup_requested)
    PROVE  /\ E[e].state # "pending"
           /\ Open(E[e]) => /\ e = Create /\ E[e].state = "failed" /\ p.cleanup_requested
                            /\ \A i \in Ordinals : E[Revoke(i)].state = "absent"
<1>1. p.cleanup_requested \in BOOLEAN
  BY DEF SagaRow
<1>2. CASE ~ p.cleanup_requested
  <2>1. e[1] = "revoke_entitlement"
    BY <1>2 DEF Phase
  <2>2. E[e].state = "absent"
    BY <1>2, <2>1, SlotKinds DEF EffectsConsistent, CleanupMirrors
  <2>3. QED
    BY <2>2 DEF Open
<1>3. CASE p.cleanup_requested
  <2>1. e[1] # "revoke_entitlement"
    BY <1>3 DEF Phase
  <2>2. CASE e = Create
    <3>1. E[Create].state \in {"applied", "failed"}
      BY <1>3 DEF EffectsConsistent, CleanupMirrors
    <3>2. E[Create].state = "failed" => \A i \in Ordinals : E[Put(i)].state # "applied"
      BY DEF EffectsConsistent, OrganizationFirst
    <3>3. E[Create].state = "failed" => \A i \in Ordinals : E[Revoke(i)].state = "absent"
      BY <1>3, <3>2 DEF EffectsConsistent, CleanupMirrors
    <3>4. QED
      BY <1>3, <2>2, <3>1, <3>3 DEF Open
  <2>3. CASE e # Create
    <3>1. e[2] \in Ordinals /\ e = Put(e[2])
      BY <2>1, <2>3, SlotKinds
    <3>2. E[e].state \in {"absent", "applied", "skipped"}
      BY <1>3, <3>1 DEF EffectsConsistent, CleanupMirrors
    <3>3. QED
      BY <3>2 DEF Open
  <2>4. QED
    BY <2>2, <2>3
<1>4. QED
  BY <1>1, <1>2, <1>3

\* A due saga has nothing open, so a claim opens the only effect; and if that
\* is a grant, the organization is recorded.
LEMMA DueMeans ==
    ASSUME NEW p \in SagaRow, NEW E \in [Slots -> EffectRow],
           Consistent(p, E), Claimable(p, E), NEW e \in Slots, IsNext(p, E, e)
    PROVE  /\ EffectsConsistent(p, E) /\ StatusConsistent(p, E)
           /\ e \in Phase(p.cleanup_requested) /\ E[e].state = "pending"
           /\ \A f \in Slots : ~ Open(E[f])
           /\ e[1] = "put_entitlement" => E[Create].state = "applied"
<1> DEFINE c == p.cleanup_requested
<1>1. EffectsConsistent(p, E) /\ StatusConsistent(p, E)
  BY StoredMeans DEF Claimable
<1>2. e \in Phase(c) /\ E[e].state = "pending"
  BY DEF IsNext, PendingIn
<1>3. InState(E, c, {"in_flight", "unknown", "failed"}) = {}
  BY <1>1, StatusMeans DEF Claimable
<1>4. ASSUME NEW f \in Slots, Open(E[f])
      PROVE  FALSE
  <2>1. f \notin Phase(c)
    BY <1>3, <1>4 DEF InState, Open
  <2>2. /\ p.cleanup_requested
        /\ \A i \in Ordinals : E[Revoke(i)].state = "absent"
    BY <1>1, <1>4, <2>1, OutsidePhase
  <2>3. e[1] = "revoke_entitlement"
    BY <1>2, <2>2 DEF Phase
  <2>4. QED
    BY <1>2, <2>2, <2>3, SlotKinds
<1>5. ASSUME e[1] = "put_entitlement"
      PROVE  E[Create].state = "applied"
  <2>1. Create \in Phase(c)
    BY <1>2, <1>5, SlotFacts DEF Phase
  <2>2. E[Create].state # "pending"
    BY <1>5, <2>1, SlotFacts DEF IsNext, PendingIn, Before
  <2>3. E[Create].state \notin {"in_flight", "unknown", "failed"}
    BY <1>4, SlotFacts DEF Open
  <2>4. E[Create].state \in EffectStates
    BY SlotFacts DEF EffectRow
  <2>5. E[Create].state \notin {"absent", "compensated", "skipped"}
    BY <1>1 DEF StatusConsistent, EffectsConsistent, KindsAgree
  <2>6. QED
    BY <2>2, <2>3, <2>4, <2>5 DEF EffectStates
<1>6. QED
  BY <1>1, <1>2, <1>4, <1>5

\* claim_next opens the effect it claims, and the saga runs.
LEMMA ClaimKeeps ==
    ASSUME NEW p \in SagaRow, NEW E \in [Slots -> EffectRow],
           Consistent(p, E), Claimable(p, E), NEW e \in Slots, IsNext(p, E, e)
    PROVE  Consistent(ClaimedSaga(p), [E EXCEPT ![e] = ClaimedEffect(E[e])])
<1> DEFINE q == ClaimedSaga(p)
           F == [E EXCEPT ![e] = ClaimedEffect(E[e])]
<1>1. /\ EffectsConsistent(p, E) /\ StatusConsistent(p, E)
      /\ e \in Phase(p.cleanup_requested) /\ E[e].state = "pending"
      /\ \A f \in Slots : ~ Open(E[f])
      /\ e[1] = "put_entitlement" => E[Create].state = "applied"
  BY DueMeans
<1>2. /\ q.cleanup_requested = p.cleanup_requested
      /\ q.organization_id = p.organization_id
      /\ q.organization_residue = p.organization_residue
      /\ q.status = IF p.cleanup_requested THEN "cleanup_running" ELSE "running"
  BY DEF ClaimedSaga, SagaRow
<1>3. /\ F \in [Slots -> EffectRow]
      /\ \A f \in Slots : f # e => F[f] = E[f]
      /\ F[e].state = "in_flight" /\ F[e].lease_token = F[e].attempts
      /\ F[e].lease_until = "ahead" /\ F[e].external_id = E[e].external_id
  BY ClaimedType DEF ClaimedEffect, Fence, EffectRow
<1> HIDE DEF q, F
<1>4. RowsAgree(F)
  BY <1>1, <1>3 DEF EffectsConsistent, RowsAgree
<1>5. KindsAgree(F)
  BY <1>1, <1>3, SlotFacts DEF EffectsConsistent, KindsAgree
<1>6. OneOpen(F)
  BY <1>1, <1>3 DEF OneOpen
<1>7. OrganizationFirst(q, F)
  <2>1. F[Create].state = "applied" <=> E[Create].state = "applied"
    BY <1>1, <1>3, SlotFacts
  <2>2. \A i \in Ordinals : F[Put(i)].state = "applied" => F[Put(i)] = E[Put(i)]
    BY <1>3, SlotFacts
  <2>3. E[Create].state # "applied" => \A i \in Ordinals : F[Put(i)] = E[Put(i)]
    BY <1>1, <1>3, SlotFacts
  <2>4. F[Create].external_id = E[Create].external_id
    BY <1>3, SlotFacts
  <2>5. QED
    BY <1>1, <1>2, <2>1, <2>2, <2>3, <2>4 DEF EffectsConsistent, OrganizationFirst
<1>8. CleanupMirrors(q, F)
  <2>1. CASE ~ p.cleanup_requested
    <3>1. e[1] # "revoke_entitlement"
      BY <1>1, <2>1 DEF Phase
    <3>2. \A i \in Ordinals : /\ F[Revoke(i)] = E[Revoke(i)]
                              /\ F[Put(i)].state = "skipped" => F[Put(i)] = E[Put(i)]
      BY <1>3, <3>1, SlotFacts
    <3>3. QED
      BY <1>1, <1>2, <2>1, <3>2 DEF EffectsConsistent, CleanupMirrors
  <2>2. CASE p.cleanup_requested
    <3>1. e[1] = "revoke_entitlement"
      BY <1>1, <2>2 DEF Phase
    <3>2. F[Create] = E[Create] /\ \A i \in Ordinals : F[Put(i)] = E[Put(i)]
      BY <1>3, <3>1, SlotFacts
    <3>3. \A i \in Ordinals : /\ F[Revoke(i)].external_id = E[Revoke(i)].external_id
                              /\ F[Revoke(i)].state = "absent" <=> E[Revoke(i)].state = "absent"
      BY <1>1, <1>3, SlotFacts
    <3>4. QED
      BY <1>1, <1>2, <2>2, <3>2, <3>3 DEF EffectsConsistent, CleanupMirrors
  <2>3. QED
    BY <2>1, <2>2
<1>9. StatusConsistent(q, F)
  <2>1. InFlight(F) # {}
    BY <1>3 DEF InFlight
  <2>2. F[Create].state # "absent"
    BY <1>1, <1>3, SlotFacts DEF StatusConsistent
  <2>3. QED
    BY <1>2, <2>1, <2>2 DEF StatusConsistent, ExpectedStatus
<1>10. QED
  BY <1>4, <1>5, <1>6, <1>7, <1>8, <1>9 DEF EffectsConsistent, Consistent, q, F
\* Closing the open effect of a saga: whatever finalize_effect, a quarantine or
\* a retry writes in its place, the effects stay consistent and none is in
\* flight.
LEMMA CloseKeeps ==
    ASSUME NEW p \in SagaRow, NEW E \in [Slots -> EffectRow],
           EffectsConsistent(p, E), E[Create].state # "absent",
           NEW e \in Phase(p.cleanup_requested), Open(E[e]),
           NEW row \in EffectRow,
           row.state \in {"pending", "failed", "unknown", "applied", "compensated"},
           row.lease_token = NULL, row.lease_until = NULL,
           row.state \in {"failed", "unknown"} => row.last_error # NULL,
           row.state = "applied" => e[1] # "revoke_entitlement" /\ row.external_id # NULL,
           row.state # "applied" => row.external_id = E[e].external_id,
           row.state = "compensated" => e[1] = "revoke_entitlement",
           NEW q \in SagaRow, q.cleanup_requested = p.cleanup_requested,
           e = Create /\ row.state = "applied" =>
               q.organization_id = row.external_id /\ q.organization_residue,
           ~ (e = Create /\ row.state = "applied") =>
               /\ q.organization_id = p.organization_id
               /\ q.organization_residue = p.organization_residue
    PROVE  /\ EffectsConsistent(q, [E EXCEPT ![e] = row])
           /\ [E EXCEPT ![e] = row][Create].state # "absent"
           /\ InFlight([E EXCEPT ![e] = row]) = {}
<1> DEFINE F == [E EXCEPT ![e] = row]
<1>1. e \in Slots
  BY DEF Phase
<1>2. F \in [Slots -> EffectRow] /\ F[e] = row /\ \A f \in Slots : f # e => F[f] = E[f]
  BY <1>1
<1>3. \A f \in Slots : f # e => ~ Open(F[f])
  BY <1>1, <1>2 DEF EffectsConsistent, OneOpen
<1> HIDE DEF F
<1>4. RowsAgree(F)
  BY <1>1, <1>2 DEF EffectsConsistent, RowsAgree
<1>5. KindsAgree(F)
  BY <1>1, <1>2, SlotFacts DEF EffectsConsistent, KindsAgree
<1>6. OneOpen(F)
  BY <1>3 DEF OneOpen
<1>7. OrganizationFirst(q, F)
  <2>1. CASE e = Create
    <3>1. E[Create].state # "applied"
      BY <2>1 DEF Open
    <3>2. \A i \in Ordinals : F[Put(i)] = E[Put(i)]
      BY <1>2, <2>1, SlotFacts
    <3>3. F[Create] = row
      BY <1>2, <2>1
    <3>4. QED
      BY <2>1, <3>1, <3>2, <3>3 DEF EffectsConsistent, OrganizationFirst
  <2>2. CASE e[1] = "put_entitlement"
    <3>1. e[2] \in Ordinals /\ e = Put(e[2])
      BY <1>1, <2>2, SlotKinds
    <3>2. E[Create].state = "applied"
      BY <3>1 DEF EffectsConsistent, OrganizationFirst, Open
    <3>3. F[Create] = E[Create] /\ e # Create
      BY <1>2, <2>2, SlotFacts
    <3>4. \A i \in Ordinals : F[Put(i)].state = "applied" => F[Put(i)].external_id # NULL
      BY <1>2, SlotFacts DEF EffectsConsistent, OrganizationFirst
    <3>5. QED
      BY <3>2, <3>3, <3>4 DEF EffectsConsistent, OrganizationFirst
  <2>3. CASE e[1] = "revoke_entitlement"
    <3>1. F[Create] = E[Create] /\ e # Create /\ \A i \in Ordinals : F[Put(i)] = E[Put(i)]
      BY <1>2, <2>3, SlotFacts
    <3>2. QED
      BY <3>1 DEF EffectsConsistent, OrganizationFirst
  <2>4. QED
    BY <1>1, <2>1, <2>2, <2>3, SlotKinds
<1>8. CleanupMirrors(q, F)
  <2>1. CASE ~ p.cleanup_requested
    <3>1. e[1] # "revoke_entitlement"
      BY <2>1 DEF Phase
    <3>2. \A i \in Ordinals : /\ F[Revoke(i)] = E[Revoke(i)]
                              /\ F[Put(i)].state = "skipped" => F[Put(i)] = E[Put(i)]
      BY <1>2, <3>1, SlotFacts
    <3>3. QED
      BY <2>1, <3>2 DEF EffectsConsistent, CleanupMirrors
  <2>2. CASE p.cleanup_requested
    <3>1. e[1] = "revoke_entitlement"
      BY <2>2 DEF Phase
    <3>2. F[Create] = E[Create] /\ \A i \in Ordinals : F[Put(i)] = E[Put(i)]
      BY <1>2, <3>1, SlotFacts
    <3>3. \A i \in Ordinals : /\ F[Revoke(i)].external_id = E[Revoke(i)].external_id
                              /\ F[Revoke(i)].state = "absent" <=> E[Revoke(i)].state = "absent"
      BY <1>2, <3>1, SlotFacts DEF Open
    <3>4. QED
      BY <2>2, <3>2, <3>3 DEF EffectsConsistent, CleanupMirrors
  <2>3. QED
    BY <2>1, <2>2
<1>9. F[Create].state # "absent"
  BY <1>2, SlotFacts
<1>10. InFlight(F) = {}
  BY <1>2, <1>3 DEF InFlight, Open
<1>11. QED
  BY <1>4, <1>5, <1>6, <1>7, <1>8, <1>9, <1>10 DEF EffectsConsistent, F

\* What SettledEffect writes.
LEMMA SettledMeans ==
    ASSUME NEW old \in EffectRow, NEW e \in Slots, NEW outcome \in Outcomes(e[1])
    PROVE  /\ SettledEffect(old, outcome).state = outcome.state
           /\ SettledEffect(old, outcome).lease_token = NULL
           /\ SettledEffect(old, outcome).lease_until = NULL
           /\ outcome.state \in {"failed", "unknown"} =>
                 SettledEffect(old, outcome).last_error # NULL
           /\ SettledEffect(old, outcome).external_id =
                 IF outcome.state = "applied" THEN outcome.id ELSE old.external_id
  BY OutcomeType, NullAssumption DEF SettledEffect, Released, EffectRow

\* finalize_effect, and an operator's confirmation, settle the open effect.
LEMMA SettleKeeps ==
    ASSUME NEW p \in SagaRow, NEW E \in [Slots -> EffectRow],
           EffectsConsistent(p, E), StatusConsistent(p, E),
           NEW e \in Phase(p.cleanup_requested), Open(E[e]),
           NEW outcome \in Outcomes(e[1])
    PROVE  Consistent(Refresh(WithOrganization(p, e, outcome),
                              [E EXCEPT ![e] = SettledEffect(E[e], outcome)]),
                      [E EXCEPT ![e] = SettledEffect(E[e], outcome)])
<1> DEFINE row == SettledEffect(E[e], outcome)
           q == WithOrganization(p, e, outcome)
           F == [E EXCEPT ![e] = row]
<1>1. e \in Slots /\ E[e] \in EffectRow
  BY DEF Phase
<1>2. row \in EffectRow /\ q \in SagaRow /\ F \in [Slots -> EffectRow]
  BY <1>1, SettledType, OrganizationType
<1>3. /\ q.cleanup_requested = p.cleanup_requested
      /\ e = Create /\ outcome.state = "applied" =>
            q.organization_id = outcome.id /\ q.organization_residue
      /\ ~ (e = Create /\ outcome.state = "applied") =>
            /\ q.organization_id = p.organization_id
            /\ q.organization_residue = p.organization_residue
  <2>1. CASE e = Create /\ outcome.state = "applied"
    <3>1. q = [p EXCEPT !.organization_id = outcome.id, !.organization_residue = TRUE]
      BY <2>1 DEF WithOrganization
    <3>2. QED
      BY <2>1, <3>1 DEF SagaRow
  <2>2. CASE ~ (e = Create /\ outcome.state = "applied")
    <3>1. q = p
      BY <2>2 DEF WithOrganization
    <3>2. QED
      BY <2>2, <3>1
  <2>3. QED
    BY <2>1, <2>2
<1>4. E[Create].state # "absent"
  BY DEF StatusConsistent
<1>5. /\ row.state = outcome.state
      /\ row.lease_token = NULL /\ row.lease_until = NULL
      /\ outcome.state \in {"failed", "unknown"} => row.last_error # NULL
      /\ row.external_id = IF outcome.state = "applied" THEN outcome.id ELSE E[e].external_id
  BY <1>1, SettledMeans
<1>6. /\ outcome.state \in {"failed", "unknown", "applied", "compensated"}
      /\ outcome.state = "applied" => e[1] # "revoke_entitlement" /\ outcome.id # NULL
      /\ outcome.state = "compensated" => e[1] = "revoke_entitlement"
  BY <1>1, OutcomeType
<1> HIDE DEF row, q
<1>7. EffectsConsistent(q, F) /\ F[Create].state # "absent" /\ InFlight(F) = {}
  <2>1. row.state \in {"pending", "failed", "unknown", "applied", "compensated"}
    BY <1>5, <1>6
  <2>2. /\ row.state \in {"failed", "unknown"} => row.last_error # NULL
        /\ row.state = "applied" => e[1] # "revoke_entitlement" /\ row.external_id # NULL
        /\ row.state # "applied" => row.external_id = E[e].external_id
        /\ row.state = "compensated" => e[1] = "revoke_entitlement"
    BY <1>5, <1>6
  <2>3. /\ e = Create /\ row.state = "applied" =>
               q.organization_id = row.external_id /\ q.organization_residue
        /\ ~ (e = Create /\ row.state = "applied") =>
               /\ q.organization_id = p.organization_id
               /\ q.organization_residue = p.organization_residue
    BY <1>3, <1>5
  <2>4. row.lease_token = NULL /\ row.lease_until = NULL
    BY <1>5
  <2>5. q.cleanup_requested = p.cleanup_requested
    BY <1>3
  <2>6. QED
    BY <1>2, <1>4, <2>1, <2>2, <2>3, <2>4, <2>5, CloseKeeps
<1>8. QED
  BY <1>2, <1>7, RefreshKeeps DEF row, q
\* What Released writes when an effect is reset or quarantined.
LEMMA ReleasedMeans ==
    ASSUME NEW old \in EffectRow, NEW state \in {"pending", "unknown"},
           NEW error \in {NULL, "error"}
    PROVE  /\ Released(old, state, error) \in EffectRow
           /\ Released(old, state, error).state = state
           /\ Released(old, state, error).lease_token = NULL
           /\ Released(old, state, error).lease_until = NULL
           /\ Released(old, state, error).last_error = error
           /\ Released(old, state, error).external_id = old.external_id
  BY DEF Released, EffectRow, EffectStates

\* An effect that is released, not settled, leaves the organization alone.
LEMMA ReleaseKeeps ==
    ASSUME NEW p \in SagaRow, NEW E \in [Slots -> EffectRow],
           EffectsConsistent(p, E), StatusConsistent(p, E),
           NEW e \in Phase(p.cleanup_requested), Open(E[e]),
           NEW state \in {"pending", "unknown"}, NEW error \in {NULL, "error"},
           state = "unknown" => error # NULL,
           NEW q \in SagaRow, q.cleanup_requested = p.cleanup_requested,
           q.organization_id = p.organization_id,
           q.organization_residue = p.organization_residue
    PROVE  /\ EffectsConsistent(q, [E EXCEPT ![e] = Released(E[e], state, error)])
           /\ [E EXCEPT ![e] = Released(E[e], state, error)][Create].state # "absent"
           /\ InFlight([E EXCEPT ![e] = Released(E[e], state, error)]) = {}
<1> DEFINE row == Released(E[e], state, error)
<1>1. e \in Slots /\ E[e] \in EffectRow
  BY DEF Phase
<1>2. /\ row \in EffectRow /\ row.state = state
      /\ row.lease_token = NULL /\ row.lease_until = NULL
      /\ row.last_error = error /\ row.external_id = E[e].external_id
  BY <1>1, ReleasedMeans
<1>3. E[Create].state # "absent"
  BY DEF StatusConsistent
<1> HIDE DEF row
<1>4. /\ EffectsConsistent(q, [E EXCEPT ![e] = row])
      /\ [E EXCEPT ![e] = row][Create].state # "absent"
      /\ InFlight([E EXCEPT ![e] = row]) = {}
  <2>1. row.state \in {"pending", "failed", "unknown", "applied", "compensated"}
    BY <1>2
  <2>2. /\ row.state \in {"failed", "unknown"} => row.last_error # NULL
        /\ row.state = "applied" => e[1] # "revoke_entitlement" /\ row.external_id # NULL
        /\ row.state # "applied" => row.external_id = E[e].external_id
        /\ row.state = "compensated" => e[1] = "revoke_entitlement"
    BY <1>2
  <2>3. /\ e = Create /\ row.state = "applied" =>
               q.organization_id = row.external_id /\ q.organization_residue
        /\ ~ (e = Create /\ row.state = "applied") =>
               /\ q.organization_id = p.organization_id
               /\ q.organization_residue = p.organization_residue
    BY <1>2
  <2>4. QED
    BY <1>2, <1>3, <2>1, <2>2, <2>3, CloseKeeps
<1>5. QED
  BY <1>4 DEF row

\* A reset effect is pending again, and the refreshed status with it.
LEMMA ResetKeeps ==
    ASSUME NEW p \in SagaRow, NEW E \in [Slots -> EffectRow],
           EffectsConsistent(p, E), StatusConsistent(p, E),
           NEW e \in Phase(p.cleanup_requested), Open(E[e])
    PROVE  Consistent(Refresh(p, [E EXCEPT ![e] = ResetEffect(E[e])]),
                      [E EXCEPT ![e] = ResetEffect(E[e])])
<1>1. [E EXCEPT ![e] = ResetEffect(E[e])] \in [Slots -> EffectRow]
  BY ResetType DEF Phase
<1>2. /\ EffectsConsistent(p, [E EXCEPT ![e] = ResetEffect(E[e])])
      /\ [E EXCEPT ![e] = ResetEffect(E[e])][Create].state # "absent"
      /\ InFlight([E EXCEPT ![e] = ResetEffect(E[e])]) = {}
  BY ReleaseKeeps DEF ResetEffect
<1>3. QED
  BY <1>1, <1>2, RefreshKeeps

\* An expired lease sends the saga to the operator without a refresh, and the
\* status is the one a refresh would compute.
LEMMA QuarantineKeeps ==
    ASSUME NEW p \in SagaRow, NEW E \in [Slots -> EffectRow],
           Consistent(p, E), Quarantinable(p, E), NEW e \in ExpiredEffects(E)
    PROVE  Consistent(QuarantinedSaga(p), [E EXCEPT ![e] = QuarantinedEffect(E[e])])
<1> DEFINE q == QuarantinedSaga(p)
           F == [E EXCEPT ![e] = QuarantinedEffect(E[e])]
<1>1. EffectsConsistent(p, E) /\ StatusConsistent(p, E)
  BY StoredMeans DEF Quarantinable
<1>2. e \in Slots /\ E[e].state = "in_flight" /\ Open(E[e])
  BY DEF ExpiredEffects, Open
<1>3. e \in Phase(p.cleanup_requested)
  BY <1>1, <1>2, OutsidePhase
<1>4. /\ q \in SagaRow /\ q.cleanup_requested = p.cleanup_requested
      /\ q.organization_id = p.organization_id
      /\ q.organization_residue = p.organization_residue
      /\ q.status = "manual_review" /\ q.last_error # NULL
  BY ClaimedSagaType, NullAssumption DEF QuarantinedSaga, SagaRow
<1>5. F[e].state = "unknown" /\ F[e].last_error = "error"
  BY <1>2, ReleasedMeans DEF QuarantinedEffect
<1>6. EffectsConsistent(q, F) /\ F[Create].state # "absent" /\ InFlight(F) = {}
  <2>1. "error" # NULL
    BY NullAssumption
  <2> HIDE DEF q
  <2>2. QED
    BY <1>1, <1>2, <1>3, <1>4, <2>1, ReleaseKeeps DEF QuarantinedEffect
<1> HIDE DEF q, F
<1>7. RefreshedStatus(F, q.cleanup_requested) = "manual_review"
  <2>1. e \in Erring(F, q.cleanup_requested, "unknown")
    BY <1>3, <1>4, <1>5, NullAssumption DEF Erring
  <2>2. QED
    BY <2>1 DEF RefreshedStatus
<1>8. StatusConsistent(q, F)
  BY <1>4, <1>6, <1>7 DEF StatusConsistent, ExpectedStatus
<1>9. QED
  BY <1>6, <1>8 DEF Consistent, q, F

\* The effect a retry selects, without naming its kind, is the open effect of
\* the phase the saga is in.
LEMMA SelectedMeans ==
    ASSUME NEW p \in SagaRow, NEW E \in [Slots -> EffectRow],
           EffectsConsistent(p, E), StatusConsistent(p, E), NEW e \in Selected(p, E)
    PROVE  e \in Phase(p.cleanup_requested) /\ Open(E[e])
<1>1. e \in Slots /\ Open(E[e])
  BY DEF Selected, Open
<1>2. SUFFICES ASSUME e \notin Phase(p.cleanup_requested)
               PROVE  FALSE
  BY <1>1
<1>3. /\ e = Create /\ E[e].state = "failed" /\ p.cleanup_requested
      /\ \A i \in Ordinals : E[Revoke(i)].state = "absent"
  BY <1>1, <1>2, OutsidePhase
<1>4. p.status \in {"failed", "cleanup_failed"}
  BY <1>3 DEF Selected
<1>5. PICK f \in Phase(p.cleanup_requested) : E[f].state = "failed"
  BY <1>4, StatusMeans DEF InState
<1>6. f \in Slots /\ f[1] = "revoke_entitlement"
  BY <1>3, <1>5 DEF Phase
<1>7. QED
  BY <1>3, <1>5, <1>6, SlotKinds

\* A retry resolves the open effect, by a reset or by a confirmation.
LEMMA RetryKeeps ==
    ASSUME NEW p \in SagaRow, NEW E \in [Slots -> EffectRow],
           Consistent(p, E), p.status # "absent", NEW e \in Selected(p, E),
           NEW resolution, NEW observed,
           NEW row \in Resolved(p, E[e], e[1], resolution, observed)
    PROVE  Consistent(Refresh(WithOrganization(p, e, [state |-> row.state, id |-> row.external_id]),
                              [E EXCEPT ![e] = row]),
                      [E EXCEPT ![e] = row])
<1>1. EffectsConsistent(p, E) /\ StatusConsistent(p, E)
  BY StoredMeans
<1>2. e \in Phase(p.cleanup_requested) /\ Open(E[e])
  BY <1>1, SelectedMeans
<1>3. e \in Slots /\ E[e] \in EffectRow
  BY <1>2 DEF Phase
<1>4. CASE row = ResetEffect(E[e])
  <2>1. row.state = "pending"
    BY <1>3, <1>4, ReleasedMeans DEF ResetEffect
  <2>2. WithOrganization(p, e, [state |-> row.state, id |-> row.external_id]) = p
    BY <2>1 DEF WithOrganization
  <2>3. Consistent(Refresh(p, [E EXCEPT ![e] = ResetEffect(E[e])]),
                   [E EXCEPT ![e] = ResetEffect(E[e])])
    BY <1>1, <1>2, ResetKeeps
  <2>4. QED
    BY <1>4, <2>2, <2>3
<1>5. ASSUME NEW o \in Outcomes(e[1]), row = SettledEffect(E[e], o),
             o.state \in {"applied", "compensated"}
      PROVE  Consistent(Refresh(WithOrganization(p, e, [state |-> row.state, id |-> row.external_id]),
                                [E EXCEPT ![e] = row]),
                        [E EXCEPT ![e] = row])
  <2>1. row.state = o.state /\ (o.state = "applied" => row.external_id = o.id)
    BY <1>3, <1>5, SettledMeans
  <2>2. WithOrganization(p, e, [state |-> row.state, id |-> row.external_id])
            = WithOrganization(p, e, o)
    BY <2>1 DEF WithOrganization
  <2>3. Consistent(Refresh(WithOrganization(p, e, o), [E EXCEPT ![e] = SettledEffect(E[e], o)]),
                   [E EXCEPT ![e] = SettledEffect(E[e], o)])
    BY <1>1, <1>2, <1>5, SettleKeeps
  <2>4. QED
    BY <1>5, <2>2, <2>3
<1>6. \/ row = ResetEffect(E[e])
      \/ \E o \in Outcomes(e[1]) : /\ row = SettledEffect(E[e], o)
                                   /\ o.state \in {"applied", "compensated"}
  BY <1>3, ResolvedType
<1>7. QED
  BY <1>4, <1>5, <1>6
\* A start stores a consistent saga.
LEMMA StartKeeps ==
    ASSUME NEW a \in Actors, NEW n \in 0 .. MaxGrants
    PROVE  Consistent(StartedSaga(a), StartedEffects(n))
<1> DEFINE p == StartedSaga(a)
           E == StartedEffects(n)
<1>1. /\ p.status = "pending" /\ ~ p.cleanup_requested /\ p.organization_id = NULL
      /\ ~ p.organization_residue
  BY DEF StartedSaga, NoSaga
<1>2. \A e \in Slots : /\ E[e] \in {NoEffect, PendingEffect(NULL)}
                       /\ E[e].state \in {"absent", "pending"} /\ E[e].attempts = 0
                       /\ E[e].lease_token = NULL /\ E[e].lease_until = NULL
  BY DEF StartedEffects, PendingEffect, NoEffect
<1>3. E[Create].state = "pending"
  BY SlotFacts DEF StartedEffects, PendingEffect, NoEffect
<1>4. \A i \in Ordinals : E[Revoke(i)].state = "absent"
  BY SlotFacts DEF StartedEffects, NoEffect
<1> HIDE DEF p, E
<1>5. RowsAgree(E)
  BY <1>2 DEF RowsAgree
<1>6. KindsAgree(E) /\ OneOpen(E)
  BY <1>2, SlotFacts DEF KindsAgree, OneOpen, Open
<1>7. OrganizationFirst(p, E) /\ CleanupMirrors(p, E)
  BY <1>1, <1>2, <1>3, <1>4, SlotFacts DEF OrganizationFirst, CleanupMirrors
<1>8. StatusConsistent(p, E)
  <2>1. InFlight(E) = {} /\ Erring(E, FALSE, "unknown") = {} /\ Erring(E, FALSE, "failed") = {}
    BY <1>2 DEF InFlight, Erring, Phase
  <2>2. Create \in Busy(E, FALSE)
    BY <1>3, SlotFacts DEF Busy, Phase
  <2>3. RefreshedStatus(E, FALSE) = "pending"
    BY <2>1, <2>2 DEF RefreshedStatus
  <2>4. p.cleanup_requested = FALSE
    BY DEF p, StartedSaga, NoSaga
  <2>5. QED
    BY <1>1, <1>3, <2>1, <2>3, <2>4 DEF StatusConsistent, ExpectedStatus
<1>9. QED
  BY <1>5, <1>6, <1>7, <1>8 DEF EffectsConsistent, Consistent, p, E

\* The passing of a lease.
LEMMA ExpiryKeeps ==
    ASSUME NEW p \in SagaRow, NEW E \in [Slots -> EffectRow], Consistent(p, E),
           NEW e \in Slots, E[e].state = "in_flight"
    PROVE  Consistent(p, [E EXCEPT ![e] = [E[e] EXCEPT !.lease_until = "past"]])
<1> DEFINE row == [E[e] EXCEPT !.lease_until = "past"]
           F == [E EXCEPT ![e] = row]
<1>1. EffectsConsistent(p, E) /\ StatusConsistent(p, E)
  <2>1. E # [f \in Slots |-> NoEffect]
    BY DEF NoEffect
  <2>2. QED
    BY <2>1 DEF Consistent
<1>2. E[e] \in EffectRow
  OBVIOUS
<1>3. /\ row.state = E[e].state /\ row.lease_until = "past"
      /\ row.lease_token = E[e].lease_token /\ row.attempts = E[e].attempts
      /\ row.external_id = E[e].external_id /\ row.last_error = E[e].last_error
  BY <1>2 DEF EffectRow
<1> HIDE DEF row
<1>4. \A f \in Slots : /\ F[f].state = E[f].state /\ F[f].lease_token = E[f].lease_token
                       /\ F[f].attempts = E[f].attempts
                       /\ F[f].external_id = E[f].external_id
                       /\ F[f].last_error = E[f].last_error
                       /\ f # e => F[f] = E[f]
  BY <1>3
<1>5. F[e].lease_until = "past"
  BY <1>3
<1> HIDE DEF F
<1>6. RowsAgree(F)
  BY <1>1, <1>4, <1>5 DEF EffectsConsistent, RowsAgree
<1>7. KindsAgree(F) /\ OneOpen(F)
  BY <1>1, <1>4, SlotFacts DEF EffectsConsistent, KindsAgree, OneOpen, Open
<1>8. OrganizationFirst(p, F) /\ CleanupMirrors(p, F)
  BY <1>1, <1>4, SlotFacts DEF EffectsConsistent, OrganizationFirst, CleanupMirrors
<1>9. StatusConsistent(p, F)
  <2>1. InFlight(F) = InFlight(E)
    BY <1>4 DEF InFlight
  <2>2. e \in InFlight(E)
    BY DEF InFlight
  <2>3. F[Create].state = E[Create].state
    BY <1>4, SlotFacts
  <2>4. QED
    BY <1>1, <2>1, <2>2, <2>3 DEF StatusConsistent, ExpectedStatus
<1>10. QED
  BY <1>6, <1>7, <1>8, <1>9 DEF EffectsConsistent, Consistent, F, row

\* What request_cleanup writes, slot by slot.
LEMMA CleanedMeans ==
    ASSUME NEW E \in [Slots -> EffectRow]
    PROVE  /\ CleanedEffects(E)[Create] = E[Create]
           /\ \A i \in Ordinals :
                 /\ E[Put(i)].state \in {"pending", "failed"} =>
                       CleanedEffects(E)[Put(i)] =
                          [E[Put(i)] EXCEPT !.state = "skipped", !.last_error = "error"]
                 /\ E[Put(i)].state \notin {"pending", "failed"} =>
                       CleanedEffects(E)[Put(i)] = E[Put(i)]
                 /\ E[Put(i)].state = "applied" =>
                       CleanedEffects(E)[Revoke(i)] = PendingEffect(E[Put(i)].external_id)
                 /\ E[Put(i)].state # "applied" =>
                       CleanedEffects(E)[Revoke(i)] = E[Revoke(i)]
  BY SlotFacts DEF CleanedEffects

\* A saga that is completed or failed has created its organization or failed
\* to, and none of its grants is pending with an outcome still open.
LEMMA CleanableMeans ==
    ASSUME NEW p \in SagaRow, NEW E \in [Slots -> EffectRow],
           EffectsConsistent(p, E), StatusConsistent(p, E),
           p.status \in {"completed", "failed"}, ~ p.cleanup_requested
    PROVE  /\ E[Create].state \in {"applied", "failed"}
           /\ \A i \in Ordinals :
                 E[Put(i)].state \in {"absent", "pending", "applied", "failed"}
<1>1. \A e \in Slots : e[1] # "revoke_entitlement" =>
          /\ e \in Phase(p.cleanup_requested)
          /\ E[e].state \notin {"in_flight", "unknown"}
  BY StatusMeans DEF Phase, InState
<1>2. \A e \in Slots : E[e].state \in EffectStates
  BY DEF EffectRow
<1>3. E[Create].state \in {"pending", "applied", "failed"}
  BY <1>1, <1>2, SlotFacts
     DEF EffectStates, EffectsConsistent, KindsAgree, StatusConsistent
<1>4. \A i \in Ordinals : E[Put(i)].state \in {"absent", "pending", "applied", "failed"}
  BY <1>1, <1>2, SlotFacts DEF EffectStates, EffectsConsistent, KindsAgree, CleanupMirrors
<1>5. E[Create].state # "pending"
  <2>1. CASE p.status = "completed"
    BY <1>1, <2>1, StatusMeans, SlotFacts DEF InState
  <2>2. CASE p.status = "failed"
    <3>1. PICK f \in Phase(p.cleanup_requested) : E[f].state = "failed"
      BY <2>2, StatusMeans DEF InState
    <3>2. f \in Slots /\ f[1] # "revoke_entitlement"
      BY <3>1 DEF Phase
    <3>3. CASE f = Create
      BY <3>1, <3>3
    <3>4. CASE f # Create
      <4>1. f[2] \in Ordinals /\ f = Put(f[2])
        BY <3>2, <3>4, SlotKinds
      <4>2. QED
        BY <3>1, <4>1 DEF EffectsConsistent, OrganizationFirst
    <3>5. QED
      BY <3>3, <3>4
  <2>3. QED
    BY <2>1, <2>2
<1>6. QED
  BY <1>3, <1>4, <1>5

\* request_cleanup turns a consistent forward phase into a consistent cleanup.
LEMMA CleanupKeeps ==
    ASSUME NEW p \in SagaRow, NEW E \in [Slots -> EffectRow], Consistent(p, E),
           p.status \in {"completed", "failed"}, ~ p.cleanup_requested
    PROVE  Consistent(Refresh(CleaningSaga(p), CleanedEffects(E)), CleanedEffects(E))
<1> DEFINE q == CleaningSaga(p)
           F == CleanedEffects(E)
<1>1. EffectsConsistent(p, E) /\ StatusConsistent(p, E)
  BY StoredMeans
<1>2. /\ E[Create].state \in {"applied", "failed"}
      /\ \A i \in Ordinals : E[Put(i)].state \in {"absent", "pending", "applied", "failed"}
  BY <1>1, CleanableMeans
<1>3. /\ q \in SagaRow /\ q.cleanup_requested = TRUE
      /\ q.organization_id = p.organization_id
      /\ q.organization_residue = p.organization_residue
  BY DEF CleaningSaga, SagaRow
<1>4. F[Create] = E[Create]
  BY CleanedMeans
<1>5. \A i \in Ordinals : E[Revoke(i)].state = "absent"
  BY <1>1 DEF EffectsConsistent, CleanupMirrors
<1>6. \A i \in Ordinals :
         /\ F[Put(i)].state = IF E[Put(i)].state \in {"pending", "failed"}
                              THEN "skipped" ELSE E[Put(i)].state
         /\ F[Put(i)].attempts = E[Put(i)].attempts
         /\ F[Put(i)].external_id = E[Put(i)].external_id
         /\ F[Put(i)].lease_token = E[Put(i)].lease_token
         /\ F[Put(i)].lease_until = E[Put(i)].lease_until
  <2>1. SUFFICES ASSUME NEW i \in Ordinals
                 PROVE  /\ F[Put(i)].state = IF E[Put(i)].state \in {"pending", "failed"}
                                             THEN "skipped" ELSE E[Put(i)].state
                        /\ F[Put(i)].attempts = E[Put(i)].attempts
                        /\ F[Put(i)].external_id = E[Put(i)].external_id
                        /\ F[Put(i)].lease_token = E[Put(i)].lease_token
                        /\ F[Put(i)].lease_until = E[Put(i)].lease_until
    OBVIOUS
  <2>2. E[Put(i)] \in EffectRow
    BY SlotFacts
  <2>3. CASE E[Put(i)].state \in {"pending", "failed"}
    <3>1. F[Put(i)] = [E[Put(i)] EXCEPT !.state = "skipped", !.last_error = "error"]
      BY <2>3, CleanedMeans
    <3>2. QED
      BY <2>2, <2>3, <3>1 DEF EffectRow
  <2>4. CASE E[Put(i)].state \notin {"pending", "failed"}
    <3>1. F[Put(i)] = E[Put(i)]
      BY <2>4, CleanedMeans
    <3>2. QED
      BY <2>4, <3>1
  <2>5. QED
    BY <2>3, <2>4
<1>7. \A i \in Ordinals :
         /\ E[Put(i)].state = "applied" =>
               /\ F[Revoke(i)].state = "pending" /\ F[Revoke(i)].attempts = 0
               /\ F[Revoke(i)].external_id = E[Put(i)].external_id
               /\ F[Revoke(i)].lease_token = NULL /\ F[Revoke(i)].lease_until = NULL
         /\ E[Put(i)].state # "applied" => F[Revoke(i)] = E[Revoke(i)]
  <2>1. \A id : /\ PendingEffect(id).state = "pending" /\ PendingEffect(id).attempts = 0
                 /\ PendingEffect(id).external_id = id
                 /\ PendingEffect(id).lease_token = NULL
                 /\ PendingEffect(id).lease_until = NULL
    BY DEF PendingEffect, NoEffect
  <2>2. \A i \in Ordinals :
           /\ E[Put(i)].state = "applied" => F[Revoke(i)] = PendingEffect(E[Put(i)].external_id)
           /\ E[Put(i)].state # "applied" => F[Revoke(i)] = E[Revoke(i)]
    BY CleanedMeans
  <2>3. QED
    BY <2>1, <2>2
<1>8. F \in [Slots -> EffectRow]
  BY CleanedType
<1> HIDE DEF q, F
<1>9. RowsAgree(F)
  <2>1. ASSUME NEW i \in Ordinals
        PROVE  /\ F[Put(i)].state # "in_flight" /\ F[Put(i)].state \notin {"failed", "unknown"}
               /\ F[Put(i)].lease_token = NULL /\ F[Put(i)].lease_until = NULL
               /\ F[Put(i)].state = "absent" => F[Put(i)].attempts = 0
    BY <1>1, <1>2, <1>6, <2>1, SlotFacts DEF EffectsConsistent, RowsAgree
  <2>2. ASSUME NEW i \in Ordinals
        PROVE  /\ F[Revoke(i)].state \in {"absent", "pending"}
               /\ F[Revoke(i)].lease_token = NULL /\ F[Revoke(i)].lease_until = NULL
               /\ F[Revoke(i)].state = "absent" => F[Revoke(i)].attempts = 0
    BY <1>1, <1>5, <1>7, <2>2, SlotFacts DEF EffectsConsistent, RowsAgree
  <2>3. ASSUME NEW e \in Slots
        PROVE  /\ F[e].state = "in_flight" => /\ F[e].lease_token = F[e].attempts
                                              /\ F[e].lease_until \in {"ahead", "past"}
               /\ F[e].state # "in_flight" => F[e].lease_token = NULL /\ F[e].lease_until = NULL
               /\ F[e].state \in {"failed", "unknown"} => F[e].last_error # NULL
               /\ F[e].state = "absent" => F[e].attempts = 0
    <3>1. CASE e = Create
      BY <1>1, <1>4, <3>1 DEF EffectsConsistent, RowsAgree
    <3>2. ASSUME NEW i \in Ordinals, e = Put(i) \/ e = Revoke(i)
          PROVE  /\ F[e].state \notin {"in_flight", "failed", "unknown"}
                 /\ F[e].lease_token = NULL /\ F[e].lease_until = NULL
                 /\ F[e].state = "absent" => F[e].attempts = 0
      BY <2>1, <2>2, <3>2
    <3>3. QED
      BY <3>1, <3>2, SlotFacts
  <2>4. QED
    BY <2>3 DEF RowsAgree
<1>10. KindsAgree(F)
  BY <1>2, <1>4, <1>5, <1>6, <1>7 DEF KindsAgree
<1>11. \A e \in Slots : Open(F[e]) => e = Create /\ E[Create].state = "failed"
  <2>1. \A i \in Ordinals : ~ Open(F[Put(i)]) /\ ~ Open(F[Revoke(i)])
    BY <1>2, <1>5, <1>6, <1>7 DEF Open
  <2>2. QED
    BY <1>2, <1>4, <2>1, SlotFacts DEF Open
<1>12. OneOpen(F) /\ InFlight(F) = {}
  BY <1>2, <1>4, <1>11 DEF OneOpen, InFlight, Open
<1>13. OrganizationFirst(q, F)
  BY <1>1, <1>2, <1>3, <1>4, <1>6 DEF EffectsConsistent, OrganizationFirst
<1>14. CleanupMirrors(q, F)
  BY <1>2, <1>3, <1>4, <1>5, <1>6, <1>7 DEF CleanupMirrors
<1>15. EffectsConsistent(q, F) /\ F[Create].state # "absent"
  BY <1>2, <1>4, <1>9, <1>10, <1>12, <1>13, <1>14 DEF EffectsConsistent
<1>16. QED
  BY <1>3, <1>8, <1>12, <1>15, RefreshKeeps DEF q, F
-----------------------------------------------------------------------------
(* The actions. *)

\* An action that changes the rows of one saga.
LEMMA OneSagaChanges ==
    ASSUME SagasConsistent, NEW s \in Sagas,
           \A t \in Sagas : t # s => saga'[t] = saga[t] /\ effect'[t] = effect[t],
           Consistent(saga'[s], effect'[s])
    PROVE  SagasConsistent'
  BY DEF SagasConsistent

\* Every step keeps every saga consistent.
LEMMA NextConsistent == TypeOK /\ SagasConsistent /\ [Next]_vars => SagasConsistent'
<1>1. SUFFICES ASSUME TypeOK, SagasConsistent, [Next]_vars
               PROVE  SagasConsistent'
  OBVIOUS
<1>2. \A s \in Sagas : /\ saga[s] \in SagaRow /\ effect[s] \in [Slots -> EffectRow]
                       /\ Consistent(saga[s], effect[s])
  BY <1>1 DEF TypeOK, SagasConsistent
<1>3. ASSUME NEW s \in Sagas, NEW a \in Actors, NEW n \in 0 .. MaxGrants, NEW k \in Keys,
             Start(s, a, n, k)
      PROVE  SagasConsistent'
  <2>1. /\ saga' = [saga EXCEPT ![s] = StartedSaga(a)]
        /\ effect' = [effect EXCEPT ![s] = StartedEffects(n)]
    BY <1>3 DEF Start
  <2>2. Consistent(saga'[s], effect'[s])
    BY <1>1, <2>1, StartKeeps DEF TypeOK
  <2>3. \A t \in Sagas : t # s => saga'[t] = saga[t] /\ effect'[t] = effect[t]
    BY <1>1, <2>1 DEF TypeOK
  <2>4. QED
    BY <1>1, <2>2, <2>3, OneSagaChanges
<1>4. ASSUME NEW s \in Sagas, NEW a \in Actors, NEW k \in Keys,
             NEW request \in Requests(s), Retry(s, a, k, request)
      PROVE  SagasConsistent'
  <2>1. PICK e \in Selected(saga[s], effect[s]) :
        \E row \in Resolved(saga[s], effect[s][e], e[1], request.resolution, request.observed) :
          /\ effect' = [effect EXCEPT ![s][e] = row]
          /\ saga' = [saga EXCEPT ![s] =
                Refresh(WithOrganization(saga[s], e, [state |-> row.state, id |-> row.external_id]),
                        effect'[s])]
    BY <1>4 DEF Retry
  <2>2. PICK row \in Resolved(saga[s], effect[s][e], e[1], request.resolution, request.observed) :
          /\ effect' = [effect EXCEPT ![s][e] = row]
          /\ saga' = [saga EXCEPT ![s] =
                Refresh(WithOrganization(saga[s], e, [state |-> row.state, id |-> row.external_id]),
                        effect'[s])]
    BY <2>1
  <2>3. effect'[s] = [effect[s] EXCEPT ![e] = row]
    BY <1>1, <2>2 DEF TypeOK
  <2>4. saga'[s] = Refresh(WithOrganization(saga[s], e, [state |-> row.state, id |-> row.external_id]),
                           [effect[s] EXCEPT ![e] = row])
    BY <1>1, <2>2, <2>3 DEF TypeOK
  <2>5. saga[s].status # "absent"
    BY <1>4 DEF Retry, Locks
  <2>6. Consistent(Refresh(WithOrganization(saga[s], e, [state |-> row.state, id |-> row.external_id]),
                           [effect[s] EXCEPT ![e] = row]),
                   [effect[s] EXCEPT ![e] = row])
    BY <1>2, <2>5, RetryKeeps
  <2>7. \A t \in Sagas : t # s => saga'[t] = saga[t] /\ effect'[t] = effect[t]
    BY <1>1, <2>2 DEF TypeOK
  <2>8. QED
    BY <1>1, <2>3, <2>4, <2>6, <2>7, OneSagaChanges
<1>5. ASSUME NEW s \in Sagas, NEW a \in Actors, NEW k \in Keys,
             NEW expected \in 1 .. saga[s].revision, RequestCleanup(s, a, k, expected)
      PROVE  SagasConsistent'
  <2>1. /\ effect' = [effect EXCEPT ![s] = CleanedEffects(effect[s])]
        /\ saga' = [saga EXCEPT ![s] = Refresh(CleaningSaga(saga[s]), effect'[s])]
        /\ saga[s].status \in {"completed", "failed"} /\ ~ saga[s].cleanup_requested
    BY <1>5 DEF RequestCleanup
  <2>2. effect'[s] = CleanedEffects(effect[s])
    BY <1>1, <2>1 DEF TypeOK
  <2>3. saga'[s] = Refresh(CleaningSaga(saga[s]), CleanedEffects(effect[s]))
    BY <1>1, <2>1, <2>2 DEF TypeOK
  <2>4. Consistent(Refresh(CleaningSaga(saga[s]), CleanedEffects(effect[s])),
                   CleanedEffects(effect[s]))
    BY <1>2, <2>1, CleanupKeeps
  <2>5. \A t \in Sagas : t # s => saga'[t] = saga[t] /\ effect'[t] = effect[t]
    BY <1>1, <2>1 DEF TypeOK
  <2>6. QED
    BY <1>1, <2>2, <2>3, <2>4, <2>5, OneSagaChanges
<1>6. ASSUME NEW batch \in SUBSET Sagas, QuarantineExpired(batch)
      PROVE  SagasConsistent'
  <2>1. PICK victim \in [batch -> Slots] :
          /\ \A s \in batch : victim[s] \in ExpiredEffects(effect[s])
          /\ effect' = [s \in Sagas |->
                IF s \in batch
                THEN [effect[s] EXCEPT ![victim[s]] = QuarantinedEffect(@)]
                ELSE effect[s]]
    BY <1>6 DEF QuarantineExpired, Quarantine
  <2>2. /\ saga' = [s \in Sagas |-> IF s \in batch THEN QuarantinedSaga(saga[s]) ELSE saga[s]]
        /\ \A s \in batch : Quarantinable(saga[s], effect[s])
    BY <1>6 DEF QuarantineExpired, Quarantine
  <2>3. ASSUME NEW s \in Sagas
        PROVE  Consistent(saga'[s], effect'[s])
    <3>1. CASE s \in batch
      <4>1. /\ saga'[s] = QuarantinedSaga(saga[s])
            /\ effect'[s] = [effect[s] EXCEPT ![victim[s]] = QuarantinedEffect(effect[s][victim[s]])]
        BY <2>1, <2>2, <3>1
      <4>2. victim[s] \in ExpiredEffects(effect[s]) /\ Quarantinable(saga[s], effect[s])
        BY <2>1, <2>2, <3>1
      <4>3. Consistent(QuarantinedSaga(saga[s]),
               [effect[s] EXCEPT ![victim[s]] = QuarantinedEffect(effect[s][victim[s]])])
        BY <1>2, <4>2, QuarantineKeeps
      <4>4. QED
        BY <4>1, <4>3
    <3>2. CASE s \notin batch
      BY <1>2, <2>1, <2>2, <3>2
    <3>3. QED
      BY <3>1, <3>2
  <2>4. QED
    BY <2>3 DEF SagasConsistent
<1>7. ASSUME NEW s \in Sagas, ClaimNext(s)
      PROVE  SagasConsistent'
  <2>1. Claimable(saga[s], effect[s])
    BY <1>7 DEF ClaimNext, Claim
  <2>2. PICK e \in Slots : /\ IsNext(saga[s], effect[s], e)
                           /\ effect' = [effect EXCEPT ![s][e] = ClaimedEffect(@)]
                           /\ saga' = [saga EXCEPT ![s] = ClaimedSaga(@)]
    BY <1>7 DEF ClaimNext, Claim
  <2>3. /\ effect'[s] = [effect[s] EXCEPT ![e] = ClaimedEffect(effect[s][e])]
        /\ saga'[s] = ClaimedSaga(saga[s])
    BY <1>1, <2>2 DEF TypeOK
  <2>4. Consistent(ClaimedSaga(saga[s]), [effect[s] EXCEPT ![e] = ClaimedEffect(effect[s][e])])
    BY <1>2, <2>1, <2>2, ClaimKeeps
  <2>5. \A t \in Sagas : t # s => saga'[t] = saga[t] /\ effect'[t] = effect[t]
    BY <1>1, <2>2 DEF TypeOK
  <2>6. QED
    BY <1>1, <2>3, <2>4, <2>5, OneSagaChanges
<1>8. ASSUME NEW r \in held, NEW outcome \in Answers(r), FinalizeEffect(r, outcome)
      PROVE  SagasConsistent'
  <2>1. /\ r \in HeldRecord /\ r.saga \in Sagas /\ r.slot \in Slots
        /\ outcome \in Outcomes(r.slot[1])
    BY <1>1, AnswersAreOutcomes DEF TypeOK, HeldRecord
  <2>2. /\ effect[r.saga][r.slot].state = "in_flight"
        /\ effect' = [effect EXCEPT ![r.saga][r.slot] = SettledEffect(@, outcome)]
        /\ saga' = [saga EXCEPT ![r.saga] =
              Refresh(WithOrganization(saga[r.saga], r.slot, outcome), effect'[r.saga])]
    BY <1>8 DEF FinalizeEffect, Current
  <2>3. effect'[r.saga] =
           [effect[r.saga] EXCEPT ![r.slot] = SettledEffect(effect[r.saga][r.slot], outcome)]
    BY <1>1, <2>1, <2>2 DEF TypeOK
  <2>4. saga'[r.saga] =
           Refresh(WithOrganization(saga[r.saga], r.slot, outcome),
              [effect[r.saga] EXCEPT ![r.slot] = SettledEffect(effect[r.saga][r.slot], outcome)])
    BY <1>1, <2>1, <2>2, <2>3 DEF TypeOK
  <2>5. effect[r.saga] # [e \in Slots |-> NoEffect]
    BY <2>1, <2>2 DEF NoEffect
  <2>6. EffectsConsistent(saga[r.saga], effect[r.saga])
        /\ StatusConsistent(saga[r.saga], effect[r.saga])
    BY <1>2, <2>1, <2>5 DEF Consistent
  <2>7. Open(effect[r.saga][r.slot])
    BY <2>2 DEF Open
  <2>8. r.slot \in Phase(saga[r.saga].cleanup_requested)
    BY <1>2, <2>1, <2>2, <2>6, <2>7, OutsidePhase
  <2>9. Consistent(
           Refresh(WithOrganization(saga[r.saga], r.slot, outcome),
              [effect[r.saga] EXCEPT ![r.slot] = SettledEffect(effect[r.saga][r.slot], outcome)]),
           [effect[r.saga] EXCEPT ![r.slot] = SettledEffect(effect[r.saga][r.slot], outcome)])
    BY <1>2, <2>1, <2>6, <2>7, <2>8, SettleKeeps
  <2>10. \A t \in Sagas : t # r.saga => saga'[t] = saga[t] /\ effect'[t] = effect[t]
    BY <1>1, <2>2 DEF TypeOK
  <2>11. QED
    BY <1>1, <2>1, <2>3, <2>4, <2>9, <2>10, OneSagaChanges
<1>9. ASSUME NEW r \in held, FinalizeSuperseded(r) \/ WorkerLost(r)
      PROVE  SagasConsistent'
  BY <1>1, <1>9 DEF FinalizeSuperseded, WorkerLost, SagasConsistent
<1>10. ASSUME NEW s \in Sagas, NEW e \in Slots, LeaseExpires(s, e)
      PROVE  SagasConsistent'
  <2>1. /\ effect[s][e].state = "in_flight" /\ saga' = saga
        /\ effect' = [effect EXCEPT ![s][e] = [@ EXCEPT !.lease_until = "past"]]
    BY <1>10 DEF LeaseExpires
  <2>2. effect'[s] = [effect[s] EXCEPT ![e] = [effect[s][e] EXCEPT !.lease_until = "past"]]
    BY <1>1, <2>1 DEF TypeOK
  <2>3. Consistent(saga[s], [effect[s] EXCEPT ![e] = [effect[s][e] EXCEPT !.lease_until = "past"]])
    BY <1>2, <2>1, ExpiryKeeps
  <2>4. \A t \in Sagas : t # s => saga'[t] = saga[t] /\ effect'[t] = effect[t]
    BY <1>1, <2>1 DEF TypeOK
  <2>5. QED
    BY <1>1, <2>1, <2>2, <2>3, <2>4, OneSagaChanges
<1>11. CASE UNCHANGED vars
  BY <1>1, <1>11 DEF vars, SagasConsistent
<1>12. QED
  BY <1>1, <1>3, <1>4, <1>5, <1>6, <1>7, <1>8, <1>9, <1>10, <1>11 DEF Next

\* In every reachable state each stored saga is in one of the combinations of
\* columns the code relies on, whatever workers and operators did to it.
THEOREM Consistency == Spec => []SagasConsistent
<1>1. Init => SagasConsistent
  BY DEF Init, SagasConsistent, Consistent
<1>2. QED
  BY <1>1, NextConsistent, Typing, PTL DEF Spec
-----------------------------------------------------------------------------
(* What consistency implies. *)

\* The rows of a saga that was never started.
LEMMA AbsentMeans ==
    ASSUME NEW p, NEW E, p = NoSaga, E = [e \in Slots |-> NoEffect]
    PROVE  /\ p.status = "absent" /\ ~ p.cleanup_requested /\ p.organization_id = NULL
           /\ ~ p.organization_residue
           /\ \A e \in Slots : E[e].state = "absent" /\ E[e].attempts = 0
  BY DEF NoSaga, NoEffect

\* A consistent saga's status summarizes its effects.
LEMMA SummaryHolds ==
    ASSUME NEW p \in SagaRow, NEW E \in [Slots -> EffectRow],
           EffectsConsistent(p, E), StatusConsistent(p, E)
    PROVE  LET c == p.cleanup_requested
               inFlight == {e \in Slots : E[e].state = "in_flight"}
               open == InState(E, c, {"in_flight", "unknown", "failed"})
           IN  /\ p.status \in {"pending", "cleanup_pending"} => Claimable(p, E) /\ open = {}
               /\ p.status \in {"running", "cleanup_running"} => One(inFlight) /\ open = inFlight
               /\ p.status \in {"manual_review", "failed", "cleanup_failed"} =>
                     One(Selected(p, E)) /\ open = Selected(p, E) /\ p.last_error # NULL
               /\ p.status \in {"completed", "cleanup_completed"} =>
                     InState(E, c, {"absent", "applied", "compensated"}) = Phase(c)
               /\ p.status \notin {"absent", "manual_review"} =>
                     (c <=> p.status \in {"cleanup_pending", "cleanup_running",
                                          "cleanup_completed", "cleanup_failed"})
<1> DEFINE c == p.cleanup_requested
           inFlight == {e \in Slots : E[e].state = "in_flight"}
           open == InState(E, c, {"in_flight", "unknown", "failed"})
<1>1. p.status \in Statuses /\ c \in BOOLEAN
  BY DEF SagaRow
<1>2. \A e, f \in Slots : Open(E[e]) /\ Open(E[f]) => e = f
  BY DEF EffectsConsistent, OneOpen
<1>3. /\ \A e \in Slots : e \in inFlight => e \in open /\ Open(E[e])
      /\ \A e \in open : e \in Slots /\ Open(E[e])
  BY OutsidePhase DEF InState, Open, Phase
<1>4. p.status \in {"pending", "cleanup_pending"} => Claimable(p, E) /\ open = {}
  <2>1. SUFFICES ASSUME p.status \in {"pending", "cleanup_pending"}
                 PROVE  Claimable(p, E) /\ open = {}
    OBVIOUS
  <2>2. open = {} /\ PendingIn(E, c) # {}
    BY <2>1, StatusMeans
  <2>3. c = (p.status = "cleanup_pending")
    BY <1>1, <2>1, StatusMeans
  <2>4. QED
    BY <2>1, <2>2, <2>3 DEF Claimable
<1>5. p.status \in {"running", "cleanup_running"} => One(inFlight) /\ open = inFlight
  <2>1. SUFFICES ASSUME p.status \in {"running", "cleanup_running"}
                 PROVE  One(inFlight) /\ open = inFlight
    OBVIOUS
  <2>2. PICK e \in Slots : e \in inFlight
    BY <2>1, StatusMeans DEF InFlight
  <2>3. inFlight = {e} /\ open = {e}
    BY <1>2, <1>3, <2>2
  <2>4. QED
    BY <2>3 DEF One
<1>6. p.status \in {"manual_review", "failed", "cleanup_failed"} =>
         One(Selected(p, E)) /\ open = Selected(p, E) /\ p.last_error # NULL
  <2>1. SUFFICES ASSUME p.status \in {"manual_review", "failed", "cleanup_failed"}
                 PROVE  One(Selected(p, E)) /\ open = Selected(p, E) /\ p.last_error # NULL
    OBVIOUS
  <2>2. PICK e \in Slots : e \in Selected(p, E)
    <3>1. CASE p.status = "manual_review"
      BY <3>1, StatusMeans DEF Selected, InState, Phase
    <3>2. CASE p.status \in {"failed", "cleanup_failed"}
      BY <3>2, StatusMeans DEF Selected, InState, Phase
    <3>3. QED
      BY <2>1, <3>1, <3>2
  <2>3. \A f \in Selected(p, E) : f \in open
    BY SelectedMeans DEF InState, Open
  <2>4. Selected(p, E) = {e} /\ open = {e}
    BY <1>2, <1>3, <2>2, <2>3
  <2>5. p.last_error # NULL
    BY <2>1 DEF StatusConsistent
  <2>6. QED
    BY <2>4, <2>5 DEF One
<1>7. p.status \in {"completed", "cleanup_completed"} =>
         InState(E, c, {"absent", "applied", "compensated"}) = Phase(c)
  <2>1. SUFFICES ASSUME p.status \in {"completed", "cleanup_completed"}, NEW e \in Phase(c)
                 PROVE  E[e].state \in {"absent", "applied", "compensated"}
    BY DEF InState
  <2>2. e \in Slots /\ E[e].state \in EffectStates
    BY <2>1 DEF Phase, EffectRow
  <2>3. E[e].state \notin {"pending", "in_flight", "unknown", "failed"}
    BY <2>1, StatusMeans DEF InState
  <2>4. E[e].state # "skipped"
    <3>1. CASE c
      <4>1. e[2] \in Ordinals /\ e = Revoke(e[2])
        BY <2>1, <2>2, <3>1, SlotKinds DEF Phase
      <4>2. QED
        BY <4>1 DEF EffectsConsistent, KindsAgree
    <3>2. CASE ~ c
      <4>1. e = Create \/ (e[2] \in Ordinals /\ e = Put(e[2]))
        BY <2>1, <2>2, <3>2, SlotKinds DEF Phase
      <4>2. QED
        BY <3>2, <4>1 DEF EffectsConsistent, KindsAgree, CleanupMirrors
    <3>3. QED
      BY <3>1, <3>2
  <2>5. QED
    BY <2>2, <2>3, <2>4 DEF EffectStates
<1>8. p.status \notin {"absent", "manual_review"} =>
         (c <=> p.status \in {"cleanup_pending", "cleanup_running",
                              "cleanup_completed", "cleanup_failed"})
  BY <1>1, StatusMeans DEF Statuses
<1>9. QED
  BY <1>4, <1>5, <1>6, <1>7, <1>8

\* So it does for all sagas.
LEMMA SummaryFollows == TypeOK /\ SagasConsistent => StatusSummarizesEffects
<1>1. SUFFICES ASSUME TypeOK, SagasConsistent, NEW s \in Sagas
               PROVE  LET p == saga[s]
                          E == effect[s]
                          c == p.cleanup_requested
                          inFlight == {e \in Slots : E[e].state = "in_flight"}
                          open == InState(E, c, {"in_flight", "unknown", "failed"})
                      IN  /\ p.status \in {"pending", "cleanup_pending"} =>
                                Claimable(p, E) /\ open = {}
                          /\ p.status \in {"running", "cleanup_running"} =>
                                One(inFlight) /\ open = inFlight
                          /\ p.status \in {"manual_review", "failed", "cleanup_failed"} =>
                                One(Selected(p, E)) /\ open = Selected(p, E) /\ p.last_error # NULL
                          /\ p.status \in {"completed", "cleanup_completed"} =>
                                InState(E, c, {"absent", "applied", "compensated"}) = Phase(c)
                          /\ p.status \notin {"absent", "manual_review"} =>
                                (c <=> p.status \in {"cleanup_pending", "cleanup_running",
                                                     "cleanup_completed", "cleanup_failed"})
  BY DEF StatusSummarizesEffects
<1>2. saga[s] \in SagaRow /\ effect[s] \in [Slots -> EffectRow]
      /\ Consistent(saga[s], effect[s])
  BY <1>1 DEF TypeOK, SagasConsistent
<1>3. CASE saga[s] = NoSaga /\ effect[s] = [e \in Slots |-> NoEffect]
  <2>1. saga[s].status = "absent"
    BY <1>3, AbsentMeans
  <2>2. QED
    BY <2>1
<1>4. CASE EffectsConsistent(saga[s], effect[s]) /\ StatusConsistent(saga[s], effect[s])
  BY <1>2, <1>4, SummaryHolds
<1>5. QED
  BY <1>2, <1>3, <1>4 DEF Consistent

\* The status a query reads is a summary of the effects in every reachable
\* state: a claim finds its effect, a retry finds exactly one and of the right
\* phase, a completed phase has nothing left.
THEOREM StatusSummary == Spec => []StatusSummarizesEffects
  BY Typing, Consistency, SummaryFollows, PTL

\* Consistent sagas order their grants after their organization.
LEMMA OrganizationFollows == TypeOK /\ SagasConsistent => GrantsNeedOrganization
<1>1. SUFFICES ASSUME TypeOK, SagasConsistent, NEW s \in Sagas
               PROVE  /\ saga[s].organization_residue <=> effect[s][Create].state = "applied"
                      /\ saga[s].organization_id =
                            (IF effect[s][Create].state = "applied"
                             THEN effect[s][Create].external_id ELSE NULL)
                      /\ effect[s][Create].state # "applied" =>
                            \A i \in Ordinals : /\ effect[s][Put(i)].attempts = 0
                                                /\ effect[s][Revoke(i)].state = "absent"
  BY DEF GrantsNeedOrganization
<1>2. Consistent(saga[s], effect[s]) /\ saga[s] \in SagaRow
  BY <1>1 DEF SagasConsistent, TypeOK
<1>3. CASE saga[s] = NoSaga /\ effect[s] = [e \in Slots |-> NoEffect]
  BY <1>3, AbsentMeans, SlotFacts
<1>4. CASE EffectsConsistent(saga[s], effect[s])
  <2>1. saga[s].cleanup_requested \in BOOLEAN
    BY <1>2 DEF SagaRow
  <2>2. QED
    BY <1>4, <2>1 DEF EffectsConsistent, OrganizationFirst, CleanupMirrors
<1>5. QED
  BY <1>2, <1>3, <1>4 DEF Consistent

\* No grant is ever sent before the organization is recorded, and the residue
\* flag is exactly the record of one.
THEOREM OrganizationOrdering == Spec => []GrantsNeedOrganization
  BY Typing, Consistency, OrganizationFollows, PTL

\* Consistent sagas in cleanup mirror their applied grants.
LEMMA CleanupFollows == TypeOK /\ SagasConsistent => CleanupCoversGrants
<1>1. SUFFICES ASSUME TypeOK, SagasConsistent, NEW s \in Sagas, NEW i \in Ordinals
               PROVE  LET put == effect[s][Put(i)]
                          revoke == effect[s][Revoke(i)]
                      IN  /\ ~ saga[s].cleanup_requested => revoke.state = "absent"
                          /\ saga[s].cleanup_requested =>
                                /\ put.state \in {"absent", "applied", "skipped"}
                                /\ put.state = "applied" <=> revoke.state # "absent"
                                /\ put.state = "applied" => revoke.external_id = put.external_id
                          /\ saga[s].status = "cleanup_completed" /\ put.state = "applied" =>
                                revoke.state = "compensated"
  BY DEF CleanupCoversGrants
<1>2. /\ Consistent(saga[s], effect[s]) /\ saga[s] \in SagaRow
      /\ effect[s] \in [Slots -> EffectRow]
  BY <1>1 DEF SagasConsistent, TypeOK
<1>3. CASE saga[s] = NoSaga /\ effect[s] = [e \in Slots |-> NoEffect]
  BY <1>3, AbsentMeans, SlotFacts
<1>4. CASE EffectsConsistent(saga[s], effect[s]) /\ StatusConsistent(saga[s], effect[s])
  <2>1. saga[s].status = "cleanup_completed" /\ effect[s][Put(i)].state = "applied" =>
            effect[s][Revoke(i)].state = "compensated"
    <3>1. SUFFICES ASSUME saga[s].status = "cleanup_completed",
                          effect[s][Put(i)].state = "applied"
                   PROVE  effect[s][Revoke(i)].state = "compensated"
      OBVIOUS
    <3>2. saga[s].cleanup_requested
      BY <1>2, <1>4, <3>1, StatusMeans
    <3>3. effect[s][Revoke(i)].state # "absent"
      BY <1>4, <3>1, <3>2 DEF EffectsConsistent, CleanupMirrors
    <3>4. Revoke(i) \in Phase(saga[s].cleanup_requested)
      BY <3>2, SlotFacts DEF Phase
    <3>5. Revoke(i) \in InState(effect[s], saga[s].cleanup_requested,
                                {"absent", "applied", "compensated"})
      BY <1>2, <1>4, <3>1, <3>4, SummaryHolds
    <3>6. effect[s][Revoke(i)].state # "applied"
      BY <1>4 DEF EffectsConsistent, KindsAgree
    <3>7. QED
      BY <3>3, <3>5, <3>6 DEF InState
  <2>2. QED
    BY <1>4, <2>1 DEF EffectsConsistent, CleanupMirrors
<1>5. QED
  BY <1>2, <1>3, <1>4 DEF Consistent

\* Cleanup revokes the applied grants, all of them and nothing else, whichever
\* of them failed, expired or was confirmed by hand on the way.
THEOREM CleanupCoverage == Spec => []CleanupCoversGrants
  BY Typing, Consistency, CleanupFollows, PTL

\* In consistent sagas has_more's join finds what the two queries would.
LEMMA HasMoreFollows == TypeOK /\ SagasConsistent => HasMoreIsExact
<1>1. SUFFICES ASSUME TypeOK, SagasConsistent
               PROVE  HasMoreIsExact
  OBVIOUS
<1>2. \A s \in Sagas : Claimable(saga[s], effect[s]) \/ Quarantinable(saga[s], effect[s]) =>
          HasMore
  BY DEF Claimable, Quarantinable, PendingIn, Phase, ExpiredEffects, HasMore
<1>3. ASSUME NEW s \in Sagas, NEW e \in Slots, effect[s][e].state = "pending",
             saga[s].status \in {"pending", "cleanup_pending"}
      PROVE  Claimable(saga[s], effect[s])
  <2>1. /\ saga[s] \in SagaRow /\ effect[s] \in [Slots -> EffectRow]
        /\ Consistent(saga[s], effect[s])
    BY <1>1 DEF TypeOK, SagasConsistent
  <2>2. EffectsConsistent(saga[s], effect[s]) /\ StatusConsistent(saga[s], effect[s])
    BY <1>3, <2>1, StoredMeans
  <2>3. QED
    BY <1>3, <2>1, <2>2, SummaryHolds
<1>4. ASSUME NEW s \in Sagas, NEW e \in Slots, effect[s][e].state = "in_flight",
             effect[s][e].lease_until = "past",
             saga[s].status \in {"running", "cleanup_running"}
      PROVE  Quarantinable(saga[s], effect[s])
  BY <1>4 DEF Quarantinable, ExpiredEffects
<1>5. QED
  BY <1>2, <1>3, <1>4 DEF HasMore, HasMoreIsExact

\* has_more never sends a worker back for nothing, and never lets it go while
\* something is due.
THEOREM HasMoreExactness == Spec => []HasMoreIsExact
  BY Typing, Consistency, HasMoreFollows, PTL
=============================================================================
