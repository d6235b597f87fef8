------------------------------ MODULE Storage ------------------------------
(***************************************************************************)
(* The provisioning sagas as PostgreSQL stores them, and the transactions  *)
(* of storage.rs that change them.  Every transaction locks the row of its *)
(* saga before it reads an effect, so each one is a single step here; what *)
(* happens BETWEEN transactions (a worker calling a provider, dying, or    *)
(* answering after its lease was taken away) is interleaved freely.        *)
(*                                                                         *)
(* Times are not kept: CURRENT_TIMESTAMP columns and the order they give   *)
(* are left out, and a lease is either still "ahead" or already "past".    *)
(* Error texts, receipts, evidence and names are reduced to what a guard   *)
(* or a property reads.                                                    *)
(***************************************************************************)
EXTENDS Naturals, Sequences, FiniteSets

CONSTANTS
    Sagas,            \* provisioning ids that may be drawn (Uuid::new_v4)
    Actors,           \* authenticated subjects
    Keys,             \* (caller instance, idempotency key) pairs
    OrganizationIds,  \* ids the organization provider may hand out
    GrantIds,         \* ids the entitlements provider may hand out
    MaxGrants,        \* largest number of bootstrap grants configured
    BatchLimit,       \* process_due's limit, as quarantine_expired sees it
    NULL              \* SQL NULL, and no row

ASSUME MaxGrantsAssumption == MaxGrants \in Nat
ASSUME NullAssumption ==
    /\ NULL \notin Nat
    /\ NULL \notin OrganizationIds \cup GrantIds
    /\ NULL \notin {"ahead", "past", "error"}
    /\ NULL \notin Actors
ASSUME IdsAssumption == OrganizationIds \cap GrantIds = {}

VARIABLES
    saga,       \* organization_provisionings: Sagas -> row
    effect,     \* organization_provisioning_effects: Sagas -> slot -> row
    activity,   \* organization_provisioning_activity: Sagas -> sequence
    mutation,   \* organization_provisioning_mutations: Keys -> row
    held        \* the EffectRecords workers hold between claim and finalize

vars == <<saga, effect, activity, mutation, held>>

-----------------------------------------------------------------------------
(* Rows. *)

\* UNIQUE (provisioning_id, kind, ordinal): the slot identifies the effect.
Ordinals == IF MaxGrants = 0 THEN {} ELSE 0 .. (MaxGrants - 1)
Create == <<"create_organization", 0>>
Put(i) == <<"put_entitlement", i>>
Revoke(i) == <<"revoke_entitlement", i>>
Slots == {Create} \cup {Put(i) : i \in Ordinals} \cup {Revoke(i) : i \in Ordinals}

Statuses == {"absent", "pending", "running", "completed", "failed",
             "manual_review", "cleanup_pending", "cleanup_running",
             "cleanup_completed", "cleanup_failed"}
EffectStates == {"absent", "pending", "in_flight", "applied", "failed",
                 "unknown", "compensated", "skipped"}
Resolutions == {"retry_failed", "confirm_applied", "confirm_not_applied"}
ActivityKinds == {"provisioning_started", "effect_claimed", "effect_applied",
                  "effect_compensated", "effect_failed",
                  "effect_outcome_unknown", "provisioning_retried",
                  "cleanup_requested"}

\* organization_id stands for (organization_id, owner_membership_id): the two
\* columns are NULL together and are only ever written together.
SagaRow == [status : Statuses, revision : Nat, requested_by : Actors \cup {NULL},
            organization_id : OrganizationIds \cup {NULL},
            cleanup_requested : BOOLEAN, organization_residue : BOOLEAN,
            last_error : {NULL, "error"}]
EffectRow == [state : EffectStates, attempts : Nat,
              lease_token : Nat \cup {NULL},
              lease_until : {NULL, "ahead", "past"},
              last_error : {NULL, "error"},
              external_id : OrganizationIds \cup GrantIds \cup {NULL}]
ActivityRow == [kind : ActivityKinds, effect : Slots \cup {NULL}, revision : Nat]

\* The observed_* ids of a retry: none, the pair that names an organization,
\* one grant, or "mixed", any combination no arm of the match accepts.
Observations == {NULL, "mixed"} \cup OrganizationIds \cup GrantIds

NoSaga == [status |-> "absent", revision |-> 0, requested_by |-> NULL,
           organization_id |-> NULL, cleanup_requested |-> FALSE,
           organization_residue |-> FALSE, last_error |-> NULL]
NoEffect == [state |-> "absent", attempts |-> 0, lease_token |-> NULL,
             lease_until |-> NULL, last_error |-> NULL, external_id |-> NULL]
PendingEffect(id) == [NoEffect EXCEPT !.state = "pending", !.external_id = id]

-----------------------------------------------------------------------------
(* What the queries read. *)

\* The kinds a phase works on: forward before cleanup, revocations after.
Phase(cleanup) == {e \in Slots : (e[1] = "revoke_entitlement") <=> cleanup}

\* ORDER BY of claim_next: the organization first, then by ordinal.
\* Mutant: by ordinal alone.
BeforeByOrdinal(e, f) == e[2] < f[2]
Before(e, f) == \/ e[1] = "create_organization" /\ f[1] # "create_organization"
                \/ e[1] = f[1] /\ e[2] < f[2]

PendingIn(E, cleanup) == {e \in Phase(cleanup) : E[e].state = "pending"}

\* The saga query of claim_next.
Claimable(p, E) == \/ p.status = "pending" /\ PendingIn(E, FALSE) # {}
                   \/ p.status = "cleanup_pending" /\ PendingIn(E, TRUE) # {}

\* The effect query of claim_next.
IsNext(p, E, e) == /\ e \in PendingIn(E, p.cleanup_requested)
                   /\ \A f \in PendingIn(E, p.cleanup_requested) : ~ Before(f, e)

\* The saga and effect queries of quarantine_expired.
ExpiredEffects(E) == {e \in Slots : E[e].state = "in_flight" /\ E[e].lease_until = "past"}
Quarantinable(p, E) == /\ p.status \in {"running", "cleanup_running"}
                       /\ ExpiredEffects(E) # {}

\* The join of has_more.
\* Mutant: the status of the saga is not asked for.
HasMoreAnyStatus ==
    \E s \in Sagas, e \in Slots :
        \/ effect[s][e].state = "pending"
        \/ effect[s][e].state = "in_flight" /\ effect[s][e].lease_until = "past"
HasMore ==
    \E s \in Sagas, e \in Slots :
        \/ /\ effect[s][e].state = "pending"
           /\ saga[s].status \in {"pending", "cleanup_pending"}
        \/ /\ effect[s][e].state = "in_flight"
           /\ effect[s][e].lease_until = "past"
           /\ saga[s].status \in {"running", "cleanup_running"}
-----------------------------------------------------------------------------
(* What the updates write. *)

Erring(E, cleanup, state) ==
    {e \in Phase(cleanup) : E[e].state = state /\ E[e].last_error # NULL}
Busy(E, cleanup) == {e \in Phase(cleanup) : E[e].state \in {"pending", "in_flight"}}

RefreshedStatus(E, cleanup) ==
    CASE Erring(E, cleanup, "unknown") # {} -> "manual_review"
      [] /\ Erring(E, cleanup, "unknown") = {}
         /\ Erring(E, cleanup, "failed") # {} -> IF cleanup THEN "cleanup_failed" ELSE "failed"
      [] /\ Erring(E, cleanup, "unknown") \cup Erring(E, cleanup, "failed") = {}
         /\ Busy(E, cleanup) # {} -> IF cleanup THEN "cleanup_pending" ELSE "pending"
      [] OTHER -> IF cleanup THEN "cleanup_completed" ELSE "completed"

Refresh(p, E) ==
    [p EXCEPT !.status = RefreshedStatus(E, p.cleanup_requested),
              !.revision = @ + 1,
              !.organization_residue = (p.organization_id # NULL),
              !.last_error =
                  IF Erring(E, p.cleanup_requested, "unknown")
                         \cup Erring(E, p.cleanup_requested, "failed") # {}
                  THEN "error" ELSE NULL]

StartedSaga(a) == [NoSaga EXCEPT !.status = "pending", !.revision = 1, !.requested_by = a]
StartedEffects(n) ==
    [e \in Slots |-> IF e = Create \/ (e[1] = "put_entitlement" /\ e[2] < n)
                     THEN PendingEffect(NULL) ELSE NoEffect]

ClaimedSaga(p) ==
    [p EXCEPT !.status = IF p.cleanup_requested THEN "cleanup_running" ELSE "running",
              !.revision = @ + 1, !.last_error = NULL]
\* The fence is a fresh UUID: no earlier claim of the effect carried it.
Fence(row) == row.attempts + 1
ClaimedEffect(row) ==
    [row EXCEPT !.state = "in_flight", !.attempts = @ + 1, !.lease_token = Fence(row),
                !.lease_until = "ahead", !.last_error = NULL]

\* Mutant: the status alone.
QuarantinedSagaUnversioned(p) == [p EXCEPT !.status = "manual_review", !.last_error = "error"]
QuarantinedSaga(p) == [p EXCEPT !.status = "manual_review", !.revision = @ + 1,
                                !.last_error = "error"]
\* Mutant: the lease is not cleared with the fence.
ReleasedKeepsLease(row, state, error) ==
    [row EXCEPT !.state = state, !.lease_token = NULL, !.last_error = error]
Released(row, state, error) ==
    [row EXCEPT !.state = state, !.lease_token = NULL, !.lease_until = NULL,
                !.last_error = error]
\* Mutant: an expired effect is queued again.
QuarantinedEffectRequeued(row) == Released(row, "pending", NULL)
QuarantinedEffect(row) == Released(row, "unknown", "error")
ResetEffect(row) == Released(row, "pending", NULL)

\* An outcome is what finalize_effect, or an operator's confirmation, records.
Outcomes(kind) ==
    [state : {"failed", "unknown"}, id : {NULL}] \cup
    CASE kind = "create_organization" -> [state : {"applied"}, id : OrganizationIds]
      [] kind = "put_entitlement" -> [state : {"applied"}, id : GrantIds]
      [] kind = "revoke_entitlement" -> [state : {"compensated"}, id : {NULL}]

\* Mutant: a runtime failure is taken as "not applied" and queued again.
SettledEffectRequeued(row, outcome) ==
    CASE outcome.state = "unknown" -> ResetEffect(row)
      [] outcome.state = "failed" -> Released(row, "failed", "error")
      [] outcome.state = "compensated" -> Released(row, "compensated", NULL)
      [] OTHER -> [Released(row, "applied", NULL) EXCEPT !.external_id = outcome.id]
SettledEffect(row, outcome) ==
    [Released(row, outcome.state,
              IF outcome.state \in {"failed", "unknown"} THEN "error" ELSE NULL)
     EXCEPT !.external_id = IF outcome.state = "applied" THEN outcome.id ELSE @]
\* Mutant: an operator's confirmation does not record the organization.
WithOrganizationFromWorker(p, e, outcome) ==
    IF e = Create /\ outcome.state = "applied" /\ p.status # "manual_review"
    THEN [p EXCEPT !.organization_id = outcome.id, !.organization_residue = TRUE]
    ELSE p
WithOrganization(p, e, outcome) ==
    IF e = Create /\ outcome.state = "applied"
    THEN [p EXCEPT !.organization_id = outcome.id, !.organization_residue = TRUE]
    ELSE p

\* Mutant: only pending grants are skipped.
CleanedEffectsKeepFailed(E) ==
    [e \in Slots |->
        CASE e[1] = "put_entitlement" /\ E[e].state = "pending" ->
                [E[e] EXCEPT !.state = "skipped", !.last_error = "error"]
          [] e[1] = "revoke_entitlement" /\ E[Put(e[2])].state = "applied" ->
                PendingEffect(E[Put(e[2])].external_id)
          [] OTHER -> E[e]]
\* Mutant: the grant id is not copied to the revocation.
CleanedEffectsNoId(E) ==
    [e \in Slots |->
        CASE e[1] = "put_entitlement" /\ E[e].state \in {"pending", "failed"} ->
                [E[e] EXCEPT !.state = "skipped", !.last_error = "error"]
          [] e[1] = "revoke_entitlement" /\ E[Put(e[2])].state = "applied" -> PendingEffect(NULL)
          [] OTHER -> E[e]]
CleanedEffects(E) ==
    [e \in Slots |->
        CASE e[1] = "put_entitlement" /\ E[e].state \in {"pending", "failed"} ->
                [E[e] EXCEPT !.state = "skipped", !.last_error = "error"]
          [] e[1] = "revoke_entitlement" /\ E[Put(e[2])].state = "applied" ->
                PendingEffect(E[Put(e[2])].external_id)
          [] OTHER -> E[e]]
CleaningSaga(p) == [p EXCEPT !.cleanup_requested = TRUE, !.last_error = NULL]

\* Mutant: the revision read when the row was locked.
LogLockedRevision(s, kind, e) ==
    activity' = [activity EXCEPT ![s] =
        Append(@, [kind |-> kind, effect |-> e, revision |-> saga[s].revision])]
\* insert_activity with the revision the transaction ends with.
Log(s, kind, e) ==
    activity' = [activity EXCEPT ![s] =
        Append(@, [kind |-> kind, effect |-> e, revision |-> saga'[s].revision])]
-----------------------------------------------------------------------------
(* The mutation ledger.  A row is reserved and completed by one            *)
(* transaction, so "started" is never committed; a call that finds its key *)
(* taken replays the stored response or conflicts, and a call that fails   *)
(* rolls its reservation back: neither changes anything.                   *)

NoRequest == [expected_revision |-> 0, resolution |-> NULL, observed |-> NULL]

\* Mutant: a taken key is written over.
ReservableAlways(k) == k \in Keys
Reservable(k) == mutation[k] = NULL
Complete(k, operation, a, s, request) ==
    mutation' = [mutation EXCEPT ![k] =
        [operation |-> operation, actor |-> a, provisioning_id |-> s,
         request |-> request,
         response |-> [status |-> saga'[s].status, revision |-> saga'[s].revision]]]

\* Mutant: the expected revision is not compared.
LocksAnyRevision(s, a, expected) == saga[s].status # "absent" /\ saga[s].requested_by = a
\* lock_saga finds the row only for the subject that started it; the caller's
\* expected revision must be the one it finds.
Locks(s, a, expected) == /\ saga[s].status # "absent"
                         /\ saga[s].requested_by = a
                         /\ saga[s].revision = expected
-----------------------------------------------------------------------------
(* The transactions. *)

Start(s, a, n, k) ==
    /\ Reservable(k)
    /\ saga[s].status = "absent"
    /\ saga' = [saga EXCEPT ![s] = StartedSaga(a)]
    /\ effect' = [effect EXCEPT ![s] = StartedEffects(n)]
    /\ Log(s, "provisioning_started", NULL)
    /\ Complete(k, "start", a, s, NoRequest)
    /\ UNCHANGED held

\* The effect a retry selects: no filter on its kind, and rows of one start
\* share created_at, so any effect in the state may come first.
Selected(p, E) ==
    CASE p.status = "manual_review" -> {e \in Slots : E[e].state = "unknown"}
      [] p.status \in {"failed", "cleanup_failed"} -> {e \in Slots : E[e].state = "failed"}
      [] OTHER -> {}

\* Mutant: any observed id is recorded.
ConfirmationUnchecked(kind, observed) ==
    {[state |-> IF kind = "revoke_entitlement" THEN "compensated" ELSE "applied",
      id |-> observed]}
\* The new row of an effect under a resolution the code accepts.
Confirmation(kind, observed) ==
    {o \in Outcomes(kind) : o.state \in {"applied", "compensated"} /\ o.id = observed}
Resolved(p, row, kind, resolution, observed) ==
    CASE resolution = "retry_failed" /\ p.status # "manual_review" /\ observed = NULL ->
            {ResetEffect(row)}
      [] resolution = "confirm_not_applied" /\ p.status = "manual_review" /\ observed = NULL ->
            {ResetEffect(row)}
      [] resolution = "confirm_applied" /\ p.status = "manual_review" ->
            {SettledEffect(row, o) : o \in Confirmation(kind, observed)}
      [] OTHER -> {}

Retry(s, a, k, request) ==
    /\ Locks(s, a, request.expected_revision)
    /\ Reservable(k)
    /\ \E e \in Selected(saga[s], effect[s]) :
       \E row \in Resolved(saga[s], effect[s][e], e[1], request.resolution, request.observed) :
          /\ effect' = [effect EXCEPT ![s][e] = row]
          /\ saga' = [saga EXCEPT ![s] =
                Refresh(WithOrganization(saga[s], e, [state |-> row.state, id |-> row.external_id]),
                        effect'[s])]
          /\ Log(s, "provisioning_retried", e)
    /\ Complete(k, "retry", a, s, request)
    /\ UNCHANGED held

RequestCleanup(s, a, k, expected) ==
    /\ Locks(s, a, expected)
    /\ Reservable(k)
    /\ ~ saga[s].cleanup_requested
    /\ saga[s].status \in {"completed", "failed"}
    /\ effect' = [effect EXCEPT ![s] = CleanedEffects(effect[s])]
    /\ saga' = [saga EXCEPT ![s] = Refresh(CleaningSaga(saga[s]), effect'[s])]
    /\ Log(s, "cleanup_requested", NULL)
    /\ Complete(k, "request_cleanup", a, s, [NoRequest EXCEPT !.expected_revision = expected])
    /\ UNCHANGED held

\* One transaction quarantines every expired effect it finds, up to its limit;
\* SKIP LOCKED lets it pass over sagas other transactions hold.
Quarantine(batch, victim) ==
    /\ saga' = [s \in Sagas |-> IF s \in batch THEN QuarantinedSaga(saga[s]) ELSE saga[s]]
    /\ effect' = [s \in Sagas |->
          IF s \in batch
          THEN [effect[s] EXCEPT ![victim[s]] = QuarantinedEffect(@)]
          ELSE effect[s]]
    /\ activity' = [s \in Sagas |->
          IF s \in batch
          THEN Append(activity[s], [kind |-> "effect_outcome_unknown",
                                    effect |-> victim[s],
                                    revision |-> saga'[s].revision])
          ELSE activity[s]]
    /\ UNCHANGED <<mutation, held>>
QuarantineExpired(batch) ==
    /\ batch # {} /\ Cardinality(batch) <= BatchLimit
    /\ \A s \in batch : Quarantinable(saga[s], effect[s])
    /\ \E victim \in [batch -> Slots] :
          /\ \A s \in batch : victim[s] \in ExpiredEffects(effect[s])
          /\ Quarantine(batch, victim)

\* A worker's claim.  Which due saga comes first is left open: SKIP LOCKED may
\* pass over any that another transaction holds.
Claim(s, e) ==
    /\ effect' = [effect EXCEPT ![s][e] = ClaimedEffect(@)]
    /\ saga' = [saga EXCEPT ![s] = ClaimedSaga(@)]
    /\ Log(s, "effect_claimed", e)
    /\ held' = held \cup
          {[saga |-> s, slot |-> e, lease_token |-> Fence(effect[s][e]),
            organization_id |-> saga[s].organization_id,
            external_id |-> effect[s][e].external_id]}
    /\ UNCHANGED mutation
ClaimNext(s) ==
    /\ Claimable(saga[s], effect[s])
    /\ \E e \in Slots : IsNext(saga[s], effect[s], e) /\ Claim(s, e)

\* Mutant: the state is checked, the fence is not.
CurrentByState(r) == effect[r.saga][r.slot].state = "in_flight"
\* Mutant: a fence that was taken away counts as free.
CurrentOrCleared(r) == effect[r.saga][r.slot].lease_token \in {r.lease_token, NULL}
\* The fence check of finalize_effect.
Current(r) == /\ effect[r.saga][r.slot].state = "in_flight"
              /\ effect[r.saga][r.slot].lease_token = r.lease_token

\* What execute_effect can come back with: a put without a recorded
\* organization, or a revocation without a grant id, fails before any call.
Answers(r) ==
    IF \/ r.slot[1] = "put_entitlement" /\ r.organization_id = NULL
       \/ r.slot[1] = "revoke_entitlement" /\ r.external_id = NULL
    THEN {[state |-> "failed", id |-> NULL]}
    ELSE Outcomes(r.slot[1])

OutcomeActivity == [applied |-> "effect_applied", compensated |-> "effect_compensated",
                    failed |-> "effect_failed", unknown |-> "effect_outcome_unknown"]

FinalizeEffect(r, outcome) ==
    /\ Current(r)
    /\ effect' = [effect EXCEPT ![r.saga][r.slot] = SettledEffect(@, outcome)]
    /\ saga' = [saga EXCEPT ![r.saga] =
          Refresh(WithOrganization(saga[r.saga], r.slot, outcome), effect'[r.saga])]
    /\ Log(r.saga, OutcomeActivity[outcome.state], r.slot)
    /\ held' = held \ {r}
    /\ UNCHANGED mutation

FinalizeSuperseded(r) ==
    /\ ~ Current(r)
    /\ held' = held \ {r}
    /\ UNCHANGED <<saga, effect, activity, mutation>>
-----------------------------------------------------------------------------
(* The environment. *)

\* The worker dies, loses its connection, or its plugin is deactivated before
\* it finalizes: the record it held is gone and nothing was written.
WorkerLost(r) ==
    /\ held' = held \ {r}
    /\ UNCHANGED <<saga, effect, activity, mutation>>

\* CURRENT_TIMESTAMP passes lease_until, whether its worker is alive or not.
LeaseExpires(s, e) ==
    /\ effect[s][e].state = "in_flight" /\ effect[s][e].lease_until = "ahead"
    /\ effect' = [effect EXCEPT ![s][e].lease_until = "past"]
    /\ UNCHANGED <<saga, activity, mutation, held>>

Requests(s) == [expected_revision : 1 .. saga[s].revision,
                resolution : Resolutions, observed : Observations]

Init ==
    /\ saga = [s \in Sagas |-> NoSaga]
    /\ effect = [s \in Sagas |-> [e \in Slots |-> NoEffect]]
    /\ activity = [s \in Sagas |-> <<>>]
    /\ mutation = [k \in Keys |-> NULL]
    /\ held = {}

Next ==
    \/ \E s \in Sagas, a \in Actors, n \in 0 .. MaxGrants, k \in Keys : Start(s, a, n, k)
    \/ \E s \in Sagas, a \in Actors, k \in Keys : \E request \in Requests(s) :
          Retry(s, a, k, request)
    \/ \E s \in Sagas, a \in Actors, k \in Keys : \E expected \in 1 .. saga[s].revision :
          RequestCleanup(s, a, k, expected)
    \/ \E batch \in SUBSET Sagas : QuarantineExpired(batch)
    \/ \E s \in Sagas : ClaimNext(s)
    \/ \E r \in held : \E outcome \in Answers(r) : FinalizeEffect(r, outcome)
    \/ \E r \in held : FinalizeSuperseded(r)
    \/ \E r \in held : WorkerLost(r)
    \/ \E s \in Sagas, e \in Slots : LeaseExpires(s, e)

Spec == Init /\ [][Next]_vars
-----------------------------------------------------------------------------
(* Safety. *)

HeldRecord == [saga : Sagas, slot : Slots, lease_token : Nat,
               organization_id : OrganizationIds \cup {NULL},
               external_id : OrganizationIds \cup GrantIds \cup {NULL}]
Request == [expected_revision : Nat, resolution : Resolutions \cup {NULL},
            observed : Observations]
MutationRow == [operation : {"start", "retry", "request_cleanup"}, actor : Actors,
                provisioning_id : Sagas, request : Request,
                response : [status : Statuses, revision : Nat]]
ASSUME NoRowAssumption == NULL \notin MutationRow

\* Every column holds a value of its type.
TypeOK ==
    /\ saga \in [Sagas -> SagaRow]
    /\ effect \in [Sagas -> [Slots -> EffectRow]]
    /\ activity \in [Sagas -> Seq(ActivityRow)]
    /\ mutation \in [Keys -> MutationRow \cup {NULL}]
    /\ held \subseteq HeldRecord

InState(E, c, states) == {e \in Phase(c) : E[e].state \in states}
One(S) == \E e \in S : S = {e}

\* refresh_saga_status, claim_next and quarantine_expired each write a status
\* of their own; together they must keep the status a summary of the effects,
\* because every query trusts it: a due saga has an effect to claim, a running
\* one has exactly one effect in flight, one that waits for the operator has
\* exactly one effect to resolve, and it is of the phase the saga is in (retry
\* selects it without naming a kind); a finished phase has nothing left to do.
StatusSummarizesEffects ==
    \A s \in Sagas :
        LET p == saga[s]
            E == effect[s]
            c == p.cleanup_requested
            inFlight == {e \in Slots : E[e].state = "in_flight"}
            open == InState(E, c, {"in_flight", "unknown", "failed"})
        IN  /\ p.status \in {"pending", "cleanup_pending"} => Claimable(p, E) /\ open = {}
            /\ p.status \in {"running", "cleanup_running"} => One(inFlight) /\ open = inFlight
            /\ p.status \in {"manual_review", "failed", "cleanup_failed"} =>
                  One(Selected(p, E)) /\ open = Selected(p, E) /\ p.last_error # NULL
            /\ p.status \in {"completed", "cleanup_completed"} =>
                  InState(E, c, {"absent", "applied", "compensated"}) = Phase(c)
            /\ p.status \notin {"absent", "manual_review"} =>
                  (c <=> p.status \in {"cleanup_pending", "cleanup_running",
                                       "cleanup_completed", "cleanup_failed"})

\* An effect is sent to its provider a second time only after an operator has
\* resolved its first outcome: between two claims of one effect there is a
\* retry of that effect in the activity log, whatever workers died, answered
\* late or lost their lease.
NoAutomaticReplay ==
    \A s \in Sagas : \A i, j \in DOMAIN activity[s] :
        /\ i < j
        /\ activity[s][i].kind = "effect_claimed"
        /\ activity[s][j].kind = "effect_claimed"
        /\ activity[s][i].effect = activity[s][j].effect
        => \E k \in (i + 1) .. (j - 1) :
              /\ activity[s][k].kind = "provisioning_retried"
              /\ activity[s][k].effect = activity[s][i].effect

\* A worker that still holds a record, however stale, holds what the saga
\* records: the organization its grant belongs to, or the grant it revokes.
\* So execute_effect never fails for a missing id.
HeldInputsAreRecorded ==
    \A r \in held :
        /\ r.slot[1] = "put_entitlement" =>
              /\ r.organization_id # NULL
              /\ r.organization_id = saga[r.saga].organization_id
        /\ r.slot[1] = "revoke_entitlement" =>
              /\ r.external_id # NULL
              /\ r.external_id = effect[r.saga][Put(r.slot[2])].external_id

\* At most one worker holds the fence of a saga: of all the records claimed
\* from it, those of workers that lost their lease are superseded.
OneFenceHolder ==
    \A q, r \in held : Current(q) /\ Current(r) /\ q.saga = r.saga => q = r

\* No grant is asked for before the organization exists, the residue flag says
\* whether one is left behind, and it is the organization that was recorded.
GrantsNeedOrganization ==
    \A s \in Sagas :
        LET E == effect[s]
            created == E[Create].state = "applied"
        IN  /\ saga[s].organization_residue <=> created
            /\ saga[s].organization_id = (IF created THEN E[Create].external_id ELSE NULL)
            /\ ~ created => \A i \in Ordinals :
                                /\ E[Put(i)].attempts = 0
                                /\ E[Revoke(i)].state = "absent"

\* Cleanup revokes exactly the grants that were recorded as applied, each by
\* the id its put recorded, and no put is left that a worker could still
\* finish; a completed cleanup has compensated all of them.
CleanupCoversGrants ==
    \A s \in Sagas, i \in Ordinals :
        LET put == effect[s][Put(i)]
            revoke == effect[s][Revoke(i)]
        IN  /\ ~ saga[s].cleanup_requested => revoke.state = "absent"
            /\ saga[s].cleanup_requested =>
                  /\ put.state \in {"absent", "applied", "skipped"}
                  /\ put.state = "applied" <=> revoke.state # "absent"
                  /\ put.state = "applied" => revoke.external_id = put.external_id
            /\ saga[s].status = "cleanup_completed" /\ put.state = "applied" =>
                  revoke.state = "compensated"

\* The activity log of a saga is its revision history: one row per revision,
\* in order, none missing, though quarantine and claim bump the revision
\* without refresh_saga_status.
ActivityCoversRevisions ==
    \A s \in Sagas :
        /\ Len(activity[s]) = saga[s].revision
        /\ \A i \in DOMAIN activity[s] : activity[s][i].revision = i

\* Two commands never take effect at the same revision of a saga: a retry or a
\* cleanup commits at the revision after the one its caller had read, and no
\* two keys of the ledger hold the same revision of a saga.
CommandsAreSerialized ==
    \A k \in Keys : mutation[k] # NULL =>
        /\ mutation[k].response.revision = mutation[k].request.expected_revision + 1
        /\ mutation[k].response.revision <= saga[mutation[k].provisioning_id].revision
        /\ \A l \in Keys :
              /\ mutation[l] # NULL
              /\ mutation[l].provisioning_id = mutation[k].provisioning_id
              /\ mutation[l].response.revision = mutation[k].response.revision
              => l = k

OperatorKinds == [start |-> "provisioning_started", retry |-> "provisioning_retried",
                  request_cleanup |-> "cleanup_requested"]

\* The ledger and the activity log agree: every command a key stands for left
\* its row in the log at the revision it answered with, under the operation
\* the key was used for, and every command in the log belongs to one key.
LedgerMatchesActivity ==
    /\ \A k \in Keys : mutation[k] # NULL =>
          LET rows == activity[mutation[k].provisioning_id]
              i == mutation[k].response.revision
          IN  i \in DOMAIN rows /\ rows[i].kind = OperatorKinds[mutation[k].operation]
    /\ \A s \in Sagas : \A i \in DOMAIN activity[s] :
          activity[s][i].kind \in {"provisioning_started", "provisioning_retried",
                                   "cleanup_requested"} =>
              \E k \in Keys : /\ mutation[k] # NULL
                              /\ mutation[k].provisioning_id = s
                              /\ mutation[k].response.revision = i

\* has_more tells a worker to call again exactly when a claim or a quarantine
\* would find something: its join, which ignores phases and kinds, agrees with
\* the two queries that name them.
HasMoreIsExact ==
    HasMore <=> \E s \in Sagas : \/ Claimable(saga[s], effect[s])
                                 \/ Quarantinable(saga[s], effect[s])
-----------------------------------------------------------------------------
(* Action properties. *)

\* An effect that is applied, compensated or skipped stays so, with the id it
\* recorded: no late answer and no operator confirmation overwrites it.
SettledEffectsAreFinal ==
    [][\A s \in Sagas, e \in Slots :
          effect[s][e].state \in {"applied", "compensated", "skipped"} =>
              effect'[s][e] = effect[s][e]]_vars

\* The revision is what callers compare: whatever a transaction changes in a
\* saga or its effects raises it by exactly one, and the passing of a lease,
\* which changes neither, does not.
EveryChangeIsVersioned ==
    [][\A s \in Sagas :
          \/ saga'[s].revision = saga[s].revision + 1
          \/ /\ saga'[s] = saga[s]
             /\ \A e \in Slots :
                   effect'[s][e] = [effect[s][e] EXCEPT !.lease_until = effect'[s][e].lease_until]]_vars
=============================================================================
