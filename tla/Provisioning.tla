---------------------------- MODULE Provisioning ----------------------------
(***************************************************************************)
(* The sagas of Storage together with the two providers their effects are  *)
(* sent to.  execute_effect calls a provider between claim_next and        *)
(* finalize_effect; the call has a life of its own: it may be carried out  *)
(* long after its worker gave up, died or lost its lease, or never.        *)
(*                                                                         *)
(* The providers are other plugins.  They are modelled by what execute_    *)
(* effect relies on: create_organization is idempotent under its key,      *)
(* put_grant converges on one grant per scope, subject and feature,        *)
(* revoke_grant names a grant by its id, and a domain error means that     *)
(* nothing was done.  Operators confirm as applied only what the provider  *)
(* shows; "not applied" they may say wrongly, or too early.                *)
(***************************************************************************)
EXTENDS Storage

VARIABLES
    calls,          \* calls under way, and answers their workers have not read
    organizations,  \* the organizations created, with the attempt that did it
    grants          \* the grants in force, with the attempt that put them

provider == <<organizations, grants>>
allvars == <<vars, calls, provider>>

-----------------------------------------------------------------------------
(* Calls and their outcomes. *)

\* Mutant: the key is drawn anew for each attempt.
DownstreamKeyPerAttempt(r) == <<r.saga, r.lease_token>>
\* "organization-provisioning:{id}:create:v1"
DownstreamKey(r) == <<r.saga, 0>>

Rejected == [state |-> "failed", id |-> NULL]
Applied(id) == [state |-> "applied", id |-> id]
\* Mutant: a rejected grant is taken for one that is already there.
DomainErrorAsPresent(r) ==
    IF r.slot[1] = "put_entitlement" THEN Applied(r.external_id) ELSE Rejected
\* Every other domain error: nothing was done.
DomainError(r) == Rejected
Unknown == [state |-> "unknown", id |-> NULL]
\* Mutant: a revocation answers with the id of its grant.
CompensatedById(r) == [state |-> "applied", id |-> r.external_id]
\* NotFound is taken for "already absent".
Compensated(r) == [state |-> "compensated", id |-> NULL]

\* NULL is no reply.
ASSUME NoReplyAssumption == \A e \in Slots : NULL \notin Outcomes(e[1])

\* Mutant: a revocation that got no answer is taken as done.
RuntimeFailureCompensates(r) ==
    IF r.slot[1] = "revoke_entitlement" THEN Compensated(r) ELSE Unknown
\* Mutant: a call that got no answer is taken as rejected.
RuntimeFailureRejects(r) == Rejected
RuntimeFailure(r) == Unknown

Callable(r) == /\ r.slot[1] = "put_entitlement" => r.organization_id # NULL
               /\ r.slot[1] = "revoke_entitlement" => r.external_id # NULL

AnswersTo(r) == {c.reply : c \in {c \in calls : c.record = r /\ c.reply # NULL}}
\* What execute_effect returns: a refusal without a call, the provider's
\* answer, or a runtime failure, whatever has become of the call.
ExecuteOutcomes(r) ==
    IF Callable(r) THEN AnswersTo(r) \cup {RuntimeFailure(r)} ELSE {Rejected}

-----------------------------------------------------------------------------
(* The providers. *)

Answer(c, reply) ==
    calls' = (calls \ {c}) \cup (IF c.record \in held THEN {[c EXCEPT !.reply = reply]} ELSE {})

CreateOrganization(c) ==
    LET known == {o \in organizations : o.key = DownstreamKey(c.record)}
    IN  /\ c.record.slot = Create
        /\ \E id \in OrganizationIds :
              /\ IF known = {} THEN \A o \in organizations : o.id # id
                 ELSE \E o \in known : o.id = id
              /\ organizations' = organizations \cup
                    (IF known # {} THEN {}
                     ELSE {[key |-> DownstreamKey(c.record), id |-> id,
                            saga |-> c.record.saga, attempt |-> c.record.lease_token]})
              /\ Answer(c, Applied(id))
        /\ UNCHANGED grants

GrantsAt(organization, i) ==
    {g \in grants : g.organization_id = organization /\ g.ordinal = i}

\* Ids are never given out again.  A grant no longer in force was revoked by
\* the id its put recorded.
NewGrantId(id) == /\ \A g \in grants : g.id # id
                  /\ \A s \in Sagas, e \in Slots : effect[s][e].external_id # id

PutGrant(c) ==
    LET r == c.record
        present == GrantsAt(r.organization_id, r.slot[2])
    IN  /\ r.slot[1] = "put_entitlement"
        /\ \E id \in GrantIds :
              /\ IF present = {} THEN NewGrantId(id)
                 ELSE \E g \in present : g.id = id
              /\ grants' = grants \cup
                    (IF present # {} THEN {}
                     ELSE {[id |-> id, organization_id |-> r.organization_id,
                            ordinal |-> r.slot[2], saga |-> r.saga,
                            attempt |-> r.lease_token]})
              /\ Answer(c, Applied(id))
        /\ UNCHANGED organizations

RevokeGrant(c) ==
    /\ c.record.slot[1] = "revoke_entitlement"
    /\ grants' = {g \in grants : g.id # c.record.external_id}
    /\ Answer(c, Compensated(c.record))
    /\ UNCHANGED organizations

Reject(c) ==
    /\ Answer(c, DomainError(c.record))
    /\ UNCHANGED provider

Serve(c) ==
    /\ c.reply = NULL
    /\ CreateOrganization(c) \/ PutGrant(c) \/ RevokeGrant(c) \/ Reject(c)
    /\ UNCHANGED vars
-----------------------------------------------------------------------------
(* Workers. *)

Send(r) ==
    /\ Callable(r)
    /\ \A c \in calls : c.record # r
    /\ calls' = calls \cup {[record |-> r, reply |-> NULL]}
    /\ UNCHANGED <<vars, provider>>

\* The call of a worker that is gone goes on; an answer to it is dropped.
Forget(r) == calls' = {c \in calls : c.record # r \/ c.reply = NULL}

Finalize(r) ==
    /\ \E outcome \in ExecuteOutcomes(r) : FinalizeEffect(r, outcome) \/ FinalizeSuperseded(r)
    /\ Forget(r)
    /\ UNCHANGED provider

Lose(r) == WorkerLost(r) /\ Forget(r) /\ UNCHANGED provider
-----------------------------------------------------------------------------
(* Operators. *)

\* What the provider shows when an outcome is confirmed as applied.
Verified(s, request) ==
    request.resolution = "confirm_applied" =>
        \A e \in Selected(saga[s], effect[s]) :
            CASE e = Create ->
                    \E o \in organizations : o.saga = s /\ o.id = request.observed
              [] e[1] = "put_entitlement" ->
                    \E g \in GrantsAt(saga[s].organization_id, e[2]) : g.id = request.observed
              [] e[1] = "revoke_entitlement" ->
                    \A g \in grants : g.id # effect[s][e].external_id

Commands ==
    \/ \E s \in Sagas, a \in Actors, n \in 0 .. MaxGrants, k \in Keys : Start(s, a, n, k)
    \/ \E s \in Sagas, a \in Actors, k \in Keys :
          \/ \E request \in Requests(s) : Verified(s, request) /\ Retry(s, a, k, request)
          \/ \E expected \in 1 .. saga[s].revision : RequestCleanup(s, a, k, expected)
-----------------------------------------------------------------------------
ProvisioningInit == Init /\ calls = {} /\ organizations = {} /\ grants = {}

ProvisioningNext ==
    \/ /\ \/ Commands
          \/ \E batch \in SUBSET Sagas : QuarantineExpired(batch)
          \/ \E s \in Sagas : ClaimNext(s)
          \/ \E s \in Sagas, e \in Slots : LeaseExpires(s, e)
       /\ UNCHANGED <<calls, provider>>
    \/ \E r \in held : Send(r) \/ Finalize(r) \/ Lose(r)
    \/ \E c \in calls : Serve(c)

ProvisioningSpec == ProvisioningInit /\ [][ProvisioningNext]_allvars
-----------------------------------------------------------------------------
\* An operator resolved the effect after this attempt of it was claimed.
DecidedAfter(s, e, attempt) ==
    LET log == activity[s]
        claims == {i \in DOMAIN log : log[i].kind = "effect_claimed" /\ log[i].effect = e}
    IN  \E i \in claims, j \in DOMAIN log :
            /\ Cardinality({k \in claims : k <= i}) = attempt
            /\ j > i /\ log[j].kind = "provisioning_retried" /\ log[j].effect = e

\* Storage leaves the answers of the providers open; what they answer, and
\* what a worker makes of silence, is among the outcomes it allows for.
ImplementsStorage == Spec

\* However often a creation is claimed again and however late its calls are
\* carried out, one organization comes of a saga, the one the saga records.
RecordedOrganizationIsTheOnlyOne ==
    \A s \in Sagas :
        saga[s].organization_id # NULL =>
            {o.id : o \in {o \in organizations : o.saga = s}} = {saga[s].organization_id}

\* A completed saga was provided: its organization exists, and every grant it
\* asked for is in force there under the id it recorded.
CompletedMeansProvided ==
    \A s \in Sagas :
        saga[s].status = "completed" =>
            /\ \E o \in organizations : o.saga = s /\ o.id = saga[s].organization_id
            /\ \A i \in Ordinals :
                  effect[s][Put(i)].state # "absent" =>
                      \E g \in GrantsAt(saga[s].organization_id, i) :
                          g.id = effect[s][Put(i)].external_id

\* A grant that is in force after a completed cleanup was put by a call that
\* outlived an operator's decision about it; without such a decision cleanup
\* leaves nothing.
NoGrantOutlivesCleanup ==
    \A g \in grants :
        saga[g.saga].status = "cleanup_completed" =>
            DecidedAfter(g.saga, Put(g.ordinal), g.attempt)

\* An organization that exists is shown as residue by every saga that is
\* not still working on it, unless an operator decided about its creation.
ResidueIsKnown ==
    \A o \in organizations :
        saga[o.saga].status \in {"completed", "failed", "cleanup_pending", "cleanup_running",
                                 "cleanup_completed", "cleanup_failed"} =>
            saga[o.saga].organization_residue \/ DecidedAfter(o.saga, Create, o.attempt)
=============================================================================
