------------------------- MODULE ProvisioningProofs -------------------------
(***************************************************************************)
(* Provisioning implements Storage: what a worker makes of a provider's    *)
(* answer, or of its silence, is an outcome Storage allows for, so that    *)
(* the theorems about Storage hold with the providers in place.            *)
(*                                                                         *)
(* Of the providers: one organization comes of a saga, however often its   *)
(* creation is sent; an organization that is left is shown; no grant is    *)
(* left after a cleanup; a completed saga has what it asked for.  The last *)
(* three rest on an account of every call: the log says which attempts an  *)
(* operator decided about, a call belongs to one attempt, what an attempt  *)
(* made is what its call was answered, and nothing is left to come of an   *)
(* attempt that was recorded or given up, unless it was decided about.     *)
(***************************************************************************)
EXTENDS Provisioning, StorageHistoryProofs, FiniteSetTheorems

\* An answer that waits to be read is one its kind of call can have.
CallsFit ==
    \A c \in calls :
        /\ c = [record |-> c.record, reply |-> c.reply]
        /\ c.reply # NULL => c.reply \in Outcomes(c.record.slot[1])

\* One organization per key, hence per saga; every id that was answered or
\* recorded is the id of the saga's organization.
OrganizationOf(s, id) == \E o \in organizations : o.saga = s /\ o.id = id
OrganizationsUnique ==
    /\ \A o \in organizations : o.key = <<o.saga, 0>>
    /\ \A o, p \in organizations : o.saga = p.saga => o = p
AnsweredIdsSound ==
    \A c \in calls :
        c.record.slot = Create /\ c.reply # NULL =>
            (c.reply.state = "applied" => OrganizationOf(c.record.saga, c.reply.id))
RecordedIdsSound ==
    \A s \in Sagas :
        saga[s].organization_id # NULL => OrganizationOf(s, saga[s].organization_id)
-----------------------------------------------------------------------------
\* Where the calls of the next state come from: those of this state, a call that is
\* sent and has no answer yet, or one that is answered.
LEMMA CallsOfAnswer ==
    ASSUME CallsFit, NEW c \in calls, NEW reply, Answer(c, reply), NEW d \in calls'
    PROVE  d \in calls \/ (d.record = c.record /\ d.reply = reply
                           /\ d = [record |-> d.record, reply |-> d.reply])
  BY DEF Answer, CallsFit

\* What is always an outcome, and what the refusals and answers are.
LEMMA OutcomesOfCalls ==
    /\ \A kind : Rejected \in Outcomes(kind) /\ Unknown \in Outcomes(kind)
    /\ \A id \in OrganizationIds : Applied(id) \in Outcomes("create_organization")
    /\ \A id \in GrantIds : Applied(id) \in Outcomes("put_entitlement")
    /\ \A r : Compensated(r) \in Outcomes("revoke_entitlement")
  BY DEF Rejected, Unknown, Applied, Compensated, Outcomes

\* What a provider answers fits the kind of the call.
LEMMA ServedFits ==
    ASSUME CallsFit, NEW c \in calls, Serve(c)
    PROVE  \E reply \in Outcomes(c.record.slot[1]) : Answer(c, reply)
<1>1. CASE CreateOrganization(c)
  <2>1. c.record.slot[1] = "create_organization"
    BY <1>1 DEF CreateOrganization, Create
  <2>2. PICK id \in OrganizationIds : Answer(c, Applied(id))
    BY <1>1 DEF CreateOrganization
  <2> QED BY <2>1, <2>2, OutcomesOfCalls
<1>2. CASE PutGrant(c)
  <2>1. c.record.slot[1] = "put_entitlement" /\ \E id \in GrantIds : Answer(c, Applied(id))
    BY <1>2 DEF PutGrant
  <2> QED BY <2>1, OutcomesOfCalls
<1>3. CASE RevokeGrant(c)
  BY <1>3, OutcomesOfCalls DEF RevokeGrant
<1>4. CASE Reject(c)
  BY <1>4, OutcomesOfCalls DEF Reject, DomainError
<1> QED BY <1>1, <1>2, <1>3, <1>4 DEF Serve

\* CallsFit is inductive by itself.
LEMMA CallsFitStep == CallsFit /\ [ProvisioningNext]_allvars => CallsFit'
<1> SUFFICES ASSUME CallsFit, [ProvisioningNext]_allvars, NEW d \in calls'
             PROVE  /\ d = [record |-> d.record, reply |-> d.reply]
                    /\ d.reply # NULL => d.reply \in Outcomes(d.record.slot[1])
  BY DEF CallsFit
<1>1. d \in calls \/ d \notin calls
  OBVIOUS
<1>2. CASE d \in calls
  BY <1>2 DEF CallsFit
<1>3. ASSUME NEW r \in held, Send(r), d \notin calls
      PROVE  d = [record |-> r, reply |-> NULL]
  BY <1>3 DEF Send
<1>4. ASSUME NEW r \in held, Finalize(r) \/ Lose(r)
      PROVE  d \in calls
  BY <1>4 DEF Finalize, Lose, Forget
<1>5. ASSUME NEW c \in calls, Serve(c), d \notin calls
      PROVE  /\ d = [record |-> d.record, reply |-> d.reply]
             /\ d.reply \in Outcomes(d.record.slot[1])
  <2>1. PICK reply \in Outcomes(c.record.slot[1]) : Answer(c, reply)
    BY <1>5, ServedFits
  <2> QED BY <1>5, <2>1, CallsOfAnswer
<1>6. CASE d \notin calls
  <2>1. calls' # calls
    BY <1>6
  <2>2. \/ \E r \in held : Send(r) \/ Finalize(r) \/ Lose(r)
        \/ \E c \in calls : Serve(c)
    BY <2>1 DEF ProvisioningNext, allvars
  <2> QED BY <1>3, <1>4, <1>5, <1>6, <2>2
<1> QED BY <1>1, <1>2, <1>6

\* What execute_effect returns is an outcome finalize_effect provides for.
LEMMA OutcomesAreAnswers ==
    ASSUME CallsFit, NEW r, NEW outcome \in ExecuteOutcomes(r)
    PROVE  outcome \in Answers(r)
<1>1. CASE Callable(r)
  <2>1. Answers(r) = Outcomes(r.slot[1])
    BY <1>1 DEF Answers, Callable
  <2>2. CASE outcome \in AnswersTo(r)
    BY <2>1, <2>2 DEF AnswersTo, CallsFit
  <2>3. CASE outcome = RuntimeFailure(r)
    BY <2>1, <2>3, OutcomesOfCalls DEF RuntimeFailure
  <2> QED BY <1>1, <2>2, <2>3 DEF ExecuteOutcomes
<1>2. CASE ~ Callable(r)
  BY <1>2 DEF ExecuteOutcomes, Answers, Callable, Rejected
<1> QED BY <1>1, <1>2

\* Every step is one of Storage, or leaves its rows and records alone.
LEMMA StepImplements == CallsFit /\ [ProvisioningNext]_allvars => [Next]_vars
<1> SUFFICES ASSUME CallsFit, [ProvisioningNext]_allvars
             PROVE  [Next]_vars
  OBVIOUS
<1>1. CASE Commands
  BY <1>1 DEF Commands, Next
<1>2. ASSUME NEW r \in held, Finalize(r)
      PROVE  Next
  <2>1. PICK outcome \in ExecuteOutcomes(r) : FinalizeEffect(r, outcome) \/ FinalizeSuperseded(r)
    BY <1>2 DEF Finalize
  <2>2. outcome \in Answers(r)
    BY OutcomesAreAnswers
  <2> QED BY <2>1, <2>2 DEF Next
<1>3. ASSUME NEW r \in held, Send(r) \/ Lose(r)
      PROVE  [Next]_vars
  BY <1>3 DEF Send, Lose, Next
<1>4. ASSUME NEW c \in calls, Serve(c)
      PROVE  UNCHANGED vars
  BY <1>4 DEF Serve
<1>5. CASE \/ \E batch \in SUBSET Sagas : QuarantineExpired(batch)
           \/ \E s \in Sagas : ClaimNext(s)
           \/ \E s \in Sagas, e \in Slots : LeaseExpires(s, e)
  BY <1>5 DEF Next
<1>6. CASE UNCHANGED allvars
  BY <1>6 DEF allvars
<1> QED BY <1>1, <1>2, <1>3, <1>4, <1>5, <1>6 DEF ProvisioningNext

\* With the providers in place the plugin is still the Storage the other
\* theorems are about: no call, answer, silence or delay adds a step to it.
THEOREM ProvisioningImplements == ProvisioningSpec => ImplementsStorage
<1>1. ProvisioningInit => Init /\ CallsFit
  BY DEF ProvisioningInit, CallsFit
<1> QED BY <1>1, CallsFitStep, StepImplements, PTL DEF ProvisioningSpec, ImplementsStorage, Spec
-----------------------------------------------------------------------------
(* One organization per saga. *)

\* Which updates of a saga touch the organization it records.
LEMMA RecordedId ==
    ASSUME NEW p \in SagaRow, NEW E
    PROVE  /\ Refresh(p, E).organization_id = p.organization_id
           /\ Refresh(CleaningSaga(p), E).organization_id = p.organization_id
           /\ ClaimedSaga(p).organization_id = p.organization_id
           /\ QuarantinedSaga(p).organization_id = p.organization_id
  BY DEF SagaRow, Refresh, CleaningSaga, ClaimedSaga, QuarantinedSaga

\* Only an applied creation records one.
LEMMA SettledId ==
    ASSUME NEW p \in SagaRow, NEW E, NEW e, NEW outcome,
           NEW new, new = Refresh(WithOrganization(p, e, outcome), E)
    PROVE  /\ e = Create /\ outcome.state = "applied" => new.organization_id = outcome.id
           /\ e # Create \/ outcome.state # "applied" =>
                 new.organization_id = p.organization_id
  BY DEF SagaRow, Refresh, WithOrganization

\* A retry applies a creation only as confirmed, with the id observed.
LEMMA ConfirmedId ==
    ASSUME NEW p, NEW old \in EffectRow, NEW resolution, NEW observed,
           NEW row \in Resolved(p, old, "create_organization", resolution, observed),
           row.state = "applied"
    PROVE  resolution = "confirm_applied" /\ row.external_id = observed
<1>1. ResetEffect(old).state = "pending"
  BY DEF ResetEffect, Released, EffectRow
<1>2. PICK o \in Confirmation("create_organization", observed) :
          resolution = "confirm_applied" /\ row = SettledEffect(old, o)
  BY <1>1 DEF Resolved
<1>3. o.id = observed /\ o.state \in {"applied", "compensated"}
  BY DEF Confirmation
<1>4. SettledEffect(old, o).state = o.state
  BY DEF SettledEffect, Released, EffectRow
<1>5. o.state = "applied" => SettledEffect(old, o).external_id = o.id
  BY DEF SettledEffect, Released, EffectRow
<1> QED BY <1>2, <1>3, <1>4, <1>5

\* A creation carried out adds its saga's organization or finds it, and what
\* it answers is that organization's id.
LEMMA CreationSound ==
    ASSUME OrganizationsUnique, NEW c \in calls, CreateOrganization(c)
    PROVE  /\ OrganizationsUnique'
           /\ organizations \subseteq organizations'
           /\ \E id : Answer(c, Applied(id)) /\ OrganizationOf(c.record.saga, id)'
<1> DEFINE r == c.record
           known == {o \in organizations : o.key = DownstreamKey(r)}
<1>1. PICK id \in OrganizationIds :
          /\ known # {} => \E o \in known : o.id = id
          /\ organizations' = organizations \cup
                (IF known # {} THEN {}
                 ELSE {[key |-> DownstreamKey(r), id |-> id, saga |-> r.saga,
                        attempt |-> r.lease_token]})
          /\ Answer(c, Applied(id))
  BY DEF CreateOrganization
<1>2. DownstreamKey(r) = <<r.saga, 0>>
  BY DEF DownstreamKey
<1>3. \A o \in organizations : o.saga = r.saga <=> o \in known
  BY <1>2 DEF OrganizationsUnique
<1>4. SUFFICES OrganizationsUnique' /\ organizations \subseteq organizations'
               /\ \E o \in organizations' : o.saga = r.saga /\ o.id = id
  BY <1>1 DEF OrganizationOf
<1>5. CASE known # {}
  <2>1. organizations' = organizations
    BY <1>1, <1>5
  <2>2. PICK o \in known : o.id = id
    BY <1>1, <1>5
  <2>3. o \in organizations /\ o.saga = r.saga
    BY <1>3
  <2> QED BY <2>1, <2>2, <2>3 DEF OrganizationsUnique
<1>6. CASE known = {}
  <2> DEFINE new == [key |-> DownstreamKey(r), id |-> id, saga |-> r.saga,
                     attempt |-> r.lease_token]
  <2>1. organizations' = organizations \cup {new}
    BY <1>1, <1>6
  <2>2. new.key = <<new.saga, 0>> /\ new.saga = r.saga /\ new.id = id
    BY <1>2
  <2>3. \A o \in organizations : o.saga # r.saga
    BY <1>3, <1>6
  <2> HIDE DEF new, known
  <2> QED BY <2>1, <2>2, <2>3 DEF OrganizationsUnique
<1> QED BY <1>5, <1>6

\* No organization is lost, none is doubled, and answers keep their ids.
LEMMA ProvidersSound ==
    ASSUME OrganizationsUnique, AnsweredIdsSound, CallsFit, [ProvisioningNext]_allvars
    PROVE  /\ OrganizationsUnique' /\ AnsweredIdsSound'
           /\ organizations \subseteq organizations'
<1>1. ASSUME NEW c \in calls, CreateOrganization(c)
      PROVE  AnsweredIdsSound'
  <2>1. PICK id : Answer(c, Applied(id)) /\ OrganizationOf(c.record.saga, id)'
    BY <1>1, CreationSound
  <2>2. organizations \subseteq organizations'
    BY <1>1, CreationSound
  <2>3. \A d \in calls' : d \in calls \/ (d.record = c.record /\ d.reply = Applied(id))
    BY <2>1, CallsOfAnswer
  <2>4. \A d \in calls : d.record.slot = Create /\ d.reply # NULL =>
            (d.reply.state = "applied" => OrganizationOf(d.record.saga, d.reply.id)')
    BY <2>2 DEF AnsweredIdsSound, OrganizationOf
  <2>5. Applied(id).id = id
    BY DEF Applied
  <2> QED BY <2>1, <2>3, <2>4, <2>5 DEF AnsweredIdsSound, OrganizationOf
<1>2. ASSUME organizations' = organizations,
             \A d \in calls' :
                 d \in calls \/ d.record.slot # Create \/ d.reply = NULL \/ d.reply = Rejected
      PROVE  /\ OrganizationsUnique' /\ AnsweredIdsSound'
             /\ organizations \subseteq organizations'
  <2>1. Rejected.state # "applied"
    BY DEF Rejected
  <2> QED BY <1>2, <2>1 DEF OrganizationsUnique, AnsweredIdsSound, OrganizationOf
<1>3. ASSUME NEW c \in calls, PutGrant(c) \/ RevokeGrant(c) \/ Reject(c)
      PROVE  /\ organizations' = organizations
             /\ \A d \in calls' : \/ d \in calls \/ d.record.slot # Create
                                  \/ d.reply = NULL \/ d.reply = Rejected
  <2>1. CASE PutGrant(c)
    <3>1. c.record.slot[1] = "put_entitlement" /\ \E reply : Answer(c, reply)
      BY <2>1 DEF PutGrant
    <3>2. c.record.slot # Create
      BY <3>1 DEF Create
    <3> QED BY <2>1, <3>1, <3>2, CallsOfAnswer DEF PutGrant
  <2>2. CASE RevokeGrant(c)
    <3>1. c.record.slot[1] = "revoke_entitlement" /\ \E reply : Answer(c, reply)
      BY <2>2 DEF RevokeGrant
    <3>2. c.record.slot # Create
      BY <3>1 DEF Create
    <3> QED BY <2>2, <3>1, <3>2, CallsOfAnswer DEF RevokeGrant
  <2>3. CASE Reject(c)
    BY <2>3, CallsOfAnswer DEF Reject, DomainError, provider
  <2> QED BY <1>3, <2>1, <2>2, <2>3
<1>4. ASSUME NEW r \in held, Send(r) \/ Finalize(r) \/ Lose(r)
      PROVE  organizations' = organizations /\ \A d \in calls' : d \in calls \/ d.reply = NULL
  BY <1>4 DEF Send, Finalize, Lose, Forget, provider
<1>5. CASE \E c \in calls : Serve(c)
  <2>1. PICK c \in calls : Serve(c)
    BY <1>5
  <2>2. CASE CreateOrganization(c)
    BY <1>1, <2>2, CreationSound
  <2>3. CASE PutGrant(c) \/ RevokeGrant(c) \/ Reject(c)
    BY <1>2, <1>3, <2>3
  <2> QED BY <2>1, <2>2, <2>3 DEF Serve
<1>6. CASE \E r \in held : Send(r) \/ Finalize(r) \/ Lose(r)
  <2>1. PICK r \in held : Send(r) \/ Finalize(r) \/ Lose(r)
    BY <1>6
  <2> QED BY <1>2, <1>4, <2>1
<1>7. CASE UNCHANGED <<calls, provider>>
  BY <1>2, <1>7 DEF provider
<1> QED BY <1>5, <1>6, <1>7 DEF ProvisioningNext, allvars

\* What finalize_effect records of a creation was answered, and what a retry
\* records of it was seen at the provider.
LEMMA RecordedIdsStep ==
    ASSUME TypeOK, CallsFit, OrganizationsUnique, AnsweredIdsSound, RecordedIdsSound,
           [ProvisioningNext]_allvars
    PROVE  RecordedIdsSound'
<1> SUFFICES ASSUME NEW s \in Sagas
             PROVE  saga'[s].organization_id # NULL =>
                 \E o \in organizations' : o.saga = s /\ o.id = saga'[s].organization_id
  BY DEF RecordedIdsSound, OrganizationOf
<1>1. organizations \subseteq organizations'
  BY ProvidersSound
<1>2. \A id : OrganizationOf(s, id) => \E o \in organizations' : o.saga = s /\ o.id = id
  BY <1>1 DEF OrganizationOf
<1>3. saga \in [Sagas -> SagaRow] /\ effect \in [Sagas -> [Slots -> EffectRow]]
      /\ held \subseteq HeldRecord
  BY DEF TypeOK
<1>4. ASSUME saga'[s].organization_id = saga[s].organization_id
      PROVE  saga'[s].organization_id # NULL =>
                 \E o \in organizations' : o.saga = s /\ o.id = saga'[s].organization_id
  <2>1. saga[s].organization_id # NULL => OrganizationOf(s, saga[s].organization_id)
    BY DEF RecordedIdsSound
  <2> QED BY <1>2, <1>4, <2>1
<1>5. ASSUME NEW t \in Sagas, NEW a \in Actors, NEW n \in 0 .. MaxGrants, NEW k \in Keys,
             Start(t, a, n, k)
      PROVE  saga'[s].organization_id \in {saga[s].organization_id, NULL}
  BY <1>3, <1>5 DEF Start, StartedSaga, NoSaga
<1>6. ASSUME NEW t \in Sagas, NEW a \in Actors, NEW k \in Keys, NEW request \in Requests(t),
             Verified(t, request), Retry(t, a, k, request)
      PROVE  saga'[s].organization_id # NULL =>
                 \E o \in organizations' : o.saga = s /\ o.id = saga'[s].organization_id
  <2>1. PICK e \in Selected(saga[t], effect[t]) :
        \E row \in Resolved(saga[t], effect[t][e], e[1], request.resolution, request.observed) :
           saga' = [saga EXCEPT ![t] =
                Refresh(WithOrganization(saga[t], e, [state |-> row.state, id |-> row.external_id]),
                        effect'[t])]
    BY <1>6 DEF Retry
  <2>2. PICK row \in Resolved(saga[t], effect[t][e], e[1], request.resolution, request.observed) :
           saga' = [saga EXCEPT ![t] =
                Refresh(WithOrganization(saga[t], e, [state |-> row.state, id |-> row.external_id]),
                        effect'[t])]
    BY <2>1
  <2>3. e \in Slots /\ saga[t] \in SagaRow /\ effect[t][e] \in EffectRow
    BY <1>3 DEF Selected
  <2> DEFINE outcome == [state |-> row.state, id |-> row.external_id]
             new == Refresh(WithOrganization(saga[t], e, outcome), effect'[t])
  <2>4. outcome.state = row.state /\ outcome.id = row.external_id
    OBVIOUS
  <2>5. s # t => saga'[s] = saga[s]
    BY <1>3, <2>2
  <2>6. s = t => saga'[s] = new
    BY <1>3, <2>2
  <2>7. CASE s = t /\ e = Create /\ row.state = "applied"
    <3>1. new.organization_id = row.external_id
      BY <2>3, <2>4, <2>7, SettledId
    <3>2. e[1] = "create_organization"
      BY <2>7 DEF Create
    <3>3. request.resolution = "confirm_applied" /\ row.external_id = request.observed
      BY <2>3, <2>7, <3>2, ConfirmedId
    <3>4. \E o \in organizations : o.saga = t /\ o.id = request.observed
      BY <1>6, <2>1, <2>7, <3>2, <3>3 DEF Verified
    <3> QED BY <1>2, <2>6, <2>7, <3>1, <3>3, <3>4 DEF OrganizationOf
  <2>8. CASE s = t /\ ~ (e = Create /\ row.state = "applied")
    <3>1. new.organization_id = saga[t].organization_id
      BY <2>3, <2>4, <2>8, SettledId
    <3> QED BY <1>4, <2>6, <2>8, <3>1
  <2> QED BY <1>4, <2>5, <2>7, <2>8
<1>7. ASSUME NEW t \in Sagas, NEW a \in Actors, NEW k \in Keys,
             NEW expected \in 1 .. saga[t].revision, RequestCleanup(t, a, k, expected)
      PROVE  saga'[s].organization_id = saga[s].organization_id
  <2>1. saga' = [saga EXCEPT ![t] = Refresh(CleaningSaga(saga[t]), effect'[t])]
    BY <1>7 DEF RequestCleanup
  <2>2. Refresh(CleaningSaga(saga[t]), effect'[t]).organization_id = saga[t].organization_id
    BY <1>3, RecordedId
  <2> QED BY <1>3, <2>1, <2>2
<1>8. ASSUME NEW batch \in SUBSET Sagas, QuarantineExpired(batch)
      PROVE  saga'[s].organization_id = saga[s].organization_id
  <2>1. saga'[s] \in {saga[s], QuarantinedSaga(saga[s])}
    BY <1>8 DEF QuarantineExpired, Quarantine
  <2> QED BY <1>3, <2>1, RecordedId
<1>9. ASSUME NEW t \in Sagas, ClaimNext(t)
      PROVE  saga'[s].organization_id = saga[s].organization_id
  <2>1. saga'[s] \in {saga[s], ClaimedSaga(saga[s])}
    BY <1>3, <1>9 DEF ClaimNext, Claim
  <2> QED BY <1>3, <2>1, RecordedId
<1>10. ASSUME NEW r \in held, Finalize(r)
       PROVE  saga'[s].organization_id # NULL =>
                 \E o \in organizations' : o.saga = s /\ o.id = saga'[s].organization_id
  <2>1. PICK outcome \in ExecuteOutcomes(r) : FinalizeEffect(r, outcome) \/ FinalizeSuperseded(r)
    BY <1>10 DEF Finalize
  <2>2. r.saga \in Sagas /\ r.slot \in Slots /\ saga[r.saga] \in SagaRow
    BY <1>3 DEF HeldRecord
  <2> DEFINE new == Refresh(WithOrganization(saga[r.saga], r.slot, outcome), effect'[r.saga])
  <2>3. saga'[s] = saga[s] \/ (s = r.saga /\ saga'[s] = new)
    BY <1>3, <2>1, <2>2 DEF FinalizeEffect, FinalizeSuperseded
  <2>4. CASE r.slot = Create /\ outcome.state = "applied"
    <3>1. new.organization_id = outcome.id
      BY <2>2, <2>4, SettledId
    <3>2. outcome # Rejected /\ outcome # RuntimeFailure(r)
      BY <2>4 DEF Rejected, RuntimeFailure, Unknown
    <3>3. PICK c \in calls : c.record = r /\ c.reply = outcome /\ c.reply # NULL
      BY <3>2 DEF ExecuteOutcomes, AnswersTo
    <3>4. OrganizationOf(r.saga, outcome.id)
      BY <2>4, <3>3 DEF AnsweredIdsSound
    <3> QED BY <1>2, <1>4, <2>3, <3>1, <3>4
  <2>5. CASE ~ (r.slot = Create /\ outcome.state = "applied")
    <3>1. new.organization_id = saga[r.saga].organization_id
      BY <2>2, <2>5, SettledId
    <3> QED BY <1>4, <2>3, <3>1
  <2> QED BY <2>4, <2>5
<1>11. CASE UNCHANGED saga
  BY <1>4, <1>11
<1>12. CASE Commands
  BY <1>4, <1>5, <1>6, <1>7, <1>12 DEF Commands
<1>13. CASE \/ \E r \in held : Send(r) \/ Lose(r)
            \/ \E c \in calls : Serve(c)
            \/ \E t \in Sagas, e \in Slots : LeaseExpires(t, e)
            \/ UNCHANGED allvars
  BY <1>11, <1>13 DEF Send, Lose, WorkerLost, Serve, LeaseExpires, allvars, vars
<1>14. CASE \/ \E batch \in SUBSET Sagas : QuarantineExpired(batch)
            \/ \E t \in Sagas : ClaimNext(t)
  BY <1>4, <1>8, <1>9, <1>14
<1> QED BY <1>10, <1>12, <1>13, <1>14 DEF ProvisioningNext

ProvisioningInvariant ==
    CallsFit /\ OrganizationsUnique /\ AnsweredIdsSound /\ RecordedIdsSound

\* The id a saga records is that of the one organization that was ever made
\* for it: a creation that is sent again, by whichever worker and after
\* whatever silence, finds the first under its key.
THEOREM OneOrganization == ProvisioningSpec => []RecordedOrganizationIsTheOnlyOne
<1>1. ProvisioningInit => ProvisioningInvariant
  BY DEF ProvisioningInit, ProvisioningInvariant, CallsFit, OrganizationsUnique,
         AnsweredIdsSound, RecordedIdsSound, Init, NoSaga
<1>2. TypeOK /\ ProvisioningInvariant /\ [ProvisioningNext]_allvars => ProvisioningInvariant'
  BY CallsFitStep, ProvidersSound, RecordedIdsStep DEF ProvisioningInvariant
<1>3. ProvisioningInvariant => RecordedOrganizationIsTheOnlyOne
  <2> SUFFICES ASSUME ProvisioningInvariant, NEW s \in Sagas, saga[s].organization_id # NULL
               PROVE  {o.id : o \in {o \in organizations : o.saga = s}}
                          = {saga[s].organization_id}
    BY DEF RecordedOrganizationIsTheOnlyOne
  <2>1. PICK o \in organizations : o.saga = s /\ o.id = saga[s].organization_id
    BY DEF ProvisioningInvariant, RecordedIdsSound, OrganizationOf
  <2>2. \A p \in organizations : p.saga = s => p = o
    BY <2>1 DEF ProvisioningInvariant, OrganizationsUnique
  <2> QED BY <2>1, <2>2
<1>4. ProvisioningSpec => []TypeOK
  BY ProvisioningImplements, Typing DEF ImplementsStorage
<1> QED BY <1>1, <1>2, <1>3, <1>4, PTL DEF ProvisioningSpec
-----------------------------------------------------------------------------
(* Decisions.  The log numbers the attempts of an effect: its k-th claim is *)
(* attempt k.  An attempt that is not the last one was decided about by an *)
(* operator before the next was made.                                      *)

Claims(L, e) == {i \in DOMAIN L : L[i].kind = "effect_claimed" /\ L[i].effect = e}
ClaimsTo(L, e, i) == {k \in Claims(L, e) : k <= i}
DecidedIn(L, e, k) ==
    \E i \in Claims(L, e), j \in DOMAIN L :
        /\ Cardinality(ClaimsTo(L, e, i)) = k
        /\ j > i /\ L[j].kind = "provisioning_retried" /\ L[j].effect = e

\* The log has a claim for each of the n attempts of an effect.
ClaimsCounted(L, e, n) ==
    /\ IsFiniteSet(Claims(L, e)) /\ Cardinality(Claims(L, e)) = n
    /\ \A k \in 1 .. n : \E i \in Claims(L, e) : Cardinality(ClaimsTo(L, e, i)) = k

Undecided(s, e) == ~ DecidedAfter(s, e, effect[s][e].attempts)

DecisionsSound(s, e) ==
    /\ ClaimsCounted(activity[s], e, effect[s][e].attempts)
    /\ \A k \in 1 .. effect[s][e].attempts :
          DecidedAfter(s, e, k) \/ (k = effect[s][e].attempts /\ ~ Waiting(effect[s][e]))

\* The decisions of a saga are read from its log.
LEMMA DecidedMeans ==
    ASSUME NEW s, NEW e, NEW k
    PROVE  DecidedAfter(s, e, k) <=> DecidedIn(activity[s], e, k)
  BY DEF DecidedAfter, DecidedIn, Claims, ClaimsTo

\* The same in the next state.
LEMMA DecidedNextMeans ==
    ASSUME NEW s, NEW e, NEW k
    PROVE  DecidedAfter(s, e, k)' <=> DecidedIn(activity'[s], e, k)
  BY DEF DecidedAfter, DecidedIn, Claims, ClaimsTo

\* M is the log L with row x added at the place last.
Extends(L, M, x, e, last) ==
    /\ last \in DOMAIN M /\ M[last] = x /\ Claims(L, e) \subseteq DOMAIN L
    /\ \A i \in DOMAIN L : i \in DOMAIN M /\ i < last /\ M[i] = L[i]
    /\ Claims(M, e) = Claims(L, e) \cup
          (IF x.kind = "effect_claimed" /\ x.effect = e THEN {last} ELSE {})
    /\ \A i \in DOMAIN L : ClaimsTo(M, e, i) = ClaimsTo(L, e, i)

\* A row added to a log changes nothing about the rows before it.
LEMMA ClaimsAppend ==
    ASSUME NEW L \in Seq(ActivityRow), NEW x \in ActivityRow, NEW e,
           NEW M, M = Append(L, x)
    PROVE  Extends(L, M, x, e, Len(L) + 1)
<1>1. /\ DOMAIN L = 1 .. Len(L) /\ DOMAIN M = 1 .. (Len(L) + 1)
      /\ Len(L) \in Nat /\ M[Len(L) + 1] = x
      /\ \A i \in DOMAIN L : M[i] = L[i]
  OBVIOUS
<1>2. \A i \in DOMAIN L : i \in DOMAIN M /\ i < Len(L) + 1
  BY <1>1
<1>3. \A i \in DOMAIN M : i \in DOMAIN L \/ i = Len(L) + 1
  BY <1>1
<1>4. Claims(M, e) = Claims(L, e) \cup
          (IF x.kind = "effect_claimed" /\ x.effect = e THEN {Len(L) + 1} ELSE {})
  BY <1>1, <1>2, <1>3 DEF Claims
<1>5. ASSUME NEW i \in DOMAIN L
      PROVE  ClaimsTo(M, e, i) = ClaimsTo(L, e, i)
  <2>1. ~ (Len(L) + 1 <= i)
    BY <1>1
  <2> QED BY <1>4, <2>1 DEF ClaimsTo
<1> QED BY <1>1, <1>2, <1>4, <1>5 DEF Claims, Extends

\* A claim is counted as one more attempt, and no other row is.
LEMMA CountedAppend ==
    ASSUME NEW L \in Seq(ActivityRow), NEW x \in ActivityRow, NEW e,
           NEW M, M = Append(L, x), NEW n \in Nat, ClaimsCounted(L, e, n)
    PROVE  ClaimsCounted(M, e, IF x.kind = "effect_claimed" /\ x.effect = e THEN n + 1 ELSE n)
<1> DEFINE C == Claims(L, e)
           D == Claims(M, e)
           last == Len(L) + 1
<1>1. /\ last \in DOMAIN M /\ C \subseteq DOMAIN L
      /\ \A i \in DOMAIN L : i \in DOMAIN M /\ i < last
      /\ D = C \cup (IF x.kind = "effect_claimed" /\ x.effect = e THEN {last} ELSE {})
      /\ \A i \in DOMAIN L : ClaimsTo(M, e, i) = ClaimsTo(L, e, i)
  <2>1. Extends(L, M, x, e, last)
    BY ClaimsAppend, Zenon
  <2> HIDE DEF last
  <2> QED BY <2>1, Zenon DEF Extends
<1>2. IsFiniteSet(C) /\ Cardinality(C) = n
  BY DEF ClaimsCounted
<1>3. \A k \in 1 .. n : \E i \in C : Cardinality(ClaimsTo(M, e, i)) = k
  BY <1>1 DEF ClaimsCounted
<1>4. CASE x.kind = "effect_claimed" /\ x.effect = e
  <2>1. D = C \cup {last} /\ last \notin C
    BY <1>1, <1>4
  <2>2. IsFiniteSet(D) /\ Cardinality(D) = n + 1
    <3> HIDE DEF C, D, last
    <3> QED BY <1>2, <2>1, FS_AddElement
  <2>3. ClaimsTo(M, e, last) = D
    <3>1. DOMAIN L = 1 .. Len(L) /\ Len(L) \in Nat
      OBVIOUS
    <3>2. \A i \in D : i <= last
      BY <1>1, <2>1, <3>1
    <3> QED BY <3>2 DEF ClaimsTo
  <2>4. \A k \in 1 .. (n + 1) : k \in 1 .. n \/ k = n + 1
    OBVIOUS
  <2> HIDE DEF last
  <2>5. \A k \in 1 .. (n + 1) : \E i \in D : Cardinality(ClaimsTo(M, e, i)) = k
    BY <1>3, <2>1, <2>2, <2>3, <2>4
  <2> QED BY <1>4, <2>2, <2>5 DEF ClaimsCounted
<1>5. CASE ~ (x.kind = "effect_claimed" /\ x.effect = e)
  <2>1. D = C
    BY <1>1, <1>5
  <2> QED BY <1>2, <1>3, <1>5, <2>1 DEF ClaimsCounted
<1> QED BY <1>4, <1>5

\* A decision stays made, and a retry decides about every attempt there was.
LEMMA DecidedAppend ==
    ASSUME NEW L \in Seq(ActivityRow), NEW x \in ActivityRow, NEW e,
           NEW M, M = Append(L, x)
    PROVE  /\ \A k : DecidedIn(L, e, k) => DecidedIn(M, e, k)
           /\ x.kind = "provisioning_retried" /\ x.effect = e =>
                 \A n \in Nat : ClaimsCounted(L, e, n) => \A k \in 1 .. n : DecidedIn(M, e, k)
<1> DEFINE last == Len(L) + 1
<1>1. /\ last \in DOMAIN M /\ M[last] = x /\ Claims(L, e) \subseteq DOMAIN L
      /\ \A i \in DOMAIN L : i \in DOMAIN M /\ i < last /\ M[i] = L[i]
      /\ Claims(L, e) \subseteq Claims(M, e)
      /\ \A i \in DOMAIN L : ClaimsTo(M, e, i) = ClaimsTo(L, e, i)
  <2>1. Extends(L, M, x, e, last)
    BY ClaimsAppend, Zenon
  <2> HIDE DEF last
  <2> QED BY <2>1 DEF Extends
<1>2. last \in Nat /\ DOMAIN L \subseteq Nat
  OBVIOUS
<1> HIDE DEF last
<1>3. ASSUME NEW k, DecidedIn(L, e, k)
      PROVE  DecidedIn(M, e, k)
  <2>1. PICK i \in Claims(L, e), j \in DOMAIN L :
            /\ Cardinality(ClaimsTo(L, e, i)) = k
            /\ j > i /\ L[j].kind = "provisioning_retried" /\ L[j].effect = e
    BY <1>3 DEF DecidedIn
  <2>2. i \in Claims(M, e) /\ j \in DOMAIN M /\ M[j] = L[j]
        /\ ClaimsTo(M, e, i) = ClaimsTo(L, e, i)
    BY <1>1
  <2> QED BY <2>1, <2>2 DEF DecidedIn
<1>4. ASSUME x.kind = "provisioning_retried", x.effect = e,
             NEW n \in Nat, ClaimsCounted(L, e, n), NEW k \in 1 .. n
      PROVE  DecidedIn(M, e, k)
  <2>1. PICK i \in Claims(L, e) : Cardinality(ClaimsTo(L, e, i)) = k
    BY <1>4 DEF ClaimsCounted
  <2>2. i \in Claims(M, e) /\ ClaimsTo(M, e, i) = ClaimsTo(L, e, i)
    BY <1>1
  <2>3. last > i
    BY <1>1, <1>2
  <2> QED BY <1>1, <1>4, <2>1, <2>2, <2>3 DEF DecidedIn
<1> QED BY <1>3, <1>4

\* What is waiting or decided about stays so; a claim needs a waiting effect.
LEMMA DecisionsStep ==
    ASSUME TypeOK, SagasConsistent, [Next]_vars, NEW s \in Sagas, NEW e \in Slots,
           DecisionsSound(s, e)
    PROVE  /\ DecisionsSound(s, e)'
           /\ \A k : DecidedAfter(s, e, k) => DecidedAfter(s, e, k)'
<1> DEFINE L == activity[s]
           M == activity'[s]
           n == effect[s][e].attempts
           m == effect'[s][e].attempts
<1>1. L \in Seq(ActivityRow) /\ effect[s][e] \in EffectRow /\ n \in Nat
  BY DEF TypeOK, EffectRow
<1>2. ClaimsCounted(L, e, n)
  BY DEF DecisionsSound
<1>3. \A k \in 1 .. n : DecidedIn(L, e, k) \/ (k = n /\ ~ Waiting(effect[s][e]))
  BY DecidedMeans DEF DecisionsSound
<1>4. SUFFICES /\ ClaimsCounted(M, e, m)
               /\ \A k \in 1 .. m : DecidedIn(M, e, k) \/ (k = m /\ ~ Waiting(effect'[s][e]))
               /\ \A k : DecidedIn(L, e, k) => DecidedIn(M, e, k)
  BY DecidedMeans, DecidedNextMeans DEF DecisionsSound
<1>5. CASE Advances(s)
  <2>1. PICK kind \in ActivityKinds, f \in Slots \cup {NULL} :
           /\ Keeps(s, kind, f)
           /\ M = Append(L, [kind |-> kind, effect |-> f, revision |-> saga'[s].revision])
    BY <1>5 DEF Advances
  <2> DEFINE x == [kind |-> kind, effect |-> f, revision |-> saga'[s].revision]
  <2>2. x \in ActivityRow /\ x.kind = kind /\ x.effect = f
    BY <2>1 DEF Keeps, TypeOK, SagaRow, ActivityRow
  <2>3. /\ m = IF kind = "effect_claimed" /\ f = e THEN n + 1 ELSE n
        /\ Waiting(effect'[s][e]) =>
              Waiting(effect[s][e]) \/ (kind = "provisioning_retried" /\ f = e)
        /\ kind = "effect_claimed" /\ f = e => Waiting(effect[s][e]) /\ ~ Waiting(effect'[s][e])
    BY <2>1 DEF Keeps, AttemptsAfter
  <2>7. M = Append(L, x)
    BY <2>1
  <2> HIDE DEF x, L, M, n, m
  <2>4. ClaimsCounted(M, e, m)
    <3>1. ClaimsCounted(M, e, IF x.kind = "effect_claimed" /\ x.effect = e THEN n + 1 ELSE n)
      BY <1>1, <1>2, <2>2, <2>7, CountedAppend, Zenon
    <3> QED BY <2>2, <2>3, <3>1
  <2>5. /\ \A k : DecidedIn(L, e, k) => DecidedIn(M, e, k)
        /\ kind = "provisioning_retried" /\ f = e => \A k \in 1 .. n : DecidedIn(M, e, k)
    <3>1. /\ \A k : DecidedIn(L, e, k) => DecidedIn(M, e, k)
          /\ x.kind = "provisioning_retried" /\ x.effect = e =>
                \A j \in Nat : ClaimsCounted(L, e, j) => \A k \in 1 .. j : DecidedIn(M, e, k)
      BY <1>1, <2>2, <2>7, DecidedAppend, Zenon
    <3> QED BY <1>1, <1>2, <2>2, <3>1, Zenon
  <2>6. \A k \in 1 .. m : DecidedIn(M, e, k) \/ (k = m /\ ~ Waiting(effect'[s][e]))
    <3>1. CASE kind = "effect_claimed" /\ f = e
      <4>1. \A k \in 1 .. (n + 1) : k \in 1 .. n \/ k = n + 1
        BY <1>1
      <4> QED BY <1>3, <2>3, <2>5, <3>1, <4>1
    <3>2. CASE ~ (kind = "effect_claimed" /\ f = e)
      BY <1>3, <2>3, <2>5, <3>2
    <3> QED BY <3>1, <3>2
  <2> QED BY <2>4, <2>5, <2>6
<1>6. CASE Rests(s)
  <2>1. M = L /\ m = n /\ (Waiting(effect'[s][e]) => Waiting(effect[s][e]))
    BY <1>1, <1>6 DEF Rests, Waiting, EffectRow
  <2> QED BY <1>2, <1>3, <2>1
<1> QED BY <1>5, <1>6, StepAdvances
-----------------------------------------------------------------------------
(* What a step does to one effect, and to the calls and the records held.  *)

\* But for its lease and its error, the row stays as it is.
RowStays(s, e) == /\ effect'[s][e].state = effect[s][e].state
                  /\ effect'[s][e].attempts = effect[s][e].attempts
                  /\ effect'[s][e].external_id = effect[s][e].external_id

\* The effect is started, queued, claimed, or its outcome is unknown.
RowOpens(s, e) ==
    /\ effect'[s][e].state \in {"pending", "in_flight", "unknown"}
    /\ effect'[s][e].state = "in_flight" =>
          effect'[s][e].attempts = effect[s][e].attempts + 1

\* The worker that holds the fence records what its call c was answered.
RowAnswered(s, e, c) ==
    /\ c.reply # NULL /\ c.record \in held /\ Current(c.record)
    /\ c.record.saga = s /\ c.record.slot = e
    /\ c.reply.state \in {"applied", "compensated", "failed"}
    /\ effect'[s][e].state = c.reply.state
    /\ effect'[s][e].attempts = effect[s][e].attempts
    /\ effect'[s][e].external_id =
          IF c.reply.state = "applied" THEN c.reply.id ELSE effect[s][e].external_id
    /\ Forget(c.record) /\ held' = held \ {c.record} /\ UNCHANGED provider

\* An operator confirms the effect as the provider shows it.
RowConfirmed(s, e) ==
    /\ activity'[s] = Append(activity[s], [kind |-> "provisioning_retried", effect |-> e,
                                           revision |-> saga'[s].revision])
    /\ effect[s][e].state = "unknown" /\ effect'[s][e].state \in {"applied", "compensated"}
    /\ effect'[s][e].attempts = effect[s][e].attempts
    /\ e[1] = "put_entitlement" => \E g \in GrantsAt(saga[s].organization_id, e[2]) :
                                       g.id = effect'[s][e].external_id
    /\ e[1] = "revoke_entitlement" => \A g \in grants : g.id # effect[s][e].external_id
    /\ UNCHANGED <<calls, provider, held>>

\* Cleanup gives the grant up before it is asked for, or after it failed.
RowSkipped(s, e) ==
    /\ effect[s][e].state \in {"pending", "failed"} /\ effect'[s][e].state = "skipped"
    /\ effect'[s][e].attempts = effect[s][e].attempts
    /\ UNCHANGED <<calls, provider, held>>

RowComes(s, e) == \/ RowStays(s, e) \/ RowOpens(s, e) \/ RowSkipped(s, e)
                  \/ RowConfirmed(s, e) \/ \E c \in calls : RowAnswered(s, e, c)

\* A call is sent with a record that has what the call needs.
LEMMA SoundCallable ==
    ASSUME TypeOK, SagasConsistent, NEW r \in HeldRecord, InputsSound(r)
    PROVE  Callable(r)
<1>1. r.saga \in Sagas /\ r.slot \in Slots
  BY DEF HeldRecord
<1>2. Consistent(saga[r.saga], effect[r.saga])
  BY <1>1 DEF SagasConsistent
<1>3. \A e \in Slots : effect[r.saga][e].state = "applied" =>
          EffectsConsistent(saga[r.saga], effect[r.saga])
  BY <1>2 DEF Consistent, NoEffect
<1>4. r.slot[1] = "put_entitlement" => r.organization_id # NULL
  BY <1>1, <1>3, SlotFacts DEF InputsSound, EffectsConsistent, OrganizationFirst
<1>5. r.slot[1] = "revoke_entitlement" => r.external_id # NULL
  BY <1>1, <1>3, SlotFacts, SlotKinds DEF InputsSound, EffectsConsistent, OrganizationFirst
<1> QED BY <1>4, <1>5 DEF Callable

\* What a retry makes of the effect it selects.
Retried(p, kind, old, row, resolution, observed) ==
    /\ row.attempts = old.attempts
    /\ row.state # "pending" => /\ resolution = "confirm_applied" /\ p.status = "manual_review"
                                /\ row.state \in {"applied", "compensated"}
                                /\ kind = "put_entitlement" => row.external_id = observed

\* It queues the effect again, or confirms it as the request says.
LEMMA RetriedRow ==
    ASSUME NEW p, NEW e \in Slots, NEW old \in EffectRow, NEW resolution, NEW observed,
           NEW row \in Resolved(p, old, e[1], resolution, observed)
    PROVE  Retried(p, e[1], old, row, resolution, observed)
<1>1. CASE row = ResetEffect(old)
  BY <1>1 DEF ResetEffect, Released, EffectRow, Retried
<1>2. CASE row # ResetEffect(old)
  <2>1. PICK o \in Confirmation(e[1], observed) :
            /\ resolution = "confirm_applied" /\ p.status = "manual_review"
            /\ row = SettledEffect(old, o)
    BY <1>2 DEF Resolved
  <2>2. /\ o.state \in {"applied", "compensated"} /\ o.id = observed
        /\ e[1] = "put_entitlement" => o.state = "applied"
    BY DEF Confirmation, Outcomes
  <2>3. /\ row.attempts = old.attempts /\ row.state = o.state
        /\ o.state = "applied" => row.external_id = o.id
    BY <2>1 DEF SettledEffect, Released, EffectRow
  <2> QED BY <2>1, <2>2, <2>3 DEF Retried
<1> QED BY <1>1, <1>2

\* The rows of a saga that is not stored are empty.
LEMMA AbsentRows ==
    ASSUME SagasConsistent, NEW s \in Sagas, saga[s].status = "absent"
    PROVE  effect[s] = [e \in Slots |-> NoEffect]
<1>1. ~ StatusConsistent(saga[s], effect[s])
  BY DEF StatusConsistent, ExpectedStatus, RefreshedStatus
<1> QED BY <1>1 DEF SagasConsistent, Consistent

\* What a confirmed retry writes is what the provider shows.
LEMMA RetryComes ==
    ASSUME TypeOK, NEW t \in Sagas, NEW a \in Actors, NEW k \in Keys, NEW request \in Requests(t),
           Verified(t, request), Retry(t, a, k, request), UNCHANGED <<calls, provider>>,
           NEW s \in Sagas, NEW e \in Slots
    PROVE  RowComes(s, e)
<1>1. PICK f \in Selected(saga[t], effect[t]) :
      \E row \in Resolved(saga[t], effect[t][f], f[1], request.resolution, request.observed) :
          /\ effect' = [effect EXCEPT ![t][f] = row]
          /\ Log(t, "provisioning_retried", f)
  BY DEF Retry
<1>2. PICK row \in Resolved(saga[t], effect[t][f], f[1], request.resolution, request.observed) :
          /\ effect' = [effect EXCEPT ![t][f] = row]
          /\ Log(t, "provisioning_retried", f)
  BY <1>1
<1>3. effect \in [Sagas -> [Slots -> EffectRow]] /\ activity \in [Sagas -> Seq(ActivityRow)]
  BY DEF TypeOK
<1>4. f \in Slots /\ effect[t][f] \in EffectRow
  BY <1>3 DEF Selected
<1>5. CASE s # t \/ e # f
  BY <1>2, <1>3, <1>5 DEF RowComes, RowStays
<1>6. CASE s = t /\ e = f
  <2>1. effect'[s][e] = row
    BY <1>2, <1>3, <1>6
  <2>2. /\ row.attempts = effect[s][e].attempts
        /\ row.state # "pending" =>
              /\ request.resolution = "confirm_applied" /\ saga[t].status = "manual_review"
              /\ row.state \in {"applied", "compensated"}
              /\ e[1] = "put_entitlement" => row.external_id = request.observed
    <3>1. Retried(saga[t], f[1], effect[t][f], row, request.resolution, request.observed)
      BY <1>4, RetriedRow, Zenon
    <3> QED BY <1>6, <3>1 DEF Retried
  <2>3. CASE row.state = "pending"
    BY <2>1, <2>3 DEF RowComes, RowOpens
  <2>4. CASE row.state # "pending"
    <3>1. activity'[s] = Append(activity[s], [kind |-> "provisioning_retried", effect |-> e,
                                              revision |-> saga'[s].revision])
      BY <1>2, <1>3, <1>6 DEF Log
    <3>2. held' = held
      BY DEF Retry
    <3>3. e \in Selected(saga[s], effect[s]) /\ effect[s][e].state = "unknown"
      BY <1>6, <2>2, <2>4 DEF Selected
    <3>4. (CASE e = Create ->
                   \E o \in organizations : o.saga = s /\ o.id = request.observed
             [] e[1] = "put_entitlement" ->
                   \E g \in GrantsAt(saga[s].organization_id, e[2]) : g.id = request.observed
             [] e[1] = "revoke_entitlement" ->
                   \A g \in grants : g.id # effect[s][e].external_id)
      BY <1>6, <2>2, <2>4, <3>3 DEF Verified
    <3>5. e[1] \in {"put_entitlement", "revoke_entitlement"} => e # Create
      BY SlotFacts
    <3>6. e[1] = "put_entitlement" =>
             \E g \in GrantsAt(saga[s].organization_id, e[2]) : g.id = request.observed
      BY <3>4, <3>5
    <3>7. e[1] = "revoke_entitlement" => \A g \in grants : g.id # effect[s][e].external_id
      BY <3>4, <3>5
    <3> QED BY <2>1, <2>2, <2>4, <3>1, <3>2, <3>3, <3>6, <3>7 DEF RowComes, RowConfirmed
  <2> QED BY <2>3, <2>4
<1> QED BY <1>5, <1>6

\* What finalize_effect writes is what its call was answered, or "unknown".
LEMMA FinalizeComes ==
    ASSUME TypeOK, SagasConsistent, WorkerInvariant, CallsFit, NEW r \in held, Finalize(r),
           NEW s \in Sagas, NEW e \in Slots
    PROVE  RowComes(s, e)
<1>1. effect \in [Sagas -> [Slots -> EffectRow]] /\ r \in HeldRecord
      /\ r.saga \in Sagas /\ r.slot \in Slots
  BY DEF TypeOK, HeldRecord
<1>2. PICK outcome \in ExecuteOutcomes(r) : FinalizeEffect(r, outcome) \/ FinalizeSuperseded(r)
  BY DEF Finalize
<1>3. CASE FinalizeSuperseded(r)
  BY <1>3 DEF FinalizeSuperseded, RowComes, RowStays
<1>4. CASE FinalizeEffect(r, outcome) /\ ~ (s = r.saga /\ e = r.slot)
  BY <1>1, <1>4 DEF FinalizeEffect, RowComes, RowStays
<1>5. CASE FinalizeEffect(r, outcome) /\ s = r.saga /\ e = r.slot
  <2>1. effect'[s][e] = SettledEffect(effect[s][e], outcome) /\ effect[s][e] \in EffectRow
    BY <1>1, <1>5 DEF FinalizeEffect
  <2>2. /\ SettledEffect(effect[s][e], outcome).state = outcome.state
        /\ SettledEffect(effect[s][e], outcome).attempts = effect[s][e].attempts
        /\ SettledEffect(effect[s][e], outcome).external_id =
              IF outcome.state = "applied" THEN outcome.id ELSE effect[s][e].external_id
    BY <2>1 DEF SettledEffect, Released, EffectRow
  <2>3. CASE outcome.state = "unknown"
    BY <2>1, <2>2, <2>3 DEF RowComes, RowOpens
  <2>4. CASE outcome.state # "unknown"
    <3>1. Callable(r)
      BY <1>1, SoundCallable DEF WorkerInvariant
    <3>2. outcome # RuntimeFailure(r)
      BY <2>4 DEF RuntimeFailure, Unknown
    <3>3. PICK c \in calls : c.record = r /\ c.reply = outcome /\ c.reply # NULL
      BY <1>2, <3>1, <3>2 DEF ExecuteOutcomes, AnswersTo
    <3>4. outcome \in Outcomes(r.slot[1])
      BY <3>3 DEF CallsFit
    <3>5. outcome.state \in {"applied", "compensated", "failed"}
      BY <1>1, <2>4, <3>4, OutcomeType
    <3>6. Forget(r) /\ held' = held \ {r} /\ UNCHANGED provider /\ Current(r)
      BY <1>5 DEF Finalize, FinalizeEffect
    <3>7. RowAnswered(s, e, c)
      BY <1>5, <2>1, <2>2, <3>3, <3>5, <3>6 DEF RowAnswered
    <3> QED BY <3>7 DEF RowComes
  <2> QED BY <2>3, <2>4
<1> QED BY <1>2, <1>3, <1>4, <1>5

\* Every row of the next state comes about in one of these ways.
LEMMA RowsCome ==
    ASSUME TypeOK, SagasConsistent, WorkerInvariant, CallsFit, [ProvisioningNext]_allvars,
           NEW s \in Sagas, NEW e \in Slots
    PROVE  RowComes(s, e)
<1>1. effect \in [Sagas -> [Slots -> EffectRow]] /\ effect[s][e] \in EffectRow
  BY DEF TypeOK
<1>2. ASSUME NEW t \in Sagas, NEW a \in Actors, NEW n \in 0 .. MaxGrants, NEW k \in Keys,
             Start(t, a, n, k)
      PROVE  RowComes(s, e)
  <2>1. saga[t].status = "absent" /\ effect' = [effect EXCEPT ![t] = StartedEffects(n)]
    BY <1>2 DEF Start
  <2>2. CASE s = t
    <3>1. effect[s][e] = NoEffect
      BY <2>1, <2>2, AbsentRows
    <3>2. effect'[s][e] \in {PendingEffect(NULL), NoEffect}
      BY <1>1, <2>1, <2>2 DEF StartedEffects
    <3>3. PendingEffect(NULL).state = "pending"
      BY DEF PendingEffect, NoEffect
    <3> QED BY <3>1, <3>2, <3>3 DEF RowComes, RowStays, RowOpens
  <2>3. CASE s # t
    BY <1>1, <2>1, <2>3 DEF RowComes, RowStays
  <2> QED BY <2>2, <2>3
<1>3. ASSUME NEW t \in Sagas, NEW a \in Actors, NEW k \in Keys,
             NEW expected \in 1 .. saga[t].revision, RequestCleanup(t, a, k, expected),
             UNCHANGED <<calls, provider>>
      PROVE  RowComes(s, e)
  <2>1. effect' = [effect EXCEPT ![t] = CleanedEffects(effect[t])] /\ held' = held
    BY <1>3 DEF RequestCleanup
  <2>2. CASE s = t
    <3>1. effect'[s][e] = CleanedEffects(effect[s])[e]
      BY <1>1, <2>1, <2>2
    <3>2. CASE e[1] = "put_entitlement" /\ effect[s][e].state \in {"pending", "failed"}
      <4>1. effect'[s][e] = [effect[s][e] EXCEPT !.state = "skipped", !.last_error = "error"]
        BY <3>1, <3>2 DEF CleanedEffects
      <4> QED BY <1>1, <1>3, <2>1, <3>2, <4>1 DEF EffectRow, RowComes, RowSkipped
    <3>3. CASE e[1] = "revoke_entitlement" /\ effect[s][Put(e[2])].state = "applied"
      <4>1. effect'[s][e] = PendingEffect(effect[s][Put(e[2])].external_id)
        BY <3>1, <3>3 DEF CleanedEffects
      <4> QED BY <4>1 DEF PendingEffect, NoEffect, RowComes, RowOpens
    <3>4. CASE /\ ~ (e[1] = "put_entitlement" /\ effect[s][e].state \in {"pending", "failed"})
               /\ ~ (e[1] = "revoke_entitlement" /\ effect[s][Put(e[2])].state = "applied")
      <4>1. effect'[s][e] = effect[s][e]
        BY <3>1, <3>4 DEF CleanedEffects
      <4> QED BY <4>1 DEF RowComes, RowStays
    <3> QED BY <3>2, <3>3, <3>4
  <2>3. CASE s # t
    BY <1>1, <2>1, <2>3 DEF RowComes, RowStays
  <2> QED BY <2>2, <2>3
<1>4. ASSUME NEW batch \in SUBSET Sagas, QuarantineExpired(batch)
      PROVE  RowComes(s, e)
  <2>1. PICK victim \in [batch -> Slots] : Quarantine(batch, victim)
    BY <1>4 DEF QuarantineExpired
  <2>2. effect'[s][e] \in {effect[s][e], QuarantinedEffect(effect[s][e])}
    BY <1>1, <2>1 DEF Quarantine
  <2>3. QuarantinedEffect(effect[s][e]).state = "unknown"
    BY <1>1 DEF QuarantinedEffect, Released, EffectRow
  <2> QED BY <2>2, <2>3 DEF RowComes, RowStays, RowOpens
<1>5. ASSUME NEW t \in Sagas, ClaimNext(t)
      PROVE  RowComes(s, e)
  <2>1. PICK f \in Slots : effect' = [effect EXCEPT ![t][f] = ClaimedEffect(@)]
    BY <1>5 DEF ClaimNext, Claim
  <2>2. effect'[s][e] \in {effect[s][e], ClaimedEffect(effect[s][e])}
    BY <1>1, <2>1
  <2>3. /\ ClaimedEffect(effect[s][e]).state = "in_flight"
        /\ ClaimedEffect(effect[s][e]).attempts = effect[s][e].attempts + 1
    BY <1>1 DEF ClaimedEffect, EffectRow
  <2> QED BY <2>2, <2>3 DEF RowComes, RowStays, RowOpens
<1>6. ASSUME NEW t \in Sagas, NEW f \in Slots, LeaseExpires(t, f)
      PROVE  RowComes(s, e)
  <2>1. effect'[s][e] \in {effect[s][e], [effect[s][e] EXCEPT !.lease_until = "past"]}
    BY <1>1, <1>6 DEF LeaseExpires
  <2> QED BY <1>1, <2>1 DEF EffectRow, RowComes, RowStays
<1>7. CASE \/ \E r \in held : Send(r) \/ Lose(r)
           \/ \E c \in calls : Serve(c)
           \/ UNCHANGED allvars
  BY <1>7 DEF Send, Lose, WorkerLost, Serve, vars, allvars, RowComes, RowStays
<1>8. CASE Commands /\ UNCHANGED <<calls, provider>>
  BY <1>2, <1>3, <1>8, RetryComes DEF Commands
<1> QED BY <1>4, <1>5, <1>6, <1>7, <1>8, FinalizeComes DEF ProvisioningNext
-----------------------------------------------------------------------------
(* Whose calls they are.  A call belongs to one attempt of one effect, and *)
(* carries the record of the worker that made it; an answer is kept only   *)
(* for a worker that still holds its record.                               *)

SameAttempt(q, r) ==
    q.saga = r.saga /\ q.slot = r.slot /\ q.lease_token = r.lease_token
Attempted(r) == r.lease_token \in 1 .. effect[r.saga][r.slot].attempts

CallSound(c) ==
    /\ c.record \in HeldRecord /\ InputsSound(c.record) /\ Attempted(c.record)
    /\ c.reply # NULL => c.record \in held

CallsOwned ==
    /\ \A c \in calls : CallSound(c)
    /\ \A r \in held : Attempted(r)
    /\ \A c, d \in calls : SameAttempt(c.record, d.record) => c = d
    /\ \A c \in calls, r \in held : SameAttempt(c.record, r) => c.record = r

\* What a step is to the calls.
Quiet == UNCHANGED <<calls, provider>> /\ held' = held
Claimed(s, e) == /\ UNCHANGED <<calls, provider>>
                 /\ held' = held \cup {Recorded(s, e)}
                 /\ effect'[s][e].attempts = effect[s][e].attempts + 1
Dropped(r) == Forget(r) /\ held' = held \ {r} /\ UNCHANGED provider

\* A step leaves calls and providers alone, sends a call, reads or drops the
\* answer of one, or is a provider's.
LEMMA CallsCome ==
    ASSUME TypeOK, [ProvisioningNext]_allvars
    PROVE  \/ Quiet
           \/ \E s \in Sagas, e \in Slots : Claimed(s, e)
           \/ \E r \in held : Send(r) \/ Dropped(r)
           \/ \E c \in calls : Serve(c)
<1>1. CASE Commands /\ UNCHANGED <<calls, provider>>
  BY <1>1 DEF Commands, Start, Retry, RequestCleanup, Quiet
<1>2. ASSUME NEW s \in Sagas, ClaimNext(s), UNCHANGED <<calls, provider>>
      PROVE  \E e \in Slots : Claimed(s, e)
  <2>1. PICK e \in Slots : Claim(s, e)
    BY <1>2 DEF ClaimNext
  <2>2. held' = held \cup {Recorded(s, e)}
    BY <2>1 DEF Claim, Recorded
  <2>3. effect'[s][e] = ClaimedEffect(effect[s][e]) /\ effect[s][e] \in EffectRow
    BY <2>1 DEF Claim, TypeOK
  <2>4. effect'[s][e].attempts = effect[s][e].attempts + 1
    BY <2>3, RowsMean
  <2> QED BY <1>2, <2>2, <2>4 DEF Claimed
<1>3. ASSUME NEW batch \in SUBSET Sagas, QuarantineExpired(batch), UNCHANGED <<calls, provider>>
      PROVE  Quiet
  BY <1>3 DEF QuarantineExpired, Quarantine, Quiet
<1>4. ASSUME NEW s \in Sagas, NEW e \in Slots, LeaseExpires(s, e), UNCHANGED <<calls, provider>>
      PROVE  Quiet
  BY <1>4 DEF LeaseExpires, Quiet
<1>5. ASSUME NEW r \in held, Finalize(r)
      PROVE  Dropped(r)
  BY <1>5 DEF Finalize, FinalizeEffect, FinalizeSuperseded, Dropped
<1>6. ASSUME NEW r \in held, Lose(r)
      PROVE  Dropped(r)
  BY <1>6 DEF Lose, WorkerLost, Dropped
<1>7. CASE UNCHANGED allvars
  BY <1>7 DEF allvars, vars, Quiet
<1> QED BY <1>1, <1>2, <1>3, <1>4, <1>5, <1>6, <1>7 DEF ProvisioningNext

\* Of the calls only the one that is answered changes; its answer is kept for
\* the worker that holds its record.
LEMMA AnswerMeans ==
    ASSUME CallsFit, NEW c \in calls, NEW reply, Answer(c, reply)
    PROVE  \E new : /\ new.record = c.record /\ new.reply = reply
                    /\ calls' = (calls \ {c}) \cup (IF c.record \in held THEN {new} ELSE {})
<1>1. [c EXCEPT !.reply = reply].record = c.record /\ [c EXCEPT !.reply = reply].reply = reply
  BY DEF CallsFit
<1> QED BY <1>1 DEF Answer

\* An attempt that was made stays made.
LEMMA AttemptedStays ==
    ASSUME TypeOK, TypeOK', SagasConsistent, [Next]_vars, NEW r \in HeldRecord, Attempted(r)
    PROVE  Attempted(r)'
<1>1. r.saga \in Sagas /\ r.slot \in Slots /\ r.lease_token \in Nat
  BY DEF HeldRecord
<1>2. effect[r.saga][r.slot].attempts <= effect'[r.saga][r.slot].attempts
  BY <1>1, EffectsGrow
<1>3. effect[r.saga][r.slot].attempts \in Nat /\ effect'[r.saga][r.slot].attempts \in Nat
  BY <1>1 DEF TypeOK, EffectRow
<1> QED BY <1>1, <1>2, <1>3 DEF Attempted

\* A claim's record is of an attempt no call and no other record is of.
LEMMA ClaimedIsNew ==
    ASSUME TypeOK, NEW s \in Sagas, NEW e \in Slots, NEW r \in HeldRecord, Attempted(r)
    PROVE  ~ SameAttempt(r, Recorded(s, e))
<1>1. /\ Recorded(s, e).saga = s /\ Recorded(s, e).slot = e
      /\ Recorded(s, e).lease_token = effect[s][e].attempts + 1
  BY DEF Recorded, Fence
<1>2. effect[s][e].attempts \in Nat
  BY DEF TypeOK, EffectRow
<1> QED BY <1>1, <1>2 DEF SameAttempt, Attempted

\* CallsOwned is inductive.
LEMMA CallsOwnedStep ==
    ASSUME TypeOK, TypeOK', SagasConsistent, WorkerInvariant, WorkerInvariant', CallsFit,
           CallsOwned, [ProvisioningNext]_allvars
    PROVE  CallsOwned'
<1>1. [Next]_vars
  BY StepImplements
<1>2. held \subseteq HeldRecord /\ held' \subseteq HeldRecord
  BY DEF TypeOK
<1>3. \A c \in calls : /\ c.record \in HeldRecord /\ Attempted(c.record)'
                        /\ InputsSound(c.record)'
  BY <1>1, InputsStay, AttemptedStays DEF CallsOwned, CallSound
<1>4. \A r \in held : Attempted(r)'
  BY <1>1, <1>2, AttemptedStays DEF CallsOwned
<1>5. CASE Quiet
  BY <1>3, <1>4, <1>5 DEF Quiet, CallsOwned, CallSound
<1>6. ASSUME NEW s \in Sagas, NEW e \in Slots, Claimed(s, e), NEW new, new = Recorded(s, e)
      PROVE  CallsOwned'
  <2>1. calls' = calls /\ held' = held \cup {new}
    BY <1>6 DEF Claimed
  <2>2. Attempted(new)'
    <3>1. new.saga = s /\ new.slot = e /\ new.lease_token = effect'[s][e].attempts
          /\ effect'[s][e].attempts = effect[s][e].attempts + 1
      BY <1>6 DEF Claimed, Recorded, Fence
    <3>2. effect[s][e].attempts \in Nat
      BY DEF TypeOK, EffectRow
    <3> QED BY <3>1, <3>2 DEF Attempted
  <2>3. \A c \in calls : ~ SameAttempt(c.record, new)
    BY <1>6, ClaimedIsNew DEF CallsOwned, CallSound
  <2> QED BY <1>3, <1>4, <2>1, <2>2, <2>3 DEF CallsOwned, CallSound
<1>7. ASSUME NEW r \in held, Send(r)
      PROVE  CallsOwned'
  <2> DEFINE new == [record |-> r, reply |-> NULL]
  <2>1. calls' = calls \cup {new} /\ held' = held /\ new.record = r /\ new.reply = NULL
    BY <1>7 DEF Send, vars
  <2>2. InputsSound(r)'
    BY <2>1 DEF WorkerInvariant
  <2>3. \A c \in calls : ~ SameAttempt(c.record, r) /\ ~ SameAttempt(r, c.record)
    BY <1>7 DEF Send, CallsOwned, SameAttempt
  <2>4. \A q \in held : SameAttempt(r, q) => q = r
    BY DEF WorkerInvariant, FencesSound, SameAttempt
  <2> HIDE DEF new
  <2>5. \A c \in calls' : CallSound(c)'
    BY <1>2, <1>3, <1>4, <2>1, <2>2 DEF CallsOwned, CallSound
  <2>6. \A c, d \in calls' : SameAttempt(c.record, d.record) => c = d
    BY <2>1, <2>3 DEF CallsOwned
  <2>7. \A c \in calls', q \in held' : SameAttempt(c.record, q) => c.record = q
    BY <2>1, <2>4 DEF CallsOwned
  <2> QED BY <1>4, <2>1, <2>5, <2>6, <2>7 DEF CallsOwned
<1>8. ASSUME NEW r \in held, Dropped(r)
      PROVE  CallsOwned'
  <2>1. /\ calls' \subseteq calls /\ held' = held \ {r}
        /\ \A c \in calls' : c.record # r \/ c.reply = NULL
    BY <1>8 DEF Dropped, Forget
  <2> QED BY <1>3, <1>4, <2>1 DEF CallsOwned, CallSound
<1>9. ASSUME NEW c \in calls, Serve(c)
      PROVE  CallsOwned'
  <2>1. PICK reply : Answer(c, reply)
    BY <1>9, ServedFits
  <2>2. PICK new : /\ new.record = c.record /\ new.reply = reply
                   /\ calls' = (calls \ {c}) \cup (IF c.record \in held THEN {new} ELSE {})
    BY <2>1, AnswerMeans
  <2>3. held' = held
    BY <1>9 DEF Serve, vars
  <2>4. \A d \in calls' : CallSound(d)'
    BY <1>3, <2>2, <2>3 DEF CallsOwned, CallSound
  <2>5. \A d, f \in calls' : SameAttempt(d.record, f.record) => d = f
    BY <2>2 DEF CallsOwned, SameAttempt
  <2>6. \A d \in calls', q \in held' : SameAttempt(d.record, q) => d.record = q
    BY <2>2, <2>3 DEF CallsOwned
  <2> QED BY <1>4, <2>3, <2>4, <2>5, <2>6 DEF CallsOwned
<1> QED BY <1>5, <1>6, <1>7, <1>8, <1>9, CallsCome
-----------------------------------------------------------------------------
(* What the attempts made.                                                 *)

\* The organizations and the grants, each with the attempt that made it.
Made ==
    {[saga |-> o.saga, slot |-> Create, attempt |-> o.attempt, id |-> o.id] : o \in organizations}
    \cup {[saga |-> g.saga, slot |-> Put(g.ordinal), attempt |-> g.attempt, id |-> g.id]
             : g \in grants}
By(r, id) == [saga |-> r.saga, slot |-> r.slot, attempt |-> r.lease_token, id |-> id]

Makes(r, m) == r.saga = m.saga /\ r.slot = m.slot /\ r.lease_token = m.attempt

\* What an attempt made, its call was answered, unless nobody waits for the
\* answer any more.
MadeOwned(m) ==
    /\ m.saga \in Sagas /\ m.slot \in Slots
    /\ m.attempt \in 1 .. effect[m.saga][m.slot].attempts
    /\ \A c \in calls : Makes(c.record, m) => c.reply # NULL /\ c.reply = Applied(m.id)
    /\ \A r \in held : Makes(r, m) => \E c \in calls : c.record = r

MadeSound == \A m \in Made : MadeOwned(m)

\* A call that is carried out makes at most what it is for, and is answered so.
LEMMA ServedMakes ==
    ASSUME NEW c \in calls, c.record \in HeldRecord, Serve(c)
    PROVE  \E reply : /\ Answer(c, reply) /\ reply # NULL
                      /\ \A m \in Made' : \/ m \in Made
                                          \/ \E id : reply = Applied(id) /\ m = By(c.record, id)
<1>1. c.record.slot \in Slots
  BY DEF HeldRecord
<1>2. CASE CreateOrganization(c)
  <2>1. c.record.slot = Create
    BY <1>2 DEF CreateOrganization
  <2>2. PICK id \in OrganizationIds :
          /\ \/ organizations' = organizations
             \/ organizations' = organizations \cup
                    {[key |-> DownstreamKey(c.record), id |-> id,
                      saga |-> c.record.saga, attempt |-> c.record.lease_token]}
          /\ Answer(c, Applied(id)) /\ grants' = grants
    BY <1>2 DEF CreateOrganization
  <2>3. Applied(id) # NULL
    BY <2>1, SlotFacts, OutcomesOfCalls, NoReplyAssumption
  <2>4. \A m \in Made' : m \in Made \/ m = By(c.record, id)
    BY <2>1, <2>2 DEF Made, By
  <2> QED BY <2>2, <2>3, <2>4
<1>3. CASE PutGrant(c)
  <2>1. c.record.slot[1] = "put_entitlement"
    BY <1>3 DEF PutGrant
  <2>2. PICK id \in GrantIds :
          /\ \/ grants' = grants
             \/ grants' = grants \cup
                    {[id |-> id, organization_id |-> c.record.organization_id,
                      ordinal |-> c.record.slot[2], saga |-> c.record.saga,
                      attempt |-> c.record.lease_token]}
          /\ Answer(c, Applied(id)) /\ organizations' = organizations
    BY <1>3 DEF PutGrant
  <2>3. Applied(id) # NULL
    BY <1>1, <2>1, OutcomesOfCalls, NoReplyAssumption
  <2>4. c.record.slot = Put(c.record.slot[2])
    BY <1>1, <2>1, SlotKinds
  <2>5. \A m \in Made' : m \in Made \/ m = By(c.record, id)
    BY <2>2, <2>4 DEF Made, By
  <2> QED BY <2>2, <2>3, <2>5
<1>4. CASE RevokeGrant(c)
  <2>1. c.record.slot[1] = "revoke_entitlement" /\ Answer(c, Compensated(c.record))
        /\ grants' \subseteq grants /\ organizations' = organizations
    BY <1>4 DEF RevokeGrant
  <2>2. Compensated(c.record) # NULL
    BY <1>1, <2>1, OutcomesOfCalls, NoReplyAssumption
  <2>3. \A m \in Made' : m \in Made
    BY <2>1 DEF Made
  <2> QED BY <2>1, <2>2, <2>3
<1>5. CASE Reject(c)
  <2>1. Answer(c, Rejected) /\ grants' = grants /\ organizations' = organizations
    BY <1>5 DEF Reject, DomainError, provider
  <2>2. Rejected # NULL
    BY <1>1, OutcomesOfCalls, NoReplyAssumption
  <2>3. \A m \in Made' : m \in Made
    BY <2>1 DEF Made
  <2> QED BY <2>1, <2>2, <2>3
<1> QED BY <1>2, <1>3, <1>4, <1>5 DEF Serve

\* MadeSound is inductive.
LEMMA MadeSoundStep ==
    ASSUME TypeOK, TypeOK', SagasConsistent, CallsFit, CallsOwned, MadeSound,
           [ProvisioningNext]_allvars
    PROVE  MadeSound'
<1>1. [Next]_vars
  BY StepImplements
<1>2. ASSUME NEW m \in Made
      PROVE  m.attempt \in 1 .. effect'[m.saga][m.slot].attempts
  <2>1. m.saga \in Sagas /\ m.slot \in Slots
        /\ m.attempt \in 1 .. effect[m.saga][m.slot].attempts
    BY DEF MadeSound, MadeOwned
  <2>2. effect[m.saga][m.slot].attempts <= effect'[m.saga][m.slot].attempts
    BY <1>1, <2>1, EffectsGrow
  <2>3. effect[m.saga][m.slot].attempts \in Nat /\ effect'[m.saga][m.slot].attempts \in Nat
    BY <2>1 DEF TypeOK, EffectRow
  <2> QED BY <2>1, <2>2, <2>3
<1>3. CASE Quiet
  <2>1. Made' = Made
    BY <1>3 DEF Quiet, provider, Made
  <2> QED BY <1>2, <1>3, <2>1 DEF Quiet, MadeSound, MadeOwned
<1>4. ASSUME NEW s \in Sagas, NEW e \in Slots, Claimed(s, e), NEW new, new = Recorded(s, e)
      PROVE  MadeSound'
  <2>1. calls' = calls /\ held' = held \cup {new} /\ Made' = Made
    BY <1>4 DEF Claimed, provider, Made
  <2>2. /\ new.saga = s /\ new.slot = e /\ new.lease_token = effect[s][e].attempts + 1
        /\ effect[s][e].attempts \in Nat
    BY <1>4 DEF Recorded, Fence, TypeOK, EffectRow
  <2>3. \A m \in Made : ~ Makes(new, m)
    BY <2>2 DEF MadeSound, MadeOwned, Makes
  <2> QED BY <1>2, <2>1, <2>3 DEF MadeSound, MadeOwned
<1>5. ASSUME NEW r \in held, Send(r)
      PROVE  MadeSound'
  <2>1. \A c \in calls' : c \in calls \/ c.record = r
    BY <1>5 DEF Send
  <2>2. calls \subseteq calls' /\ held' = held /\ Made' = Made
    BY <1>5 DEF Send, vars, provider, Made
  <2>3. \A m \in Made : ~ Makes(r, m)
    BY <1>5 DEF Send, MadeSound, MadeOwned
  <2> QED BY <1>2, <2>1, <2>2, <2>3 DEF MadeSound, MadeOwned
<1>6. ASSUME NEW r \in held, Dropped(r)
      PROVE  MadeSound'
  <2>1. /\ calls' \subseteq calls /\ held' = held \ {r} /\ Made' = Made
        /\ \A c \in calls : c.record # r => c \in calls'
    BY <1>6 DEF Dropped, Forget, provider, Made
  <2> QED BY <1>2, <2>1 DEF MadeSound, MadeOwned
<1>7. ASSUME NEW c \in calls, Serve(c)
      PROVE  MadeSound'
  <2>1. c.record \in HeldRecord /\ Attempted(c.record)
    BY DEF CallsOwned, CallSound
  <2>2. PICK reply : /\ Answer(c, reply) /\ reply # NULL
                     /\ \A m \in Made' : \/ m \in Made
                                         \/ \E id : reply = Applied(id) /\ m = By(c.record, id)
    BY <1>7, <2>1, ServedMakes
  <2>3. PICK new : /\ new.record = c.record /\ new.reply = reply
                   /\ calls' = (calls \ {c}) \cup (IF c.record \in held THEN {new} ELSE {})
    BY <2>2, AnswerMeans
  <2>4. held' = held /\ effect' = effect /\ c.reply = NULL
    BY <1>7 DEF Serve, vars
  <2>5. ASSUME NEW m \in Made
        PROVE  MadeOwned(m)'
    <3>1. ~ Makes(c.record, m)
      BY <2>4 DEF MadeSound, MadeOwned
    <3> QED BY <2>3, <2>4, <3>1 DEF MadeSound, MadeOwned
  <2>6. ASSUME NEW id, reply = Applied(id), NEW m, m = By(c.record, id)
        PROVE  MadeOwned(m)'
    <3>1. /\ m.saga = c.record.saga /\ m.slot = c.record.slot /\ m.attempt = c.record.lease_token
          /\ m.id = id /\ Makes(c.record, m)
      BY <2>6 DEF By, Makes
    <3>2. \A d \in calls : Makes(d.record, m) => d = c
      BY <3>1 DEF CallsOwned, SameAttempt, Makes
    <3>3. \A r \in held : Makes(r, m) => r = c.record
      BY <3>1 DEF CallsOwned, SameAttempt, Makes
    <3>4. /\ m.saga \in Sagas /\ m.slot \in Slots
          /\ m.attempt \in 1 .. effect'[m.saga][m.slot].attempts
      BY <2>1, <2>4, <3>1 DEF HeldRecord, Attempted
    <3> QED BY <2>2, <2>3, <2>4, <2>6, <3>1, <3>2, <3>3, <3>4 DEF MadeOwned
  <2> QED BY <2>2, <2>5, <2>6 DEF MadeSound
<1> QED BY <1>3, <1>4, <1>5, <1>6, <1>7, CallsCome
-----------------------------------------------------------------------------
(* Nothing is left to come of the last attempt of an effect that failed,   *)
(* was skipped or was applied, unless an operator decided about it: what   *)
(* the attempt made is what its call was answered.                         *)

Over(s, e) == effect[s][e].state \in {"failed", "skipped", "applied"} /\ Undecided(s, e)
OfLast(r, s, e) == r.saga = s /\ r.slot = e /\ r.lease_token = effect[s][e].attempts

Finished(s, e) ==
    /\ \A c \in calls : ~ OfLast(c.record, s, e)
    /\ \A r \in held : ~ OfLast(r, s, e)
    /\ \A m \in Made :
          m.saga = s /\ m.slot = e /\ m.attempt = effect[s][e].attempts =>
              effect[s][e].state = "applied" /\ m.id = effect[s][e].external_id

FinishedSound == \A s \in Sagas, e \in Slots : Over(s, e) => Finished(s, e)

\* Whether the last attempt is undecided is read from the log.
LEMMA UndecidedMeans ==
    ASSUME NEW s, NEW e
    PROVE  /\ Undecided(s, e) <=> ~ DecidedIn(activity[s], e, effect[s][e].attempts)
           /\ Undecided(s, e)' <=> ~ DecidedIn(activity'[s], e, effect'[s][e].attempts)
  BY DEF Undecided, DecidedAfter, DecidedIn, Claims, ClaimsTo

\* Undecided attempts were undecided before.
LEMMA UndecidedBefore ==
    ASSUME TypeOK, SagasConsistent, [Next]_vars, NEW s \in Sagas, NEW e \in Slots,
           DecisionsSound(s, e), effect'[s][e].attempts = effect[s][e].attempts, Undecided(s, e)'
    PROVE  Undecided(s, e)
<1>1. \A k : DecidedIn(activity[s], e, k) => DecidedIn(activity'[s], e, k)
  BY DecisionsStep, DecidedMeans, DecidedNextMeans
<1> QED BY <1>1, UndecidedMeans

\* A row that stays, stays finished.
LEMMA FinishedStays ==
    ASSUME CallsFit, CallsOwned, TypeOK, [ProvisioningNext]_allvars,
           NEW s \in Sagas, NEW e \in Slots, RowStays(s, e), Finished(s, e)
    PROVE  Finished(s, e)'
<1> DEFINE n == effect[s][e].attempts
<1>1. effect'[s][e].attempts = n /\ effect'[s][e].state = effect[s][e].state
      /\ effect'[s][e].external_id = effect[s][e].external_id /\ n \in Nat
  BY DEF RowStays, TypeOK, EffectRow
<1>2. SUFFICES /\ \A c \in calls' : ~ OfLast(c.record, s, e)
               /\ \A r \in held' : ~ OfLast(r, s, e)
               /\ \A m \in Made' : m \in Made \/ m.saga # s \/ m.slot # e \/ m.attempt # n
  BY <1>1 DEF Finished, OfLast
<1>3. CASE Quiet
  BY <1>3 DEF Quiet, provider, Made, Finished
<1>4. ASSUME NEW t \in Sagas, NEW f \in Slots, Claimed(t, f)
      PROVE  /\ calls' = calls /\ Made' = Made
             /\ \A r \in held' : r \in held \/ ~ OfLast(r, s, e)
  <2>1. /\ calls' = calls /\ Made' = Made /\ held' = held \cup {Recorded(t, f)}
        /\ effect'[t][f].attempts = effect[t][f].attempts + 1
    BY <1>4 DEF Claimed, provider, Made
  <2>2. /\ Recorded(t, f).saga = t /\ Recorded(t, f).slot = f
        /\ Recorded(t, f).lease_token = effect[t][f].attempts + 1
    BY DEF Recorded, Fence
  <2>3. ~ OfLast(Recorded(t, f), s, e)
    BY <1>1, <2>1, <2>2 DEF OfLast
  <2> QED BY <2>1, <2>3
<1>5. ASSUME NEW r \in held, Send(r)
      PROVE  /\ \A c \in calls' : c \in calls \/ c.record = r
             /\ held' = held /\ Made' = Made
  BY <1>5 DEF Send, vars, provider, Made
<1>6. ASSUME NEW r \in held, Dropped(r)
      PROVE  calls' \subseteq calls /\ held' \subseteq held /\ Made' = Made
  BY <1>6 DEF Dropped, Forget, provider, Made
<1>7. ASSUME NEW c \in calls, Serve(c)
      PROVE  /\ \A d \in calls' : d \in calls \/ d.record = c.record
             /\ held' = held
             /\ \A m \in Made' : m \in Made \/ \E id : m = By(c.record, id)
  <2>1. c.record \in HeldRecord
    BY DEF CallsOwned, CallSound
  <2>2. PICK reply : /\ Answer(c, reply)
                     /\ \A m \in Made' : m \in Made \/ \E id : m = By(c.record, id)
    BY <1>7, <2>1, ServedMakes
  <2>3. PICK new : /\ new.record = c.record
                   /\ calls' = (calls \ {c}) \cup (IF c.record \in held THEN {new} ELSE {})
    BY <2>2, AnswerMeans
  <2> QED BY <1>7, <2>2, <2>3 DEF Serve, vars
<1>8. \A r, m : (\E id : m = By(r, id)) /\ m.saga = s /\ m.slot = e /\ m.attempt = n =>
          OfLast(r, s, e)
  BY DEF By, OfLast
<1> HIDE DEF n
<1>9. CASE \E c \in calls : Serve(c)
  BY <1>7, <1>8, <1>9 DEF Finished
<1>10. CASE \E r \in held : Send(r) \/ Dropped(r)
  BY <1>5, <1>6, <1>10 DEF Finished
<1>11. CASE \E t \in Sagas, f \in Slots : Claimed(t, f)
  BY <1>4, <1>11 DEF Finished
<1> QED BY <1>3, <1>9, <1>10, <1>11, CallsCome

\* What the last attempt made is what its call was answered.
LEMMA AnsweredFinishes ==
    ASSUME TypeOK, SagasConsistent, WorkerInvariant, CallsOwned, MadeSound,
           NEW s \in Sagas, NEW e \in Slots, NEW c \in calls, RowAnswered(s, e, c)
    PROVE  Finished(s, e)'
<1> DEFINE r == c.record
           n == effect[s][e].attempts
<1>1. /\ r \in held /\ Current(r) /\ r.saga = s /\ r.slot = e /\ c.reply # NULL
      /\ effect'[s][e].attempts = n /\ effect'[s][e].state = c.reply.state
      /\ c.reply.state = "applied" => effect'[s][e].external_id = c.reply.id
      /\ calls' = {d \in calls : d.record # r \/ d.reply = NULL}
      /\ held' = held \ {r} /\ Made' = Made
  BY DEF RowAnswered, Forget, provider, Made
<1>2. effect[s][e].state = "in_flight" /\ r.lease_token = n
  <2>1. effect[s][e].state = "in_flight" /\ effect[s][e].lease_token = r.lease_token
    BY <1>1 DEF Current
  <2>2. RowsAgree(effect[s])
    BY <2>1 DEF SagasConsistent, Consistent, NoEffect, EffectsConsistent
  <2> QED BY <2>1, <2>2 DEF RowsAgree
<1> HIDE DEF r, n
<1>3. \A d \in calls : SameAttempt(d.record, r) => d = c
  BY DEF CallsOwned, r
<1>4. \A q \in held : SameAttempt(q, r) => q = r
  BY <1>1 DEF WorkerInvariant, FencesSound, SameAttempt
<1>5. \A m \in Made : Makes(r, m) => c.reply = Applied(m.id)
  BY DEF MadeSound, MadeOwned, r
<1>6. \A id : Applied(id).state = "applied" /\ Applied(id).id = id
  BY DEF Applied
<1>7. \A d \in calls' : ~ (d.record.saga = s /\ d.record.slot = e /\ d.record.lease_token = n)
  BY <1>1, <1>2, <1>3 DEF SameAttempt, r
<1>8. \A q \in held' : ~ (q.saga = s /\ q.slot = e /\ q.lease_token = n)
  BY <1>1, <1>2, <1>4 DEF SameAttempt
<1>9. \A m \in Made' : m.saga = s /\ m.slot = e /\ m.attempt = n =>
          effect'[s][e].state = "applied" /\ m.id = effect'[s][e].external_id
  BY <1>1, <1>2, <1>5, <1>6 DEF Makes
<1> QED BY <1>1, <1>7, <1>8, <1>9 DEF Finished, OfLast

\* FinishedSound is inductive.
LEMMA FinishedStep ==
    ASSUME TypeOK, TypeOK', SagasConsistent, WorkerInvariant, CallsFit, CallsOwned, CallsOwned',
           MadeSound, MadeSound', FinishedSound, [ProvisioningNext]_allvars,
           \A s \in Sagas, e \in Slots : DecisionsSound(s, e)
    PROVE  FinishedSound'
<1> SUFFICES ASSUME NEW s \in Sagas, NEW e \in Slots, Over(s, e)'
             PROVE  Finished(s, e)'
  BY DEF FinishedSound
<1>1. [Next]_vars /\ DecisionsSound(s, e) /\ RowComes(s, e)
  BY StepImplements, RowsCome
<1>2. effect'[s][e].state \in {"failed", "skipped", "applied"} /\ Undecided(s, e)'
  BY DEF Over
<1>3. CASE effect'[s][e].attempts = 0
  <2>1. \A c \in calls' : c.record.lease_token \in 1 .. effect'[c.record.saga][c.record.slot].attempts
    BY DEF CallsOwned, CallSound, Attempted
  <2>2. \A r \in held' : r.lease_token \in 1 .. effect'[r.saga][r.slot].attempts
    BY DEF CallsOwned, Attempted
  <2>3. \A m \in Made' : m.attempt \in 1 .. effect'[m.saga][m.slot].attempts
    BY DEF MadeSound, MadeOwned
  <2> QED BY <1>3, <2>1, <2>2, <2>3 DEF Finished, OfLast
<1>4. CASE RowStays(s, e)
  <2>1. Over(s, e)
    BY <1>1, <1>2, <1>4, UndecidedBefore DEF Over, RowStays
  <2> QED BY <1>4, <2>1, FinishedStays DEF FinishedSound
<1>5. CASE RowSkipped(s, e)
  <2>1. /\ effect'[s][e].attempts = effect[s][e].attempts
        /\ effect[s][e].state \in {"pending", "failed"}
        /\ calls' = calls /\ held' = held /\ Made' = Made
    BY <1>5 DEF RowSkipped, provider, Made
  <2>2. Undecided(s, e)
    BY <1>1, <1>2, <2>1, UndecidedBefore
  <2>3. CASE effect[s][e].state = "failed"
    <3>1. Finished(s, e)
      BY <2>2, <2>3 DEF FinishedSound, Over
    <3> QED BY <2>1, <2>3, <3>1 DEF Finished, OfLast
  <2>4. CASE effect[s][e].state = "pending"
    <3>1. effect[s][e].attempts \in Nat
      BY DEF TypeOK, EffectRow
    <3>2. Waiting(effect[s][e])
      BY <2>4 DEF Waiting
    <3>3. effect[s][e].attempts \notin 1 .. effect[s][e].attempts
      BY <1>1, <2>2, <3>2 DEF DecisionsSound, Undecided
    <3> QED BY <1>3, <2>1, <3>1, <3>3
  <2> QED BY <2>1, <2>3, <2>4
<1>6. CASE RowConfirmed(s, e) /\ effect'[s][e].attempts # 0
  <2> DEFINE x == [kind |-> "provisioning_retried", effect |-> e, revision |-> saga'[s].revision]
             n == effect[s][e].attempts
  <2>1. activity'[s] = Append(activity[s], x) /\ effect'[s][e].attempts = n
    BY <1>6 DEF RowConfirmed
  <2>2. x \in ActivityRow /\ x.kind = "provisioning_retried" /\ x.effect = e
        /\ activity[s] \in Seq(ActivityRow) /\ n \in Nat
    BY DEF TypeOK, SagaRow, ActivityRow, ActivityKinds, EffectRow
  <2>3. ClaimsCounted(activity[s], e, n)
    BY <1>1 DEF DecisionsSound
  <2> HIDE DEF x, n
  <2>4. \A k \in 1 .. n : DecidedIn(activity'[s], e, k)
    BY <2>1, <2>2, <2>3, DecidedAppend
  <2>5. n \in 1 .. n
    BY <1>6, <2>1, <2>2
  <2> QED BY <1>2, <2>1, <2>4, <2>5, UndecidedMeans
<1>7. ASSUME NEW c \in calls, RowAnswered(s, e, c)
      PROVE  Finished(s, e)'
  BY <1>7, AnsweredFinishes
<1>8. ~ RowOpens(s, e)
  BY <1>2 DEF RowOpens
<1> QED BY <1>1, <1>3, <1>4, <1>5, <1>6, <1>7, <1>8 DEF RowComes
-----------------------------------------------------------------------------
(* Residue.                                                                *)

\* What the attempts of a creation or a put made is recorded as applied,
\* unless the outcome is open or an operator decided about the attempt.
LEMMA MadeMeans ==
    ASSUME TypeOK, SagasConsistent, MadeSound, FinishedSound, NEW m \in Made,
           DecisionsSound(m.saga, m.slot),
           effect[m.saga][m.slot].state \notin {"in_flight", "unknown", "compensated"}
    PROVE  \/ DecidedAfter(m.saga, m.slot, m.attempt)
           \/ /\ effect[m.saga][m.slot].state = "applied"
              /\ effect[m.saga][m.slot].external_id = m.id
<1> DEFINE s == m.saga
           e == m.slot
<1>1. s \in Sagas /\ e \in Slots /\ m.attempt \in 1 .. effect[s][e].attempts
  BY DEF MadeSound, MadeOwned
<1>2. effect[s][e].state \in EffectStates
  BY <1>1 DEF TypeOK, EffectRow
<1>3. SUFFICES ASSUME ~ DecidedAfter(s, e, m.attempt)
               PROVE  /\ effect[s][e].state = "applied"
                      /\ effect[s][e].external_id = m.id
  OBVIOUS
<1>4. m.attempt = effect[s][e].attempts /\ ~ Waiting(effect[s][e])
  BY <1>1, <1>3 DEF DecisionsSound
<1>5. Over(s, e)
  BY <1>2, <1>3, <1>4 DEF Over, Undecided, Waiting, EffectStates
<1> QED BY <1>1, <1>4, <1>5 DEF FinishedSound, Finished

\* An organization that exists while its creation is neither open nor decided
\* about is the one its saga shows.
LEMMA ResidueFollows ==
    ASSUME TypeOK, SagasConsistent, MadeSound, FinishedSound,
           \A s \in Sagas, e \in Slots : DecisionsSound(s, e)
    PROVE  ResidueIsKnown
<1> DEFINE Rest == {"completed", "failed", "cleanup_pending", "cleanup_running",
                    "cleanup_completed", "cleanup_failed"}
<1> SUFFICES ASSUME NEW o \in organizations, saga[o.saga].status \in Rest
             PROVE  saga[o.saga].organization_residue \/ DecidedAfter(o.saga, Create, o.attempt)
  BY DEF ResidueIsKnown
<1> DEFINE s == o.saga
           m == [saga |-> s, slot |-> Create, attempt |-> o.attempt, id |-> o.id]
<1>1. m \in Made /\ s \in Sagas /\ Create \in Slots
  BY SlotFacts DEF Made, MadeSound, MadeOwned
<1>2. /\ saga[s] \in SagaRow /\ effect[s] \in [Slots -> EffectRow]
      /\ EffectsConsistent(saga[s], effect[s]) /\ StatusConsistent(saga[s], effect[s])
  BY <1>1, StoredMeans DEF TypeOK, SagasConsistent
<1>3. effect[s][Create].state \notin {"in_flight", "unknown", "compensated"}
  <2>1. CASE saga[s].cleanup_requested
    BY <1>2, <2>1 DEF EffectsConsistent, CleanupMirrors
  <2>2. CASE ~ saga[s].cleanup_requested
    <3>1. Create \in Phase(saga[s].cleanup_requested)
      BY <2>2, SlotFacts DEF Phase
    <3>2. saga[s].status \in {"completed", "failed"}
      <4>1. saga[s].cleanup_requested <=> saga[s].status \in {"cleanup_pending", "cleanup_running",
                                          "cleanup_completed", "cleanup_failed"}
        BY <1>1, SummaryFollows DEF StatusSummarizesEffects
      <4> QED BY <2>2, <4>1
    <3>3. /\ saga[s].status = "failed" =>
                 InState(effect[s], saga[s].cleanup_requested, {"in_flight", "unknown"}) = {}
          /\ saga[s].status = "completed" =>
                 InState(effect[s], saga[s].cleanup_requested,
                         {"pending", "in_flight", "unknown", "failed"}) = {}
      BY <1>2, StatusMeans
    <3>4. effect[s][Create].state \notin {"in_flight", "unknown"}
      BY <3>1, <3>2, <3>3 DEF InState
    <3> QED BY <1>2, <3>4 DEF EffectsConsistent, KindsAgree
  <2> QED BY <2>1, <2>2
<1>4. m.saga = s /\ m.slot = Create /\ m.attempt = o.attempt
  OBVIOUS
<1> HIDE DEF m, Rest
<1>5. DecidedAfter(s, Create, o.attempt) \/ effect[s][Create].state = "applied"
  BY <1>1, <1>3, <1>4, MadeMeans
<1> QED BY <1>2, <1>5 DEF EffectsConsistent, OrganizationFirst
-----------------------------------------------------------------------------
(* The grants in force.  A recorded grant stays in force until it is asked *)
(* to be revoked, and is gone once its revocation is answered.             *)

\* Ids name one thing.
IdsUnique == /\ \A g, h \in grants : g.id = h.id => g = h
             /\ \A o, p \in organizations : o.id = p.id => o = p

IsPut(c) == c.record.slot[1] = "put_entitlement"
IsRevoke(c) == c.record.slot[1] = "revoke_entitlement"
PutOf(s, i) == effect[s][Put(i)]
OrganizationId(s) == effect[s][Create].external_id

\* A grant with a recorded id is the one that was recorded.
GrantsRecorded ==
    \A s \in Sagas, i \in Ordinals :
        PutOf(s, i).state = "applied" =>
            \A g \in grants : g.id = PutOf(s, i).external_id =>
                g.ordinal = i /\ g.organization_id = OrganizationId(s)

\* Until cleanup asks for its revocation, it is there.
GrantsInForce ==
    \A s \in Sagas, i \in Ordinals :
        PutOf(s, i).state = "applied" /\ effect[s][Revoke(i)].state = "absent" =>
            \E g \in GrantsAt(OrganizationId(s), i) : g.id = PutOf(s, i).external_id

\* So is a grant whose id waits to be recorded.
AnswerInForce(c) ==
    \E g \in GrantsAt(c.record.organization_id, c.record.slot[2]) : g.id = c.reply.id
AnswersInForce ==
    \A c \in calls :
        IsPut(c) /\ c.reply # NULL /\ Current(c.record) =>
            (c.reply.state = "applied" => AnswerInForce(c))

\* A revocation that was answered or recorded leaves no grant.
NoGrantHas(id) == \A g \in grants : g.id # id
GrantsRevoked ==
    /\ \A s \in Sagas, i \in Ordinals :
          effect[s][Revoke(i)].state = "compensated" => NoGrantHas(PutOf(s, i).external_id)
    /\ \A c \in calls :
          IsRevoke(c) /\ c.reply # NULL =>
              (c.reply.state = "compensated" => NoGrantHas(c.record.external_id))

\* What a step is to the grants.
GrantsStay == grants' = grants
GrantComes == \E new : NewGrantId(new.id) /\ grants' = grants \cup {new}
GrantGoes(id) == grants' = {g \in grants : g.id # id}

\* Grants come with new ids, and go by the id of their revocation.
LEMMA GrantsCome ==
    ASSUME TypeOK, [ProvisioningNext]_allvars
    PROVE  \/ GrantsStay
           \/ GrantComes /\ effect' = effect
           \/ \E c \in calls : IsRevoke(c) /\ GrantGoes(c.record.external_id) /\ effect' = effect
<1>1. ASSUME NEW c \in calls, PutGrant(c)
      PROVE  GrantsStay \/ GrantComes
  <2>1. PICK id \in GrantIds :
          \/ grants' = grants
          \/ /\ NewGrantId(id)
             /\ grants' = grants \cup
                    {[id |-> id, organization_id |-> c.record.organization_id,
                      ordinal |-> c.record.slot[2], saga |-> c.record.saga,
                      attempt |-> c.record.lease_token]}
    BY <1>1 DEF PutGrant
  <2>2. CASE grants' = grants
    BY <2>2 DEF GrantsStay
  <2> DEFINE new == [id |-> id, organization_id |-> c.record.organization_id,
                     ordinal |-> c.record.slot[2], saga |-> c.record.saga,
                     attempt |-> c.record.lease_token]
  <2>3. CASE NewGrantId(id) /\ grants' = grants \cup {new}
    <3>1. new.id = id
      OBVIOUS
    <3> HIDE DEF new
    <3> QED BY <2>3, <3>1 DEF GrantComes
  <2> QED BY <2>1, <2>2, <2>3
<1>2. ASSUME NEW c \in calls, Serve(c)
      PROVE  \/ GrantsStay
             \/ GrantComes /\ effect' = effect
             \/ IsRevoke(c) /\ GrantGoes(c.record.external_id) /\ effect' = effect
  <2>1. effect' = effect
    BY <1>2 DEF Serve, vars
  <2>2. CASE CreateOrganization(c) \/ Reject(c)
    BY <2>2 DEF CreateOrganization, Reject, provider, GrantsStay
  <2>3. CASE PutGrant(c)
    BY <1>1, <2>1, <2>3
  <2>4. CASE RevokeGrant(c)
    BY <2>1, <2>4 DEF RevokeGrant, IsRevoke, GrantGoes
  <2> QED BY <1>2, <2>2, <2>3, <2>4 DEF Serve
<1>3. ASSUME NEW r \in held, Send(r) \/ Dropped(r)
      PROVE  GrantsStay
  BY <1>3 DEF Send, Dropped, provider, GrantsStay
<1>4. ASSUME Quiet \/ \E s \in Sagas, e \in Slots : Claimed(s, e)
      PROVE  GrantsStay
  BY <1>4 DEF Quiet, Claimed, provider, GrantsStay
<1> QED BY <1>2, <1>3, <1>4, CallsCome

\* What a call is answered is so.
AnswerTrue(c) ==
    /\ IsPut(c) /\ c.reply.state = "applied" => AnswerInForce(c)
    /\ IsRevoke(c) /\ c.reply.state = "compensated" => NoGrantHas(c.record.external_id)

\* A call is answered by what the provider then shows.
LEMMA ServedTrue ==
    ASSUME CallsFit, NEW c \in calls, Serve(c), NEW d \in calls', d \notin calls
    PROVE  AnswerTrue(d)'
<1>1. CASE CreateOrganization(c)
  <2>1. PICK id : Answer(c, Applied(id)) /\ c.record.slot = Create
    BY <1>1 DEF CreateOrganization
  <2>2. d.record = c.record
    BY <2>1, CallsOfAnswer
  <2> QED BY <2>1, <2>2, SlotFacts DEF AnswerTrue, IsPut, IsRevoke
<1>2. CASE PutGrant(c)
  <2> DEFINE r == c.record
             At(G) == {g \in G : g.organization_id = r.organization_id /\ g.ordinal = r.slot[2]}
  <2>1. PICK id \in GrantIds :
          /\ \/ grants' = grants /\ \E g \in At(grants) : g.id = id
             \/ grants' = grants \cup
                    {[id |-> id, organization_id |-> r.organization_id,
                      ordinal |-> r.slot[2], saga |-> r.saga, attempt |-> r.lease_token]}
          /\ Answer(c, Applied(id))
    BY <1>2 DEF PutGrant, GrantsAt
  <2>2. \E g \in At(grants') : g.id = id
    <3> DEFINE new == [id |-> id, organization_id |-> r.organization_id,
                       ordinal |-> r.slot[2], saga |-> r.saga, attempt |-> r.lease_token]
    <3>1. CASE grants' = grants /\ \E g \in At(grants) : g.id = id
      BY <3>1
    <3>2. CASE grants' = grants \cup {new}
      <4>1. new \in At(grants') /\ new.id = id
        BY <3>2
      <4> QED BY <4>1
    <3> QED BY <2>1, <3>1, <3>2
  <2>3. d.record = r /\ d.reply = Applied(id)
    BY <2>1, CallsOfAnswer
  <2>4. r.slot[1] = "put_entitlement" /\ Applied(id).id = id
    BY <1>2 DEF PutGrant, Applied
  <2> QED BY <2>2, <2>3, <2>4 DEF AnswerTrue, IsPut, IsRevoke, AnswerInForce, GrantsAt
<1>3. CASE RevokeGrant(c)
  <2>1. Answer(c, Compensated(c.record)) /\ c.record.slot[1] = "revoke_entitlement"
        /\ grants' = {g \in grants : g.id # c.record.external_id}
    BY <1>3 DEF RevokeGrant
  <2>2. d.record = c.record
    BY <2>1, CallsOfAnswer
  <2> QED BY <2>1, <2>2 DEF AnswerTrue, IsPut, IsRevoke, NoGrantHas
<1>4. CASE Reject(c)
  <2>1. d.reply = Rejected
    BY <1>4, CallsOfAnswer DEF Reject, DomainError
  <2> QED BY <2>1 DEF AnswerTrue, Rejected
<1> QED BY <1>1, <1>2, <1>3, <1>4 DEF Serve
-----------------------------------------------------------------------------
\* What the rows of a grant say of the organization and of each other.
LEMMA PutMeans ==
    ASSUME TypeOK, SagasConsistent, NEW s \in Sagas, NEW i \in Ordinals
    PROVE  /\ PutOf(s, i).state \notin {"absent", "pending", "skipped"} =>
                 /\ effect[s][Create].state = "applied"
                 /\ saga[s].organization_id = OrganizationId(s)
           /\ effect[s][Revoke(i)].state # "absent" =>
                 /\ PutOf(s, i).state = "applied"
                 /\ effect[s][Revoke(i)].external_id = PutOf(s, i).external_id
           /\ effect[s][Revoke(i)].state = "absent" => effect[s][Revoke(i)].attempts = 0
<1>1. Put(i) \in Slots /\ Revoke(i) \in Slots
  BY SlotFacts
<1>2. CASE effect[s] = [e \in Slots |-> NoEffect]
  BY <1>1, <1>2 DEF NoEffect, PutOf
<1>3. CASE EffectsConsistent(saga[s], effect[s])
  BY <1>1, <1>3 DEF EffectsConsistent, OrganizationFirst, CleanupMirrors, RowsAgree,
                    PutOf, OrganizationId
<1> QED BY <1>2, <1>3 DEF SagasConsistent, Consistent

\* Two sagas never record one organization.
LEMMA OneSaga ==
    ASSUME TypeOK, SagasConsistent, RecordedIdsSound, IdsUnique,
           NEW s \in Sagas, NEW t \in Sagas,
           effect[s][Create].state = "applied", effect[t][Create].state = "applied",
           OrganizationId(s) = OrganizationId(t)
    PROVE  s = t
<1>1. ASSUME NEW u \in Sagas, effect[u][Create].state = "applied"
      PROVE  OrganizationOf(u, OrganizationId(u))
  <2>1. effect[u] # [e \in Slots |-> NoEffect]
    BY <1>1, SlotFacts DEF NoEffect
  <2>2. OrganizationFirst(saga[u], effect[u])
    BY <2>1 DEF SagasConsistent, Consistent, EffectsConsistent
  <2>3. saga[u].organization_id = OrganizationId(u) /\ saga[u].organization_id # NULL
    BY <1>1, <2>2 DEF OrganizationFirst, OrganizationId
  <2> QED BY <2>3 DEF RecordedIdsSound
<1>2. OrganizationOf(s, OrganizationId(s)) /\ OrganizationOf(t, OrganizationId(t))
  BY <1>1
<1>3. PICK o \in organizations : o.saga = s /\ o.id = OrganizationId(s)
  BY <1>2 DEF OrganizationOf
<1>4. PICK p \in organizations : p.saga = t /\ p.id = OrganizationId(t)
  BY <1>2 DEF OrganizationOf
<1> QED BY <1>3, <1>4 DEF IdsUnique

\* A revocation takes away only the grant of its own saga and ordinal.
LEMMA RevokedMeans ==
    ASSUME TypeOK, SagasConsistent, RecordedIdsSound, IdsUnique, CallsOwned, GrantsRecorded,
           NEW c \in calls, IsRevoke(c), NEW g \in grants, g.id = c.record.external_id,
           NEW s \in Sagas, effect[s][Create].state = "applied",
           g.organization_id = OrganizationId(s)
    PROVE  /\ PutOf(s, g.ordinal).state = "applied"
           /\ effect[s][Revoke(g.ordinal)].state # "absent"
<1> DEFINE t == c.record.saga
           j == c.record.slot[2]
<1>1. /\ t \in Sagas /\ c.record.slot \in Slots /\ InputsSound(c.record) /\ Attempted(c.record)
  BY DEF CallsOwned, CallSound, HeldRecord
<1>2. j \in Ordinals /\ c.record.slot = Revoke(j)
  BY <1>1, SlotKinds DEF IsRevoke
<1>3. PutOf(t, j).state = "applied" /\ g.id = PutOf(t, j).external_id
  BY <1>1 DEF InputsSound, IsRevoke, PutOf
<1>4. g.ordinal = j /\ g.organization_id = OrganizationId(t)
  BY <1>1, <1>2, <1>3 DEF GrantsRecorded
<1>5. effect[t][Create].state = "applied"
  BY <1>1, <1>2, <1>3, PutMeans
<1>6. s = t
  BY <1>1, <1>4, <1>5, OneSaga
<1>7. effect[t][Revoke(j)].state # "absent"
  <2>1. c.record.lease_token \in 1 .. effect[t][Revoke(j)].attempts
    BY <1>1, <1>2 DEF Attempted
  <2>2. effect[t][Revoke(j)].attempts # 0
    BY <2>1
  <2> HIDE DEF t, j
  <2> QED BY <1>1, <1>2, <2>2, PutMeans
<1> QED BY <1>3, <1>4, <1>6, <1>7

\* Ids stay unique.
LEMMA IdsUniqueStep ==
    ASSUME TypeOK, IdsUnique, [ProvisioningNext]_allvars
    PROVE  IdsUnique'
<1>1. \A g, h \in grants' : g.id = h.id => g = h
  <2>1. CASE GrantsStay \/ \E id : GrantGoes(id)
    BY <2>1 DEF GrantsStay, GrantGoes, IdsUnique
  <2>2. CASE GrantComes
    BY <2>2 DEF GrantComes, NewGrantId, IdsUnique
  <2> QED BY <2>1, <2>2, GrantsCome
<1>2. \A o, p \in organizations' : o.id = p.id => o = p
  <2>1. ASSUME NEW c \in calls, CreateOrganization(c)
        PROVE  \/ organizations' = organizations
               \/ \E new : /\ organizations' = organizations \cup {new}
                           /\ \A o \in organizations : o.id # new.id
    <3>1. PICK id \in OrganizationIds :
            \/ organizations' = organizations
            \/ /\ \A o \in organizations : o.id # id
               /\ organizations' = organizations \cup
                      {[key |-> DownstreamKey(c.record), id |-> id,
                        saga |-> c.record.saga, attempt |-> c.record.lease_token]}
      BY <2>1 DEF CreateOrganization
    <3> DEFINE new == [key |-> DownstreamKey(c.record), id |-> id,
                       saga |-> c.record.saga, attempt |-> c.record.lease_token]
    <3>2. new.id = id
      OBVIOUS
    <3>3. \/ organizations' = organizations
          \/ /\ \A o \in organizations : o.id # new.id
             /\ organizations' = organizations \cup {new}
      BY <3>1
    <3> HIDE DEF new
    <3> QED BY <3>3
  <2>2. \/ organizations' = organizations
        \/ \E new : /\ organizations' = organizations \cup {new}
                    /\ \A o \in organizations : o.id # new.id
    <3>1. CASE Quiet \/ \E s \in Sagas, e \in Slots : Claimed(s, e)
      BY <3>1 DEF Quiet, Claimed, provider
    <3>2. CASE \E r \in held : Send(r) \/ Dropped(r)
      BY <3>2 DEF Send, Dropped, provider
    <3>3. ASSUME NEW c \in calls, Serve(c)
          PROVE  CreateOrganization(c) \/ organizations' = organizations
      BY <3>3 DEF Serve, PutGrant, RevokeGrant, Reject, provider
    <3> QED BY <2>1, <3>1, <3>2, <3>3, CallsCome
  <2> QED BY <2>2 DEF IdsUnique
<1> QED BY <1>1, <1>2 DEF IdsUnique

\* A record that holds the fence held it before.
LEMMA CurrentBefore ==
    ASSUME TypeOK, SagasConsistent, SagasConsistent', NEW r \in HeldRecord, Attempted(r),
           RowComes(r.saga, r.slot), Current(r)'
    PROVE  Current(r)
<1> DEFINE s == r.saga
           e == r.slot
<1>1. s \in Sagas /\ e \in Slots /\ effect[s][e].attempts \in Nat
      /\ r.lease_token \in 1 .. effect[s][e].attempts
  BY DEF HeldRecord, TypeOK, EffectRow, Attempted
<1>2. effect'[s][e].state = "in_flight" /\ effect'[s][e].lease_token = r.lease_token
  BY DEF Current
<1>3. effect'[s][e].lease_token = effect'[s][e].attempts
  <2>1. effect'[s] # [f \in Slots |-> NoEffect]
    BY <1>1, <1>2 DEF NoEffect
  <2>2. RowsAgree(effect'[s])
    BY <1>1, <2>1 DEF SagasConsistent, Consistent, EffectsConsistent
  <2> QED BY <1>1, <1>2, <2>2 DEF RowsAgree
<1>4. CASE RowStays(s, e)
  <2>1. effect[s][e].state = "in_flight"
    BY <1>2, <1>4 DEF RowStays
  <2>2. effect[s] # [f \in Slots |-> NoEffect]
    BY <1>1, <2>1 DEF NoEffect
  <2>3. RowsAgree(effect[s])
    BY <1>1, <2>2 DEF SagasConsistent, Consistent, EffectsConsistent
  <2>4. effect[s][e].lease_token = r.lease_token
    BY <1>1, <1>2, <1>3, <1>4, <2>1, <2>3 DEF RowStays, RowsAgree
  <2> QED BY <2>1, <2>4 DEF Current
<1>5. ~ RowOpens(s, e)
  BY <1>1, <1>2, <1>3 DEF RowOpens
<1>6. ~ RowSkipped(s, e) /\ ~ RowConfirmed(s, e) /\ \A c \in calls : ~ RowAnswered(s, e, c)
  BY <1>2 DEF RowSkipped, RowConfirmed, RowAnswered
<1> QED BY <1>4, <1>5, <1>6 DEF RowComes
-----------------------------------------------------------------------------
\* A put is recorded as the grant that is then in force.
LEMMA PutRecorded ==
    ASSUME TypeOK, SagasConsistent, CallsOwned, AnswersInForce, NEW s \in Sagas, NEW i \in Ordinals,
           RowComes(s, Put(i)), PutOf(s, i).state # "applied", effect'[s][Put(i)].state = "applied"
    PROVE  /\ GrantsStay /\ effect[s][Create].state = "applied"
           /\ \E g \in GrantsAt(OrganizationId(s), i) : g.id = effect'[s][Put(i)].external_id
<1>1. Put(i) \in Slots /\ Put(i)[1] = "put_entitlement" /\ Put(i)[2] = i
  BY SlotFacts
<1>2. ASSUME NEW c \in calls, RowAnswered(s, Put(i), c)
      PROVE  /\ GrantsStay /\ effect[s][Create].state = "applied"
             /\ \E g \in GrantsAt(OrganizationId(s), i) : g.id = effect'[s][Put(i)].external_id
  <2>1. /\ c.reply # NULL /\ Current(c.record) /\ c.record.saga = s /\ c.record.slot = Put(i)
        /\ c.reply.state = "applied" /\ effect'[s][Put(i)].external_id = c.reply.id
        /\ GrantsStay
    BY <1>2 DEF RowAnswered, provider, GrantsStay
  <2>2. AnswerInForce(c)
    BY <1>1, <2>1 DEF AnswersInForce, IsPut
  <2>3. effect[s][Create].state = "applied" /\ c.record.organization_id = OrganizationId(s)
    BY <1>1, <2>1 DEF CallsOwned, CallSound, InputsSound, OrganizationId
  <2> QED BY <1>1, <2>1, <2>2, <2>3 DEF AnswerInForce
<1>3. CASE RowConfirmed(s, Put(i))
  <2>1. /\ PutOf(s, i).state = "unknown" /\ GrantsStay
        /\ \E g \in GrantsAt(saga[s].organization_id, i) : g.id = effect'[s][Put(i)].external_id
    BY <1>1, <1>3 DEF RowConfirmed, PutOf, provider, GrantsStay
  <2>2. effect[s][Create].state = "applied" /\ saga[s].organization_id = OrganizationId(s)
    BY <2>1, PutMeans
  <2> QED BY <2>1, <2>2
<1>4. ~ RowStays(s, Put(i)) /\ ~ RowOpens(s, Put(i)) /\ ~ RowSkipped(s, Put(i))
  BY DEF RowStays, RowOpens, RowSkipped, PutOf
<1> QED BY <1>2, <1>3, <1>4 DEF RowComes

\* What was recorded of a grant or of the organization stays recorded.
LEMMA RecordsStay ==
    ASSUME TypeOK, SagasConsistent, [Next]_vars, NEW s \in Sagas
    PROVE  /\ effect[s][Create].state = "applied" => effect'[s][Create] = effect[s][Create]
           /\ \A i \in Ordinals : PutOf(s, i).state = "applied" =>
                 effect'[s][Put(i)] = effect[s][Put(i)]
  BY SlotFacts, EffectsGrow DEF PutOf

\* GrantsRecorded is inductive.
LEMMA GrantsRecordedStep ==
    ASSUME TypeOK, SagasConsistent, CallsOwned, IdsUnique, AnswersInForce, GrantsRecorded,
           [Next]_vars, [ProvisioningNext]_allvars,
           \A s \in Sagas, e \in Slots : RowComes(s, e)
    PROVE  GrantsRecorded'
<1> SUFFICES ASSUME NEW s \in Sagas, NEW i \in Ordinals, effect'[s][Put(i)].state = "applied",
                    NEW g \in grants', g.id = effect'[s][Put(i)].external_id
             PROVE  g.ordinal = i /\ g.organization_id = effect'[s][Create].external_id
  BY DEF GrantsRecorded, PutOf, OrganizationId
<1>1. Put(i) \in Slots /\ Create \in Slots
  BY SlotFacts
<1>2. CASE PutOf(s, i).state = "applied"
  <2>1. effect'[s][Put(i)] = PutOf(s, i)
    BY <1>2, RecordsStay DEF PutOf
  <2>2. effect'[s][Create].external_id = OrganizationId(s)
    BY <1>2, PutMeans, RecordsStay DEF OrganizationId
  <2>3. \A new : NewGrantId(new.id) => new.id # PutOf(s, i).external_id
    BY <1>1 DEF NewGrantId, PutOf
  <2>4. g \in grants
    <3>1. CASE GrantsStay \/ \E id : GrantGoes(id)
      BY <3>1 DEF GrantsStay, GrantGoes
    <3>2. CASE GrantComes
      BY <2>1, <2>3, <3>2 DEF GrantComes
    <3> QED BY <3>1, <3>2, GrantsCome
  <2> QED BY <1>2, <2>1, <2>2, <2>4 DEF GrantsRecorded
<1>3. CASE PutOf(s, i).state # "applied"
  <2>1. GrantsStay /\ effect[s][Create].state = "applied"
    BY <1>1, <1>3, PutRecorded
  <2>2. PICK h \in GrantsAt(OrganizationId(s), i) : h.id = effect'[s][Put(i)].external_id
    BY <1>1, <1>3, PutRecorded
  <2>3. h \in grants /\ h.ordinal = i /\ h.organization_id = OrganizationId(s)
    BY <2>2 DEF GrantsAt
  <2>4. g = h
    BY <2>1, <2>2, <2>3 DEF IdsUnique, GrantsStay
  <2>5. effect'[s][Create].external_id = OrganizationId(s)
    BY <2>1, RecordsStay DEF OrganizationId
  <2> QED BY <2>3, <2>4, <2>5
<1> QED BY <1>2, <1>3

\* A grant stays unless its own revocation takes it away.
LEMMA GrantStays ==
    ASSUME TypeOK, SagasConsistent, RecordedIdsSound, IdsUnique, CallsOwned, GrantsRecorded,
           [ProvisioningNext]_allvars, NEW s \in Sagas, effect[s][Create].state = "applied",
           NEW g \in grants, g.organization_id = OrganizationId(s)
    PROVE  \/ g \in grants'
           \/ /\ effect' = effect /\ PutOf(s, g.ordinal).state = "applied"
              /\ effect[s][Revoke(g.ordinal)].state # "absent"
<1>1. CASE GrantsStay
  BY <1>1 DEF GrantsStay
<1>2. CASE GrantComes
  BY <1>2 DEF GrantComes
<1>3. ASSUME NEW c \in calls, IsRevoke(c), GrantGoes(c.record.external_id), effect' = effect,
             g \notin grants'
      PROVE  /\ PutOf(s, g.ordinal).state = "applied"
             /\ effect[s][Revoke(g.ordinal)].state # "absent"
  <2>1. g.id = c.record.external_id
    BY <1>3 DEF GrantGoes
  <2> QED BY <1>3, <2>1, RevokedMeans
<1> QED BY <1>1, <1>2, <1>3, GrantsCome

\* GrantsInForce is inductive.
LEMMA GrantsInForceStep ==
    ASSUME TypeOK, SagasConsistent, RecordedIdsSound, IdsUnique, CallsOwned, GrantsRecorded,
           AnswersInForce, GrantsInForce, [Next]_vars, [ProvisioningNext]_allvars,
           \A s \in Sagas, e \in Slots : RowComes(s, e)
    PROVE  GrantsInForce'
<1> SUFFICES ASSUME NEW s \in Sagas, NEW i \in Ordinals, effect'[s][Put(i)].state = "applied",
                    effect'[s][Revoke(i)].state = "absent"
             PROVE  \E g \in grants' : /\ g.organization_id = effect'[s][Create].external_id
                                       /\ g.ordinal = i
                                       /\ g.id = effect'[s][Put(i)].external_id
  BY DEF GrantsInForce, PutOf, OrganizationId, GrantsAt
<1>1. Put(i) \in Slots /\ Create \in Slots /\ Revoke(i) \in Slots
  BY SlotFacts
<1>2. CASE PutOf(s, i).state = "applied"
  <2>1. effect'[s][Put(i)] = PutOf(s, i)
    BY <1>2, RecordsStay DEF PutOf
  <2>2. effect[s][Create].state = "applied" /\ effect'[s][Create].external_id = OrganizationId(s)
    BY <1>2, PutMeans, RecordsStay DEF OrganizationId
  <2>3. effect[s][Revoke(i)].state = "absent"
    <3>1. RowComes(s, Revoke(i))
      BY <1>1
    <3> QED BY <3>1 DEF RowComes, RowStays, RowOpens, RowSkipped, RowConfirmed, RowAnswered
  <2>4. PICK g \in GrantsAt(OrganizationId(s), i) : g.id = PutOf(s, i).external_id
    BY <1>2, <2>3 DEF GrantsInForce
  <2>5. g \in grants /\ g.organization_id = OrganizationId(s) /\ g.ordinal = i
    BY <2>4 DEF GrantsAt
  <2>6. g \in grants'
    BY <2>2, <2>3, <2>5, GrantStays
  <2> QED BY <2>1, <2>2, <2>4, <2>5, <2>6
<1>3. CASE PutOf(s, i).state # "applied"
  <2>1. GrantsStay /\ effect[s][Create].state = "applied"
    BY <1>1, <1>3, PutRecorded
  <2>2. PICK h \in GrantsAt(OrganizationId(s), i) : h.id = effect'[s][Put(i)].external_id
    BY <1>1, <1>3, PutRecorded
  <2>3. effect'[s][Create].external_id = OrganizationId(s)
    BY <2>1, RecordsStay DEF OrganizationId
  <2> QED BY <2>1, <2>2, <2>3 DEF GrantsAt, GrantsStay
<1> QED BY <1>2, <1>3

\* An answer that is new in this step is a provider's.
LEMMA AnswersCome ==
    ASSUME TypeOK, CallsFit, [ProvisioningNext]_allvars, NEW d \in calls', d \notin calls,
           d.reply # NULL
    PROVE  AnswerTrue(d)'
<1>1. CASE \E c \in calls : Serve(c)
  BY <1>1, ServedTrue
<1>2. ASSUME NEW r \in held, Send(r)
      PROVE  d.reply = NULL
  BY <1>2 DEF Send
<1>3. CASE Quiet \/ (\E s \in Sagas, e \in Slots : Claimed(s, e)) \/ \E r \in held : Dropped(r)
  BY <1>3 DEF Quiet, Claimed, Dropped, Forget
<1> QED BY <1>1, <1>2, <1>3, CallsCome

\* AnswersInForce is inductive.
LEMMA AnswersInForceStep ==
    ASSUME TypeOK, SagasConsistent, SagasConsistent', RecordedIdsSound, IdsUnique, CallsFit,
           CallsOwned, GrantsRecorded, AnswersInForce, [Next]_vars, [ProvisioningNext]_allvars,
           \A s \in Sagas, e \in Slots : RowComes(s, e)
    PROVE  AnswersInForce'
<1> SUFFICES ASSUME NEW d \in calls', IsPut(d), d.reply # NULL, Current(d.record)',
                    d.reply.state = "applied"
             PROVE  \E g \in grants' : /\ g.organization_id = d.record.organization_id
                                       /\ g.ordinal = d.record.slot[2]
                                       /\ g.id = d.reply.id
  BY DEF AnswersInForce, AnswerInForce, GrantsAt, IsPut
<1>1. CASE d \notin calls
  BY <1>1, AnswersCome DEF AnswerTrue, AnswerInForce, GrantsAt, IsPut
<1>2. CASE d \in calls
  <2>1. /\ d.record \in HeldRecord /\ d.record.saga \in Sagas /\ d.record.slot \in Slots
        /\ InputsSound(d.record) /\ Attempted(d.record)
    BY <1>2 DEF CallsOwned, CallSound, HeldRecord
  <2> DEFINE s == d.record.saga
             i == d.record.slot[2]
  <2>2. i \in Ordinals /\ d.record.slot = Put(i)
    BY <2>1, SlotKinds DEF IsPut
  <2>3. Current(d.record)
    BY <2>1, CurrentBefore
  <2>4. PICK g \in GrantsAt(d.record.organization_id, i) : g.id = d.reply.id
    BY <1>2, <2>3 DEF AnswersInForce, AnswerInForce
  <2>5. g \in grants /\ g.organization_id = d.record.organization_id /\ g.ordinal = i
    BY <2>4 DEF GrantsAt
  <2>6. effect[s][Create].state = "applied" /\ d.record.organization_id = OrganizationId(s)
    BY <2>1 DEF InputsSound, IsPut, OrganizationId
  <2>7. PutOf(s, i).state = "in_flight"
    BY <2>2, <2>3 DEF Current, PutOf
  <2>8. g \in grants'
    BY <2>1, <2>5, <2>6, <2>7, GrantStays
  <2> QED BY <2>4, <2>5, <2>8
<1> QED BY <1>1, <1>2

\* An id that is recorded comes into force only once.
LEMMA NoGrantStays ==
    ASSUME TypeOK, [ProvisioningNext]_allvars, NEW s \in Sagas, NEW i \in Ordinals,
           NoGrantHas(PutOf(s, i).external_id)
    PROVE  \A g \in grants' : g.id # PutOf(s, i).external_id
<1>1. Put(i) \in Slots
  BY SlotFacts
<1>2. CASE GrantsStay \/ \E id : GrantGoes(id)
  BY <1>2 DEF GrantsStay, GrantGoes, NoGrantHas
<1>3. CASE GrantComes
  BY <1>1, <1>3 DEF GrantComes, NewGrantId, NoGrantHas, PutOf
<1> QED BY <1>2, <1>3, GrantsCome

\* GrantsRevoked is inductive.
LEMMA GrantsRevokedStep ==
    ASSUME TypeOK, SagasConsistent, CallsFit, CallsOwned, GrantsRevoked,
           [Next]_vars, [ProvisioningNext]_allvars,
           \A s \in Sagas, e \in Slots : RowComes(s, e)
    PROVE  GrantsRevoked'
<1>1. ASSUME NEW s \in Sagas, NEW i \in Ordinals, effect'[s][Revoke(i)].state = "compensated"
      PROVE  \A g \in grants' : g.id # effect'[s][Put(i)].external_id
  <2> DEFINE e == Revoke(i)
  <2>1. e \in Slots /\ e[1] = "revoke_entitlement" /\ e[2] = i
    BY SlotFacts
  <2>2. RowComes(s, e)
    BY <2>1
  <2>3. /\ PutOf(s, i).state = "applied"
        /\ NoGrantHas(PutOf(s, i).external_id)
    <3>1. CASE RowStays(s, e)
      <4>1. effect[s][e].state = "compensated"
        BY <1>1, <3>1 DEF RowStays
      <4> QED BY <4>1, PutMeans DEF GrantsRevoked
    <3>2. ASSUME NEW c \in calls, RowAnswered(s, e, c)
          PROVE  /\ PutOf(s, i).state = "applied"
                 /\ NoGrantHas(PutOf(s, i).external_id)
      <4>1. /\ c.reply # NULL /\ c.reply.state = "compensated"
            /\ c.record.saga = s /\ c.record.slot = e
        BY <1>1, <3>2 DEF RowAnswered
      <4>2. NoGrantHas(c.record.external_id)
        BY <2>1, <4>1 DEF GrantsRevoked, IsRevoke
      <4> QED BY <2>1, <4>1, <4>2 DEF CallsOwned, CallSound, InputsSound, PutOf
    <3>3. CASE RowConfirmed(s, e)
      <4>1. /\ effect[s][e].state = "unknown"
            /\ \A g \in grants : g.id # effect[s][e].external_id
        BY <2>1, <3>3 DEF RowConfirmed
      <4> QED BY <4>1, PutMeans DEF NoGrantHas
    <3>4. ~ RowOpens(s, e) /\ ~ RowSkipped(s, e)
      BY <1>1 DEF RowOpens, RowSkipped
    <3> QED BY <2>2, <3>1, <3>2, <3>3, <3>4 DEF RowComes
  <2>4. effect'[s][Put(i)] = PutOf(s, i)
    BY <2>3, RecordsStay DEF PutOf
  <2> QED BY <2>3, <2>4, NoGrantStays
<1>2. ASSUME NEW d \in calls', IsRevoke(d), d.reply # NULL, d.reply.state = "compensated"
      PROVE  \A g \in grants' : g.id # d.record.external_id
  <2>1. CASE d \notin calls
    BY <1>2, <2>1, AnswersCome DEF AnswerTrue, NoGrantHas, IsRevoke
  <2>2. CASE d \in calls
    <3> DEFINE s == d.record.saga
               i == d.record.slot[2]
    <3>1. s \in Sagas /\ d.record.slot \in Slots /\ InputsSound(d.record)
      BY <2>2 DEF CallsOwned, CallSound, HeldRecord
    <3>2. i \in Ordinals
      BY <1>2, <3>1, SlotKinds DEF IsRevoke
    <3>3. d.record.external_id = PutOf(s, i).external_id
      BY <1>2, <3>1 DEF InputsSound, IsRevoke, PutOf
    <3>4. NoGrantHas(PutOf(s, i).external_id)
      BY <1>2, <2>2, <3>3 DEF GrantsRevoked
    <3> QED BY <3>1, <3>2, <3>3, <3>4, NoGrantStays
  <2> QED BY <2>1, <2>2
<1> QED BY <1>1, <1>2 DEF GrantsRevoked, NoGrantHas, IsRevoke, PutOf
-----------------------------------------------------------------------------
(* The inductive invariant of the sagas with their providers, and what     *)
(* follows from it.                                                        *)

DecisionsKept == \A s \in Sagas, e \in Slots : DecisionsSound(s, e)
ProvidersInvariant ==
    /\ ProvisioningInvariant /\ DecisionsKept
    /\ CallsOwned /\ MadeSound /\ FinishedSound
    /\ IdsUnique /\ GrantsRecorded /\ GrantsInForce /\ AnswersInForce /\ GrantsRevoked
StorageInvariants == TypeOK /\ SagasConsistent /\ WorkerInvariant

\* It holds before any saga is started.
LEMMA ProvidersInit == ProvisioningInit => ProvidersInvariant
<1> SUFFICES ASSUME ProvisioningInit
             PROVE  ProvidersInvariant
  OBVIOUS
<1>1. /\ calls = {} /\ organizations = {} /\ grants = {} /\ held = {}
      /\ saga = [s \in Sagas |-> NoSaga]
      /\ \A s \in Sagas : activity[s] = << >> /\ effect[s] = [e \in Slots |-> NoEffect]
  BY DEF ProvisioningInit, Init
<1>2. ProvisioningInvariant
  BY <1>1 DEF ProvisioningInvariant, CallsFit, OrganizationsUnique, AnsweredIdsSound,
              RecordedIdsSound, NoSaga
<1>3. \A s \in Sagas, e \in Slots : /\ effect[s][e].attempts = 0
                                    /\ effect[s][e].state = "absent"
  BY <1>1 DEF NoEffect
<1>4. DecisionsKept
  <2> SUFFICES ASSUME NEW s \in Sagas, NEW e \in Slots
               PROVE  DecisionsSound(s, e)
    BY DEF DecisionsKept
  <2>1. Claims(activity[s], e) = {}
    BY <1>1 DEF Claims
  <2>2. IsFiniteSet(Claims(activity[s], e)) /\ Cardinality(Claims(activity[s], e)) = 0
    BY <2>1, FS_EmptySet
  <2>3. \A k : k \notin 1 .. 0
    OBVIOUS
  <2> QED BY <1>3, <2>2, <2>3 DEF DecisionsSound, ClaimsCounted
<1>5. CallsOwned /\ MadeSound
  BY <1>1 DEF CallsOwned, MadeSound, Made
<1>6. FinishedSound
  BY <1>3 DEF FinishedSound, Over
<1>7. IdsUnique /\ GrantsRecorded /\ AnswersInForce
  BY <1>1 DEF IdsUnique, GrantsRecorded, AnswersInForce
<1>8. GrantsInForce /\ GrantsRevoked
  BY <1>1, <1>3, SlotFacts DEF GrantsInForce, GrantsRevoked, PutOf
<1> QED BY <1>2, <1>4, <1>5, <1>6, <1>7, <1>8 DEF ProvidersInvariant

\* Every step keeps it.
LEMMA ProvidersStep ==
    /\ StorageInvariants /\ StorageInvariants' /\ ProvidersInvariant
    /\ [ProvisioningNext]_allvars
    => ProvidersInvariant'
<1> SUFFICES ASSUME StorageInvariants, StorageInvariants', ProvidersInvariant,
                    [ProvisioningNext]_allvars
             PROVE  ProvidersInvariant'
  OBVIOUS
<1>1. /\ TypeOK /\ SagasConsistent /\ WorkerInvariant
      /\ TypeOK' /\ SagasConsistent' /\ WorkerInvariant'
  BY DEF StorageInvariants
<1>2. /\ CallsFit /\ OrganizationsUnique /\ AnsweredIdsSound /\ RecordedIdsSound
      /\ CallsOwned /\ MadeSound /\ FinishedSound /\ IdsUnique /\ GrantsRecorded
      /\ GrantsInForce /\ AnswersInForce /\ GrantsRevoked
      /\ \A s \in Sagas, e \in Slots : DecisionsSound(s, e)
  BY DEF ProvidersInvariant, ProvisioningInvariant, DecisionsKept
<1>3. [Next]_vars
  BY <1>2, StepImplements
<1>4. \A s \in Sagas, e \in Slots : RowComes(s, e)
  BY <1>1, <1>2, RowsCome
<1>5. ProvisioningInvariant'
  BY <1>1, <1>2, CallsFitStep, ProvidersSound, RecordedIdsStep DEF ProvisioningInvariant
<1>6. DecisionsKept'
  <2>1. ASSUME NEW s \in Sagas, NEW e \in Slots
        PROVE  DecisionsSound(s, e)'
    BY <1>1, <1>2, <1>3, DecisionsStep
  <2> QED BY <2>1 DEF DecisionsKept
<1>7. CallsOwned'
  BY <1>1, <1>2, CallsOwnedStep
<1>8. MadeSound'
  BY <1>1, <1>2, MadeSoundStep
<1>9. FinishedSound'
  BY <1>1, <1>2, <1>7, <1>8, FinishedStep
<1>10. IdsUnique' /\ GrantsRecorded'
  BY <1>1, <1>2, <1>3, <1>4, IdsUniqueStep, GrantsRecordedStep
<1>11. GrantsInForce'
  BY <1>1, <1>2, <1>3, <1>4, GrantsInForceStep
<1>12. AnswersInForce'
  BY <1>1, <1>2, <1>3, <1>4, AnswersInForceStep
<1>13. GrantsRevoked'
  BY <1>1, <1>2, <1>3, <1>4, GrantsRevokedStep
<1> QED BY <1>5, <1>6, <1>7, <1>8, <1>9, <1>10, <1>11, <1>12, <1>13 DEF ProvidersInvariant

\* The invariants of Storage hold with the providers in place, and so does
\* the one about the providers.
LEMMA ProvidersInvariance == ProvisioningSpec => [](StorageInvariants /\ ProvidersInvariant)
<1>1. ProvisioningSpec => []TypeOK /\ []SagasConsistent /\ []WorkerInvariant
  BY ProvisioningImplements, Typing, Consistency, WorkerInvariance DEF ImplementsStorage
<1>2. TypeOK /\ SagasConsistent /\ WorkerInvariant <=> StorageInvariants
  BY DEF StorageInvariants
<1> QED BY <1>1, <1>2, ProvidersInit, ProvidersStep, PTL DEF ProvisioningSpec

\* A saga whose work is done or given up shows the organization that exists
\* as residue, whatever became of the calls that created it, unless an
\* operator decided about its creation.
THEOREM Residue == ProvisioningSpec => []ResidueIsKnown
<1>1. StorageInvariants /\ ProvidersInvariant => ResidueIsKnown
  BY ResidueFollows DEF StorageInvariants, ProvidersInvariant, DecisionsKept
<1> QED BY <1>1, ProvidersInvariance, PTL

\* After a completed cleanup no grant of the saga is in force but one that was
\* put by an attempt an operator had decided about: a call that outlives its
\* worker's lease cannot slip past the cleanup on its own.
THEOREM NoLeftovers == ProvisioningSpec => []NoGrantOutlivesCleanup
<1>1. ASSUME StorageInvariants, ProvidersInvariant, NEW g \in grants,
             saga[g.saga].status = "cleanup_completed"
      PROVE  DecidedAfter(g.saga, Put(g.ordinal), g.attempt)
  <2> DEFINE s == g.saga
             i == g.ordinal
             m == [saga |-> s, slot |-> Put(i), attempt |-> g.attempt, id |-> g.id]
  <2>1. TypeOK /\ SagasConsistent /\ MadeSound /\ FinishedSound /\ GrantsRevoked
        /\ \A t \in Sagas, e \in Slots : DecisionsSound(t, e)
    BY <1>1 DEF StorageInvariants, ProvidersInvariant, DecisionsKept
  <2>2. m \in Made /\ s \in Sagas /\ Put(i) \in Slots
    <3>1. m \in Made
      BY DEF Made
    <3> QED BY <2>1, <3>1 DEF MadeSound, MadeOwned
  <2>3. i \in Ordinals
    BY <2>2, SlotKinds DEF Put
  <2>4. saga[s].cleanup_requested
    BY <1>1, <2>1, <2>2, SummaryFollows DEF StatusSummarizesEffects
  <2>5. /\ effect[s][Put(i)].state \in {"absent", "applied", "skipped"}
        /\ effect[s][Put(i)].state = "applied" => effect[s][Revoke(i)].state = "compensated"
    BY <1>1, <2>1, <2>2, <2>3, <2>4, CleanupFollows DEF CleanupCoversGrants
  <2>6. effect[s][Put(i)].state = "applied" => g.id # effect[s][Put(i)].external_id
    BY <2>1, <2>2, <2>3, <2>5 DEF GrantsRevoked, NoGrantHas, PutOf
  <2>7. m.saga = s /\ m.slot = Put(i) /\ m.attempt = g.attempt /\ m.id = g.id
    OBVIOUS
  <2> HIDE DEF m, s, i
  <2>8. DecidedAfter(s, Put(i), g.attempt)
    BY <2>1, <2>2, <2>5, <2>6, <2>7, MadeMeans
  <2> QED BY <2>8 DEF s, i
<1>2. StorageInvariants /\ ProvidersInvariant => NoGrantOutlivesCleanup
  BY <1>1 DEF NoGrantOutlivesCleanup
<1> QED BY <1>2, ProvidersInvariance, PTL

\* What a completed saga says it provided is there: the organization, and every
\* grant it asked for, in force there under the id that was recorded.
THEOREM Provision == ProvisioningSpec => []CompletedMeansProvided
<1>1. ASSUME StorageInvariants, ProvidersInvariant, NEW s \in Sagas,
             saga[s].status = "completed"
      PROVE  /\ \E o \in organizations : o.saga = s /\ o.id = saga[s].organization_id
             /\ \A i \in Ordinals :
                   effect[s][Put(i)].state # "absent" =>
                       \E g \in GrantsAt(saga[s].organization_id, i) :
                           g.id = effect[s][Put(i)].external_id
  <2>1. TypeOK /\ SagasConsistent /\ RecordedIdsSound /\ GrantsInForce
    BY <1>1 DEF StorageInvariants, ProvidersInvariant, ProvisioningInvariant
  <2>2. /\ ~ saga[s].cleanup_requested
        /\ InState(effect[s], FALSE, {"absent", "applied", "compensated"}) = Phase(FALSE)
    <3>1. /\ InState(effect[s], saga[s].cleanup_requested, {"absent", "applied", "compensated"})
                = Phase(saga[s].cleanup_requested)
          /\ saga[s].cleanup_requested <=>
                saga[s].status \in {"cleanup_pending", "cleanup_running",
                                    "cleanup_completed", "cleanup_failed"}
      BY <1>1, <2>1, SummaryFollows DEF StatusSummarizesEffects
    <3>2. ~ saga[s].cleanup_requested
      BY <1>1, <3>1
    <3>3. saga[s].cleanup_requested = FALSE
      BY <2>1, <3>2 DEF TypeOK, SagaRow
    <3> QED BY <3>1, <3>3
  <2>3. EffectsConsistent(saga[s], effect[s]) /\ StatusConsistent(saga[s], effect[s])
    BY <1>1, <2>1, StoredMeans DEF TypeOK, SagasConsistent
  <2>4. \A e \in Slots : e[1] # "revoke_entitlement" =>
            effect[s][e].state \in {"absent", "applied", "compensated"}
    BY <2>2 DEF InState, Phase
  <2>5. effect[s][Create].state = "applied"
    BY <2>3, <2>4, SlotFacts DEF StatusConsistent, EffectsConsistent, KindsAgree
  <2>6. saga[s].organization_id # NULL /\ saga[s].organization_id = OrganizationId(s)
    BY <2>3, <2>5 DEF EffectsConsistent, OrganizationFirst, OrganizationId
  <2>7. \E o \in organizations : o.saga = s /\ o.id = saga[s].organization_id
    BY <2>1, <2>6 DEF RecordedIdsSound, OrganizationOf
  <2>8. ASSUME NEW i \in Ordinals, effect[s][Put(i)].state # "absent"
        PROVE  \E g \in GrantsAt(saga[s].organization_id, i) : g.id = effect[s][Put(i)].external_id
    <3>1. effect[s][Put(i)].state = "applied"
      BY <2>3, <2>4, <2>8, SlotFacts DEF EffectsConsistent, KindsAgree
    <3>2. effect[s][Revoke(i)].state = "absent"
      BY <2>2, <2>3 DEF EffectsConsistent, CleanupMirrors
    <3> QED BY <2>1, <2>6, <3>1, <3>2 DEF GrantsInForce, PutOf
  <2> QED BY <2>7, <2>8
<1>2. StorageInvariants /\ ProvidersInvariant => CompletedMeansProvided
  BY <1>1 DEF CompletedMeansProvided
<1> QED BY <1>2, ProvidersInvariance, PTL
=============================================================================
