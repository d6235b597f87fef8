------------------------ MODULE StorageHistoryProofs ------------------------
(***************************************************************************)
(* What a step of Storage does to the history of a saga: it leaves it, or  *)
(* adds one revision and one row to the log and keeps what is settled.     *)
(* From that: what the records workers hold are worth, however stale, and  *)
(* that the mutation ledger and the activity log tell one story.           *)
(***************************************************************************)
EXTENDS StorageProofs

Settled(row) == row.state \in {"applied", "compensated", "skipped"}

Waiting(row) == row.state \in {"absent", "pending"}

\* What a transaction that logs kind for slot e makes of the attempts of slot f.
AttemptsAfter(s, kind, e, f) ==
    IF kind = "effect_claimed" /\ e = f THEN effect[s][f].attempts + 1 ELSE effect[s][f].attempts

\* A transaction that logs kind for slot e raises the revision, keeps what is
\* settled, counts an attempt only for a claim, and makes a slot wait for a
\* claim (again) only by retrying it.
Keeps(s, kind, e) ==
    /\ saga'[s].revision = saga[s].revision + 1
    /\ \A f \in Slots :
          /\ Settled(effect[s][f]) => effect'[s][f] = effect[s][f]
          /\ effect'[s][f].attempts = AttemptsAfter(s, kind, e, f)
          /\ Waiting(effect'[s][f]) =>
                Waiting(effect[s][f]) \/ (kind = "provisioning_retried" /\ e = f)
    /\ kind = "effect_claimed" =>
          e \in Slots /\ Waiting(effect[s][e]) /\ ~ Waiting(effect'[s][e])

Advances(s) ==
    \E kind \in ActivityKinds, e \in Slots \cup {NULL} :
       /\ Keeps(s, kind, e)
       /\ activity'[s] = Append(activity[s],
                            [kind |-> kind, effect |-> e, revision |-> saga'[s].revision])

Rests(s) ==
    /\ saga'[s] = saga[s] /\ activity'[s] = activity[s]
    /\ \A e \in Slots :
          \/ effect'[s][e] = effect[s][e]
          \/ /\ effect[s][e].state = "in_flight"
             /\ effect'[s][e] = [effect[s][e] EXCEPT !.lease_until = "past"]
-----------------------------------------------------------------------------
\* An action that logs a row for one saga leaves the logs of the others.
LEMMA LogMeans ==
    ASSUME TypeOK, NEW s \in Sagas, NEW kind \in ActivityKinds, NEW e \in Slots \cup {NULL},
           Log(s, kind, e), Keeps(s, kind, e),
           \A t \in Sagas : t # s => saga'[t] = saga[t] /\ effect'[t] = effect[t]
    PROVE  \A t \in Sagas : Advances(t) \/ Rests(t)
<1>1. activity'[s] = Append(activity[s],
                        [kind |-> kind, effect |-> e, revision |-> saga'[s].revision])
  BY DEF Log, TypeOK
<1>2. Advances(s)
  BY <1>1 DEF Advances
<1>3. \A t \in Sagas : t # s => Rests(t)
  BY DEF Log, Rests, TypeOK
<1>4. QED
  BY <1>2, <1>3

\* Changing one effect that is open or pending.
LEMMA OneEffectKeeps ==
    ASSUME TypeOK, NEW s \in Sagas, NEW kind, NEW e \in Slots, NEW row,
           effect' = [effect EXCEPT ![s][e] = row],
           ~ Settled(effect[s][e]), row.attempts = AttemptsAfter(s, kind, e, e),
           Waiting(row) => kind = "provisioning_retried",
           kind = "effect_claimed" => Waiting(effect[s][e]),
           saga'[s].revision = saga[s].revision + 1
    PROVE  Keeps(s, kind, e)
<1>1. effect'[s][e] = row /\ \A f \in Slots : f # e => effect'[s][f] = effect[s][f]
  BY DEF TypeOK
<1>2. \A f \in Slots : f # e => AttemptsAfter(s, kind, e, f) = effect[s][f].attempts
  BY DEF AttemptsAfter
<1>3. \A f \in Slots :
          /\ Settled(effect[s][f]) => effect'[s][f] = effect[s][f]
          /\ effect'[s][f].attempts = AttemptsAfter(s, kind, e, f)
          /\ Waiting(effect'[s][f]) =>
                Waiting(effect[s][f]) \/ (kind = "provisioning_retried" /\ e = f)
  BY <1>1, <1>2
<1>4. kind = "effect_claimed" => e \in Slots /\ Waiting(effect[s][e]) /\ ~ Waiting(effect'[s][e])
  BY <1>1
<1>5. QED
  BY <1>3, <1>4 DEF Keeps

\* What the updates of one effect do to its attempts and its state.
LEMMA RowsMean ==
    ASSUME NEW old \in EffectRow
    PROVE  /\ ResetEffect(old).attempts = old.attempts
           /\ QuarantinedEffect(old).attempts = old.attempts /\ ~ Waiting(QuarantinedEffect(old))
           /\ ClaimedEffect(old).attempts = old.attempts + 1 /\ ~ Waiting(ClaimedEffect(old))
  BY DEF ResetEffect, QuarantinedEffect, Released, ClaimedEffect, Waiting, EffectRow

\* What settling does to an effect's attempts and its state.
LEMMA SettlingMeans ==
    ASSUME NEW old \in EffectRow, NEW outcome,
           outcome.state \in {"failed", "unknown", "applied", "compensated"}
    PROVE  /\ SettledEffect(old, outcome).attempts = old.attempts
           /\ ~ Waiting(SettledEffect(old, outcome))
  BY DEF SettledEffect, Released, Waiting, EffectRow

\* The revisions the updates write.
LEMMA RevisionsRise ==
    ASSUME NEW p \in SagaRow, NEW e \in Slots, NEW outcome, NEW E
    PROVE  /\ Refresh(WithOrganization(p, e, outcome), E).revision = p.revision + 1
           /\ Refresh(CleaningSaga(p), E).revision = p.revision + 1
           /\ ClaimedSaga(p).revision = p.revision + 1
           /\ QuarantinedSaga(p).revision = p.revision + 1
  BY DEF Refresh, WithOrganization, CleaningSaga, ClaimedSaga, QuarantinedSaga, SagaRow

\* Every step of a saga with consistent rows advances its history by one
\* revision, one log row, or leaves it alone but for the passing of a lease.
LEMMA StepAdvances ==
    TypeOK /\ SagasConsistent /\ [Next]_vars => \A s \in Sagas : Advances(s) \/ Rests(s)
<1>1. SUFFICES ASSUME TypeOK, SagasConsistent, [Next]_vars
               PROVE  \A s \in Sagas : Advances(s) \/ Rests(s)
  OBVIOUS
<1>2. \A s \in Sagas : /\ saga[s] \in SagaRow /\ effect[s] \in [Slots -> EffectRow]
                       /\ Consistent(saga[s], effect[s])
  BY <1>1 DEF TypeOK, SagasConsistent
<1>3. ASSUME NEW s \in Sagas, NEW a \in Actors, NEW n \in 0 .. MaxGrants, NEW k \in Keys,
             Start(s, a, n, k)
      PROVE  \A t \in Sagas : Advances(t) \/ Rests(t)
  <2>1. /\ saga' = [saga EXCEPT ![s] = StartedSaga(a)]
        /\ effect' = [effect EXCEPT ![s] = StartedEffects(n)]
        /\ Log(s, "provisioning_started", NULL)
        /\ saga[s].status = "absent"
    BY <1>3 DEF Start
  <2>2. saga[s] = NoSaga /\ effect[s] = [e \in Slots |-> NoEffect]
    <3>1. ~ StatusConsistent(saga[s], effect[s])
      BY <2>1 DEF StatusConsistent, ExpectedStatus, RefreshedStatus
    <3>2. QED
      BY <1>2, <3>1 DEF Consistent
  <2>3. \A e \in Slots : /\ ~ Settled(effect[s][e]) /\ Waiting(effect[s][e])
                          /\ StartedEffects(n)[e].attempts = effect[s][e].attempts
    BY <2>2 DEF Settled, Waiting, NoEffect, StartedEffects, PendingEffect
  <2>4. saga'[s].revision = saga[s].revision + 1
    BY <1>1, <2>1, <2>2 DEF StartedSaga, NoSaga, TypeOK
  <2>5. \A t \in Sagas : t # s => saga'[t] = saga[t] /\ effect'[t] = effect[t]
    BY <1>1, <2>1 DEF TypeOK
  <2>6. Keeps(s, "provisioning_started", NULL)
    BY <1>1, <2>1, <2>3, <2>4 DEF Keeps, AttemptsAfter, TypeOK
  <2>7. QED
    BY <1>1, <2>1, <2>5, <2>6, LogMeans DEF ActivityKinds
<1>4. ASSUME NEW s \in Sagas, NEW a \in Actors, NEW k \in Keys,
             NEW request \in Requests(s), Retry(s, a, k, request)
      PROVE  \A t \in Sagas : Advances(t) \/ Rests(t)
  <2>1. PICK e \in Selected(saga[s], effect[s]) :
        \E row \in Resolved(saga[s], effect[s][e], e[1], request.resolution, request.observed) :
          /\ effect' = [effect EXCEPT ![s][e] = row]
          /\ saga' = [saga EXCEPT ![s] =
                Refresh(WithOrganization(saga[s], e, [state |-> row.state, id |-> row.external_id]),
                        effect'[s])]
          /\ Log(s, "provisioning_retried", e)
    BY <1>4 DEF Retry
  <2>2. PICK row \in Resolved(saga[s], effect[s][e], e[1], request.resolution, request.observed) :
          /\ effect' = [effect EXCEPT ![s][e] = row]
          /\ saga' = [saga EXCEPT ![s] =
                Refresh(WithOrganization(saga[s], e, [state |-> row.state, id |-> row.external_id]),
                        effect'[s])]
          /\ Log(s, "provisioning_retried", e)
    BY <2>1
  <2>3. e \in Slots /\ ~ Settled(effect[s][e])
    BY DEF Selected, Settled
  <2>4. row.attempts = AttemptsAfter(s, "provisioning_retried", e, e)
    <3>1. saga[s] \in SagaRow /\ effect[s][e] \in EffectRow
      BY <1>2, <2>3
    <3>2. \/ row = ResetEffect(effect[s][e])
          \/ \E o \in Outcomes(e[1]) : /\ row = SettledEffect(effect[s][e], o)
                                       /\ o.state \in {"applied", "compensated"}
      BY <2>3, <3>1, ResolvedType, SMTT(60)
    <3>3. row.attempts = effect[s][e].attempts
      BY <3>1, <3>2, RowsMean, SettlingMeans
    <3>4. QED
      BY <3>3 DEF AttemptsAfter
  <2>5. saga'[s].revision = saga[s].revision + 1
    BY <1>1, <1>2, <2>2, <2>3, RevisionsRise DEF TypeOK
  <2>6. \A t \in Sagas : t # s => saga'[t] = saga[t] /\ effect'[t] = effect[t]
    BY <1>1, <2>2 DEF TypeOK
  <2>7. Keeps(s, "provisioning_retried", e)
    BY <1>1, <2>2, <2>3, <2>4, <2>5, OneEffectKeeps
  <2>8. QED
    BY <1>1, <2>2, <2>3, <2>6, <2>7, LogMeans DEF ActivityKinds
<1>5. ASSUME NEW s \in Sagas, NEW a \in Actors, NEW k \in Keys,
             NEW expected \in 1 .. saga[s].revision, RequestCleanup(s, a, k, expected)
      PROVE  \A t \in Sagas : Advances(t) \/ Rests(t)
  <2>1. /\ effect' = [effect EXCEPT ![s] = CleanedEffects(effect[s])]
        /\ saga' = [saga EXCEPT ![s] = Refresh(CleaningSaga(saga[s]), effect'[s])]
        /\ saga[s].status # "absent" /\ ~ saga[s].cleanup_requested
        /\ Log(s, "cleanup_requested", NULL)
    BY <1>5 DEF RequestCleanup
  <2>2. CleanupMirrors(saga[s], effect[s]) /\ RowsAgree(effect[s])
    BY <1>2, <2>1, StoredMeans DEF EffectsConsistent
  <2>3. \A i \in Ordinals : /\ effect[s][Revoke(i)].state = "absent"
                             /\ effect[s][Revoke(i)].attempts = 0
    BY <2>1, <2>2, SlotFacts DEF CleanupMirrors, RowsAgree
  <2>4. ASSUME NEW e \in Slots
        PROVE  /\ Settled(effect[s][e]) => CleanedEffects(effect[s])[e] = effect[s][e]
               /\ CleanedEffects(effect[s])[e].attempts = effect[s][e].attempts
               /\ Waiting(CleanedEffects(effect[s])[e]) => Waiting(effect[s][e])
    <3>1. effect[s][e] \in EffectRow
      BY <1>2
    <3>2. CASE e[1] = "revoke_entitlement"
      <4>1. effect[s][e].state = "absent" /\ effect[s][e].attempts = 0
        BY <2>3, <3>2, SlotKinds
      <4>2. \/ CleanedEffects(effect[s])[e] = effect[s][e]
            \/ \E id : CleanedEffects(effect[s])[e] = PendingEffect(id)
        BY <3>2 DEF CleanedEffects
      <4>3. QED
        BY <4>1, <4>2 DEF Settled, Waiting, PendingEffect, NoEffect
    <3>3. CASE /\ e[1] = "put_entitlement" /\ effect[s][e].state \in {"pending", "failed"}
      <4>1. CleanedEffects(effect[s])[e] =
               [effect[s][e] EXCEPT !.state = "skipped", !.last_error = "error"]
        BY <3>3 DEF CleanedEffects
      <4>2. QED
        BY <3>1, <3>3, <4>1 DEF Settled, Waiting, EffectRow
    <3>4. CASE /\ e[1] # "revoke_entitlement"
               /\ ~ (e[1] = "put_entitlement" /\ effect[s][e].state \in {"pending", "failed"})
      <4>1. CleanedEffects(effect[s])[e] = effect[s][e]
        BY <3>4 DEF CleanedEffects
      <4>2. QED
        BY <3>1, <4>1 DEF EffectRow
    <3>5. QED
      BY <3>2, <3>3, <3>4
  <2>5. effect'[s] = CleanedEffects(effect[s])
    BY <1>1, <2>1 DEF TypeOK
  <2>6. saga'[s].revision = saga[s].revision + 1
    BY <1>1, <1>2, <2>1, SlotFacts, RevisionsRise DEF TypeOK
  <2>7. \A t \in Sagas : t # s => saga'[t] = saga[t] /\ effect'[t] = effect[t]
    BY <1>1, <2>1 DEF TypeOK
  <2>8. Keeps(s, "cleanup_requested", NULL)
    BY <2>4, <2>5, <2>6 DEF Keeps, AttemptsAfter
  <2>9. QED
    BY <1>1, <2>1, <2>7, <2>8, LogMeans DEF ActivityKinds
<1>6. ASSUME NEW batch \in SUBSET Sagas, QuarantineExpired(batch)
      PROVE  \A t \in Sagas : Advances(t) \/ Rests(t)
  <2>1. PICK victim \in [batch -> Slots] :
          /\ \A s \in batch : victim[s] \in ExpiredEffects(effect[s])
          /\ Quarantine(batch, victim)
    BY <1>6 DEF QuarantineExpired
  <2>2. ASSUME NEW s \in Sagas, s \in batch
        PROVE  Advances(s)
    <3>1. /\ saga'[s] = QuarantinedSaga(saga[s])
          /\ effect'[s] = [effect[s] EXCEPT ![victim[s]] = QuarantinedEffect(effect[s][victim[s]])]
          /\ activity'[s] = Append(activity[s], [kind |-> "effect_outcome_unknown",
                                                 effect |-> victim[s],
                                                 revision |-> saga'[s].revision])
      BY <2>1, <2>2 DEF Quarantine
    <3>2. victim[s] \in Slots /\ ~ Settled(effect[s][victim[s]])
      BY <2>1, <2>2 DEF ExpiredEffects, Settled
    <3>3. saga'[s].revision = saga[s].revision + 1
      BY <1>2, <3>1, SlotFacts, RevisionsRise
    <3>4. \A f \in Slots : effect[s][f] \in EffectRow /\ effect[s][f].attempts \in Nat
      BY <1>2 DEF EffectRow
    <3>5. \A f \in Slots :
             /\ Settled(effect[s][f]) => effect'[s][f] = effect[s][f]
             /\ effect'[s][f].attempts = effect[s][f].attempts
             /\ Waiting(effect'[s][f]) => Waiting(effect[s][f])
      BY <1>2, <3>1, <3>2, <3>4, RowsMean
    <3>6. Keeps(s, "effect_outcome_unknown", victim[s])
      BY <3>3, <3>5 DEF Keeps, AttemptsAfter
    <3>7. QED
      BY <3>1, <3>2, <3>6 DEF Advances, ActivityKinds
  <2>3. ASSUME NEW s \in Sagas, s \notin batch
        PROVE  Rests(s)
    BY <2>1, <2>3 DEF Quarantine, Rests
  <2>4. QED
    BY <2>2, <2>3
<1>7. ASSUME NEW s \in Sagas, ClaimNext(s)
      PROVE  \A t \in Sagas : Advances(t) \/ Rests(t)
  <2>1. PICK e \in Slots : IsNext(saga[s], effect[s], e) /\ Claim(s, e)
    BY <1>7 DEF ClaimNext
  <2>2. /\ effect' = [effect EXCEPT ![s][e] = ClaimedEffect(@)]
        /\ saga' = [saga EXCEPT ![s] = ClaimedSaga(@)]
        /\ Log(s, "effect_claimed", e)
    BY <2>1 DEF Claim
  <2>3. /\ ~ Settled(effect[s][e]) /\ Waiting(effect[s][e])
        /\ effect' = [effect EXCEPT ![s][e] = ClaimedEffect(effect[s][e])]
    BY <2>1, <2>2 DEF IsNext, PendingIn, Settled, Waiting
  <2>4. ClaimedEffect(effect[s][e]).attempts = AttemptsAfter(s, "effect_claimed", e, e)
    BY <1>2, RowsMean DEF AttemptsAfter
  <2>5. saga'[s].revision = saga[s].revision + 1
    BY <1>1, <1>2, <2>2, RevisionsRise DEF TypeOK
  <2>6. \A t \in Sagas : t # s => saga'[t] = saga[t] /\ effect'[t] = effect[t]
    BY <1>1, <2>2 DEF TypeOK
  <2>7. Keeps(s, "effect_claimed", e)
    <3>1. ~ Waiting(ClaimedEffect(effect[s][e]))
      BY <1>2, RowsMean
    <3>2. QED
      BY <1>1, <2>3, <2>4, <2>5, <3>1, OneEffectKeeps
  <2>8. QED
    BY <1>1, <2>2, <2>6, <2>7, LogMeans DEF ActivityKinds
<1>8. ASSUME NEW r \in held, NEW outcome \in Answers(r), FinalizeEffect(r, outcome)
      PROVE  \A t \in Sagas : Advances(t) \/ Rests(t)
  <2>1. /\ r.saga \in Sagas /\ r.slot \in Slots
        /\ outcome.state \in {"failed", "unknown", "applied", "compensated"}
    BY <1>1, AnswersAreOutcomes, OutcomeType DEF TypeOK, HeldRecord
  <2>2. /\ effect[r.saga][r.slot].state = "in_flight"
        /\ effect' = [effect EXCEPT ![r.saga][r.slot] = SettledEffect(@, outcome)]
        /\ saga' = [saga EXCEPT ![r.saga] =
              Refresh(WithOrganization(saga[r.saga], r.slot, outcome), effect'[r.saga])]
        /\ Log(r.saga, OutcomeActivity[outcome.state], r.slot)
    BY <1>8 DEF FinalizeEffect, Current
  <2>3. /\ OutcomeActivity[outcome.state] \in ActivityKinds
        /\ OutcomeActivity[outcome.state] # "effect_claimed"
    BY <2>1 DEF OutcomeActivity, ActivityKinds
  <2>4. /\ ~ Settled(effect[r.saga][r.slot])
        /\ effect' = [effect EXCEPT ![r.saga][r.slot] =
                          SettledEffect(effect[r.saga][r.slot], outcome)]
        /\ SettledEffect(effect[r.saga][r.slot], outcome).attempts
              = AttemptsAfter(r.saga, OutcomeActivity[outcome.state], r.slot, r.slot)
        /\ ~ Waiting(SettledEffect(effect[r.saga][r.slot], outcome))
    <3>1. effect[r.saga][r.slot] \in EffectRow
      BY <1>2, <2>1
    <3>2. /\ SettledEffect(effect[r.saga][r.slot], outcome).attempts
                = effect[r.saga][r.slot].attempts
          /\ ~ Waiting(SettledEffect(effect[r.saga][r.slot], outcome))
      BY <2>1, <3>1, SettlingMeans
    <3>3. QED
      BY <2>2, <2>3, <3>2 DEF Settled, AttemptsAfter
  <2>5. saga'[r.saga].revision = saga[r.saga].revision + 1
    BY <1>1, <1>2, <2>1, <2>2, RevisionsRise DEF TypeOK
  <2>6. \A t \in Sagas : t # r.saga => saga'[t] = saga[t] /\ effect'[t] = effect[t]
    BY <1>1, <2>2 DEF TypeOK
  <2>7. Keeps(r.saga, OutcomeActivity[outcome.state], r.slot)
    BY <1>1, <2>1, <2>3, <2>4, <2>5, OneEffectKeeps
  <2>8. QED
    BY <1>1, <2>1, <2>2, <2>3, <2>6, <2>7, LogMeans
<1>9. ASSUME NEW r \in held, FinalizeSuperseded(r) \/ WorkerLost(r)
      PROVE  \A t \in Sagas : Rests(t)
  BY <1>9 DEF FinalizeSuperseded, WorkerLost, Rests
<1>10. ASSUME NEW s \in Sagas, NEW e \in Slots, LeaseExpires(s, e)
       PROVE  \A t \in Sagas : Rests(t)
  <2>1. /\ effect[s][e].state = "in_flight" /\ saga' = saga /\ activity' = activity
        /\ effect' = [effect EXCEPT ![s][e] = [@ EXCEPT !.lease_until = "past"]]
    BY <1>10 DEF LeaseExpires
  <2>2. QED
    BY <1>1, <2>1 DEF Rests, TypeOK
<1>11. CASE UNCHANGED vars
  BY <1>11 DEF vars, Rests
<1>12. QED
  BY <1>1, <1>3, <1>4, <1>5, <1>6, <1>7, <1>8, <1>9, <1>10, <1>11 DEF Next
-----------------------------------------------------------------------------
\* What a resting saga's effects show of the versioning.
LEMMA RestingMeans ==
    ASSUME NEW row \in EffectRow, NEW new,
           new = row \/ new = [row EXCEPT !.lease_until = "past"]
    PROVE  new = [row EXCEPT !.lease_until = new.lease_until]
  BY DEF EffectRow

\* No late answer, quarantine, retry or cleanup ever changes an effect that is
\* applied, compensated or skipped.
THEOREM SettledFinality == Spec => SettledEffectsAreFinal
<1>1. TypeOK /\ SagasConsistent /\ [Next]_vars =>
         [\A s \in Sagas, e \in Slots :
             effect[s][e].state \in {"applied", "compensated", "skipped"} =>
                 effect'[s][e] = effect[s][e]]_vars
  BY StepAdvances DEF Advances, Keeps, Rests, Settled
<1>2. QED
  BY <1>1, Typing, Consistency, PTL DEF Spec, SettledEffectsAreFinal

\* Whatever changes a saga or its effects, but for the passing of a lease,
\* raises its revision by one.
THEOREM Versioning == Spec => EveryChangeIsVersioned
<1>1. TypeOK /\ SagasConsistent /\ [Next]_vars =>
         [\A s \in Sagas :
             \/ saga'[s].revision = saga[s].revision + 1
             \/ /\ saga'[s] = saga[s]
                /\ \A e \in Slots :
                     effect'[s][e] = [effect[s][e] EXCEPT !.lease_until = effect'[s][e].lease_until]]_vars
  <2>1. SUFFICES ASSUME TypeOK, SagasConsistent, [Next]_vars, NEW s \in Sagas
                 PROVE  \/ saga'[s].revision = saga[s].revision + 1
                        \/ /\ saga'[s] = saga[s]
                           /\ \A e \in Slots : effect'[s][e] =
                                [effect[s][e] EXCEPT !.lease_until = effect'[s][e].lease_until]
    OBVIOUS
  <2>2. CASE Advances(s)
    BY <2>2 DEF Advances, Keeps
  <2>3. CASE Rests(s)
    <3>1. \A e \in Slots : effect[s][e] \in EffectRow
      BY <2>1 DEF TypeOK
    <3>2. QED
      BY <2>3, <3>1, RestingMeans DEF Rests
  <2>4. QED
    BY <2>1, <2>2, <2>3, StepAdvances
<1>2. QED
  BY <1>1, Typing, Consistency, PTL DEF Spec, EveryChangeIsVersioned

\* The log covers the revisions of a saga after a step if it did before.
LEMMA HistoryGrows ==
    TypeOK /\ SagasConsistent /\ ActivityCoversRevisions /\ [Next]_vars => ActivityCoversRevisions'
<1>1. SUFFICES ASSUME TypeOK, SagasConsistent, ActivityCoversRevisions, [Next]_vars,
                      NEW s \in Sagas
               PROVE  /\ Len(activity'[s]) = saga'[s].revision
                      /\ \A i \in DOMAIN activity'[s] : activity'[s][i].revision = i
  BY DEF ActivityCoversRevisions
<1>2. /\ activity[s] \in Seq(ActivityRow) /\ saga[s].revision \in Nat
      /\ Len(activity[s]) = saga[s].revision
      /\ \A i \in DOMAIN activity[s] : activity[s][i].revision = i
  BY <1>1 DEF TypeOK, SagaRow, ActivityCoversRevisions
<1>3. CASE Advances(s)
  <2>1. PICK kind \in ActivityKinds, e \in Slots \cup {NULL} :
           activity'[s] = Append(activity[s],
                             [kind |-> kind, effect |-> e, revision |-> saga'[s].revision])
    BY <1>3 DEF Advances
  <2>2. saga'[s].revision = saga[s].revision + 1
    BY <1>3 DEF Advances, Keeps
  <2>3. [kind |-> kind, effect |-> e, revision |-> saga'[s].revision] \in ActivityRow
    BY <1>2, <2>2 DEF ActivityRow
  <2>4. QED
    BY <1>2, <2>1, <2>2, <2>3
<1>4. CASE Rests(s)
  BY <1>2, <1>4 DEF Rests
<1>5. QED
  BY <1>1, <1>3, <1>4, StepAdvances

\* The activity log is the revision history of its saga: one row for each
\* revision, in order, none missing.
THEOREM HistoryCoverage == Spec => []ActivityCoversRevisions
<1>1. Init => ActivityCoversRevisions
  BY DEF Init, ActivityCoversRevisions, NoSaga
<1>2. QED
  BY <1>1, HistoryGrows, Typing, Consistency, PTL DEF Spec
-----------------------------------------------------------------------------
(* No automatic replay.  The strengthening: an effect that waits for a     *)
(* claim although it was claimed before has been retried since.            *)

RetriedIn(L, e, i, j) ==
    \E k \in i .. j : L[k].kind = "provisioning_retried" /\ L[k].effect = e

ClaimsAnswered(s) ==
    \A e \in Slots : Waiting(effect[s][e]) =>
        \A i \in 1 .. Len(activity[s]) :
            activity[s][i].kind = "effect_claimed" /\ activity[s][i].effect = e =>
                RetriedIn(activity[s], e, i + 1, Len(activity[s]))

NotReplayed(s) ==
    \A i, j \in 1 .. Len(activity[s]) :
        /\ i < j
        /\ activity[s][i].kind = "effect_claimed"
        /\ activity[s][j].kind = "effect_claimed"
        /\ activity[s][i].effect = activity[s][j].effect
        => RetriedIn(activity[s], activity[s][i].effect, i + 1, j - 1)

ReplayInvariant == \A s \in Sagas : ClaimsAnswered(s) /\ NotReplayed(s)

\* The strengthening implies the property.
LEMMA ReplayMeans == TypeOK => (ReplayInvariant => NoAutomaticReplay)
<1>1. ASSUME TypeOK
      PROVE  \A s \in Sagas : DOMAIN activity[s] = 1 .. Len(activity[s])
  BY <1>1 DEF TypeOK
<1>2. QED
  BY <1>1 DEF ReplayInvariant, NotReplayed, NoAutomaticReplay, RetriedIn

\* A saga whose history advances.
LEMMA AdvanceNotReplayed ==
    ASSUME TypeOK, NEW s \in Sagas, Advances(s), ClaimsAnswered(s), NotReplayed(s)
    PROVE  ClaimsAnswered(s)' /\ NotReplayed(s)'
<1> DEFINE L == activity[s]
           n == Len(L)
<1>1. PICK kind \in ActivityKinds, e \in Slots \cup {NULL} :
         /\ Keeps(s, kind, e)
         /\ activity'[s] = Append(L, [kind |-> kind, effect |-> e, revision |-> saga'[s].revision])
  BY DEF Advances
<1>2. L \in Seq(ActivityRow) /\ n \in Nat /\ saga[s].revision \in Nat
  BY DEF TypeOK, SagaRow
<1> DEFINE x == [kind |-> kind, effect |-> e, revision |-> saga'[s].revision]
           M == activity'[s]
<1>3. x \in ActivityRow /\ x.kind = kind /\ x.effect = e
  BY <1>1, <1>2 DEF Keeps, ActivityRow
<1>4. /\ Len(M) = n + 1 /\ M[n + 1] = x
      /\ \A i \in 1 .. n : M[i] = L[i]
  BY <1>1, <1>2, <1>3
<1> HIDE DEF L, n, x, M
<1>5. ASSUME NEW f, NEW i \in Nat, NEW j \in Nat, j <= n, RetriedIn(L, f, i + 1, j)
      PROVE  RetriedIn(M, f, i + 1, j)
  <2>1. PICK k \in (i + 1) .. j : L[k].kind = "provisioning_retried" /\ L[k].effect = f
    BY <1>5 DEF RetriedIn
  <2>2. k \in 1 .. n
    BY <1>2, <1>5
  <2>3. QED
    BY <1>4, <2>1, <2>2 DEF RetriedIn
<1>6. ASSUME NEW f \in Slots, Waiting(effect[s][f]), NEW i \in 1 .. n,
             L[i].kind = "effect_claimed", L[i].effect = f
      PROVE  RetriedIn(M, f, i + 1, n)
  <2>1. RetriedIn(L, f, i + 1, n)
    BY <1>6 DEF ClaimsAnswered, L, n
  <2>2. QED
    BY <1>2, <1>5, <2>1
<1>7. ClaimsAnswered(s)'
  <2>1. SUFFICES ASSUME NEW f \in Slots, Waiting(effect'[s][f]), NEW i \in 1 .. (n + 1),
                        M[i].kind = "effect_claimed", M[i].effect = f
                 PROVE  RetriedIn(M, f, i + 1, n + 1)
    BY <1>4 DEF ClaimsAnswered, M
  <2>2. i # n + 1
    BY <1>1, <1>3, <1>4, <2>1 DEF Keeps
  <2>3. i \in 1 .. n /\ L[i].kind = "effect_claimed" /\ L[i].effect = f
    BY <1>2, <1>4, <2>1, <2>2
  <2>4. CASE Waiting(effect[s][f])
    <3>1. RetriedIn(M, f, i + 1, n)
      BY <1>6, <2>3, <2>4
    <3>2. QED
      BY <1>2, <2>3, <3>1 DEF RetriedIn
  <2>5. CASE kind = "provisioning_retried" /\ e = f
    <3>1. n + 1 \in (i + 1) .. (n + 1)
      BY <1>2, <2>3
    <3>2. QED
      BY <1>3, <1>4, <2>5, <3>1 DEF RetriedIn
  <2>6. QED
    BY <1>1, <2>1, <2>4, <2>5 DEF Keeps
<1>8. NotReplayed(s)'
  <2>1. SUFFICES ASSUME NEW i \in 1 .. (n + 1), NEW j \in 1 .. (n + 1), i < j,
                        M[i].kind = "effect_claimed", M[j].kind = "effect_claimed",
                        M[i].effect = M[j].effect
                 PROVE  RetriedIn(M, M[i].effect, i + 1, j - 1)
    BY <1>4 DEF NotReplayed, M
  <2>2. i \in 1 .. n /\ M[i] = L[i] /\ j - 1 \in Nat /\ j - 1 <= n
    BY <1>2, <1>4, <2>1
  <2>3. CASE j = n + 1
    <3>1. e \in Slots /\ Waiting(effect[s][e]) /\ M[i].effect = e
      BY <1>1, <1>3, <1>4, <2>1, <2>3 DEF Keeps
    <3>2. RetriedIn(M, e, i + 1, n)
      BY <1>6, <2>1, <2>2, <3>1
    <3>3. j - 1 = n
      BY <1>2, <2>3
    <3>4. QED
      BY <3>1, <3>2, <3>3
  <2>4. CASE j \in 1 .. n
    <3>1. M[j] = L[j]
      BY <1>4, <2>4
    <3>2. RetriedIn(L, L[i].effect, i + 1, j - 1)
      BY <2>1, <2>2, <2>4, <3>1 DEF NotReplayed, L, n
    <3>3. QED
      BY <1>5, <2>2, <3>2
  <2>5. QED
    BY <1>2, <2>1, <2>3, <2>4
<1>9. QED
  BY <1>7, <1>8

\* A saga whose history rests: no effect begins to wait.
LEMMA RestNotReplayed ==
    ASSUME TypeOK, NEW s \in Sagas, Rests(s), ClaimsAnswered(s), NotReplayed(s)
    PROVE  ClaimsAnswered(s)' /\ NotReplayed(s)'
<1>1. \A e \in Slots : Waiting(effect'[s][e]) => Waiting(effect[s][e])
  <2>1. \A e \in Slots : effect[s][e] \in EffectRow
    BY DEF TypeOK
  <2>2. QED
    BY <2>1 DEF Rests, Waiting, EffectRow
<1>2. activity'[s] = activity[s]
  BY DEF Rests
<1>3. QED
  BY <1>1, <1>2 DEF ClaimsAnswered, NotReplayed

\* Whatever workers die, answer late or lose their lease, an effect is sent to
\* its provider again only after an operator has resolved its last outcome.
THEOREM NoReplay == Spec => []NoAutomaticReplay
<1>1. Init => ReplayInvariant
  <2>1. ASSUME Init, NEW s \in Sagas
        PROVE  1 .. Len(activity[s]) = {}
    BY <2>1 DEF Init
  <2>2. QED
    BY <2>1 DEF ReplayInvariant, ClaimsAnswered, NotReplayed
<1>2. TypeOK /\ SagasConsistent /\ ReplayInvariant /\ [Next]_vars => ReplayInvariant'
  <2>1. SUFFICES ASSUME TypeOK, SagasConsistent, ReplayInvariant, [Next]_vars, NEW s \in Sagas
                 PROVE  ClaimsAnswered(s)' /\ NotReplayed(s)'
    BY DEF ReplayInvariant
  <2>2. Advances(s) \/ Rests(s)
    BY <2>1, StepAdvances
  <2>3. ClaimsAnswered(s) /\ NotReplayed(s)
    BY <2>1 DEF ReplayInvariant
  <2>4. QED
    BY <2>1, <2>2, <2>3, AdvanceNotReplayed, RestNotReplayed
<1>3. QED
  BY <1>1, <1>2, ReplayMeans, Typing, Consistency, PTL DEF Spec
-----------------------------------------------------------------------------
(* What the records workers hold are worth: their inputs are those the     *)
(* saga records, and at most one of them holds the fence.                  *)

\* A grant is held only after the organization was recorded, a revocation only
\* after its grant was; both are settled, so they stay as they were.
InputsSound(r) ==
    /\ r.slot[1] = "put_entitlement" =>
          /\ effect[r.saga][Create].state = "applied"
          /\ r.organization_id = effect[r.saga][Create].external_id
    /\ r.slot[1] = "revoke_entitlement" =>
          /\ effect[r.saga][Put(r.slot[2])].state = "applied"
          /\ r.external_id = effect[r.saga][Put(r.slot[2])].external_id

\* A fence belongs to an attempt that was made, and to one record.
FencesSound ==
    /\ \A r \in held : r.lease_token <= effect[r.saga][r.slot].attempts
    /\ \A q, r \in held : /\ q.saga = r.saga /\ q.slot = r.slot
                          /\ q.lease_token = r.lease_token
                          => q = r

WorkerInvariant == FencesSound /\ \A r \in held : InputsSound(r)

Recorded(s, e) ==
    [saga |-> s, slot |-> e, lease_token |-> Fence(effect[s][e]),
     organization_id |-> saga[s].organization_id, external_id |-> effect[s][e].external_id]
-----------------------------------------------------------------------------
\* Only a claim adds a record, and only one.
LEMMA HeldStep ==
    ASSUME [Next]_vars
    PROVE  \/ held' \subseteq held
           \/ \E s \in Sagas, e \in Slots :
                 /\ Claimable(saga[s], effect[s]) /\ IsNext(saga[s], effect[s], e)
                 /\ effect' = [effect EXCEPT ![s][e] = ClaimedEffect(@)]
                 /\ held' = held \cup {Recorded(s, e)}
<1>1. ASSUME NEW s \in Sagas, ClaimNext(s)
      PROVE  \E e \in Slots :
                 /\ Claimable(saga[s], effect[s]) /\ IsNext(saga[s], effect[s], e)
                 /\ effect' = [effect EXCEPT ![s][e] = ClaimedEffect(@)]
                 /\ held' = held \cup {Recorded(s, e)}
  BY <1>1 DEF ClaimNext, Claim, Recorded
<1>2. ASSUME NEW s \in Sagas, NEW a \in Actors, NEW n \in 0 .. MaxGrants, NEW k \in Keys,
             Start(s, a, n, k)
      PROVE  held' \subseteq held
  BY <1>2 DEF Start
<1>3. ASSUME NEW s \in Sagas, NEW a \in Actors, NEW k \in Keys,
             NEW request \in Requests(s), Retry(s, a, k, request)
      PROVE  held' \subseteq held
  BY <1>3 DEF Retry
<1>4. ASSUME NEW s \in Sagas, NEW a \in Actors, NEW k \in Keys,
             NEW expected \in 1 .. saga[s].revision, RequestCleanup(s, a, k, expected)
      PROVE  held' \subseteq held
  BY <1>4 DEF RequestCleanup
<1>5. ASSUME NEW batch \in SUBSET Sagas, QuarantineExpired(batch)
      PROVE  held' \subseteq held
  BY <1>5 DEF QuarantineExpired, Quarantine
<1>6. ASSUME NEW r \in held, NEW outcome \in Answers(r), FinalizeEffect(r, outcome)
      PROVE  held' \subseteq held
  BY <1>6 DEF FinalizeEffect
<1>7. ASSUME NEW r \in held, FinalizeSuperseded(r) \/ WorkerLost(r)
      PROVE  held' \subseteq held
  BY <1>7 DEF FinalizeSuperseded, WorkerLost
<1>8. ASSUME NEW s \in Sagas, NEW e \in Slots, LeaseExpires(s, e)
      PROVE  held' \subseteq held
  BY <1>8 DEF LeaseExpires
<1>9. CASE UNCHANGED vars
  BY <1>9 DEF vars
<1>10. QED
  BY <1>1, <1>2, <1>3, <1>4, <1>5, <1>6, <1>7, <1>8, <1>9 DEF Next

\* What no step takes back: an applied effect, and the attempts that were made.
LEMMA EffectsGrow ==
    ASSUME TypeOK, SagasConsistent, [Next]_vars, NEW s \in Sagas, NEW e \in Slots
    PROVE  /\ effect[s][e].state = "applied" => effect'[s][e] = effect[s][e]
           /\ effect[s][e].attempts <= effect'[s][e].attempts
<1>1. CASE Advances(s)
  <2>1. effect[s][e].attempts \in Nat
    BY DEF TypeOK, EffectRow
  <2>2. QED
    BY <1>1, <2>1 DEF Advances, Keeps, Settled, AttemptsAfter
<1>2. CASE Rests(s)
  <2>1. effect[s][e] \in EffectRow /\ effect[s][e].attempts \in Nat
    BY DEF TypeOK, EffectRow
  <2>2. \/ effect'[s][e] = effect[s][e]
        \/ /\ effect[s][e].state = "in_flight"
           /\ effect'[s][e] = [effect[s][e] EXCEPT !.lease_until = "past"]
    BY <1>2 DEF Rests
  <2>3. effect'[s][e].attempts = effect[s][e].attempts
    BY <2>1, <2>2 DEF EffectRow
  <2>4. QED
    BY <2>1, <2>2, <2>3
<1>3. QED
  BY <1>1, <1>2, StepAdvances

\* A record that was sound stays sound.
LEMMA InputsStay ==
    ASSUME TypeOK, SagasConsistent, [Next]_vars, NEW r \in HeldRecord, InputsSound(r)
    PROVE  InputsSound(r)'
<1>1. r.saga \in Sagas /\ r.slot \in Slots
  BY DEF HeldRecord
<1>2. r.slot[1] = "put_entitlement" => effect'[r.saga][Create] = effect[r.saga][Create]
  BY <1>1, SlotFacts, EffectsGrow DEF InputsSound
<1>3. r.slot[1] = "revoke_entitlement" =>
         effect'[r.saga][Put(r.slot[2])] = effect[r.saga][Put(r.slot[2])]
  <2>1. r.slot[1] = "revoke_entitlement" => Put(r.slot[2]) \in Slots
    BY <1>1, SlotFacts, SlotKinds
  <2>2. QED
    BY <1>1, <2>1, EffectsGrow DEF InputsSound
<1>4. QED
  BY <1>2, <1>3 DEF InputsSound

\* The record a claim makes is sound: a due grant has its organization, a due
\* revocation the grant it copies.
LEMMA ClaimSound ==
    ASSUME TypeOK, SagasConsistent, NEW s \in Sagas, NEW e \in Slots,
           Claimable(saga[s], effect[s]), IsNext(saga[s], effect[s], e)
    PROVE  InputsSound(Recorded(s, e))
<1>1. /\ saga[s] \in SagaRow /\ effect[s] \in [Slots -> EffectRow]
      /\ Consistent(saga[s], effect[s])
  BY DEF TypeOK, SagasConsistent
<1>2. /\ EffectsConsistent(saga[s], effect[s])
      /\ effect[s][e].state = "pending"
      /\ e[1] = "put_entitlement" => effect[s][Create].state = "applied"
  BY <1>1, DueMeans
<1>3. OrganizationFirst(saga[s], effect[s]) /\ CleanupMirrors(saga[s], effect[s])
  BY <1>2 DEF EffectsConsistent
<1>4. e[1] = "revoke_entitlement" =>
         /\ effect[s][Put(e[2])].state = "applied"
         /\ effect[s][e].external_id = effect[s][Put(e[2])].external_id
  BY <1>2, <1>3, SlotKinds DEF CleanupMirrors
<1>5. e[1] = "put_entitlement" => saga[s].organization_id = effect[s][Create].external_id
  BY <1>2, <1>3 DEF OrganizationFirst
<1>6. QED
  BY <1>2, <1>4, <1>5 DEF InputsSound, Recorded

\* The fence of a claim is newer than every fence of its effect.
LEMMA WorkerStep ==
    TypeOK /\ TypeOK' /\ SagasConsistent /\ WorkerInvariant /\ [Next]_vars => WorkerInvariant'
<1>1. SUFFICES ASSUME TypeOK, TypeOK', SagasConsistent, WorkerInvariant, [Next]_vars
               PROVE  WorkerInvariant'
  OBVIOUS
<1>2. \A r \in held : /\ r \in HeldRecord /\ r.saga \in Sagas /\ r.slot \in Slots
                      /\ r.lease_token \in Nat
  BY <1>1 DEF TypeOK, HeldRecord
<1>3. \A r \in held : InputsSound(r)'
  BY <1>1, <1>2, InputsStay DEF WorkerInvariant
<1>4. \A s \in Sagas, e \in Slots : /\ effect[s][e].attempts \in Nat
                                    /\ effect'[s][e].attempts \in Nat
  BY <1>1 DEF TypeOK, EffectRow
<1>5. \A r \in held : r.lease_token <= effect'[r.saga][r.slot].attempts
  <2>1. SUFFICES ASSUME NEW r \in held
                 PROVE  r.lease_token <= effect'[r.saga][r.slot].attempts
    OBVIOUS
  <2>2. r.lease_token <= effect[r.saga][r.slot].attempts
    BY <1>1 DEF WorkerInvariant, FencesSound
  <2>3. effect[r.saga][r.slot].attempts <= effect'[r.saga][r.slot].attempts
    BY <1>1, <1>2, EffectsGrow
  <2>4. QED
    BY <1>2, <1>4, <2>2, <2>3
<1>6. CASE held' \subseteq held
  BY <1>1, <1>3, <1>5, <1>6 DEF WorkerInvariant, FencesSound
<1>7. ASSUME NEW s \in Sagas, NEW e \in Slots,
             Claimable(saga[s], effect[s]), IsNext(saga[s], effect[s], e),
             effect' = [effect EXCEPT ![s][e] = ClaimedEffect(@)],
             NEW new, new = Recorded(s, e), held' = held \cup {new}
      PROVE  WorkerInvariant'
  <2>1. /\ new.saga = s /\ new.slot = e
        /\ new.lease_token = effect[s][e].attempts + 1
    BY <1>7 DEF Recorded, Fence
  <2>2. effect'[s][e].attempts = effect[s][e].attempts + 1
    <3>1. effect'[s][e] = ClaimedEffect(effect[s][e]) /\ effect[s][e] \in EffectRow
      BY <1>1, <1>7 DEF TypeOK
    <3>2. QED
      BY <3>1, RowsMean
  <2>3. InputsSound(new)
    BY <1>1, <1>7, ClaimSound
  <2>4. new \in HeldRecord
    BY <1>1, <1>7 DEF TypeOK
  <2>5. InputsSound(new)'
    BY <1>1, <2>3, <2>4, InputsStay
  <2>6. \A r \in held' : InputsSound(r)'
    BY <1>3, <1>7, <2>5
  <2>7. \A r \in held' : r.lease_token <= effect'[r.saga][r.slot].attempts
    BY <1>4, <1>5, <1>7, <2>1, <2>2
  <2>8. ASSUME NEW r \in held, r.saga = s, r.slot = e
        PROVE  r.lease_token # new.lease_token
    <3>1. r.lease_token <= effect[s][e].attempts
      BY <1>1, <2>8 DEF WorkerInvariant, FencesSound
    <3>2. QED
      BY <1>2, <1>4, <2>1, <3>1
  <2>9. \A q, r \in held' : /\ q.saga = r.saga /\ q.slot = r.slot
                            /\ q.lease_token = r.lease_token
                            => q = r
    <3>1. \A q, r \in held : /\ q.saga = r.saga /\ q.slot = r.slot
                             /\ q.lease_token = r.lease_token
                             => q = r
      BY <1>1 DEF WorkerInvariant, FencesSound
    <3>2. held' = held \cup {new}
      BY <1>7
    <3>3. QED
      BY <2>1, <2>8, <3>1, <3>2
  <2>10. QED
    BY <2>6, <2>7, <2>9 DEF WorkerInvariant, FencesSound
<1>8. QED
  BY <1>1, <1>6, <1>7, HeldStep

\* The records of all workers are sound in every reachable state.
LEMMA WorkerInvariance == Spec => []WorkerInvariant
<1>1. Init => WorkerInvariant
  BY DEF Init, WorkerInvariant, FencesSound
<1>2. QED
  BY <1>1, WorkerStep, Typing, Consistency, PTL DEF Spec
-----------------------------------------------------------------------------
\* Whatever a worker still holds names the organization its grant belongs to,
\* or the grant it revokes, as the saga records them.
THEOREM HeldInputs == Spec => []HeldInputsAreRecorded
<1>1. TypeOK /\ SagasConsistent /\ WorkerInvariant => HeldInputsAreRecorded
  <2>1. SUFFICES ASSUME TypeOK, SagasConsistent, WorkerInvariant, NEW r \in held
                 PROVE  /\ r.slot[1] = "put_entitlement" =>
                              /\ r.organization_id # NULL
                              /\ r.organization_id = saga[r.saga].organization_id
                        /\ r.slot[1] = "revoke_entitlement" =>
                              /\ r.external_id # NULL
                              /\ r.external_id = effect[r.saga][Put(r.slot[2])].external_id
    BY DEF HeldInputsAreRecorded
  <2>2. r.saga \in Sagas /\ r.slot \in Slots /\ InputsSound(r)
    BY <2>1 DEF TypeOK, HeldRecord, WorkerInvariant
  <2>3. /\ saga[r.saga] \in SagaRow /\ effect[r.saga] \in [Slots -> EffectRow]
        /\ Consistent(saga[r.saga], effect[r.saga])
    BY <2>1, <2>2 DEF TypeOK, SagasConsistent
  <2>4. /\ r.slot[1] = "put_entitlement" => Create \in Slots
        /\ r.slot[1] = "revoke_entitlement" =>
              r.slot[2] \in Ordinals /\ Put(r.slot[2]) \in Slots
    BY <2>2, SlotFacts, SlotKinds
  <2>5. r.slot[1] \in {"put_entitlement", "revoke_entitlement"} =>
           OrganizationFirst(saga[r.saga], effect[r.saga])
    BY <2>2, <2>3, <2>4 DEF InputsSound, Consistent, EffectsConsistent, NoEffect
  <2>6. QED
    BY <2>2, <2>4, <2>5 DEF InputsSound, OrganizationFirst
<1>2. QED
  BY <1>1, WorkerInvariance, Typing, Consistency, PTL

\* Of all the records claimed from a saga at most one can still be finalized.
THEOREM FenceExclusion == Spec => []OneFenceHolder
<1>1. TypeOK /\ SagasConsistent /\ WorkerInvariant => OneFenceHolder
  <2>1. SUFFICES ASSUME TypeOK, SagasConsistent, WorkerInvariant,
                        NEW q \in held, NEW r \in held,
                        Current(q), Current(r), q.saga = r.saga
                 PROVE  q = r
    BY DEF OneFenceHolder
  <2>2. q.saga \in Sagas /\ q.slot \in Slots /\ r.slot \in Slots
    BY <2>1 DEF TypeOK, HeldRecord
  <2>3. effect[q.saga][q.slot].state = "in_flight" /\ effect[q.saga][r.slot].state = "in_flight"
    BY <2>1 DEF Current
  <2>4. OneOpen(effect[q.saga])
    BY <2>1, <2>2, <2>3 DEF SagasConsistent, Consistent, EffectsConsistent, NoEffect
  <2>5. q.slot = r.slot
    BY <2>2, <2>3, <2>4 DEF OneOpen, Open
  <2>6. q.lease_token = r.lease_token
    BY <2>1, <2>5 DEF Current
  <2>7. QED
    BY <2>1, <2>5, <2>6 DEF WorkerInvariant, FencesSound
<1>2. QED
  BY <1>1, WorkerInvariance, Typing, Consistency, PTL
-----------------------------------------------------------------------------
(* The mutation ledger and the activity log.  A step of Storage either     *)
(* carries out one command, which takes a free key and logs one row of its *)
(* kind, or leaves the ledger alone and logs no row of a command's kind.   *)

CommandKinds == {"provisioning_started", "provisioning_retried", "cleanup_requested"}
CommandOperations == {"start", "retry", "request_cleanup"}

Logs(s, kind) ==
    \E e \in Slots \cup {NULL} :
        /\ kind \in ActivityKinds
        /\ saga'[s].revision = saga[s].revision + 1
        /\ activity'[s] = Append(activity[s],
                             [kind |-> kind, effect |-> e, revision |-> saga'[s].revision])
Silent(s) == saga'[s].revision = saga[s].revision /\ activity'[s] = activity[s]

\* The command of key k takes effect on saga s.
Commits(k, operation, s) ==
    /\ mutation[k] = NULL
    /\ \E a \in Actors, request \in Request :
          /\ request.expected_revision = saga[s].revision
          /\ Complete(k, operation, a, s, request)
    /\ Logs(s, OperatorKinds[operation])
    /\ \A t \in Sagas : t # s => Silent(t)

\* Workers, and time.
Works ==
    /\ mutation' = mutation
    /\ \A s \in Sagas : Silent(s) \/ \E kind \in ActivityKinds \ CommandKinds : Logs(s, kind)

-----------------------------------------------------------------------------
\* A row logged for one saga, in terms of the two predicates above.
LEMMA LogLogs ==
    ASSUME TypeOK, NEW s \in Sagas, NEW kind \in ActivityKinds, NEW e \in Slots \cup {NULL},
           Log(s, kind, e), saga'[s].revision = saga[s].revision + 1,
           \A t \in Sagas : t # s => saga'[t] = saga[t]
    PROVE  Logs(s, kind) /\ \A t \in Sagas : t # s => Silent(t)
<1>1. activity \in [Sagas -> Seq(ActivityRow)]
  BY DEF TypeOK
<1>2. activity'[s] = Append(activity[s], [kind |-> kind, effect |-> e,
                                          revision |-> saga'[s].revision])
  BY <1>1 DEF Log
<1>3. \A t \in Sagas : t # s => activity'[t] = activity[t]
  BY <1>1 DEF Log
<1> QED BY <1>2, <1>3 DEF Logs, Silent

\* The rows whose revision is one more than that of the row they replace.
LEMMA Raises ==
    \A p \in SagaRow : /\ QuarantinedSaga(p).revision = p.revision + 1
                       /\ \A E : Refresh(CleaningSaga(p), E).revision = p.revision + 1
  BY SlotFacts, RevisionsRise

\* Every step carries out one command, or none.
LEMMA LedgerStep ==
    TypeOK /\ SagasConsistent /\ [Next]_vars =>
        \/ \E k \in Keys, operation \in CommandOperations, s \in Sagas : Commits(k, operation, s)
        \/ Works
<1> SUFFICES ASSUME TypeOK, SagasConsistent, [Next]_vars
             PROVE  \/ \E k \in Keys, operation \in CommandOperations, s \in Sagas :
                          Commits(k, operation, s)
                    \/ Works
  OBVIOUS
<1>0. /\ saga \in [Sagas -> SagaRow] /\ effect \in [Sagas -> [Slots -> EffectRow]]
      /\ \A s \in Sagas : saga[s] \in SagaRow /\ saga[s].revision \in Nat
  BY DEF TypeOK, SagaRow
<1>1. ASSUME NEW s \in Sagas, NEW a \in Actors, NEW n \in 0 .. MaxGrants, NEW k \in Keys,
             Start(s, a, n, k)
      PROVE  Commits(k, "start", s)
  <2>1. saga[s].revision = 0
    BY <1>0, <1>1, StoredMeans, StatusMeans DEF Start, SagasConsistent, Consistent, NoSaga
  <2>2. /\ saga'[s].revision = saga[s].revision + 1
        /\ \A t \in Sagas : t # s => saga'[t] = saga[t]
    BY <1>0, <1>1, <2>1 DEF Start, StartedSaga, NoSaga
  <2>3. Log(s, "provisioning_started", NULL)
    BY <1>1 DEF Start
  <2>4. Logs(s, "provisioning_started") /\ \A t \in Sagas : t # s => Silent(t)
    BY <2>2, <2>3, LogLogs DEF ActivityKinds
  <2>5. NoRequest \in Request /\ NoRequest.expected_revision = 0
    BY DEF NoRequest, Request, Observations
  <2> QED BY <1>1, <2>1, <2>4, <2>5 DEF Start, Reservable, Commits, OperatorKinds
<1>2. ASSUME NEW s \in Sagas, NEW a \in Actors, NEW k \in Keys, NEW request \in Request,
             Retry(s, a, k, request)
      PROVE  Commits(k, "retry", s)
  <2>0. PICK e \in Selected(saga[s], effect[s]) :
          \E row \in Resolved(saga[s], effect[s][e], e[1], request.resolution, request.observed) :
             /\ saga' = [saga EXCEPT ![s] =
                   Refresh(WithOrganization(saga[s], e,
                              [state |-> row.state, id |-> row.external_id]),
                           effect'[s])]
             /\ Log(s, "provisioning_retried", e)
    BY <1>2 DEF Retry
  <2>1. PICK row \in Resolved(saga[s], effect[s][e], e[1], request.resolution, request.observed) :
          /\ saga' = [saga EXCEPT ![s] =
                Refresh(WithOrganization(saga[s], e, [state |-> row.state, id |-> row.external_id]),
                        effect'[s])]
          /\ Log(s, "provisioning_retried", e)
    BY <2>0
  <2>2. e \in Slots
    BY DEF Selected
  <2>3. saga'[s].revision = saga[s].revision + 1
    BY <1>0, <2>1, <2>2, RevisionsRise
  <2>4. \A t \in Sagas : t # s => saga'[t] = saga[t]
    BY <1>0, <2>1
  <2>5. Logs(s, "provisioning_retried") /\ \A t \in Sagas : t # s => Silent(t)
    BY <2>1, <2>2, <2>3, <2>4, LogLogs DEF ActivityKinds
  <2> QED BY <1>2, <2>5 DEF Retry, Locks, Reservable, Commits, OperatorKinds
<1>3. ASSUME NEW s \in Sagas, NEW a \in Actors, NEW k \in Keys, NEW expected \in Nat,
             RequestCleanup(s, a, k, expected)
      PROVE  Commits(k, "request_cleanup", s)
  <2>1. saga'[s].revision = saga[s].revision + 1
    <3>1. saga'[s] = Refresh(CleaningSaga(saga[s]), effect'[s])
      BY <1>0, <1>3 DEF RequestCleanup
    <3> QED BY <1>0, <3>1, Raises
  <2>2. \A t \in Sagas : t # s => saga'[t] = saga[t]
    BY <1>0, <1>3 DEF RequestCleanup
  <2>3. Log(s, "cleanup_requested", NULL)
    BY <1>3 DEF RequestCleanup
  <2>4. Logs(s, "cleanup_requested") /\ \A t \in Sagas : t # s => Silent(t)
    BY <2>1, <2>2, <2>3, LogLogs DEF ActivityKinds
  <2>5. /\ [NoRequest EXCEPT !.expected_revision = expected] \in Request
        /\ [NoRequest EXCEPT !.expected_revision = expected].expected_revision = expected
    BY DEF NoRequest, Request, Observations
  <2> QED BY <1>3, <2>4, <2>5 DEF RequestCleanup, Locks, Reservable, Commits, OperatorKinds
<1>4. ASSUME NEW batch \in SUBSET Sagas, QuarantineExpired(batch)
      PROVE  Works
  <2>1. PICK victim \in [batch -> Slots] : Quarantine(batch, victim)
    BY <1>4 DEF QuarantineExpired
  <2>2. ASSUME NEW s \in Sagas, s \in batch
        PROVE  Logs(s, "effect_outcome_unknown")
    <3>1. /\ saga'[s] = QuarantinedSaga(saga[s])
          /\ activity'[s] = Append(activity[s], [kind |-> "effect_outcome_unknown",
                                                 effect |-> victim[s],
                                                 revision |-> saga'[s].revision])
      BY <2>1, <2>2 DEF Quarantine
    <3>2. victim[s] \in Slots
      BY <2>1, <2>2
    <3>3. saga'[s].revision = saga[s].revision + 1
      BY <1>0, <2>2, <3>1, Raises
    <3> QED BY <3>1, <3>2, <3>3 DEF Logs, ActivityKinds
  <2>3. ASSUME NEW s \in Sagas, s \notin batch
        PROVE  Silent(s)
    BY <2>1, <2>3 DEF Quarantine, Silent
  <2> QED BY <2>1, <2>2, <2>3 DEF Works, Quarantine, ActivityKinds, CommandKinds
<1>5. ASSUME NEW s \in Sagas, ClaimNext(s)
      PROVE  Works
  <2>1. PICK e \in Slots : Claim(s, e)
    BY <1>5 DEF ClaimNext
  <2>2. /\ saga' = [saga EXCEPT ![s] = ClaimedSaga(saga[s])]
        /\ Log(s, "effect_claimed", e) /\ mutation' = mutation
    BY <2>1 DEF Claim
  <2>3. /\ saga'[s].revision = saga[s].revision + 1
        /\ \A t \in Sagas : t # s => saga'[t] = saga[t]
    BY <1>0, <2>2, RevisionsRise, SlotFacts
  <2>4. Logs(s, "effect_claimed") /\ \A t \in Sagas : t # s => Silent(t)
    BY <2>2, <2>3, LogLogs DEF ActivityKinds
  <2> QED BY <2>2, <2>4 DEF Works, ActivityKinds, CommandKinds
<1>6. ASSUME NEW r \in held, NEW outcome \in Answers(r), FinalizeEffect(r, outcome)
      PROVE  Works
  <2>1. /\ r.saga \in Sagas /\ r.slot \in Slots
        /\ outcome.state \in {"failed", "unknown", "applied", "compensated"}
    BY AnswersAreOutcomes, OutcomeType DEF TypeOK, HeldRecord
  <2>2. /\ OutcomeActivity[outcome.state] \in ActivityKinds
        /\ OutcomeActivity[outcome.state] \notin CommandKinds
    BY <2>1 DEF OutcomeActivity, ActivityKinds, CommandKinds
  <2>3. /\ saga' = [saga EXCEPT ![r.saga] =
              Refresh(WithOrganization(saga[r.saga], r.slot, outcome), effect'[r.saga])]
        /\ Log(r.saga, OutcomeActivity[outcome.state], r.slot) /\ mutation' = mutation
    BY <1>6 DEF FinalizeEffect
  <2>4. /\ saga'[r.saga].revision = saga[r.saga].revision + 1
        /\ \A t \in Sagas : t # r.saga => saga'[t] = saga[t]
    BY <1>0, <2>1, <2>3, RevisionsRise
  <2>5. Logs(r.saga, OutcomeActivity[outcome.state]) /\ \A t \in Sagas : t # r.saga => Silent(t)
    BY <2>1, <2>2, <2>3, <2>4, LogLogs
  <2> QED BY <2>1, <2>2, <2>3, <2>5 DEF Works
<1>7. ASSUME NEW r \in held, FinalizeSuperseded(r) \/ WorkerLost(r)
      PROVE  Works
  BY <1>7 DEF FinalizeSuperseded, WorkerLost, Works, Silent
<1>8. ASSUME NEW s \in Sagas, NEW e \in Slots, LeaseExpires(s, e)
      PROVE  Works
  BY <1>8 DEF LeaseExpires, Works, Silent
<1>9. CASE UNCHANGED vars
  BY <1>9 DEF vars, Works, Silent
<1>10. ASSUME NEW s \in Sagas, NEW a \in Actors, NEW k \in Keys, NEW request \in Requests(s),
              Retry(s, a, k, request)
       PROVE  Commits(k, "retry", s)
  BY <1>2, <1>10, RequestsType
<1>11. ASSUME NEW s \in Sagas, NEW a \in Actors, NEW k \in Keys,
              NEW expected \in 1 .. saga[s].revision, RequestCleanup(s, a, k, expected)
       PROVE  Commits(k, "request_cleanup", s)
  BY <1>0, <1>3, <1>11
<1> QED BY <1>1, <1>4, <1>5, <1>6, <1>7, <1>8, <1>9, <1>10, <1>11 DEF Next, CommandOperations
-----------------------------------------------------------------------------
\* What a logged row makes of a saga's log.
LEMMA LogsMean ==
    ASSUME TypeOK, ActivityCoversRevisions, NEW s \in Sagas, NEW kind, Logs(s, kind)
    PROVE  /\ saga[s].revision \in Nat /\ saga'[s].revision = saga[s].revision + 1
           /\ DOMAIN activity[s] = 1 .. saga[s].revision
           /\ DOMAIN activity'[s] = 1 .. saga[s].revision + 1
           /\ \A i \in 1 .. saga[s].revision : activity'[s][i] = activity[s][i]
           /\ activity'[s][saga[s].revision + 1].kind = kind
<1>1. /\ activity[s] \in Seq(ActivityRow) /\ saga[s].revision \in Nat
      /\ Len(activity[s]) = saga[s].revision
  BY DEF TypeOK, SagaRow, ActivityCoversRevisions
<1>2. PICK e \in Slots \cup {NULL} :
         activity'[s] = Append(activity[s],
                           [kind |-> kind, effect |-> e, revision |-> saga'[s].revision])
  BY DEF Logs
<1>3. saga'[s].revision = saga[s].revision + 1 /\ kind \in ActivityKinds
  BY DEF Logs
<1>4. [kind |-> kind, effect |-> e, revision |-> saga'[s].revision] \in ActivityRow
  BY <1>1, <1>2, <1>3 DEF ActivityRow
<1> QED BY <1>1, <1>2, <1>3, <1>4

\* A log that is as it was.
LEMMA SilentMeans ==
    ASSUME TypeOK, ActivityCoversRevisions, NEW s \in Sagas, Silent(s)
    PROVE  /\ saga[s].revision \in Nat /\ saga'[s].revision = saga[s].revision
           /\ DOMAIN activity[s] = 1 .. saga[s].revision
           /\ activity'[s] = activity[s]
<1>1. /\ activity[s] \in Seq(ActivityRow) /\ saga[s].revision \in Nat
      /\ Len(activity[s]) = saga[s].revision
  BY DEF TypeOK, SagaRow, ActivityCoversRevisions
<1> QED BY <1>1 DEF Silent

\* The ledger after a command.
LEMMA CommitsMeans ==
    ASSUME TypeOK, TypeOK', NEW k \in Keys, NEW operation \in CommandOperations, NEW s \in Sagas,
           Commits(k, operation, s)
    PROVE  /\ mutation[k] = NULL /\ mutation'[k] # NULL
           /\ mutation'[k].provisioning_id = s /\ mutation'[k].operation = operation
           /\ mutation'[k].request.expected_revision = saga[s].revision
           /\ mutation'[k].response.revision = saga[s].revision + 1
           /\ saga'[s].revision = saga[s].revision + 1
           /\ \A l \in Keys : l # k => mutation'[l] = mutation[l]
<1>1. PICK a \in Actors, request \in Request :
         /\ request.expected_revision = saga[s].revision
         /\ Complete(k, operation, a, s, request)
  BY DEF Commits
<1>2. saga'[s].revision = saga[s].revision + 1
  BY DEF Commits, Logs
<1> DEFINE row == [operation |-> operation, actor |-> a, provisioning_id |-> s,
                   request |-> request,
                   response |-> [status |-> saga'[s].status, revision |-> saga'[s].revision]]
<1>3. mutation'[k] = row /\ \A l \in Keys : l # k => mutation'[l] = mutation[l]
  BY <1>1 DEF Complete, TypeOK
<1>4. saga'[s].status \in Statuses /\ saga'[s].revision \in Nat
  BY DEF TypeOK, SagaRow
<1>5. row \in MutationRow
  BY <1>4 DEF MutationRow, CommandOperations
<1>6. mutation[k] = NULL
  BY DEF Commits
<1> QED BY <1>1, <1>2, <1>3, <1>5, <1>6, NoRowAssumption

\* A key's row, if it has one, is a row of a saga.
LEMMA RowOfKey ==
    ASSUME TypeOK, NEW k \in Keys, mutation[k] # NULL
    PROVE  /\ mutation[k].provisioning_id \in Sagas
           /\ mutation[k].response.revision \in Nat
           /\ mutation[k].operation \in CommandOperations
  BY DEF TypeOK, MutationRow, CommandOperations

\* Commands stay serialized.
LEMMA SerializedStep ==
    ASSUME TypeOK, TypeOK', SagasConsistent, ActivityCoversRevisions, CommandsAreSerialized,
           [Next]_vars
    PROVE  CommandsAreSerialized'
<1>1. ASSUME NEW s \in Sagas
      PROVE  /\ saga[s].revision \in Nat /\ saga'[s].revision \in Nat
             /\ saga[s].revision <= saga'[s].revision
  <2>1. saga[s].revision \in Nat
    BY DEF TypeOK, SagaRow
  <2>2. CASE Advances(s)
    <3>1. saga'[s].revision = saga[s].revision + 1
      BY <2>2 DEF Advances, Keeps
    <3> QED BY <2>1, <3>1
  <2>3. CASE Rests(s)
    BY <2>1, <2>3 DEF Rests
  <2> QED BY <2>2, <2>3, StepAdvances
<1>2. ASSUME NEW k \in Keys, NEW operation \in CommandOperations, NEW s \in Sagas,
             Commits(k, operation, s)
      PROVE  CommandsAreSerialized'
  <2>1. /\ mutation'[k].provisioning_id = s
        /\ mutation'[k].request.expected_revision = saga[s].revision
        /\ mutation'[k].response.revision = saga[s].revision + 1
        /\ saga'[s].revision = saga[s].revision + 1
    BY <1>2, CommitsMeans
  <2>2. \A l \in Keys : l # k => mutation'[l] = mutation[l]
    BY <1>2, CommitsMeans
  <2>3. \A l \in Keys : l # k /\ mutation[l] # NULL =>
           /\ mutation[l].provisioning_id \in Sagas
           /\ mutation[l].response.revision \in Nat
           /\ mutation[l].response.revision <= saga[mutation[l].provisioning_id].revision
    BY RowOfKey DEF CommandsAreSerialized
  <2>4. ASSUME NEW l \in Keys, mutation'[l] # NULL
        PROVE  /\ mutation'[l].response.revision = mutation'[l].request.expected_revision + 1
               /\ mutation'[l].response.revision <= saga'[mutation'[l].provisioning_id].revision
    <3>1. CASE l = k
      BY <1>1, <2>1, <3>1
    <3>2. CASE l # k
      BY <1>1, <2>2, <2>3, <2>4, <3>2 DEF CommandsAreSerialized
    <3> QED BY <3>1, <3>2
  <2>5. ASSUME NEW l \in Keys, NEW m \in Keys, mutation'[l] # NULL, mutation'[m] # NULL,
               mutation'[m].provisioning_id = mutation'[l].provisioning_id,
               mutation'[m].response.revision = mutation'[l].response.revision
        PROVE  m = l
    <3>1. CASE l # k /\ m # k
      BY <2>2, <2>5, <3>1 DEF CommandsAreSerialized
    <3>2. CASE l = k /\ m # k
      BY <1>1, <2>1, <2>2, <2>3, <2>5, <3>2
    <3>3. CASE l # k /\ m = k
      BY <1>1, <2>1, <2>2, <2>3, <2>5, <3>3
    <3> QED BY <3>1, <3>2, <3>3
  <2> QED BY <2>4, <2>5 DEF CommandsAreSerialized
<1>3. CASE Works
  <2>1. ASSUME NEW k \in Keys, mutation[k] # NULL
        PROVE  mutation[k].response.revision <= saga'[mutation[k].provisioning_id].revision
    BY <1>1, <2>1, RowOfKey DEF CommandsAreSerialized
  <2> QED BY <1>3, <2>1 DEF Works, CommandsAreSerialized
<1> QED BY <1>2, <1>3, LedgerStep

\* No two commands take effect at one revision of a saga, and each takes effect
\* at the revision its caller had read.
THEOREM Serialization == Spec => []CommandsAreSerialized
<1>1. Init => CommandsAreSerialized
  BY DEF Init, CommandsAreSerialized
<1>2. TypeOK /\ SagasConsistent /\ ActivityCoversRevisions /\ CommandsAreSerialized
         /\ [Next]_vars => CommandsAreSerialized'
  BY NextTypes, SerializedStep
<1> QED BY <1>1, <1>2, Typing, Consistency, HistoryCoverage, PTL DEF Spec
-----------------------------------------------------------------------------
(* The two halves of LedgerMatchesActivity. *)

KeysAreLogged ==
    \A k \in Keys : mutation[k] # NULL =>
        LET rows == activity[mutation[k].provisioning_id]
            i == mutation[k].response.revision
        IN  i \in DOMAIN rows /\ rows[i].kind = OperatorKinds[mutation[k].operation]
HasKey(s, i) == \E k \in Keys : /\ mutation[k] # NULL
                                /\ mutation[k].provisioning_id = s
                                /\ mutation[k].response.revision = i
LogHasKeys ==
    \A s \in Sagas : \A i \in DOMAIN activity[s] :
        activity[s][i].kind \in CommandKinds => HasKey(s, i)

\* Whatever a step logs, the rows that are there stay.
LEMMA LogsStay ==
    ASSUME TypeOK, ActivityCoversRevisions, NEW s \in Sagas,
           Silent(s) \/ \E kind \in ActivityKinds : Logs(s, kind)
    PROVE  \A i \in DOMAIN activity[s] :
              i \in DOMAIN activity'[s] /\ activity'[s][i] = activity[s][i]
<1>1. CASE Silent(s)
  BY <1>1, SilentMeans
<1>2. ASSUME NEW kind \in ActivityKinds, Logs(s, kind)
      PROVE  \A i \in DOMAIN activity[s] :
                i \in DOMAIN activity'[s] /\ activity'[s][i] = activity[s][i]
  <2>1. /\ saga[s].revision \in Nat /\ DOMAIN activity[s] = 1 .. saga[s].revision
        /\ DOMAIN activity'[s] = 1 .. saga[s].revision + 1
        /\ \A i \in 1 .. saga[s].revision : activity'[s][i] = activity[s][i]
    BY <1>2, LogsMean
  <2> QED BY <2>1
<1> QED BY <1>1, <1>2

\* Every key keeps its row of the log.
LEMMA KeysLoggedStep ==
    ASSUME TypeOK, TypeOK', SagasConsistent, ActivityCoversRevisions, KeysAreLogged, [Next]_vars
    PROVE  KeysAreLogged'
<1>1. ASSUME NEW k \in Keys, mutation[k] # NULL, mutation'[k] = mutation[k],
             \A s \in Sagas : Silent(s) \/ \E kind \in ActivityKinds : Logs(s, kind)
      PROVE  /\ mutation'[k].response.revision \in DOMAIN activity'[mutation'[k].provisioning_id]
             /\ activity'[mutation'[k].provisioning_id][mutation'[k].response.revision].kind
                   = OperatorKinds[mutation'[k].operation]
  <2>1. mutation[k].provisioning_id \in Sagas
    BY <1>1, RowOfKey
  <2>2. /\ mutation[k].response.revision \in DOMAIN activity[mutation[k].provisioning_id]
        /\ activity[mutation[k].provisioning_id][mutation[k].response.revision].kind
              = OperatorKinds[mutation[k].operation]
    BY <1>1 DEF KeysAreLogged
  <2> QED BY <1>1, <2>1, <2>2, LogsStay
<1>2. ASSUME NEW k \in Keys, NEW operation \in CommandOperations, NEW s \in Sagas,
             Commits(k, operation, s), NEW l \in Keys, mutation'[l] # NULL
      PROVE  /\ mutation'[l].response.revision \in DOMAIN activity'[mutation'[l].provisioning_id]
             /\ activity'[mutation'[l].provisioning_id][mutation'[l].response.revision].kind
                   = OperatorKinds[mutation'[l].operation]
  <2>1. Logs(s, OperatorKinds[operation]) /\ \A t \in Sagas : t # s => Silent(t)
    BY <1>2 DEF Commits
  <2>2. CASE l = k
    <3>1. /\ mutation'[l].provisioning_id = s /\ mutation'[l].operation = operation
          /\ mutation'[l].response.revision = saga[s].revision + 1
      BY <1>2, <2>2, CommitsMeans
    <3>2. /\ saga[s].revision \in Nat
          /\ DOMAIN activity'[s] = 1 .. saga[s].revision + 1
          /\ activity'[s][saga[s].revision + 1].kind = OperatorKinds[operation]
      BY <2>1, LogsMean
    <3> QED BY <3>1, <3>2
  <2>3. CASE l # k
    <3>1. mutation'[l] = mutation[l]
      BY <1>2, <2>3, CommitsMeans
    <3>2. \A t \in Sagas : Silent(t) \/ \E kind \in ActivityKinds : Logs(t, kind)
      BY <2>1 DEF Logs
    <3> QED BY <1>1, <1>2, <3>1, <3>2
  <2> QED BY <2>2, <2>3
<1>3. CASE Works
  <2>1. \A s \in Sagas : Silent(s) \/ \E kind \in ActivityKinds : Logs(s, kind)
    BY <1>3 DEF Works
  <2> QED BY <1>1, <1>3, <2>1 DEF Works, KeysAreLogged
<1> QED BY <1>2, <1>3, LedgerStep DEF KeysAreLogged

\* Every command in the log keeps its key.
LEMMA LogHasKeysStep ==
    ASSUME TypeOK, TypeOK', SagasConsistent, ActivityCoversRevisions, LogHasKeys, [Next]_vars
    PROVE  LogHasKeys'
<1>1. ASSUME NEW s \in Sagas, NEW i \in DOMAIN activity[s], activity[s][i].kind \in CommandKinds,
             \A k \in Keys : mutation[k] # NULL => mutation'[k] = mutation[k]
      PROVE  HasKey(s, i)'
  BY <1>1 DEF LogHasKeys, HasKey
<1>2. ASSUME NEW k \in Keys, NEW operation \in CommandOperations, NEW s \in Sagas,
             Commits(k, operation, s), NEW t \in Sagas, NEW i \in DOMAIN activity'[t],
             activity'[t][i].kind \in CommandKinds
      PROVE  HasKey(t, i)'
  <2>1. Logs(s, OperatorKinds[operation]) /\ \A u \in Sagas : u # s => Silent(u)
    BY <1>2 DEF Commits
  <2>2. \A l \in Keys : mutation[l] # NULL => mutation'[l] = mutation[l]
    BY <1>2, CommitsMeans
  <2>3. CASE t = s /\ i = saga[s].revision + 1
    <3>1. /\ mutation'[k] # NULL /\ mutation'[k].provisioning_id = s
          /\ mutation'[k].response.revision = saga[s].revision + 1
      BY <1>2, CommitsMeans
    <3> QED BY <2>3, <3>1 DEF HasKey
  <2>4. CASE t = s /\ i # saga[s].revision + 1
    <3>1. /\ saga[s].revision \in Nat /\ DOMAIN activity[s] = 1 .. saga[s].revision
          /\ DOMAIN activity'[s] = 1 .. saga[s].revision + 1
          /\ \A j \in 1 .. saga[s].revision : activity'[s][j] = activity[s][j]
      BY <2>1, LogsMean
    <3>2. i \in DOMAIN activity[t] /\ activity[t][i] = activity'[t][i]
      BY <1>2, <2>4, <3>1
    <3> QED BY <1>1, <1>2, <2>2, <3>2
  <2>5. CASE t # s
    <3>1. activity'[t] = activity[t]
      BY <2>1, <2>5 DEF Silent
    <3> QED BY <1>1, <1>2, <2>2, <3>1
  <2> QED BY <2>3, <2>4, <2>5
<1>3. ASSUME Works, NEW t \in Sagas, NEW i \in DOMAIN activity'[t],
             activity'[t][i].kind \in CommandKinds
      PROVE  HasKey(t, i)'
  <2>1. \A l \in Keys : mutation[l] # NULL => mutation'[l] = mutation[l]
    BY <1>3 DEF Works
  <2>2. CASE Silent(t)
    <3>1. activity'[t] = activity[t]
      BY <2>2 DEF Silent
    <3> QED BY <1>1, <1>3, <2>1, <3>1
  <2>3. ASSUME NEW kind \in ActivityKinds \ CommandKinds, Logs(t, kind)
        PROVE  HasKey(t, i)'
    <3>1. /\ saga[t].revision \in Nat /\ DOMAIN activity[t] = 1 .. saga[t].revision
          /\ DOMAIN activity'[t] = 1 .. saga[t].revision + 1
          /\ \A j \in 1 .. saga[t].revision : activity'[t][j] = activity[t][j]
          /\ activity'[t][saga[t].revision + 1].kind = kind
      BY <2>3, LogsMean
    <3>2. i \in DOMAIN activity[t] /\ activity[t][i] = activity'[t][i]
      BY <1>3, <3>1
    <3> QED BY <1>1, <1>3, <2>1, <3>2
  <2> QED BY <1>3, <2>2, <2>3 DEF Works
<1> QED BY <1>2, <1>3, LedgerStep DEF LogHasKeys

\* The ledger and the log tell the same commands: each key its row, each
\* command its key.
THEOREM LedgerAgreement == Spec => []LedgerMatchesActivity
<1>1. Init => KeysAreLogged /\ LogHasKeys
  BY DEF Init, KeysAreLogged, LogHasKeys
<1>2. TypeOK /\ SagasConsistent /\ ActivityCoversRevisions /\ KeysAreLogged /\ LogHasKeys
         /\ [Next]_vars => KeysAreLogged' /\ LogHasKeys'
  BY NextTypes, KeysLoggedStep, LogHasKeysStep
<1>3. KeysAreLogged /\ LogHasKeys => LedgerMatchesActivity
  BY DEF KeysAreLogged, LogHasKeys, HasKey, CommandKinds, LedgerMatchesActivity
<1> QED BY <1>1, <1>2, <1>3, Typing, Consistency, HistoryCoverage, PTL DEF Spec
=============================================================================
