--------------------------- MODULE RowLocksProofs ---------------------------
(***************************************************************************)
(* Statement by statement, claim_next and quarantine_expired are atomic:   *)
(* between its saga query and its commit a transaction holds the rows of   *)
(* the sagas it found, so they are still what it chose them for when it    *)
(* writes.  What an old snapshot said does not matter: a status that is    *)
(* right now, and consistent rows, are enough.                             *)
(***************************************************************************)
EXTENDS RowLocks, StorageHistoryProofs, FiniteSetTheorems, WellFoundedInduction

\* A set of numbers has a least one.
LEMMA Least ==
    ASSUME NEW T, T \subseteq Nat, T # {}
    PROVE  \E x \in T : \A y \in T : x <= y
<1>1. \E x \in T : \A y \in T : ~ (<<y, x>> \in OpToRel(<, Nat))
  BY NatLessThanWellFounded, WFMin
<1>2. \A x, y \in Nat : <<y, x>> \in OpToRel(<, Nat) <=> y < x
  BY DEF OpToRel
<1>3. PICK x \in T : \A y \in T : ~ (<<y, x>> \in OpToRel(<, Nat))
  BY <1>1
<1>4. \A y \in T : ~ (y < x)
  BY <1>2, <1>3
<1> QED BY <1>4

\* Among pending effects of a phase one comes first.
LEMMA FirstExists ==
    ASSUME NEW p \in SagaRow, NEW E, PendingIn(E, p.cleanup_requested) # {}
    PROVE  \E e \in Slots : IsNext(p, E, e)
<1> DEFINE P == PendingIn(E, p.cleanup_requested)
<1>1. \A e \in P : e \in Slots
  BY DEF PendingIn, Phase
<1>2. CASE Create \in P
  <2>1. Create[1] = "create_organization" /\ Create[2] = 0
    BY SlotFacts
  <2>2. \A f \in P : ~ Before(f, Create)
    <3> TAKE f \in P
    <3>1. f \in Slots /\ (f[1] = "create_organization" => f = Create)
      BY <1>1, SlotKinds
    <3> QED BY <2>1, <3>1 DEF Before
  <2> QED BY <1>1, <1>2, <2>2 DEF IsNext
<1>3. ASSUME Create \notin P
      PROVE  \E e \in Slots : IsNext(p, E, e)
  <2> DEFINE T == {e[2] : e \in P}
  <2>1. \A e \in P : e[2] \in Ordinals /\ e[1] # "create_organization"
    BY <1>1, <1>3, SlotKinds
  <2>2. Ordinals \subseteq Nat
    BY MaxGrantsAssumption DEF Ordinals
  <2>3. T \subseteq Nat /\ T # {}
    BY <2>1, <2>2
  <2>4. PICK x \in T : \A y \in T : x <= y
    BY <2>3, Least
  <2>5. PICK e \in P : e[2] = x
    BY <2>4
  <2>6. \A f \in P : ~ Before(f, e)
    <3> TAKE f \in P
    <3>1. x <= f[2] /\ x \in Nat /\ f[2] \in Nat
      BY <2>1, <2>2, <2>4
    <3> QED BY <2>1, <2>5, <3>1 DEF Before
  <2> QED BY <1>1, <2>6 DEF IsNext
<1> QED BY <1>2, <1>3
-----------------------------------------------------------------------------
(* What steps of Storage do to a lease. *)

\* An effect in flight is newly claimed, or it was in flight under the same
\* claim and its lease has only run on.
LeaseRuns(old, new) ==
    new.state = "in_flight" =>
        \/ new.attempts = old.attempts + 1
        \/ new = old
        \/ old.state = "in_flight" /\ new = [old EXCEPT !.lease_until = "past"]

\* No other update leaves an effect in flight.
LEMMA NotInFlight ==
    ASSUME NEW old \in EffectRow
    PROVE  /\ QuarantinedEffect(old).state # "in_flight" /\ ResetEffect(old).state # "in_flight"
           /\ \A e \in Slots : \A outcome \in Outcomes(e[1]) :
                 SettledEffect(old, outcome).state # "in_flight"
           /\ \A p \in SagaRow, e \in Slots : \A resolution, observed :
                 \A row \in Resolved(p, old, e[1], resolution, observed) : row.state # "in_flight"
<1>1. QuarantinedEffect(old).state # "in_flight" /\ ResetEffect(old).state # "in_flight"
  BY ReleasedMeans DEF QuarantinedEffect, ResetEffect
<1>2. ASSUME NEW e \in Slots, NEW outcome \in Outcomes(e[1])
      PROVE  SettledEffect(old, outcome).state # "in_flight"
  BY SettledMeans, OutcomeType
<1>3. ASSUME NEW p \in SagaRow, NEW e \in Slots, NEW resolution, NEW observed,
             NEW row \in Resolved(p, old, e[1], resolution, observed)
      PROVE  row.state # "in_flight"
  BY <1>1, <1>2, ResolvedType
<1> QED BY <1>1, <1>2, <1>3

\* One effect of one saga is written.
LEMMA OneRowRuns ==
    ASSUME TypeOK, NEW s \in Sagas, NEW e \in Slots, NEW row,
           effect' = [effect EXCEPT ![s][e] = row], LeaseRuns(effect[s][e], row)
    PROVE  \A t \in Sagas, f \in Slots : LeaseRuns(effect[t][f], effect'[t][f])
  BY DEF TypeOK, LeaseRuns

\* Every step only lets leases run.
LEMMA LeasesRun ==
    ASSUME TypeOK, [Next]_vars
    PROVE  \A t \in Sagas, f \in Slots : LeaseRuns(effect[t][f], effect'[t][f])
<1> DEFINE Goal == \A t \in Sagas, f \in Slots : LeaseRuns(effect[t][f], effect'[t][f])
<1>0. \A t \in Sagas, f \in Slots : effect[t][f] \in EffectRow /\ saga[t] \in SagaRow
  BY DEF TypeOK
<1>1. ASSUME NEW s \in Sagas, NEW a \in Actors, NEW n \in 0 .. MaxGrants, NEW k \in Keys,
             Start(s, a, n, k)
      PROVE  Goal
  <2>1. effect' = [effect EXCEPT ![s] = StartedEffects(n)]
    BY <1>1 DEF Start
  <2>2. \A f \in Slots : StartedEffects(n)[f].state # "in_flight"
    BY DEF StartedEffects, PendingEffect, NoEffect
  <2> QED BY <2>1, <2>2 DEF TypeOK, LeaseRuns
<1>2. ASSUME NEW s \in Sagas, NEW a \in Actors, NEW k \in Keys, NEW request,
             Retry(s, a, k, request)
      PROVE  Goal
  <2>1. PICK e \in Selected(saga[s], effect[s]) :
          \E row \in Resolved(saga[s], effect[s][e], e[1], request.resolution, request.observed) :
             effect' = [effect EXCEPT ![s][e] = row]
    BY <1>2 DEF Retry
  <2>2. PICK row \in Resolved(saga[s], effect[s][e], e[1], request.resolution, request.observed) :
          effect' = [effect EXCEPT ![s][e] = row]
    BY <2>1
  <2>3. e \in Slots
    BY DEF Selected
  <2>4. row.state # "in_flight"
    BY <1>0, <2>3, NotInFlight
  <2> QED BY <2>2, <2>3, <2>4, OneRowRuns DEF LeaseRuns
<1>3. ASSUME NEW s \in Sagas, NEW a \in Actors, NEW k \in Keys, NEW expected,
             RequestCleanup(s, a, k, expected)
      PROVE  Goal
  <2>1. effect' = [effect EXCEPT ![s] = CleanedEffects(effect[s])]
    BY <1>3 DEF RequestCleanup
  <2>2. ASSUME NEW f \in Slots
        PROVE  LeaseRuns(effect[s][f], CleanedEffects(effect[s])[f])
    <3>1. \A id : PendingEffect(id).state = "pending"
      BY DEF PendingEffect, NoEffect
    <3>2. \/ CleanedEffects(effect[s])[f].state \in {"skipped", "pending"}
          \/ CleanedEffects(effect[s])[f] = effect[s][f]
      BY <1>0, <3>1 DEF CleanedEffects, EffectRow
    <3> QED BY <3>2 DEF LeaseRuns
  <2>3. /\ effect'[s] = CleanedEffects(effect[s])
        /\ \A t \in Sagas : t # s => effect'[t] = effect[t]
    BY <2>1 DEF TypeOK
  <2> QED BY <2>2, <2>3 DEF LeaseRuns
<1>4. ASSUME NEW batch \in SUBSET Sagas, QuarantineExpired(batch)
      PROVE  Goal
  <2>1. PICK victim \in [batch -> Slots] :
          effect' = [s \in Sagas |->
              IF s \in batch THEN [effect[s] EXCEPT ![victim[s]] = QuarantinedEffect(@)]
              ELSE effect[s]]
    BY <1>4 DEF QuarantineExpired, Quarantine
  <2>2. ASSUME NEW t \in Sagas, NEW f \in Slots
        PROVE  effect'[t][f] = effect[t][f] \/ effect'[t][f] = QuarantinedEffect(effect[t][f])
    BY <2>1 DEF TypeOK
  <2> QED BY <1>0, <2>2, NotInFlight DEF LeaseRuns
<1>5. ASSUME NEW s \in Sagas, ClaimNext(s)
      PROVE  Goal
  <2>1. PICK e \in Slots : effect' = [effect EXCEPT ![s][e] = ClaimedEffect(@)]
    BY <1>5 DEF ClaimNext, Claim
  <2>2. ClaimedEffect(effect[s][e]).attempts = effect[s][e].attempts + 1
    BY <1>0, RowsMean
  <2> QED BY <2>1, <2>2, OneRowRuns DEF LeaseRuns
<1>6. ASSUME NEW r \in held, NEW outcome \in Answers(r), FinalizeEffect(r, outcome)
      PROVE  Goal
  <2>1. r.saga \in Sagas /\ r.slot \in Slots /\ outcome \in Outcomes(r.slot[1])
    BY <1>6, AnswersAreOutcomes DEF TypeOK, HeldRecord
  <2>2. effect' = [effect EXCEPT ![r.saga][r.slot] = SettledEffect(@, outcome)]
    BY <1>6 DEF FinalizeEffect
  <2>3. SettledEffect(effect[r.saga][r.slot], outcome).state # "in_flight"
    BY <1>0, <2>1, NotInFlight
  <2> QED BY <2>1, <2>2, <2>3, OneRowRuns DEF LeaseRuns
<1>7. ASSUME NEW s \in Sagas, NEW e \in Slots, LeaseExpires(s, e)
      PROVE  Goal
  <2>1. /\ effect[s][e].state = "in_flight"
        /\ effect' = [effect EXCEPT ![s][e] = [@ EXCEPT !.lease_until = "past"]]
    BY <1>7 DEF LeaseExpires
  <2> QED BY <2>1, OneRowRuns DEF LeaseRuns
<1>8. ASSUME effect' = effect
      PROVE  Goal
  BY <1>8 DEF LeaseRuns
<1>9. ASSUME NEW r \in held, FinalizeSuperseded(r) \/ WorkerLost(r)
      PROVE  effect' = effect
  BY <1>9 DEF FinalizeSuperseded, WorkerLost
<1>10. UNCHANGED vars => effect' = effect
  BY DEF vars
<1> HIDE DEF Goal
<1>11. Goal
  BY <1>1, <1>2, <1>3, <1>4, <1>5, <1>6, <1>7, <1>8, <1>9, <1>10 DEF Next
<1> QED BY <1>11 DEF Goal
-----------------------------------------------------------------------------
(* The transactions' variables. *)

Snapshots == {NULL} \cup [saga : [Sagas -> SagaRow], effect : [Sagas -> [Slots -> EffectRow]]]
Founds == UNION {[S -> Slots] : S \in SUBSET Sagas}
TxRow == [op : Operations \cup {NULL}, at : Points, past : SUBSET (Sagas \X Slots \X (Nat \cup {NULL})),
          snapshot : Snapshots, row : Sagas \cup {NULL}, found : Founds]
LockTypes ==
    /\ lock \in [Sagas -> Connections \cup {NULL}]
    /\ tx \in [Connections -> TxRow]
    /\ \A w \in Connections : tx[w].at = "locked" => tx[w].row \in Sagas

\* A function found is a function from its sagas to slots.
LEMMA FoundsMean ==
    ASSUME NEW f \in Founds
    PROVE  DOMAIN f \subseteq Sagas /\ f \in [DOMAIN f -> Slots] /\ \A s \in DOMAIN f : f[s] \in Slots
  BY DEF Founds

\* The transaction of a connection that does nothing.
LEMMA IdleMeans ==
    /\ Idle \in TxRow /\ Idle.op = NULL /\ Idle.at = "idle" /\ Idle.past = {}
    /\ DOMAIN Idle.found = {}
<1>1. <<>> \in [{} -> Slots] /\ DOMAIN <<>> = {}
  OBVIOUS
<1>2. <<>> \in Founds
  BY <1>1 DEF Founds
<1> QED BY <1>1, <1>2 DEF Idle, TxRow, Points, Snapshots

\* The record of a transaction after each of its statements.
Began(t, op, past) == [t EXCEPT !.op = op, !.at = "next", !.past = past]
Locked(t, s) == [t EXCEPT !.at = "locked", !.row = s, !.snapshot = NULL]
Finds(t, found, at) == [t EXCEPT !.found = found, !.row = NULL, !.at = at]
Moved(t, at) == [t EXCEPT !.at = at]
Queries(t, at, snapshot) == [t EXCEPT !.at = at, !.snapshot = snapshot]

\* A transaction that begins.
LEMMA BeganMeans ==
    ASSUME NEW op \in Operations, NEW past \in SUBSET (Sagas \X Slots \X (Nat \cup {NULL}))
    PROVE  /\ Began(Idle, op, past) \in TxRow
           /\ Began(Idle, op, past).op = op /\ Began(Idle, op, past).at = "next"
           /\ Began(Idle, op, past).past = past /\ DOMAIN Began(Idle, op, past).found = {}
<1> DEFINE Old == [op : {Idle.op}, at : {Idle.at}, past : {Idle.past}, snapshot : {Idle.snapshot},
                   row : {Idle.row}, found : {Idle.found}]
           New == [op : {op}, at : {"next"}, past : {past}, snapshot : {Idle.snapshot},
                   row : {Idle.row}, found : {Idle.found}]
<1>1. Idle \in Old
  BY DEF Idle
<1>2. \A r \in Old : [r EXCEPT !.op = op, !.at = "next", !.past = past] \in New
  OBVIOUS
<1>3. /\ Idle.snapshot \in Snapshots /\ Idle.row \in Sagas \cup {NULL} /\ Idle.found \in Founds
      /\ op \in Operations \cup {NULL} /\ "next" \in Points
  BY IdleMeans DEF TxRow, Points
<1>4. \A r \in New : r \in TxRow /\ r.op = op /\ r.at = "next" /\ r.past = past
                     /\ r.found = Idle.found
  BY <1>3 DEF TxRow
<1> HIDE DEF Old, New
<1> QED BY <1>1, <1>2, <1>4, IdleMeans DEF Began

\* A transaction whose saga query ran.
LEMMA LockedMeans ==
    ASSUME NEW t \in TxRow, NEW s \in Sagas
    PROVE  /\ Locked(t, s) \in TxRow /\ Locked(t, s).at = "locked" /\ Locked(t, s).row = s
           /\ Locked(t, s).op = t.op /\ Locked(t, s).past = t.past /\ Locked(t, s).found = t.found
<1> DEFINE New == [op : {t.op}, at : {"locked"}, past : {t.past}, snapshot : {NULL},
                   row : {s}, found : {t.found}]
<1>1. [t EXCEPT !.at = "locked", !.row = s, !.snapshot = NULL] \in New
  BY DEF TxRow
<1>2. t.op \in Operations \cup {NULL} /\ t.past \in SUBSET (Sagas \X Slots \X (Nat \cup {NULL}))
      /\ t.found \in Founds /\ "locked" \in Points /\ NULL \in Snapshots
  BY DEF TxRow, Points, Snapshots
<1>3. \A r \in New : /\ r \in TxRow /\ r.at = "locked" /\ r.row = s
                     /\ r.op = t.op /\ r.past = t.past /\ r.found = t.found
  BY <1>2 DEF TxRow
<1> HIDE DEF New
<1> QED BY <1>1, <1>3 DEF Locked

\* A transaction whose effect query ran.
LEMMA FindsMean ==
    ASSUME NEW t \in TxRow, NEW found \in Founds, NEW at \in Points
    PROVE  /\ Finds(t, found, at) \in TxRow /\ Finds(t, found, at).at = at
           /\ Finds(t, found, at).found = found
           /\ Finds(t, found, at).op = t.op /\ Finds(t, found, at).past = t.past
<1> DEFINE New == [op : {t.op}, at : {at}, past : {t.past}, snapshot : {t.snapshot},
                   row : {NULL}, found : {found}]
<1>1. [t EXCEPT !.found = found, !.row = NULL, !.at = at] \in New
  BY DEF TxRow
<1>2. t.op \in Operations \cup {NULL} /\ t.past \in SUBSET (Sagas \X Slots \X (Nat \cup {NULL}))
      /\ t.snapshot \in Snapshots
  BY DEF TxRow
<1>3. \A r \in New : /\ r \in TxRow /\ r.at = at /\ r.found = found
                     /\ r.op = t.op /\ r.past = t.past
  BY <1>2 DEF TxRow
<1> HIDE DEF New
<1> QED BY <1>1, <1>3 DEF Finds

\* A transaction whose saga query starts, or that goes on to a later point.
LEMMA AtMeans ==
    ASSUME NEW t \in TxRow, NEW at \in Points, NEW snapshot \in Snapshots
    PROVE  /\ Moved(t, at) \in TxRow /\ Moved(t, at).at = at /\ Moved(t, at).op = t.op
           /\ Moved(t, at).past = t.past /\ Moved(t, at).found = t.found
           /\ Queries(t, at, snapshot) \in TxRow /\ Queries(t, at, snapshot).at = at
           /\ Queries(t, at, snapshot).op = t.op /\ Queries(t, at, snapshot).past = t.past
           /\ Queries(t, at, snapshot).found = t.found
<1> DEFINE New == [op : {t.op}, at : {at}, past : {t.past}, snapshot : {t.snapshot, snapshot},
                   row : {t.row}, found : {t.found}]
<1>1. [t EXCEPT !.at = at] \in New /\ [t EXCEPT !.at = at, !.snapshot = snapshot] \in New
  BY DEF TxRow
<1>2. t.op \in Operations \cup {NULL} /\ t.past \in SUBSET (Sagas \X Slots \X (Nat \cup {NULL}))
      /\ t.snapshot \in Snapshots /\ t.row \in Sagas \cup {NULL} /\ t.found \in Founds
  BY DEF TxRow
<1>3. \A r \in New : /\ r \in TxRow /\ r.at = at
                     /\ r.op = t.op /\ r.past = t.past /\ r.found = t.found
  BY <1>2 DEF TxRow
<1> HIDE DEF New
<1> QED BY <1>1, <1>3 DEF Moved, Queries
-----------------------------------------------------------------------------
(* What a transaction holds. *)

\* A locked saga is still one the query looks for, and a found effect still one
\* it may write.
Kept(w, s) == IF tx[w].op = "claim_next" THEN Claimable(saga[s], effect[s])
              ELSE saga[s].status \in {"running", "cleanup_running"}
Chosen(w, s) == IF tx[w].op = "claim_next" THEN IsNext(saga[s], effect[s], tx[w].found[s])
                ELSE tx[w].found[s] \in ExpiredFor(w, s, effect[s])
HoldsRows(w) ==
    /\ tx[w].at = "locked" => lock[tx[w].row] = w /\ Kept(w, tx[w].row)
    /\ \A s \in Found(w) : lock[s] = w /\ Kept(w, s) /\ Chosen(w, s)

\* A quarantine stays within its limit.
Within(w) ==
    tx[w].op = "quarantine_expired" =>
        /\ IsFiniteSet(Found(w)) /\ Cardinality(Found(w)) <= BatchLimit
        /\ tx[w].at \in {"next", "scanning", "locked"} => Cardinality(Found(w)) < BatchLimit

\* A lease that was past when the transaction began stays past, and the fence
\* it was past for is never given out again.
PastStays(w) ==
    \A d \in tx[w].past :
        /\ d[3] \in Nat /\ d[3] <= effect[d[1]][d[2]].attempts
        /\ effect[d[1]][d[2]].state = "in_flight" /\ effect[d[1]][d[2]].lease_token = d[3] =>
              effect[d[1]][d[2]].lease_until = "past"

\* claim_next never misses its effect.
Fits(w) ==
    /\ tx[w].at = "idle" => Found(w) = {}
    /\ tx[w].at # "idle" => tx[w].op \in Operations
    /\ tx[w].op = "claim_next" => tx[w].at # "disappeared"

LockInvariant == \A w \in Connections : HoldsRows(w) /\ Within(w) /\ PastStays(w) /\ Fits(w)

Spared(s) ==
    /\ saga'[s] = saga[s]
    /\ \A e \in Slots : /\ effect'[s][e].state = effect[s][e].state
                        /\ effect'[s][e].lease_token = effect[s][e].lease_token

\* The queries of claim_next read the saga and the states of its effects.
LEMMA QueriesRead ==
    ASSUME NEW p, NEW E, NEW F, \A e \in Slots : F[e].state = E[e].state
    PROVE  /\ Claimable(p, F) <=> Claimable(p, E)
           /\ \A e : IsNext(p, F, e) <=> IsNext(p, E, e)
<1>1. \A c : PendingIn(F, c) = PendingIn(E, c)
  BY DEF PendingIn, Phase
<1> QED BY <1>1 DEF Claimable, IsNext

\* The fence of an effect in flight is its last attempt.
LEMMA FenceIsAttempt ==
    ASSUME NEW p, NEW E, Consistent(p, E), NEW e \in Slots, E[e].state = "in_flight"
    PROVE  E[e].lease_token = E[e].attempts
  BY DEF Consistent, EffectsConsistent, RowsAgree, NoEffect

\* A saga that is due now has a first effect to claim, whatever the effects
\* were when the query found it.
LEMMA DueHasEffect ==
    ASSUME NEW p \in SagaRow, NEW E \in [Slots -> EffectRow], Consistent(p, E),
           p.status \in {"pending", "cleanup_pending"}
    PROVE  Claimable(p, E) /\ \E e \in Slots : IsNext(p, E, e)
<1>1. EffectsConsistent(p, E) /\ StatusConsistent(p, E)
  BY StoredMeans
<1>2. Claimable(p, E)
  BY <1>1, SummaryHolds
<1>3. PendingIn(E, p.cleanup_requested) # {}
  BY <1>1, StatusMeans
<1> QED BY <1>2, <1>3, FirstExists

\* Past leases stay past through every step.
LEMMA PastStaysPast ==
    ASSUME TypeOK, TypeOK', SagasConsistent, SagasConsistent', [Next]_vars, LockTypes,
           NEW w \in Connections, PastStays(w), tx'[w].past = tx[w].past
    PROVE  PastStays(w)'
<1>1. SUFFICES ASSUME NEW d \in tx[w].past
               PROVE  /\ d[3] \in Nat /\ d[3] <= effect'[d[1]][d[2]].attempts
                      /\ effect'[d[1]][d[2]].state = "in_flight"
                            /\ effect'[d[1]][d[2]].lease_token = d[3] =>
                            effect'[d[1]][d[2]].lease_until = "past"
  BY DEF PastStays
<1>2. d[1] \in Sagas /\ d[2] \in Slots
  BY DEF LockTypes, TxRow
<1> DEFINE old == effect[d[1]][d[2]]
           new == effect'[d[1]][d[2]]
<1>3. /\ d[3] \in Nat /\ d[3] <= old.attempts
      /\ old.state = "in_flight" /\ old.lease_token = d[3] => old.lease_until = "past"
  BY DEF PastStays
<1>4. old \in EffectRow /\ new \in EffectRow
  BY <1>2 DEF TypeOK
<1>5. old.attempts \in Nat /\ new.attempts \in Nat
  BY <1>4 DEF EffectRow
<1>6. old.attempts <= new.attempts
  BY <1>2, EffectsGrow
<1>7. LeaseRuns(old, new)
  BY <1>2, LeasesRun
<1>8. new.state = "in_flight" => new.lease_token = new.attempts
  BY <1>2, FenceIsAttempt DEF SagasConsistent
<1> HIDE DEF old, new
<1>9. d[3] <= new.attempts
  BY <1>3, <1>5, <1>6
<1>10. ASSUME new.state = "in_flight", new.lease_token = d[3]
       PROVE  new.lease_until = "past"
  <2>1. new.attempts # old.attempts + 1
    BY <1>3, <1>5, <1>8, <1>10
  <2>2. CASE new = old
    BY <1>3, <1>10, <2>2
  <2>3. CASE new = [old EXCEPT !.lease_until = "past"]
    BY <1>4, <2>3 DEF EffectRow
  <2> QED BY <1>7, <1>10, <2>1, <2>2, <2>3 DEF LeaseRuns
<1> QED BY <1>3, <1>9, <1>10 DEF old, new

\* What a connection holds stays so while other connections work, if they
\* leave its rows alone.
LEMMA OthersSpare ==
    ASSUME TypeOK, TypeOK', SagasConsistent, SagasConsistent', [Next]_vars, LockTypes,
           NEW w \in Connections, HoldsRows(w), Within(w), PastStays(w), Fits(w),
           tx'[w] = tx[w],
           \A s \in Sagas : lock[s] = w /\ Kept(w, s) => lock'[s] = w /\ Spared(s)
    PROVE  (HoldsRows(w) /\ Within(w) /\ PastStays(w) /\ Fits(w))'
<1>1. PastStays(w)'
  BY PastStaysPast
<1>2. Within(w)' /\ Fits(w)'
  BY DEF Within, Fits, Found
<1>3. DOMAIN tx[w].found \subseteq Sagas /\ (tx[w].at = "locked" => tx[w].row \in Sagas)
      /\ \A s \in DOMAIN tx[w].found : tx[w].found[s] \in Slots
  BY FoundsMean DEF LockTypes, TxRow
<1>4. ASSUME NEW s \in Sagas, lock[s] = w, Kept(w, s)
      PROVE  lock'[s] = w /\ Kept(w, s)'
             /\ (Chosen(w, s) /\ tx[w].found[s] \in Slots => Chosen(w, s)')
  <2>1. lock'[s] = w /\ Spared(s)
    BY <1>4
  <2>2. saga'[s] = saga[s] /\ \A e \in Slots : effect'[s][e].state = effect[s][e].state
    BY <2>1 DEF Spared
  <2>3. /\ Claimable(saga[s], effect'[s]) <=> Claimable(saga[s], effect[s])
        /\ \A e : IsNext(saga[s], effect'[s], e) <=> IsNext(saga[s], effect[s], e)
    BY <2>2, QueriesRead
  <2>4. \A e \in Slots : e \in ExpiredFor(w, s, effect[s]) => e \in ExpiredFor(w, s, effect[s])'
    BY <2>1 DEF ExpiredFor, Spared
  <2>5. Kept(w, s)'
    BY <1>4, <2>2, <2>3 DEF Kept
  <2>6. Chosen(w, s) /\ tx[w].found[s] \in Slots => Chosen(w, s)'
    BY <2>2, <2>3, <2>4 DEF Chosen
  <2> QED BY <2>1, <2>5, <2>6
<1>5. HoldsRows(w)'
  <2>1. tx'[w].at = "locked" => lock'[tx'[w].row] = w /\ Kept(w, tx[w].row)'
    BY <1>3, <1>4 DEF HoldsRows
  <2>2. \A s \in DOMAIN tx[w].found : lock'[s] = w /\ Kept(w, s)' /\ Chosen(w, s)'
    BY <1>3, <1>4 DEF HoldsRows, Found
  <2> QED BY <2>1, <2>2 DEF HoldsRows, Found, Kept, Chosen, ExpiredFor
<1> QED BY <1>1, <1>2, <1>5
-----------------------------------------------------------------------------
(* Steps of one connection. *)

\* Two fields of one transaction are written.
LEMMA FieldsWritten ==
    ASSUME LockTypes, NEW w \in Connections, NEW at, NEW row, NEW snapshot, NEW found
    PROVE  /\ [tx EXCEPT ![w].at = at] = [tx EXCEPT ![w] = [tx[w] EXCEPT !.at = at]]
           /\ [tx EXCEPT ![w].at = at, ![w].snapshot = snapshot] =
                 [tx EXCEPT ![w] = [tx[w] EXCEPT !.at = at, !.snapshot = snapshot]]
           /\ [tx EXCEPT ![w].at = at, ![w].row = row, ![w].snapshot = snapshot] =
                 [tx EXCEPT ![w] = [tx[w] EXCEPT !.at = at, !.row = row, !.snapshot = snapshot]]
           /\ [tx EXCEPT ![w].found = found, ![w].row = row, ![w].at = at] =
                 [tx EXCEPT ![w] = [tx[w] EXCEPT !.found = found, !.row = row, !.at = at]]
  BY DEF LockTypes

\* Every step of a connection writes its own transaction, keeps the variables'
\* types, and takes or gives up only rows of its own.
StepOf(w) ==
    \/ \E op \in Operations : Begin(w, op)
    \/ Scan(w)
    \/ \E s \in Sagas : LockRow(w, s)
    \/ FindNone(w) \/ FindEffect(w) \/ MissEffect(w) \/ Commit(w) \/ Rollback(w)
Owns(w, t) ==
    /\ t \in TxRow /\ (t.at = "locked" => t.row \in Sagas)
    /\ tx' = [tx EXCEPT ![w] = t]
    /\ lock' \in [Sagas -> Connections \cup {NULL}]
    /\ \A s \in Sagas : lock[s] \notin {w, NULL} => lock'[s] = lock[s]

\* The slots whose leases are past.
LEMMA PastLeasesTyped ==
    ASSUME TypeOK, SagasConsistent, NEW op
    PROVE  /\ PastLeases \in SUBSET (Sagas \X Slots \X (Nat \cup {NULL}))
           /\ \A d \in PastLeases :
                 /\ d[3] \in Nat /\ d[3] = effect[d[1]][d[2]].attempts
                 /\ effect[d[1]][d[2]].lease_until = "past"
<1>1. ASSUME NEW d \in PastLeases
      PROVE  \E c \in Sagas \X Slots :
                /\ d = <<c[1], c[2], effect[c[1]][c[2]].lease_token>>
                /\ Expired(c[1], c[2])
  BY DEF PastLeases
<1>2. ASSUME NEW d \in PastLeases
      PROVE  /\ d \in Sagas \X Slots \X (Nat \cup {NULL})
             /\ d[3] \in Nat /\ d[3] = effect[d[1]][d[2]].attempts
             /\ effect[d[1]][d[2]].lease_until = "past"
  <2>1. PICK c \in Sagas \X Slots : /\ d = <<c[1], c[2], effect[c[1]][c[2]].lease_token>>
                                    /\ Expired(c[1], c[2])
    BY <1>1
  <2>2. c[1] \in Sagas /\ c[2] \in Slots
    BY <2>1
  <2>3. effect[c[1]][c[2]] \in EffectRow
    BY <2>2 DEF TypeOK
  <2>4. effect[c[1]][c[2]].lease_token = effect[c[1]][c[2]].attempts
    BY <2>1, <2>2, FenceIsAttempt DEF Expired, SagasConsistent
  <2>5. effect[c[1]][c[2]].attempts \in Nat /\ effect[c[1]][c[2]].lease_until = "past"
    BY <2>1, <2>3 DEF Expired, EffectRow
  <2>6. d[1] = c[1] /\ d[2] = c[2] /\ d[3] = effect[c[1]][c[2]].lease_token
    BY <2>1
  <2>7. d \in Sagas \X Slots \X (Nat \cup {NULL})
    BY <2>1, <2>2, <2>4, <2>5
  <2> QED BY <2>4, <2>5, <2>6, <2>7
<1> QED BY <1>2

\* A step of a connection writes one transaction.
LEMMA StepOwns ==
    ASSUME TypeOK, SagasConsistent, LockTypes, NEW w \in Connections, StepOf(w)
    PROVE  \E t : Owns(w, t)
<1>1. tx[w] \in TxRow
  BY DEF LockTypes
<1>2. lock' = lock => /\ lock' \in [Sagas -> Connections \cup {NULL}]
                      /\ \A s \in Sagas : lock[s] \notin {w, NULL} => lock'[s] = lock[s]
  BY DEF LockTypes
<1>3. lock' = Unlocked(w) => /\ lock' \in [Sagas -> Connections \cup {NULL}]
                             /\ \A s \in Sagas : lock[s] \notin {w, NULL} => lock'[s] = lock[s]
  BY DEF LockTypes, Unlocked
<1>4. ASSUME NEW op \in Operations, Begin(w, op)
      PROVE  \E t : Owns(w, t)
  <2> DEFINE past == IF op = "quarantine_expired" THEN PastLeases ELSE {}
  <2>1. past \in SUBSET (Sagas \X Slots \X (Nat \cup {NULL}))
    BY PastLeasesTyped
  <2>2. tx' = [tx EXCEPT ![w] = Began(Idle, op, past)] /\ lock' = lock
    BY <1>4 DEF Begin, Began
  <2> HIDE DEF past
  <2>3. Began(Idle, op, past) \in TxRow /\ Began(Idle, op, past).at = "next"
    BY <2>1, BeganMeans
  <2> QED BY <1>2, <2>2, <2>3 DEF Owns
<1>5. ASSUME Scan(w)
      PROVE  \E t : Owns(w, t)
  <2> DEFINE snap == [saga |-> saga, effect |-> effect]
             t == Queries(tx[w], "scanning", snap)
  <2>1. snap \in Snapshots /\ "scanning" \in Points
    BY DEF TypeOK, Snapshots, Points
  <2>2. t \in TxRow /\ t.at = "scanning"
    BY <1>1, <2>1, AtMeans
  <2>3. [tx EXCEPT ![w].at = "scanning", ![w].snapshot = [saga |-> saga, effect |-> effect]]
           = [tx EXCEPT ![w] = t]
    BY FieldsWritten DEF Queries
  <2>4. tx' = [tx EXCEPT ![w].at = "scanning", ![w].snapshot = [saga |-> saga, effect |-> effect]]
        /\ lock' = lock
    BY <1>5 DEF Scan
  <2> HIDE DEF t
  <2> QED BY <1>2, <2>2, <2>3, <2>4 DEF Owns
<1>6. ASSUME NEW s \in Sagas, LockRow(w, s)
      PROVE  \E t : Owns(w, t)
  <2>1. tx' = [tx EXCEPT ![w] = Locked(tx[w], s)]
    BY <1>6, FieldsWritten DEF LockRow, Locked
  <2>2. Locked(tx[w], s) \in TxRow /\ Locked(tx[w], s).row = s
    BY <1>1, LockedMeans
  <2>3. lock' = [lock EXCEPT ![s] = w] /\ lock[s] = NULL
    BY <1>6 DEF LockRow, Free
  <2>4. /\ lock' \in [Sagas -> Connections \cup {NULL}]
        /\ \A u \in Sagas : lock[u] \notin {w, NULL} => lock'[u] = lock[u]
    BY <2>3 DEF LockTypes
  <2> QED BY <2>1, <2>2, <2>4 DEF Owns
<1>7. ASSUME FindNone(w)
      PROVE  \E t : Owns(w, t)
  <2> DEFINE t == Queries(tx[w], "ready", NULL)
  <2>1. NULL \in Snapshots /\ "ready" \in Points
    BY DEF Snapshots, Points
  <2>2. t \in TxRow /\ t.at = "ready"
    BY <1>1, <2>1, AtMeans
  <2>3. [tx EXCEPT ![w].at = "ready", ![w].snapshot = NULL]
           = [tx EXCEPT ![w] = t]
    BY FieldsWritten DEF Queries
  <2>4. tx' = [tx EXCEPT ![w].at = "ready", ![w].snapshot = NULL]
        /\ lock' = lock
    BY <1>7 DEF FindNone
  <2> HIDE DEF t
  <2> QED BY <1>2, <2>2, <2>3, <2>4 DEF Owns
<1>8. ASSUME FindEffect(w)
      PROVE  \E t : Owns(w, t)
  <2> DEFINE s == tx[w].row
             D == Found(w) \cup {s}
             f(e) == [u \in D |-> IF u = s THEN e ELSE tx[w].found[u]]
             at(e) == IF /\ tx[w].op = "quarantine_expired"
                         /\ Cardinality(DOMAIN f(e)) < BatchLimit
                      THEN "next" ELSE "ready"
  <2>1. PICK e \in Slots :
           tx' = [tx EXCEPT ![w].found = f(e), ![w].row = NULL, ![w].at = at(e)]
    BY <1>8 DEF FindEffect
  <2>2. PICK found : found = f(e)
    OBVIOUS
  <2>3. PICK a \in Points : a = at(e) /\ a # "locked"
    BY DEF Points
  <2>4. s \in Sagas
    BY <1>8 DEF FindEffect, LockTypes
  <2>5. Found(w) \subseteq Sagas /\ \A u \in Found(w) : tx[w].found[u] \in Slots
    BY <1>1, FoundsMean DEF TxRow, Found
  <2>6. found \in Founds
    <3>1. D \in SUBSET Sagas /\ found \in [D -> Slots]
      BY <2>2, <2>4, <2>5
    <3> QED BY <3>1 DEF Founds
  <2> HIDE DEF f, at
  <2>7. tx' = [tx EXCEPT ![w] = Finds(tx[w], found, a)]
    BY <2>1, <2>2, <2>3, FieldsWritten DEF Finds
  <2>8. Finds(tx[w], found, a) \in TxRow /\ Finds(tx[w], found, a).at # "locked"
    BY <1>1, <2>3, <2>6, FindsMean
  <2>9. lock' = lock
    BY <1>8 DEF FindEffect
  <2> QED BY <1>2, <2>7, <2>8, <2>9 DEF Owns
<1>9. ASSUME MissEffect(w)
      PROVE  \E t : Owns(w, t)
  <2> DEFINE t == Moved(tx[w], "disappeared")
  <2>1. NULL \in Snapshots /\ "disappeared" \in Points
    BY DEF Snapshots, Points
  <2>2. t \in TxRow /\ t.at = "disappeared"
    BY <1>1, <2>1, AtMeans
  <2>3. tx' = [tx EXCEPT ![w] = t] /\ lock' = lock
    BY <1>9, FieldsWritten DEF MissEffect, At, Moved
  <2> HIDE DEF t
  <2> QED BY <1>2, <2>2, <2>3 DEF Owns
<1>10. ASSUME Commit(w) \/ Rollback(w)
       PROVE  \E t : Owns(w, t)
  <2>1. tx' = [tx EXCEPT ![w] = Idle] /\ lock' = Unlocked(w)
    BY <1>10 DEF Commit, Rollback
  <2> QED BY <1>3, <2>1, IdleMeans DEF Owns
<1> QED BY <1>4, <1>5, <1>6, <1>7, <1>8, <1>9, <1>10 DEF StepOf

\* A step of a connection writes its own transaction and no other.
LEMMA OwnsMeans ==
    ASSUME LockTypes, NEW w \in Connections, NEW t, Owns(w, t)
    PROVE  LockTypes' /\ tx'[w] = t /\ \A v \in Connections : v # w => tx'[v] = tx[v]
<1>1. tx'[w] = t /\ \A v \in Connections : v # w => tx'[v] = tx[v]
  BY DEF Owns, LockTypes
<1>2. tx' \in [Connections -> TxRow]
  BY DEF Owns, LockTypes
<1>3. \A v \in Connections : tx'[v].at = "locked" => tx'[v].row \in Sagas
  BY <1>1 DEF Owns, LockTypes
<1> QED BY <1>1, <1>2, <1>3 DEF Owns, LockTypes
-----------------------------------------------------------------------------
(* What a connection knows after a step of its own. *)

Knows(w) == HoldsRows(w) /\ Within(w) /\ PastStays(w) /\ Fits(w)

\* A connection that is idle knows nothing.
LEMMA IdleKnows ==
    ASSUME NEW w \in Connections, tx'[w] = Idle
    PROVE  Knows(w)'
<1>1. DOMAIN tx'[w].found = {} /\ tx'[w].at = "idle" /\ tx'[w].past = {}
  BY IdleMeans
<1>2. IsFiniteSet({}) /\ Cardinality({}) = 0
  BY FS_EmptySet
<1>3. HoldsRows(w)'
  BY <1>1 DEF HoldsRows, Found
<1>4. Within(w)'
  BY <1>1, <1>2, BatchLimitAssumption DEF Within, Found
<1>5. PastStays(w)' /\ Fits(w)'
  BY <1>1 DEF PastStays, Fits, Found
<1> QED BY <1>3, <1>4, <1>5 DEF Knows

\* A transaction that begins knows which leases are past.
LEMMA BeginKnows ==
    ASSUME TypeOK, SagasConsistent, LockTypes, NEW w \in Connections, NEW op \in Operations,
           Begin(w, op)
    PROVE  Knows(w)'
<1> DEFINE past == IF op = "quarantine_expired" THEN PastLeases ELSE {}
<1>1. /\ past \in SUBSET (Sagas \X Slots \X (Nat \cup {NULL}))
      /\ \A d \in past : /\ d[3] \in Nat /\ d[3] = effect[d[1]][d[2]].attempts
                         /\ effect[d[1]][d[2]].lease_until = "past"
  BY PastLeasesTyped
<1>2. tx'[w] = Began(Idle, op, past) /\ effect' = effect
  BY DEF Begin, Began, LockTypes, vars
<1> HIDE DEF past
<1>3. /\ tx'[w].op = op /\ tx'[w].at = "next" /\ tx'[w].past = past
      /\ DOMAIN tx'[w].found = {}
  BY <1>1, <1>2, BeganMeans
<1>4. IsFiniteSet({}) /\ Cardinality({}) = 0
  BY FS_EmptySet
<1>5. HoldsRows(w)'
  BY <1>3 DEF HoldsRows, Found
<1>6. Within(w)'
  BY <1>3, <1>4, BatchLimitAssumption DEF Within, Found
<1>7. PastStays(w)'
  BY <1>1, <1>2, <1>3 DEF PastStays
<1>8. Fits(w)'
  BY <1>3 DEF Fits
<1> QED BY <1>5, <1>6, <1>7, <1>8 DEF Knows

\* Between its begin and its commit a transaction changes no saga.
LEMMA SameRows ==
    ASSUME NEW w \in Connections, UNCHANGED vars, tx'[w].op = tx[w].op, tx'[w].past = tx[w].past
    PROVE  /\ PastStays(w) => PastStays(w)'
           /\ \A s : Kept(w, s)' <=> Kept(w, s)
           /\ \A s : tx'[w].found[s] = tx[w].found[s] => (Chosen(w, s)' <=> Chosen(w, s))
           /\ \A s, e : (e \in ExpiredFor(w, s, effect[s]))' <=> e \in ExpiredFor(w, s, effect[s])
<1>1. saga' = saga /\ effect' = effect
  BY DEF vars
<1>2. PastStays(w) => PastStays(w)'
  BY <1>1 DEF PastStays
<1>3. \A s : Kept(w, s)' <=> Kept(w, s)
  BY <1>1 DEF Kept
<1>4. \A s, e : (e \in ExpiredFor(w, s, effect[s]))' <=> e \in ExpiredFor(w, s, effect[s])
  BY <1>1 DEF ExpiredFor
<1>5. \A s : tx'[w].found[s] = tx[w].found[s] => (Chosen(w, s)' <=> Chosen(w, s))
  BY <1>1 DEF Chosen, ExpiredFor
<1> QED BY <1>2, <1>3, <1>4, <1>5

\* A saga query that starts, or ends without a row, leaves what is known.
LEMMA QueryKnows ==
    ASSUME TypeOK, LockTypes, NEW w \in Connections, Knows(w), Scan(w) \/ FindNone(w)
    PROVE  Knows(w)'
<1>0. tx[w] \in TxRow
  BY DEF LockTypes
<1>1. UNCHANGED vars /\ lock' = lock
  BY DEF Scan, FindNone
<1>2. /\ tx'[w].op = tx[w].op /\ tx'[w].past = tx[w].past /\ tx'[w].found = tx[w].found
      /\ tx[w].at \in {"next", "scanning"} /\ tx'[w].at \in {"scanning", "ready"}
  <2>1. CASE Scan(w)
    <3> DEFINE snap == [saga |-> saga, effect |-> effect]
               t == Queries(tx[w], "scanning", snap)
    <3>1. snap \in Snapshots /\ "scanning" \in Points
      BY DEF TypeOK, Snapshots, Points
    <3>2. t.at = "scanning" /\ t.op = tx[w].op /\ t.past = tx[w].past /\ t.found = tx[w].found
      BY <1>0, <3>1, AtMeans
    <3>3. tx' = [tx EXCEPT ![w].at = "scanning", ![w].snapshot = snap] /\ tx[w].at = "next"
      BY <2>1 DEF Scan
    <3>4. [tx EXCEPT ![w].at = "scanning", ![w].snapshot = snap] = [tx EXCEPT ![w] = t]
      BY FieldsWritten DEF Queries
    <3> HIDE DEF t
    <3>5. tx'[w] = t
      BY <3>3, <3>4 DEF LockTypes
    <3> QED BY <3>2, <3>3, <3>5
  <2>2. CASE FindNone(w)
    <3> DEFINE t == Queries(tx[w], "ready", NULL)
    <3>1. NULL \in Snapshots /\ "ready" \in Points
      BY DEF Snapshots, Points
    <3>2. t.at = "ready" /\ t.op = tx[w].op /\ t.past = tx[w].past /\ t.found = tx[w].found
      BY <1>0, <3>1, AtMeans
    <3>3. tx' = [tx EXCEPT ![w].at = "ready", ![w].snapshot = NULL] /\ tx[w].at = "scanning"
      BY <2>2 DEF FindNone
    <3>4. [tx EXCEPT ![w].at = "ready", ![w].snapshot = NULL] = [tx EXCEPT ![w] = t]
      BY FieldsWritten DEF Queries
    <3> HIDE DEF t
    <3>5. tx'[w] = t
      BY <3>3, <3>4 DEF LockTypes
    <3> QED BY <3>2, <3>3, <3>5
  <2> QED BY <2>1, <2>2
<1>3. HoldsRows(w)'
  BY <1>1, <1>2, SameRows DEF Knows, HoldsRows, Found
<1>4. Within(w)'
  BY <1>2 DEF Knows, Within, Found
<1>5. PastStays(w)'
  BY <1>1, <1>2, SameRows DEF Knows
<1>6. Fits(w)'
  BY <1>2 DEF Knows, Fits, Found
<1> QED BY <1>3, <1>4, <1>5, <1>6 DEF Knows

\* A row that is locked is one the query wants now: its status was read when
\* it was locked, and a due saga has an effect to claim.
LEMMA LockRowKnows ==
    ASSUME TypeOK, SagasConsistent, LockTypes, NEW w \in Connections, Knows(w),
           NEW s \in Sagas, LockRow(w, s)
    PROVE  Knows(w)'
<1>0. tx[w] \in TxRow /\ saga[s] \in SagaRow /\ effect[s] \in [Slots -> EffectRow]
      /\ Consistent(saga[s], effect[s])
  BY DEF LockTypes, TypeOK, SagasConsistent
<1>1. UNCHANGED vars /\ lock' = [lock EXCEPT ![s] = w] /\ lock[s] = NULL /\ tx[w].at = "scanning"
  BY DEF LockRow, Free
<1>2. tx' = [tx EXCEPT ![w] = Locked(tx[w], s)]
  BY FieldsWritten DEF LockRow, Locked
<1>3. tx'[w] = Locked(tx[w], s)
  BY <1>2 DEF LockTypes
<1>4. /\ tx'[w].at = "locked" /\ tx'[w].row = s /\ tx'[w].op = tx[w].op
      /\ tx'[w].past = tx[w].past /\ tx'[w].found = tx[w].found
  BY <1>0, <1>3, LockedMeans
<1>5. \A u \in Found(w) : u \in Sagas /\ lock'[u] = w
  <2>1. Found(w) \subseteq Sagas
    BY <1>0, FoundsMean DEF TxRow, Found
  <2>2. \A u \in Found(w) : lock[u] = w
    BY DEF Knows, HoldsRows
  <2> QED BY <1>1, <2>1, <2>2 DEF LockTypes
<1>6. lock'[s] = w
  BY <1>1 DEF LockTypes
<1>7. Kept(w, s)
  <2>1. Recheck(w, s)
    BY DEF LockRow
  <2>2. CASE tx[w].op = "claim_next"
    <3>1. saga[s].status \in {"pending", "cleanup_pending"}
      BY <2>1, <2>2 DEF Recheck, Qualifies, Claimable
    <3>2. Claimable(saga[s], effect[s])
      BY <1>0, <3>1, DueHasEffect
    <3> QED BY <2>2, <3>2 DEF Kept
  <2>3. CASE tx[w].op # "claim_next"
    BY <2>1, <2>3 DEF Recheck, Qualifies, Kept
  <2> QED BY <2>2, <2>3
<1>8. HoldsRows(w)'
  <2>1. \A u \in Found(w) : Kept(w, u) /\ Chosen(w, u)
    BY DEF Knows, HoldsRows
  <2>2. Kept(w, s)' /\ \A u \in Found(w) : Kept(w, u)' /\ Chosen(w, u)'
    BY <1>1, <1>4, <1>7, <2>1, SameRows
  <2>3. Found(w)' = Found(w)
    BY <1>4 DEF Found
  <2> QED BY <1>4, <1>5, <1>6, <2>2, <2>3 DEF HoldsRows, Kept
<1>9. Within(w)'
  BY <1>1, <1>4 DEF Knows, Within, Found
<1>10. PastStays(w)'
  BY <1>1, <1>4, SameRows DEF Knows
<1>11. Fits(w)'
  BY <1>1, <1>4 DEF Knows, Fits, Found
<1> QED BY <1>8, <1>9, <1>10, <1>11 DEF Knows

\* An effect that is found is the one to write.
LEMMA FindEffectKnows ==
    ASSUME TypeOK, LockTypes, NEW w \in Connections, Knows(w), FindEffect(w)
    PROVE  Knows(w)'
<1> DEFINE s == tx[w].row
           D == Found(w) \cup {s}
           f(e) == [u \in D |-> IF u = s THEN e ELSE tx[w].found[u]]
           at(e) == IF /\ tx[w].op = "quarantine_expired"
                       /\ Cardinality(DOMAIN f(e)) < BatchLimit
                    THEN "next" ELSE "ready"
<1>0. tx[w] \in TxRow /\ s \in Sagas /\ tx[w].at = "locked" /\ UNCHANGED vars /\ lock' = lock
  BY DEF LockTypes, FindEffect
<1>1. PICK e \in Slots :
         /\ EffectOf(w, e)
         /\ tx' = [tx EXCEPT ![w].found = f(e), ![w].row = NULL, ![w].at = at(e)]
  BY DEF FindEffect
<1>2. Found(w) \subseteq Sagas /\ \A u \in Found(w) : tx[w].found[u] \in Slots
  BY <1>0, FoundsMean DEF TxRow, Found
<1>3. PICK found : found = f(e)
  OBVIOUS
<1>4. PICK a \in Points : a = at(e)
  BY DEF Points
<1>5. found \in Founds
  <2>1. D \in SUBSET Sagas /\ found \in [D -> Slots]
    BY <1>0, <1>2, <1>3
  <2> QED BY <2>1 DEF Founds
<1>6. DOMAIN found = D /\ found[s] = e /\ \A u \in D : u # s => found[u] = tx[w].found[u]
  BY <1>3
<1>7. /\ a \in {"next", "ready"}
      /\ tx[w].op = "quarantine_expired" /\ a = "next" => Cardinality(D) < BatchLimit
  BY <1>4, <1>6
<1>8. tx' = [tx EXCEPT ![w].found = found, ![w].row = NULL, ![w].at = a]
  BY <1>1, <1>3, <1>4
<1> HIDE DEF f, at
<1>9. tx' = [tx EXCEPT ![w] = Finds(tx[w], found, a)]
  BY <1>8, FieldsWritten DEF Finds
<1>10. tx'[w] = Finds(tx[w], found, a)
  BY <1>9 DEF LockTypes
<1>11. /\ tx'[w].at = a /\ tx'[w].found = found
       /\ tx'[w].op = tx[w].op /\ tx'[w].past = tx[w].past
  BY <1>0, <1>5, <1>10, FindsMean
<1>12. Found(w)' = D
  BY <1>6, <1>11 DEF Found
<1>13. HoldsRows(w)'
  <2>1. \A u \in D : lock[u] = w /\ Kept(w, u)
    BY <1>0 DEF Knows, HoldsRows
  <2>2. \A u \in D : lock'[u] = w /\ Kept(w, u)'
    BY <1>0, <1>11, <2>1, SameRows
  <2>3. \A u \in D : u # s => Chosen(w, u)'
    <3>1. \A u \in D : u # s => Chosen(w, u) /\ tx'[w].found[u] = tx[w].found[u]
      BY <1>6, <1>11 DEF Knows, HoldsRows
    <3> QED BY <1>0, <1>11, <3>1, SameRows
  <2>4. ASSUME NEW u, u = s
        PROVE  Chosen(w, u)'
    <3>1. tx'[w].found[u] = e /\ saga' = saga /\ effect' = effect
      BY <1>0, <1>6, <1>11, <2>4 DEF vars
    <3>2. IF tx[w].op = "claim_next" THEN IsNext(saga[u], effect[u], e)
          ELSE e \in ExpiredFor(w, u, effect[u])
      BY <1>1, <2>4 DEF EffectOf
    <3>3. ExpiredFor(w, u, effect[u])' = ExpiredFor(w, u, effect[u])
      BY <1>11, <3>1 DEF ExpiredFor
    <3> QED BY <1>11, <3>1, <3>2, <3>3 DEF Chosen
  <2> QED BY <1>7, <1>11, <1>12, <2>2, <2>3, <2>4 DEF HoldsRows
<1>14. Within(w)'
  <2>1. ASSUME tx[w].op = "quarantine_expired"
        PROVE  IsFiniteSet(D) /\ Cardinality(D) <= BatchLimit
    <3>1. IsFiniteSet(Found(w)) /\ Cardinality(Found(w)) < BatchLimit
      BY <1>0, <2>1 DEF Knows, Within
    <3>2. IsFiniteSet(D) /\ (Cardinality(D) = Cardinality(Found(w))
                             \/ Cardinality(D) = Cardinality(Found(w)) + 1)
      BY <3>1, FS_AddElement
    <3>3. Cardinality(Found(w)) \in Nat
      BY <3>1, FS_CardinalityType
    <3> QED BY <3>1, <3>2, <3>3, BatchLimitAssumption
  <2> QED BY <1>7, <1>11, <1>12, <2>1 DEF Within
<1>15. PastStays(w)'
  BY <1>0, <1>11, SameRows DEF Knows
<1>16. Fits(w)'
  BY <1>0, <1>7, <1>11 DEF Knows, Fits
<1> QED BY <1>13, <1>14, <1>15, <1>16 DEF Knows

\* Only quarantine_expired could miss the effect of a saga it locked.
LEMMA MissEffectKnows ==
    ASSUME TypeOK, SagasConsistent, LockTypes, NEW w \in Connections, Knows(w), MissEffect(w)
    PROVE  Knows(w)'
<1> DEFINE s == tx[w].row
<1>0. tx[w] \in TxRow /\ s \in Sagas /\ tx[w].at = "locked" /\ UNCHANGED vars /\ lock' = lock
  BY DEF LockTypes, MissEffect
<1>1. tx[w].op # "claim_next"
  <2>1. SUFFICES ASSUME tx[w].op = "claim_next"
                 PROVE  FALSE
    OBVIOUS
  <2>2. Claimable(saga[s], effect[s])
    BY <1>0, <2>1 DEF Knows, HoldsRows, Kept
  <2>3. /\ saga[s] \in SagaRow /\ effect[s] \in [Slots -> EffectRow]
        /\ Consistent(saga[s], effect[s])
        /\ saga[s].status \in {"pending", "cleanup_pending"}
    BY <1>0, <2>2 DEF TypeOK, SagasConsistent, Claimable
  <2>4. PICK e \in Slots : IsNext(saga[s], effect[s], e)
    BY <2>3, DueHasEffect
  <2> QED BY <2>1, <2>4 DEF MissEffect, EffectOf
<1>2. tx'[w] = Moved(tx[w], "disappeared")
  BY DEF MissEffect, At, LockTypes, Moved
<1>3. NULL \in Snapshots /\ "disappeared" \in Points
  BY DEF Snapshots, Points
<1>4. /\ tx'[w].at = "disappeared" /\ tx'[w].op = tx[w].op
      /\ tx'[w].past = tx[w].past /\ tx'[w].found = tx[w].found
  BY <1>0, <1>2, <1>3, AtMeans
<1>5. HoldsRows(w)'
  BY <1>0, <1>4, SameRows DEF Knows, HoldsRows, Found
<1>6. Within(w)'
  BY <1>4 DEF Knows, Within, Found
<1>7. PastStays(w)'
  BY <1>0, <1>4, SameRows DEF Knows
<1>8. Fits(w)'
  BY <1>0, <1>1, <1>4 DEF Knows, Fits, Found
<1> QED BY <1>5, <1>6, <1>7, <1>8 DEF Knows

\* Whatever a connection does, it goes on knowing what it holds.
LEMMA OwnStepKnows ==
    ASSUME TypeOK, SagasConsistent, LockTypes, NEW w \in Connections, Knows(w), StepOf(w)
    PROVE  Knows(w)'
<1>1. ASSUME Commit(w) \/ Rollback(w)
      PROVE  Knows(w)'
  BY <1>1, IdleKnows DEF Commit, Rollback, LockTypes
<1> QED BY <1>1, BeginKnows, QueryKnows, LockRowKnows, FindEffectKnows, MissEffectKnows DEF StepOf
-----------------------------------------------------------------------------
(* What a step does to the rows of other connections. *)

\* A step that writes nothing about a saga spares it.
LEMMA UnchangedSpares ==
    ASSUME NEW s, saga'[s] = saga[s], effect'[s] = effect[s]
    PROVE  Spared(s)
  BY DEF Spared

\* The transactions that lock their saga first wait for a row that is held, a
\* start inserts a new one, and time writes nothing but leases.
LEMMA OthersSpareRows ==
    ASSUME TypeOK, Others, NEW s \in Sagas, ~ Free(s), saga[s].status # "absent"
    PROVE  Spared(s)
<1>1. ASSUME NEW t \in Sagas, NEW a \in Actors, NEW n \in 0 .. MaxGrants, NEW k \in Keys,
             Start(t, a, n, k)
      PROVE  Spared(s)
  <2>1. /\ s # t /\ saga' = [saga EXCEPT ![t] = StartedSaga(a)]
        /\ effect' = [effect EXCEPT ![t] = StartedEffects(n)]
    BY <1>1 DEF Start
  <2> QED BY <2>1, UnchangedSpares DEF TypeOK
<1>2. ASSUME NEW t \in Sagas, Free(t), NEW a \in Actors, NEW k \in Keys, NEW request,
             Retry(t, a, k, request)
      PROVE  Spared(s)
  <2>1. s # t
    BY <1>2
  <2>2. PICK e : \E row : effect' = [effect EXCEPT ![t][e] = row]
                          /\ \E p : saga' = [saga EXCEPT ![t] = p]
    BY <1>2 DEF Retry
  <2>3. PICK row : effect' = [effect EXCEPT ![t][e] = row]
                   /\ \E p : saga' = [saga EXCEPT ![t] = p]
    BY <2>2
  <2> QED BY <2>1, <2>3, UnchangedSpares DEF TypeOK
<1>3. ASSUME NEW t \in Sagas, Free(t), NEW a \in Actors, NEW k \in Keys, NEW expected,
             RequestCleanup(t, a, k, expected)
      PROVE  Spared(s)
  <2>1. /\ s # t /\ effect' = [effect EXCEPT ![t] = CleanedEffects(effect[t])]
        /\ \E p : saga' = [saga EXCEPT ![t] = p]
    BY <1>3 DEF RequestCleanup
  <2> QED BY <2>1, UnchangedSpares DEF TypeOK
<1>4. ASSUME NEW r \in held, Free(r.saga), NEW outcome, FinalizeEffect(r, outcome)
      PROVE  Spared(s)
  <2>1. s # r.saga
    BY <1>4
  <2>2. effect' = [effect EXCEPT ![r.saga][r.slot] = SettledEffect(@, outcome)]
        /\ \E p : saga' = [saga EXCEPT ![r.saga] = p]
    BY <1>4 DEF FinalizeEffect
  <2> QED BY <2>1, <2>2, UnchangedSpares DEF TypeOK
<1>5. ASSUME NEW r \in held, FinalizeSuperseded(r) \/ WorkerLost(r)
      PROVE  Spared(s)
  BY <1>5, UnchangedSpares DEF FinalizeSuperseded, WorkerLost
<1>6. ASSUME NEW t \in Sagas, NEW e \in Slots, LeaseExpires(t, e)
      PROVE  Spared(s)
  <2>1. saga' = saga /\ effect' = [effect EXCEPT ![t][e].lease_until = "past"]
    BY <1>6 DEF LeaseExpires
  <2>2. \A f \in Slots : effect'[s][f] = effect[s][f]
           \/ effect'[s][f] = [effect[s][f] EXCEPT !.lease_until = "past"]
    BY <2>1 DEF TypeOK
  <2>3. \A f \in Slots : effect[s][f] \in EffectRow
    BY DEF TypeOK
  <2>4. \A row \in EffectRow : /\ [row EXCEPT !.lease_until = "past"].state = row.state
                               /\ [row EXCEPT !.lease_until = "past"].lease_token = row.lease_token
    BY DEF EffectRow
  <2> QED BY <2>1, <2>2, <2>3, <2>4 DEF Spared
<1> QED BY <1>1, <1>2, <1>3, <1>4, <1>5, <1>6 DEF Others

\* A step of a connection writes sagas only when it commits, and only those it
\* found.
LEMMA CommitSpares ==
    ASSUME TypeOK, LockTypes, NEW w \in Connections, StepOf(w), NEW s \in Sagas, s \notin Found(w)
    PROVE  Spared(s)
<1>1. ASSUME Commit(w)
      PROVE  saga'[s] = saga[s] /\ effect'[s] = effect[s]
  <2>1. ASSUME Quarantine(Found(w), tx[w].found)
        PROVE  saga'[s] = saga[s] /\ effect'[s] = effect[s]
    BY <2>1 DEF Quarantine
  <2>2. ASSUME NEW t \in Found(w), NEW e, Claim(t, e)
        PROVE  saga'[s] = saga[s] /\ effect'[s] = effect[s]
    BY <2>2 DEF Claim, TypeOK
  <2>3. UNCHANGED vars => saga'[s] = saga[s] /\ effect'[s] = effect[s]
    BY DEF vars
  <2> QED BY <1>1, <2>1, <2>2, <2>3 DEF Commit
<1>2. ASSUME UNCHANGED vars
      PROVE  saga'[s] = saga[s] /\ effect'[s] = effect[s]
  BY <1>2 DEF vars
<1> QED BY <1>1, <1>2, UnchangedSpares
        DEF StepOf, Begin, Scan, LockRow, FindNone, FindEffect, MissEffect, Rollback
-----------------------------------------------------------------------------
(* Every step is a step of Storage or none. *)

\* Nothing is written by an empty batch.
LEMMA EmptyBatch ==
    ASSUME TypeOK, Quarantine({}, <<>>)
    PROVE  UNCHANGED vars
<1>1. /\ saga' = [s \in Sagas |-> saga[s]] /\ effect' = [s \in Sagas |-> effect[s]]
      /\ activity' = [s \in Sagas |-> activity[s]] /\ mutation' = mutation /\ held' = held
  BY DEF Quarantine
<1> QED BY <1>1 DEF TypeOK, vars

\* A commit is what its query promised: a claim of the first effect of a saga
\* that is due, or a quarantine of effects whose leases are past.
LEMMA CommitIsAtomic ==
    ASSUME TypeOK, LockTypes, NEW w \in Connections, Knows(w), Commit(w)
    PROVE  [Next]_vars
<1>0. /\ tx[w].at = "ready" /\ tx[w] \in TxRow /\ tx[w].op \in Operations
      /\ Found(w) \subseteq Sagas /\ \A s \in Found(w) : tx[w].found[s] \in Slots
      /\ tx[w].found \in [Found(w) -> Slots]
  BY FoundsMean DEF Commit, LockTypes, TxRow, Knows, Fits, Found
<1>1. ASSUME tx[w].op = "claim_next", NEW s \in Found(w), Claim(s, tx[w].found[s])
      PROVE  Next
  <2>1. Claimable(saga[s], effect[s]) /\ IsNext(saga[s], effect[s], tx[w].found[s])
    BY <1>1 DEF Knows, HoldsRows, Kept, Chosen
  <2>2. ClaimNext(s)
    BY <1>0, <1>1, <2>1 DEF ClaimNext
  <2> QED BY <1>0, <2>2 DEF Next
<1>2. ASSUME tx[w].op = "quarantine_expired", Quarantine(Found(w), tx[w].found), Found(w) # {}
      PROVE  Next
  <2>1. Cardinality(Found(w)) <= BatchLimit
    BY <1>2 DEF Knows, Within
  <2>2. ASSUME NEW s \in Found(w)
        PROVE  /\ saga[s].status \in {"running", "cleanup_running"}
               /\ tx[w].found[s] \in ExpiredEffects(effect[s])
    <3>1. /\ saga[s].status \in {"running", "cleanup_running"}
          /\ tx[w].found[s] \in ExpiredFor(w, s, effect[s])
      BY <1>2 DEF Knows, HoldsRows, Kept, Chosen
    <3> DEFINE e == tx[w].found[s]
               d == <<s, e, effect[s][e].lease_token>>
    <3>2. e \in Slots /\ effect[s][e].state = "in_flight" /\ d \in tx[w].past
      BY <3>1 DEF ExpiredFor
    <3>3. effect[s][e].lease_until = "past"
      BY <3>2 DEF Knows, PastStays
    <3> QED BY <3>1, <3>2, <3>3 DEF ExpiredEffects
  <2>3. \A s \in Found(w) : Quarantinable(saga[s], effect[s])
    BY <2>2 DEF Quarantinable
  <2>4. QuarantineExpired(Found(w))
    BY <1>0, <1>2, <2>1, <2>2, <2>3 DEF QuarantineExpired
  <2> QED BY <1>0, <2>4 DEF Next
<1>3. ASSUME Quarantine(Found(w), tx[w].found), Found(w) = {}
      PROVE  UNCHANGED vars
  <2>1. Quarantine({}, tx[w].found)
    BY <1>3
  <2>2. Quarantine({}, <<>>)
    BY <2>1 DEF Quarantine
  <2> QED BY <2>2, EmptyBatch
<1>4. CASE tx[w].op = "quarantine_expired"
  BY <1>2, <1>3, <1>4 DEF Commit
<1>5. CASE tx[w].op = "claim_next"
  BY <1>1, <1>5 DEF Commit
<1> QED BY <1>0, <1>4, <1>5 DEF Operations

\* So every step of every connection is.
LEMMA StepIsAtomic ==
    ASSUME TypeOK, LockTypes, LockInvariant, [LockNext]_<<vars, lock, tx>>
    PROVE  [Next]_vars
<1>1. ASSUME NEW w \in Connections, StepOf(w)
      PROVE  [Next]_vars
  <2>1. Commit(w) => [Next]_vars
    BY CommitIsAtomic DEF LockInvariant, Knows
  <2>2. ~ Commit(w) => UNCHANGED vars
    BY <1>1 DEF StepOf, Begin, Scan, LockRow, FindNone, FindEffect, MissEffect, Rollback
  <2> QED BY <2>1, <2>2
<1>2. ASSUME Others
      PROVE  Next
  BY <1>2 DEF Others, Next
<1>3. ASSUME UNCHANGED <<vars, lock, tx>>
      PROVE  UNCHANGED vars
  BY <1>3
<1> QED BY <1>1, <1>2, <1>3 DEF LockNext, StepOf
-----------------------------------------------------------------------------
(* The invariant. *)

\* Every connection goes on knowing what it holds, whoever moves.
LEMMA LockStep ==
    ASSUME TypeOK, SagasConsistent, LockTypes, LockInvariant, [LockNext]_<<vars, lock, tx>>
    PROVE  LockTypes' /\ LockInvariant'
<1>1. [Next]_vars
  BY StepIsAtomic
<1>2. TypeOK' /\ SagasConsistent'
  BY <1>1, NextTypes, NextConsistent
<1>3. ASSUME NEW v \in Connections, tx'[v] = tx[v],
             \A s \in Sagas : lock[s] = v /\ Kept(v, s) => lock'[s] = v /\ Spared(s)
      PROVE  Knows(v)'
  BY <1>1, <1>2, <1>3, OthersSpare DEF LockInvariant, Knows
<1>4. ASSUME NEW w \in Connections, StepOf(w)
      PROVE  LockTypes' /\ \A v \in Connections : Knows(v)'
  <2>1. PICK t : Owns(w, t)
    BY <1>4, StepOwns
  <2>2. LockTypes' /\ \A v \in Connections : v # w => tx'[v] = tx[v]
    BY <2>1, OwnsMeans
  <2>3. Knows(w)'
    BY <1>4, OwnStepKnows DEF LockInvariant, Knows
  <2>4. ASSUME NEW v \in Connections, v # w
        PROVE  Knows(v)'
    <3>1. ASSUME NEW s \in Sagas, lock[s] = v
          PROVE  lock'[s] = v /\ Spared(s)
      <4>1. lock'[s] = v
        BY <2>1, <2>4, <3>1, ConnectionsAssumption DEF Owns
      <4>2. s \notin Found(w)
        BY <2>4, <3>1 DEF LockInvariant, HoldsRows
      <4> QED BY <1>4, <4>1, <4>2, CommitSpares
    <3> QED BY <1>3, <2>2, <2>4, <3>1
  <2> QED BY <2>2, <2>3, <2>4
<1>5. ASSUME Others
      PROVE  LockTypes' /\ \A v \in Connections : Knows(v)'
  <2>1. lock' = lock /\ tx' = tx
    BY <1>5 DEF Others
  <2>2. ASSUME NEW v \in Connections
        PROVE  Knows(v)'
    <3>1. ASSUME NEW s \in Sagas, lock[s] = v, Kept(v, s)
          PROVE  lock'[s] = v /\ Spared(s)
      <4>1. ~ Free(s)
        BY <3>1, ConnectionsAssumption DEF Free
      <4>2. saga[s].status # "absent"
        BY <3>1 DEF Kept, Claimable
      <4> QED BY <1>5, <2>1, <3>1, <4>1, <4>2, OthersSpareRows
    <3> QED BY <1>3, <2>1, <3>1
  <2> QED BY <2>1, <2>2 DEF LockTypes
<1>6. ASSUME UNCHANGED <<vars, lock, tx>>
      PROVE  LockTypes' /\ \A v \in Connections : Knows(v)'
  <2>1. \A s \in Sagas : Spared(s)
    BY <1>6, UnchangedSpares DEF vars
  <2> QED BY <1>3, <1>6, <2>1 DEF LockTypes
<1> QED BY <1>4, <1>5, <1>6 DEF LockNext, StepOf, LockInvariant, Knows

\* Before anything happens no row is held.
LEMMA LockStarts == LockInit => LockTypes /\ LockInvariant
<1>1. SUFFICES ASSUME LockInit
               PROVE  LockTypes /\ LockInvariant
  OBVIOUS
<1>2. LockTypes
  BY <1>1, IdleMeans DEF LockInit, LockTypes
<1>3. ASSUME NEW w \in Connections
      PROVE  HoldsRows(w) /\ Within(w) /\ PastStays(w) /\ Fits(w)
  <2>1. tx[w] = Idle
    BY <1>1 DEF LockInit
  <2>2. DOMAIN tx[w].found = {} /\ tx[w].at = "idle" /\ tx[w].past = {}
    BY <2>1, IdleMeans
  <2>3. IsFiniteSet({}) /\ Cardinality({}) = 0
    BY FS_EmptySet
  <2> QED BY <2>2, <2>3, BatchLimitAssumption
          DEF HoldsRows, Within, PastStays, Fits, Found
<1> QED BY <1>2, <1>3 DEF LockInvariant

\* What every connection holds and knows, always, and that nothing is
\* committed but steps of Storage.
LEMMA LocksHold == LockSpec => Spec /\ [](LockTypes /\ LockInvariant)
<1> DEFINE Inv == TypeOK /\ SagasConsistent /\ LockTypes /\ LockInvariant
<1>1. LockInit => Inv
  <2>1. Init => SagasConsistent
    BY DEF Init, SagasConsistent, Consistent
  <2> QED BY <2>1, InitTypes, LockStarts DEF LockInit
<1>2. Inv /\ [LockNext]_<<vars, lock, tx>> => Inv'
  BY LockStep, StepIsAtomic, NextTypes, NextConsistent
<1>3. Inv /\ [LockNext]_<<vars, lock, tx>> => [Next]_vars
  BY StepIsAtomic
<1>4. LockInit => Init
  BY DEF LockInit
<1>5. Inv => LockTypes /\ LockInvariant
  OBVIOUS
<1> HIDE DEF Inv
<1> QED BY <1>1, <1>2, <1>3, <1>4, <1>5, PTL DEF LockSpec, Spec

\* However the statements of claims, quarantines and the other transactions
\* interleave on however many connections, what they commit is a step of
\* Storage or nothing, so every theorem about Storage holds of the statements
\* of READ COMMITTED too.
THEOREM StatementsAreAtomic == LockSpec => TransactionsAreAtomic
  BY LocksHold DEF TransactionsAreAtomic

\* The fetch_one of claim_next finds its effect: a saga that is still due when
\* its row is locked has one, whatever the effects were when the query chose it.
THEOREM ClaimsFind == LockSpec => []ClaimFindsEffect
<1>1. LockInvariant => ClaimFindsEffect
  BY DEF LockInvariant, Fits, ClaimFindsEffect
<1> QED BY <1>1, LocksHold, PTL
=============================================================================
