----------------------- MODULE StorageLifecycleProofs -----------------------
(***************************************************************************)
(* Storage implements Lifecycle, for any number of sagas and grants.  Each *)
(* transaction moves one effect of the saga's phase from one state to      *)
(* another, or mirrors the grants when cleanup begins; what that does to   *)
(* the parts to do, done and open is a step of the documented table.       *)
(***************************************************************************)
EXTENDS StorageLifecycle, StorageProofs

Running == {"in_flight", "failed", "unknown"}
How == [in_flight |-> "running", failed |-> "failed", unknown |-> "lost"]
Done == {"applied", "compensated"}

\* The parts of one phase are told apart by their number.
LEMMA PartsDiffer ==
    ASSUME NEW c \in BOOLEAN, NEW e \in Phase(c)
    PROVE  /\ e \in Slots /\ Part(e) \in 0 .. MaxGrants
           /\ \A f \in Phase(c) : Part(f) = Part(e) => f = e
<1>1. \A f \in Phase(c) :
         \/ f = Create /\ ~ c /\ Part(f) = 0
         \/ \E i \in Ordinals : /\ f = IF c THEN Revoke(i) ELSE Put(i)
                                /\ Part(f) = i + 1
  <2> TAKE f \in Phase(c)
  <2>1. f \in Slots /\ ((f[1] = "revoke_entitlement") <=> c)
    BY DEF Phase
  <2>2. CASE f = Create
    BY <2>1, <2>2, SlotFacts DEF Part
  <2>3. ASSUME NEW i \in Ordinals, f = Put(i) \/ f = Revoke(i)
        PROVE  f = (IF c THEN Revoke(i) ELSE Put(i)) /\ Part(f) = i + 1
    <3>1. f[2] = i /\ f[1] # "create_organization"
      BY <2>3, SlotFacts
    <3>2. f # Create
      BY <3>1, SlotFacts
    <3> QED BY <2>1, <2>3, <3>1, <3>2, SlotFacts DEF Part
  <2> QED BY <2>1, <2>2, <2>3, SlotFacts
<1>2. \A i \in Ordinals : i \in Nat /\ i + 1 \in 0 .. MaxGrants
  BY MaxGrantsAssumption DEF Ordinals
<1>3. Part(e) \in 0 .. MaxGrants
  BY <1>1, <1>2, MaxGrantsAssumption
<1>4. ASSUME NEW f \in Phase(c), Part(f) = Part(e)
      PROVE  f = e
  <2>1. CASE e = Create /\ Part(e) = 0
    BY <1>1, <1>2, <1>4, <2>1
  <2>2. ASSUME NEW i \in Ordinals, e = (IF c THEN Revoke(i) ELSE Put(i)), Part(e) = i + 1
        PROVE  f = e
    <3>1. PICK j \in Ordinals : f = (IF c THEN Revoke(j) ELSE Put(j)) /\ Part(f) = j + 1
      BY <1>1, <1>2, <1>4, <2>2
    <3>2. i = j
      BY <1>2, <1>4, <2>2, <3>1
    <3> QED BY <2>2, <3>1, <3>2
  <2> QED BY <1>1, <2>1, <2>2
<1> QED BY <1>3, <1>4 DEF Phase

\* The parts of one phase in some states, after one effect has changed.
LEMMA PartsMove ==
    ASSUME NEW p, NEW q, p.cleanup_requested \in BOOLEAN,
           q.cleanup_requested = p.cleanup_requested,
           NEW E, NEW F, NEW e \in Phase(p.cleanup_requested),
           \A f \in Slots : f # e => F[f] = E[f], NEW states
    PROVE  PartsIn(q, F, states) =
              (PartsIn(p, E, states) \ {Part(e)})
                 \cup (IF F[e].state \in states THEN {Part(e)} ELSE {})
<1> DEFINE c == p.cleanup_requested
<1>1. \A f \in Phase(c) : f \in Slots /\ (Part(f) = Part(e) => f = e)
  BY PartsDiffer
<1>2. /\ PartsIn(p, E, states) = {Part(f) : f \in {g \in Phase(c) : E[g].state \in states}}
      /\ PartsIn(q, F, states) = {Part(f) : f \in {g \in Phase(c) : F[g].state \in states}}
  BY DEF PartsIn, InState
<1> HIDE DEF c
<1> QED BY <1>1, <1>2 DEF c

\* What is open.
LEMMA OpenMeans ==
    ASSUME NEW p, NEW E, EffectsConsistent(p, E)
    PROVE  /\ \A e \in Phase(p.cleanup_requested) : E[e].state \in Running =>
                 OpenPart(p, E) = [how |-> How[E[e].state], part |-> Part(e)]
           /\ (\A e \in Phase(p.cleanup_requested) : E[e].state \notin Running) =>
                 OpenPart(p, E) = [how |-> "closed", part |-> 0]
<1> DEFINE c == p.cleanup_requested
           open == InState(E, c, Running)
<1>1. open = {e \in Phase(c) : E[e].state \in Running}
  BY DEF InState
<1>2. OpenPart(p, E) = IF open = {} THEN [how |-> "closed", part |-> 0]
                       ELSE [how |-> How[E[CHOOSE e \in open : TRUE].state],
                             part |-> Part(CHOOSE e \in open : TRUE)]
  BY DEF OpenPart, Running, How
<1>3. ASSUME NEW e \in Phase(c), E[e].state \in Running
      PROVE  OpenPart(p, E) = [how |-> How[E[e].state], part |-> Part(e)]
  <2>1. e \in open
    BY <1>1, <1>3
  <2>2. \A f \in open : f = e
    <3>1. \A f \in open : f \in Slots /\ Open(E[f])
      BY <1>1 DEF Phase, Open, Running
    <3> QED BY <2>1, <3>1 DEF EffectsConsistent, OneOpen
  <2>3. (CHOOSE f \in open : TRUE) \in open
    BY <2>1
  <2>4. (CHOOSE f \in open : TRUE) = e
    BY <2>2, <2>3
  <2> HIDE DEF open
  <2> QED BY <1>2, <2>1, <2>4
<1>4. ASSUME \A e \in Phase(c) : E[e].state \notin Running
      PROVE  OpenPart(p, E) = [how |-> "closed", part |-> 0]
  <2>1. open = {}
    BY <1>1, <1>4
  <2> HIDE DEF open
  <2> QED BY <1>2, <2>1
<1> QED BY <1>3, <1>4
-----------------------------------------------------------------------------
(* One effect moves. *)

Stored(p, E) ==
    /\ p \in SagaRow /\ E \in [Slots -> EffectRow]
    /\ EffectsConsistent(p, E) /\ p.status # "absent"
Moved(p, E, q, F, e) ==
    /\ Stored(p, E) /\ Stored(q, F) /\ q.cleanup_requested = p.cleanup_requested
    /\ e \in Phase(p.cleanup_requested) /\ \A f \in Slots : f # e => F[f] = E[f]

\* What the move of one effect does to the work of its saga.
LEMMA MoveMeans ==
    ASSUME NEW p, NEW E, NEW q, NEW F, NEW e, Moved(p, E, q, F, e)
    PROVE  LET w == WorkOf(p, E)
               v == WorkOf(q, F)
           IN  /\ w = [phase |-> w.phase, todo |-> w.todo, done |-> w.done, open |-> w.open]
               /\ v = [phase |-> w.phase, todo |-> v.todo, done |-> v.done, open |-> v.open]
               /\ v.todo = (w.todo \ {Part(e)})
                              \cup (IF F[e].state = "pending" THEN {Part(e)} ELSE {})
               /\ v.done = (w.done \ {Part(e)}) \cup (IF F[e].state \in Done THEN {Part(e)} ELSE {})
               /\ Part(e) \in w.todo <=> E[e].state = "pending"
               /\ Part(e) \in w.done <=> E[e].state \in Done
<1>1. /\ p.cleanup_requested \in BOOLEAN /\ q.cleanup_requested = p.cleanup_requested
      /\ e \in Phase(p.cleanup_requested) /\ p.status # "absent" /\ q.status # "absent"
      /\ \A f \in Slots : f # e => F[f] = E[f]
  BY DEF Moved, Stored, SagaRow
<1>2. /\ WorkOf(p, E).todo = PartsIn(p, E, {"pending"}) /\ WorkOf(p, E).done = PartsIn(p, E, Done)
      /\ WorkOf(q, F).todo = PartsIn(q, F, {"pending"}) /\ WorkOf(q, F).done = PartsIn(q, F, Done)
      /\ WorkOf(q, F).phase = WorkOf(p, E).phase
  BY <1>1 DEF WorkOf, Done
<1>3. ASSUME NEW states
      PROVE  /\ PartsIn(q, F, states) = (PartsIn(p, E, states) \ {Part(e)})
                                           \cup (IF F[e].state \in states THEN {Part(e)} ELSE {})
             /\ PartsIn(p, E, states) = (PartsIn(p, E, states) \ {Part(e)})
                                           \cup (IF E[e].state \in states THEN {Part(e)} ELSE {})
  BY <1>1, PartsMove
<1>4. ASSUME NEW states
      PROVE  Part(e) \in PartsIn(p, E, states) <=> E[e].state \in states
  BY <1>3
<1>5. /\ WorkOf(p, E) = [phase |-> WorkOf(p, E).phase, todo |-> WorkOf(p, E).todo,
                         done |-> WorkOf(p, E).done, open |-> WorkOf(p, E).open]
      /\ WorkOf(q, F) = [phase |-> WorkOf(p, E).phase, todo |-> WorkOf(q, F).todo,
                         done |-> WorkOf(q, F).done, open |-> WorkOf(q, F).open]
  BY <1>2 DEF WorkOf
<1> QED BY <1>2, <1>3, <1>4, <1>5

OpenShut == [how |-> "closed", part |-> 0]
OpenAt(how, part) == [how |-> how, part |-> part]

\* The open part of a saga whose effect is open.
LEMMA OpenedWork ==
    ASSUME NEW p, NEW E, Stored(p, E), NEW e \in Phase(p.cleanup_requested),
           E[e].state \in Running
    PROVE  WorkOf(p, E).open = OpenAt(How[E[e].state], Part(e))
<1>1. EffectsConsistent(p, E)
  BY DEF Stored
<1>2. OpenPart(p, E) = [how |-> How[E[e].state], part |-> Part(e)]
  BY <1>1, OpenMeans
<1> QED BY <1>2 DEF WorkOf, OpenAt

\* The saga is left with nothing open when its open effect is closed.
LEMMA ClosedWork ==
    ASSUME NEW p, NEW E, NEW q, NEW F, NEW e, Moved(p, E, q, F, e),
           E[e].state \in Running, F[e].state \notin Running
    PROVE  WorkOf(q, F).open = OpenShut
<1>1. /\ e \in Phase(p.cleanup_requested) /\ q.cleanup_requested = p.cleanup_requested
      /\ EffectsConsistent(p, E) /\ EffectsConsistent(q, F)
      /\ \A f \in Slots : f # e => F[f] = E[f]
  BY DEF Moved, Stored
<1>2. \A f \in Phase(p.cleanup_requested) : F[f].state \notin Running
  <2> TAKE f \in Phase(p.cleanup_requested)
  <2>1. CASE f = e
    BY <2>1
  <2>2. CASE f # e
    <3>1. F[f] = E[f] /\ f \in Slots /\ e \in Slots
      BY <1>1, <2>2 DEF Phase
    <3>2. Open(E[e])
      BY DEF Open, Running
    <3>3. ~ Open(E[f])
      BY <1>1, <2>2, <3>1, <3>2 DEF EffectsConsistent, OneOpen
    <3> QED BY <3>1, <3>3 DEF Open, Running
  <2> QED BY <2>1, <2>2
<1>3. OpenPart(q, F) = [how |-> "closed", part |-> 0]
  BY <1>1, <1>2, OpenMeans
<1> QED BY <1>3 DEF WorkOf, OpenShut

WorkShaped(w) == w = [phase |-> w.phase, todo |-> w.todo, done |-> w.done, open |-> w.open]

\* A record of work with two fields changed.
LEMMA EditedWork ==
    ASSUME NEW w, WorkShaped(w), NEW v, WorkShaped(v), v.phase = w.phase
    PROVE  /\ v.todo = w.todo => v = [w EXCEPT !.done = v.done, !.open = v.open]
           /\ v.done = w.done => v = [w EXCEPT !.todo = v.todo, !.open = v.open]
<1>1. ASSUME NEW parts, NEW open
      PROVE  /\ [w EXCEPT !.done = parts, !.open = open]
                   = [phase |-> w.phase, todo |-> w.todo, done |-> parts, open |-> open]
             /\ [w EXCEPT !.todo = parts, !.open = open]
                   = [phase |-> w.phase, todo |-> parts, done |-> w.done, open |-> open]
  <2> DEFINE Old == [phase : {w.phase}, todo : {w.todo}, done : {w.done}, open : {w.open}]
             NewDone == [phase : {w.phase}, todo : {w.todo}, done : {parts}, open : {open}]
             NewTodo == [phase : {w.phase}, todo : {parts}, done : {w.done}, open : {open}]
  <2>1. w \in Old
    BY DEF WorkShaped
  <2>2. \A r \in Old : /\ [r EXCEPT !.done = parts, !.open = open] \in NewDone
                       /\ [r EXCEPT !.todo = parts, !.open = open] \in NewTodo
    OBVIOUS
  <2>3. /\ \A r \in NewDone :
              r = [phase |-> w.phase, todo |-> w.todo, done |-> parts, open |-> open]
        /\ \A r \in NewTodo :
              r = [phase |-> w.phase, todo |-> parts, done |-> w.done, open |-> open]
    OBVIOUS
  <2> HIDE DEF Old, NewDone, NewTodo
  <2> QED BY <2>1, <2>2, <2>3
<1>2. v = [phase |-> w.phase, todo |-> v.todo, done |-> v.done, open |-> v.open]
  BY DEF WorkShaped
<1>3. ASSUME v.todo = w.todo
      PROVE  v = [w EXCEPT !.done = v.done, !.open = v.open]
  <2>1. [w EXCEPT !.done = v.done, !.open = v.open]
           = [phase |-> w.phase, todo |-> w.todo, done |-> v.done, open |-> v.open]
    BY <1>1
  <2> QED BY <1>2, <1>3, <2>1
<1>4. ASSUME v.done = w.done
      PROVE  v = [w EXCEPT !.todo = v.todo, !.open = v.open]
  <2>1. [w EXCEPT !.todo = v.todo, !.open = v.open]
           = [phase |-> w.phase, todo |-> v.todo, done |-> w.done, open |-> v.open]
    BY <1>1
  <2> QED BY <1>2, <1>4, <2>1
<1> QED BY <1>3, <1>4

\* The table's steps, field by field.
LEMMA SettleFields ==
    ASSUME NEW w, WorkShaped(w), NEW v, WorkShaped(v), v.phase = w.phase,
           w.open.how \in {"running", "lost"}, v.todo = w.todo,
           v.done = w.done \cup {w.open.part}, v.open = OpenShut
    PROVE  Abstract!Settle(w, v)
  BY EditedWork DEF Abstract!Settle, Abstract!Closed, Abstract!Organization, OpenShut

\* A part put back.
LEMMA ReopenFields ==
    ASSUME NEW w, WorkShaped(w), NEW v, WorkShaped(v), v.phase = w.phase,
           w.open.how \in {"failed", "lost"}, v.done = w.done,
           v.todo = w.todo \cup {w.open.part}, v.open = OpenShut
    PROVE  Abstract!Reopen(w, v)
  BY EditedWork DEF Abstract!Reopen, Abstract!Closed, Abstract!Organization, OpenShut

\* The first part taken.
LEMMA ClaimFields ==
    ASSUME NEW w, WorkShaped(w), NEW v, WorkShaped(v), v.phase = w.phase,
           w.open = OpenShut, v.done = w.done,
           NEW i \in w.todo, \A j \in w.todo : i <= j,
           v.todo = w.todo \ {i}, v.open = [how |-> "running", part |-> i]
    PROVE  Abstract!Claim(w, v)
  BY EditedWork DEF Abstract!Claim, Abstract!Closed, Abstract!Organization, OpenShut

\* A part stopped.
LEMMA StopFields ==
    ASSUME NEW w, WorkShaped(w), NEW v, WorkShaped(v), v.phase = w.phase,
           v.todo = w.todo, v.done = w.done, NEW i, NEW how \in {"failed", "lost"},
           w.open = [how |-> "running", part |-> i], v.open = [how |-> how, part |-> i]
    PROVE  Abstract!Reject(w, v) \/ Abstract!Lose(w, v)
<1>1. v = [w EXCEPT !.open.how = how]
  BY DEF WorkShaped
<1> QED BY <1>1 DEF Abstract!Reject, Abstract!Lose

\* A success, or an operator's confirmation, settles the open part.
LEMMA SettleStep ==
    ASSUME NEW p, NEW E, NEW q, NEW F, NEW e, Moved(p, E, q, F, e),
           E[e].state \in {"in_flight", "unknown"}, F[e].state \in Done
    PROVE  Abstract!Settle(WorkOf(p, E), WorkOf(q, F))
<1>1. /\ E[e].state \in Running /\ E[e].state # "pending" /\ E[e].state \notin Done
      /\ F[e].state \notin Running /\ F[e].state # "pending"
      /\ How[E[e].state] \in {"running", "lost"}
  BY DEF Running, Done, How
<1>2. Stored(p, E) /\ e \in Phase(p.cleanup_requested)
  BY DEF Moved
<1>3. WorkOf(p, E).open = OpenAt(How[E[e].state], Part(e))
  BY <1>1, <1>2, OpenedWork
<1>4. WorkOf(q, F).open = OpenShut
  BY <1>1, ClosedWork
<1> DEFINE w == WorkOf(p, E)
           v == WorkOf(q, F)
<1>5. WorkShaped(w) /\ WorkShaped(v) /\ v.phase = w.phase
  BY MoveMeans DEF WorkShaped
<1>6. v.todo = w.todo /\ v.done = w.done \cup {Part(e)}
  BY <1>1, MoveMeans
<1>7. w.open.how \in {"running", "lost"} /\ w.open.part = Part(e) /\ v.open = OpenShut
  BY <1>1, <1>3, <1>4 DEF OpenAt
<1> HIDE DEF w, v
<1>8. Abstract!Settle(w, v)
  BY <1>5, <1>6, <1>7, SettleFields
<1> QED BY <1>8 DEF w, v

\* An operator's reset puts the open part back.
LEMMA ReopenStep ==
    ASSUME NEW p, NEW E, NEW q, NEW F, NEW e, Moved(p, E, q, F, e),
           E[e].state \in {"failed", "unknown"}, F[e].state = "pending"
    PROVE  Abstract!Reopen(WorkOf(p, E), WorkOf(q, F))
<1>1. /\ E[e].state \in Running /\ E[e].state # "pending" /\ E[e].state \notin Done
      /\ F[e].state \notin Running /\ F[e].state \notin Done
      /\ How[E[e].state] \in {"failed", "lost"}
  BY DEF Running, Done, How
<1>2. Stored(p, E) /\ e \in Phase(p.cleanup_requested)
  BY DEF Moved
<1>3. WorkOf(p, E).open = OpenAt(How[E[e].state], Part(e))
  BY <1>1, <1>2, OpenedWork
<1>4. WorkOf(q, F).open = OpenShut
  BY <1>1, ClosedWork
<1> DEFINE w == WorkOf(p, E)
           v == WorkOf(q, F)
<1>5. WorkShaped(w) /\ WorkShaped(v) /\ v.phase = w.phase
  BY MoveMeans DEF WorkShaped
<1>6. v.done = w.done /\ v.todo = w.todo \cup {Part(e)}
  BY <1>1, MoveMeans
<1>7. w.open.how \in {"failed", "lost"} /\ w.open.part = Part(e) /\ v.open = OpenShut
  BY <1>1, <1>3, <1>4 DEF OpenAt
<1> HIDE DEF w, v
<1>8. Abstract!Reopen(w, v)
  BY <1>5, <1>6, <1>7, ReopenFields
<1> QED BY <1>8 DEF w, v

\* A rejection, a lost answer or an expired lease stops the open part.
LEMMA StopStep ==
    ASSUME NEW p, NEW E, NEW q, NEW F, NEW e, Moved(p, E, q, F, e),
           E[e].state = "in_flight", F[e].state \in {"failed", "unknown"}
    PROVE  Abstract!Reject(WorkOf(p, E), WorkOf(q, F)) \/ Abstract!Lose(WorkOf(p, E), WorkOf(q, F))
<1>1. /\ E[e].state \in Running /\ E[e].state # "pending" /\ E[e].state \notin Done
      /\ F[e].state \in Running /\ F[e].state # "pending" /\ F[e].state \notin Done
      /\ How[E[e].state] = "running" /\ How[F[e].state] \in {"failed", "lost"}
  BY DEF Running, Done, How
<1>2. /\ Stored(p, E) /\ e \in Phase(p.cleanup_requested)
      /\ Stored(q, F) /\ e \in Phase(q.cleanup_requested)
  BY DEF Moved
<1>3. WorkOf(p, E).open = OpenAt("running", Part(e))
  BY <1>1, <1>2, OpenedWork
<1>4. WorkOf(q, F).open = OpenAt(How[F[e].state], Part(e))
  BY <1>1, <1>2, OpenedWork
<1> DEFINE w == WorkOf(p, E)
           v == WorkOf(q, F)
           how == How[F[e].state]
<1>5. WorkShaped(w) /\ WorkShaped(v) /\ v.phase = w.phase
  BY MoveMeans DEF WorkShaped
<1>6. v.todo = w.todo /\ v.done = w.done
  BY <1>1, MoveMeans
<1>7. /\ how \in {"failed", "lost"} /\ w.open = [how |-> "running", part |-> Part(e)]
      /\ v.open = [how |-> how, part |-> Part(e)]
  BY <1>1, <1>3, <1>4 DEF OpenAt
<1> HIDE DEF w, v, how
<1>8. Abstract!Reject(w, v) \/ Abstract!Lose(w, v)
  BY <1>5, <1>6, <1>7, StopFields
<1> QED BY <1>8 DEF w, v

\* claim_next's order is the order of the parts: a later part does not come
\* before an earlier one.
LEMMA PartsInOrder ==
    ASSUME NEW c \in BOOLEAN, NEW e \in Phase(c), NEW f \in Phase(c), ~ Before(f, e)
    PROVE  Part(e) <= Part(f)
<1>1. e \in Slots /\ f \in Slots /\ (e[1] = "revoke_entitlement" <=> c)
      /\ (f[1] = "revoke_entitlement" <=> c)
  BY DEF Phase
<1>2. Part(e) \in Nat /\ Part(f) \in Nat
  BY PartsDiffer, MaxGrantsAssumption
<1>3. CASE e = Create
  BY <1>2, <1>3 DEF Part
<1>4. ASSUME e # Create, f = Create
      PROVE  FALSE
  <2>1. e[1] # "create_organization" /\ f[1] = "create_organization"
    BY <1>1, <1>4, SlotKinds, SlotFacts
  <2> QED BY <2>1 DEF Before
<1>5. ASSUME e # Create, f # Create
      PROVE  Part(e) <= Part(f)
  <2>1. e[1] = f[1] /\ e[2] \in Ordinals /\ f[2] \in Ordinals
    BY <1>1, <1>5, SlotKinds
  <2>2. e[2] \in Nat /\ f[2] \in Nat
    BY <2>1, MaxGrantsAssumption DEF Ordinals
  <2>3. ~ (f[2] < e[2])
    BY <2>1 DEF Before
  <2> QED BY <1>5, <2>2, <2>3 DEF Part
<1> QED BY <1>3, <1>4, <1>5

\* The parts to do and done are those of the phase's effects.
LEMMA WorkParts ==
    ASSUME NEW p, NEW E
    PROVE  /\ WorkOf(p, E).todo = {Part(f) : f \in InState(E, p.cleanup_requested, {"pending"})}
           /\ WorkOf(p, E).done = {Part(f) : f \in InState(E, p.cleanup_requested, Done)}
  BY DEF WorkOf, PartsIn, Done

\* A saga with no effect open.
LEMMA IdleWork ==
    ASSUME NEW p, NEW E, \A e \in Phase(p.cleanup_requested) : E[e].state \notin Running
    PROVE  WorkOf(p, E).open = OpenShut
<1>1. InState(E, p.cleanup_requested, {"in_flight", "failed", "unknown"}) = {}
  BY DEF InState, Running
<1>2. OpenPart(p, E) = [how |-> "closed", part |-> 0]
  BY <1>1 DEF OpenPart
<1> QED BY <1>2 DEF WorkOf, OpenShut

\* claim_next takes the first part, and only when no other is open.
LEMMA ClaimStep ==
    ASSUME NEW p \in SagaRow, NEW E, NEW q, NEW F, NEW e \in Slots, Moved(p, E, q, F, e),
           Consistent(p, E), Claimable(p, E), IsNext(p, E, e), F[e].state = "in_flight"
    PROVE  Abstract!Claim(WorkOf(p, E), WorkOf(q, F))
<1>1. /\ p \in SagaRow /\ E \in [Slots -> EffectRow] /\ p.cleanup_requested \in BOOLEAN
      /\ Stored(q, F) /\ e \in Phase(p.cleanup_requested) /\ e \in Phase(q.cleanup_requested)
  BY DEF Moved, Stored, SagaRow
<1>2. E[e].state = "pending" /\ \A f \in Slots : ~ Open(E[f])
  BY <1>1, DueMeans
<1>3. /\ E[e].state \notin Done /\ F[e].state \in Running /\ F[e].state \notin Done
      /\ F[e].state # "pending" /\ How[F[e].state] = "running"
  BY <1>2 DEF Running, Done, How
<1>4. WorkOf(p, E).open = OpenShut
  <2>1. \A f \in Phase(p.cleanup_requested) : E[f].state \notin Running
    BY <1>2 DEF Phase, Open, Running
  <2> QED BY <2>1, IdleWork
<1>5. WorkOf(q, F).open = OpenAt("running", Part(e))
  BY <1>1, <1>3, OpenedWork
<1>6. \A j \in WorkOf(p, E).todo : Part(e) <= j
  <2>1. ASSUME NEW f \in InState(E, p.cleanup_requested, {"pending"})
        PROVE  Part(e) <= Part(f)
    <3>1. f \in Phase(p.cleanup_requested) /\ ~ Before(f, e)
      BY DEF IsNext, PendingIn, InState
    <3> QED BY <1>1, <3>1, PartsInOrder
  <2> QED BY <2>1, WorkParts
<1> DEFINE w == WorkOf(p, E)
           v == WorkOf(q, F)
<1>7. WorkShaped(w) /\ WorkShaped(v) /\ v.phase = w.phase
  BY MoveMeans DEF WorkShaped
<1>8. v.done = w.done /\ v.todo = w.todo \ {Part(e)} /\ Part(e) \in w.todo
  BY <1>2, <1>3, MoveMeans
<1>9. w.open = OpenShut /\ v.open = [how |-> "running", part |-> Part(e)]
  BY <1>4, <1>5 DEF OpenAt
<1>10. \A j \in w.todo : Part(e) <= j
  BY <1>6
<1> HIDE DEF w, v
<1>11. Abstract!Claim(w, v)
  BY <1>7, <1>8, <1>9, <1>10, ClaimFields
<1> QED BY <1>11 DEF w, v

\* The slots of a phase.
LEMMA PhaseSlots ==
    /\ \A f \in Phase(FALSE) : f = Create \/ \E i \in Ordinals : f = Put(i)
    /\ \A f \in Phase(TRUE) : \E i \in Ordinals : f = Revoke(i)
    /\ Create \in Phase(FALSE) /\ Part(Create) = 0
    /\ \A i \in Ordinals : /\ Put(i) \in Phase(FALSE) /\ Part(Put(i)) = i + 1
                           /\ Revoke(i) \in Phase(TRUE) /\ Part(Revoke(i)) = i + 1
<1>1. \A f \in Slots : f[1] = "revoke_entitlement" \/ f[1] # "revoke_entitlement"
  OBVIOUS
<1>2. \A i \in Ordinals : Put(i) # Create /\ Revoke(i) # Create
  BY SlotFacts
<1> QED BY <1>1, <1>2, SlotFacts DEF Phase, Part

\* The table's first step, field by field.
LEMMA StartFields ==
    ASSUME NEW w, NEW v, NEW n \in 0 .. MaxGrants,
           w = [phase |-> "none", todo |-> {}, done |-> {}, open |-> OpenShut],
           v = [phase |-> "forward", todo |-> 0 .. n, done |-> {}, open |-> OpenShut]
    PROVE  Abstract!Start(w, v)
<1> DEFINE new == [w EXCEPT !.phase = "forward", !.todo = 0 .. n]
           Old == [phase : {"none"}, todo : {{}}, done : {{}}, open : {OpenShut}]
           New == [phase : {"forward"}, todo : {0 .. n}, done : {{}}, open : {OpenShut}]
<1>1. w = Abstract!Nothing
  BY DEF Abstract!Nothing, Abstract!Closed, Abstract!Organization, OpenShut
<1>2. n \in Abstract!Parts
  BY DEF Abstract!Parts
<1>3. new \in New
  <2>1. w \in Old
    OBVIOUS
  <2>2. \A r \in Old : [r EXCEPT !.phase = "forward", !.todo = 0 .. n] \in New
    OBVIOUS
  <2> HIDE DEF Old, New
  <2> QED BY <2>1, <2>2
<1>4. \A r \in New : r = v
  OBVIOUS
<1>5. v = new
  <2> HIDE DEF new, New
  <2> QED BY <1>3, <1>4
<1>6. v = [Abstract!Nothing EXCEPT !.phase = "forward", !.todo = 0 .. n]
  BY <1>1, <1>5, Zenon
<1> QED BY <1>1, <1>2, <1>6, Zenon DEF Abstract!Start

\* start writes the organization and the first grants, all to do.
LEMMA StartStep ==
    ASSUME NEW a, NEW n \in 0 .. MaxGrants
    PROVE  Abstract!Start(WorkOf(NoSaga, [e \in Slots |-> NoEffect]),
                          WorkOf(StartedSaga(a), StartedEffects(n)))
<1> DEFINE p == NoSaga
           E == [e \in Slots |-> NoEffect]
           q == StartedSaga(a)
           F == StartedEffects(n)
           w == WorkOf(p, E)
           v == WorkOf(q, F)
<1>1. /\ p.status = "absent" /\ p.cleanup_requested = FALSE
      /\ q.status = "pending" /\ q.cleanup_requested = FALSE
  BY DEF NoSaga, StartedSaga
<1>2. \A e \in Slots : E[e].state = "absent"
  BY DEF NoEffect
<1>3. \A e \in Slots : F[e].state = IF e = Create \/ (e[1] = "put_entitlement" /\ e[2] < n)
                                    THEN "pending" ELSE "absent"
  BY DEF StartedEffects, PendingEffect, NoEffect
<1> HIDE DEF p, E, q, F
<1>4. w.open = OpenShut /\ v.open = OpenShut
  <2>1. /\ \A e \in Phase(p.cleanup_requested) : E[e].state \notin Running
        /\ \A e \in Phase(q.cleanup_requested) : F[e].state \notin Running
    BY <1>2, <1>3 DEF Phase, Running
  <2> QED BY <2>1, IdleWork
<1>5. w.todo = {} /\ w.done = {} /\ v.done = {}
  <2>1. /\ InState(E, p.cleanup_requested, {"pending"}) = {}
        /\ InState(E, p.cleanup_requested, Done) = {}
        /\ InState(F, q.cleanup_requested, Done) = {}
    BY <1>2, <1>3 DEF InState, Phase, Done
  <2> QED BY <2>1, WorkParts
<1>6. v.todo = 0 .. n
  <2>1. \A i \in Ordinals : Put(i)[1] = "put_entitlement" /\ Put(i)[2] = i /\ Put(i) # Create
                            /\ Put(i) \in Slots
    BY SlotFacts
  <2>2. \A x : x \in v.todo <=> \E f \in Phase(FALSE) : F[f].state = "pending" /\ x = Part(f)
    <3>1. InState(F, q.cleanup_requested, {"pending"}) = {f \in Phase(FALSE) : F[f].state = "pending"}
      BY <1>1 DEF InState
    <3>2. v.todo = {Part(f) : f \in {f \in Phase(FALSE) : F[f].state = "pending"}}
      BY <3>1, WorkParts
    <3> QED BY <3>2
  <2>3. \A f \in Phase(FALSE) : F[f].state = "pending" <=> f = Create \/ f[2] < n
    <3> TAKE f \in Phase(FALSE)
    <3>1. f = Create \/ \E i \in Ordinals : f = Put(i)
      BY PhaseSlots
    <3>2. f \in Slots
      BY DEF Phase
    <3> QED BY <1>3, <2>1, <3>1, <3>2
  <2>4. ASSUME NEW x \in v.todo
        PROVE  x \in 0 .. n
    <3>1. PICK f \in Phase(FALSE) : (f = Create \/ f[2] < n) /\ x = Part(f)
      BY <2>2, <2>3
    <3>2. CASE f = Create
      BY <3>1, <3>2, PhaseSlots
    <3>3. ASSUME NEW i \in Ordinals, f = Put(i)
          PROVE  x \in 0 .. n
      <4>1. f # Create /\ f[2] = i /\ Part(f) = i + 1
        BY <2>1, <3>3, PhaseSlots
      <4>2. i < n /\ x = i + 1
        BY <3>1, <4>1
      <4>3. i \in Nat
        BY MaxGrantsAssumption DEF Ordinals
      <4> QED BY <4>2, <4>3
    <3> QED BY <3>2, <3>3, PhaseSlots
  <2>5. ASSUME NEW x \in 0 .. n
        PROVE  x \in v.todo
    <3>1. CASE x = 0
      BY <2>2, <2>3, <3>1, PhaseSlots
    <3>2. CASE x # 0
      <4>1. x - 1 \in Ordinals /\ x - 1 < n /\ (x - 1) + 1 = x
        BY <3>2, MaxGrantsAssumption DEF Ordinals
      <4>2. Put(x - 1) \in Phase(FALSE) /\ Part(Put(x - 1)) = x /\ Put(x - 1)[2] < n
        BY <2>1, <4>1, PhaseSlots
      <4> QED BY <2>2, <2>3, <4>2
    <3> QED BY <3>1, <3>2
  <2> QED BY <2>4, <2>5
<1>7. w = [phase |-> "none", todo |-> {}, done |-> {}, open |-> OpenShut]
  BY <1>1, <1>4, <1>5 DEF WorkOf
<1>8. v = [phase |-> "forward", todo |-> 0 .. n, done |-> {}, open |-> OpenShut]
  BY <1>1, <1>4, <1>5, <1>6 DEF WorkOf
<1> HIDE DEF w, v
<1>9. Abstract!Start(w, v)
  BY <1>7, <1>8, StartFields
<1> QED BY <1>9 DEF w, v, p, E, q, F

\* request_cleanup starts over with the grants that were done.
LEMMA CleanupStep ==
    ASSUME NEW p \in SagaRow, NEW E \in [Slots -> EffectRow], Consistent(p, E),
           p.status \in {"completed", "failed"}, ~ p.cleanup_requested,
           NEW q, q.cleanup_requested, q.cleanup_requested \in BOOLEAN, q.status # "absent"
    PROVE  Abstract!RequestCleanup(WorkOf(p, E), WorkOf(q, CleanedEffects(E)))
<1> DEFINE F == CleanedEffects(E)
           w == WorkOf(p, E)
           v == WorkOf(q, F)
<1>1. EffectsConsistent(p, E) /\ StatusConsistent(p, E)
  BY StoredMeans
<1>2. p.cleanup_requested = FALSE /\ q.cleanup_requested = TRUE
  BY DEF SagaRow
<1>3. \A i \in Ordinals : /\ Put(i) \in Phase(FALSE) /\ Revoke(i) \in Phase(TRUE)
                          /\ E[Put(i)].state \in {"absent", "pending", "applied", "failed"}
                          /\ E[Revoke(i)].state = "absent"
  BY <1>1, CleanableMeans, PhaseSlots DEF EffectsConsistent, CleanupMirrors
<1>4. \A i \in Ordinals : F[Revoke(i)].state =
                             IF E[Put(i)].state = "applied" THEN "pending" ELSE "absent"
  <2> TAKE i \in Ordinals
  <2>1. \A id : PendingEffect(id).state = "pending"
    BY DEF PendingEffect, NoEffect
  <2>2. /\ E[Put(i)].state = "applied" => F[Revoke(i)] = PendingEffect(E[Put(i)].external_id)
        /\ E[Put(i)].state # "applied" => F[Revoke(i)] = E[Revoke(i)]
    BY CleanedMeans
  <2>3. E[Revoke(i)].state = "absent"
    BY <1>3
  <2> HIDE DEF F
  <2> QED BY <2>1, <2>2, <2>3
<1> HIDE DEF F
<1>5. v.open = OpenShut
  <2>1. \A f \in Phase(q.cleanup_requested) : F[f].state \notin Running
    BY <1>2, <1>4, PhaseSlots DEF Running
  <2> QED BY <2>1, IdleWork
<1>6. v.done = {}
  <2>1. InState(F, q.cleanup_requested, Done) = {}
    BY <1>2, <1>4, PhaseSlots DEF InState, Done
  <2>2. v.done = {Part(f) : f \in InState(F, q.cleanup_requested, Done)}
    BY WorkParts
  <2> QED BY <2>1, <2>2
<1>7. v.todo = w.done \ {0}
  <2>1. InState(F, q.cleanup_requested, {"pending"})
           = {Revoke(i) : i \in {i \in Ordinals : E[Put(i)].state = "applied"}}
    BY <1>2, <1>3, <1>4, PhaseSlots DEF InState
  <2>2. v.todo = {Part(f) : f \in {Revoke(i) : i \in {i \in Ordinals : E[Put(i)].state = "applied"}}}
    BY <2>1, WorkParts
  <2>3. \A x : x \in v.todo <=> \E i \in Ordinals : E[Put(i)].state = "applied" /\ x = i + 1
    <3>1. \A x : x \in v.todo <=>
             \E i \in Ordinals : E[Put(i)].state = "applied" /\ x = Part(Revoke(i))
      BY <2>2
    <3>2. \A i \in Ordinals : Part(Revoke(i)) = i + 1
      BY PhaseSlots
    <3> HIDE DEF v
    <3> QED BY <3>1, <3>2, Zenon
  <2>4. w.done = {Part(f) : f \in {f \in Phase(FALSE) : E[f].state \in Done}}
    <3>1. InState(E, p.cleanup_requested, Done) = {f \in Phase(FALSE) : E[f].state \in Done}
      BY <1>2 DEF InState
    <3> QED BY <3>1, WorkParts
  <2>5. \A i \in Ordinals : i + 1 # 0
    BY MaxGrantsAssumption DEF Ordinals
  <2>6. ASSUME NEW i \in Ordinals
        PROVE  E[Put(i)].state \in Done <=> E[Put(i)].state = "applied"
    BY <1>3 DEF Done
  <2>7. ASSUME NEW x \in v.todo
        PROVE  x \in w.done \ {0}
    <3>1. PICK i \in Ordinals : E[Put(i)].state = "applied" /\ x = i + 1
      BY <2>3
    <3> QED BY <1>3, <2>4, <2>5, <2>6, <3>1, PhaseSlots
  <2>8. ASSUME NEW x \in w.done \ {0}
        PROVE  x \in v.todo
    <3>1. PICK f \in Phase(FALSE) : E[f].state \in Done /\ x = Part(f)
      BY <2>4
    <3>2. f # Create
      BY <3>1, PhaseSlots
    <3>3. PICK i \in Ordinals : f = Put(i)
      BY <3>2, PhaseSlots
    <3> QED BY <2>3, <2>6, <3>1, <3>3, PhaseSlots
  <2> HIDE DEF v, w
  <2> QED BY <2>7, <2>8
<1>8. w.phase = "forward" /\ v = [phase |-> "cleanup", todo |-> v.todo, done |-> v.done,
                                  open |-> v.open]
  BY <1>2 DEF WorkOf
<1>9. w.open.how = "failed" \/ (w.open = OpenShut /\ w.todo = {})
  <2>1. CASE p.status = "completed"
    <3>1. InState(E, p.cleanup_requested, {"pending", "in_flight", "unknown", "failed"}) = {}
      BY <1>1, <2>1, StatusMeans
    <3>2. /\ \A f \in Phase(p.cleanup_requested) : E[f].state \notin Running
          /\ InState(E, p.cleanup_requested, {"pending"}) = {}
      BY <3>1 DEF InState, Running
    <3> QED BY <3>2, IdleWork, WorkParts
  <2>2. CASE p.status = "failed"
    <3>1. InState(E, p.cleanup_requested, {"failed"}) # {}
      BY <1>1, <2>2, StatusMeans
    <3>2. PICK f \in Phase(p.cleanup_requested) : E[f].state = "failed"
      BY <3>1 DEF InState
    <3>3. OpenPart(p, E) = [how |-> How[E[f].state], part |-> Part(f)]
      BY <1>1, <3>2, OpenMeans DEF Running
    <3>4. w.open.how = "failed"
      BY <3>2, <3>3 DEF WorkOf, How
    <3> QED BY <3>4
  <2> QED BY <2>1, <2>2
<1> HIDE DEF v, w
<1>10. Abstract!RequestCleanup(w, v)
  BY <1>5, <1>6, <1>7, <1>8, <1>9
  DEF Abstract!RequestCleanup, Abstract!Closed, Abstract!Organization, OpenShut
<1> QED BY <1>10 DEF w, v, F

\* The work of a saga is read off its phase and the states of its effects.
LEMMA SameWork ==
    ASSUME NEW p, NEW E, NEW F, \A e \in Slots : F[e].state = E[e].state
    PROVE  WorkOf(p, F) = WorkOf(p, E)
<1> DEFINE c == p.cleanup_requested
<1>1. \A states : InState(F, c, states) = InState(E, c, states)
  BY DEF InState, Phase
<1>2. \A states : PartsIn(p, F, states) = PartsIn(p, E, states)
  BY <1>1 DEF PartsIn
<1>3. ASSUME NEW e \in Slots
      PROVE  F[e].state = E[e].state
  OBVIOUS
<1>4. OpenPart(p, F) = OpenPart(p, E)
  <2> DEFINE open == InState(E, c, Running)
             e == CHOOSE e \in open : TRUE
  <2>1. OpenPart(p, E) = IF open = {} THEN OpenShut ELSE OpenAt(How[E[e].state], Part(e))
    BY DEF OpenPart, Running, How, OpenShut, OpenAt
  <2>2. OpenPart(p, F) = IF open = {} THEN OpenShut ELSE OpenAt(How[F[e].state], Part(e))
    <3>1. InState(F, c, Running) = open
      BY <1>1
    <3>2. OpenPart(p, F) = IF InState(F, c, Running) = {} THEN OpenShut
                           ELSE OpenAt(How[F[CHOOSE f \in InState(F, c, Running) : TRUE].state],
                                       Part(CHOOSE f \in InState(F, c, Running) : TRUE))
      BY DEF OpenPart, Running, How, OpenShut, OpenAt
    <3> QED BY <3>1, <3>2
  <2>3. CASE open = {}
    BY <2>1, <2>2, <2>3
  <2>4. CASE open # {}
    <3>1. e \in open
      BY <2>4
    <3>2. e \in Slots
      BY <3>1 DEF InState, Phase
    <3> HIDE DEF open, e
    <3>3. F[e].state = E[e].state
      BY <1>3, <3>2
    <3> QED BY <2>1, <2>2, <3>3
  <2> QED BY <2>3, <2>4
<1> QED BY <1>2, <1>4 DEF WorkOf
-----------------------------------------------------------------------------
(* The work and the status of a stored saga. *)

\* The work of a consistent saga is work of the table.
LEMMA WorkTyped ==
    ASSUME NEW p \in SagaRow, NEW E \in [Slots -> EffectRow], Consistent(p, E)
    PROVE  WorkOf(p, E) \in Abstract!Work
<1>1. p.cleanup_requested \in BOOLEAN
  BY DEF SagaRow
<1>2. WorkOf(p, E).todo \subseteq 0 .. MaxGrants /\ WorkOf(p, E).done \subseteq 0 .. MaxGrants
  <2>1. \A f \in Phase(p.cleanup_requested) : Part(f) \in 0 .. MaxGrants
    BY <1>1, PartsDiffer
  <2>2. /\ \A f \in InState(E, p.cleanup_requested, {"pending"}) : f \in Phase(p.cleanup_requested)
        /\ \A f \in InState(E, p.cleanup_requested, Done) : f \in Phase(p.cleanup_requested)
    BY DEF InState
  <2> QED BY <2>1, <2>2, WorkParts
<1>3. WorkOf(p, E).open \in {OpenShut} \cup [how : {"running", "failed", "lost"}, part : 0 .. MaxGrants]
  <2>1. CASE \A f \in Phase(p.cleanup_requested) : E[f].state \notin Running
    BY <2>1, IdleWork
  <2>2. ASSUME NEW f \in Phase(p.cleanup_requested), E[f].state \in Running
        PROVE  WorkOf(p, E).open \in [how : {"running", "failed", "lost"}, part : 0 .. MaxGrants]
    <3>1. EffectsConsistent(p, E)
      <4>1. E # [e \in Slots |-> NoEffect]
        BY <2>2 DEF Phase, NoEffect, Running
      <4> QED BY <4>1 DEF Consistent
    <3>2. OpenPart(p, E) = [how |-> How[E[f].state], part |-> Part(f)]
      BY <2>2, <3>1, OpenMeans
    <3>3. How[E[f].state] \in {"running", "failed", "lost"} /\ Part(f) \in 0 .. MaxGrants
      BY <1>1, <2>2, PartsDiffer DEF How, Running
    <3> QED BY <3>2, <3>3 DEF WorkOf
  <2> QED BY <2>1, <2>2
<1>4. WorkOf(p, E) = [phase |-> WorkOf(p, E).phase, todo |-> WorkOf(p, E).todo,
                      done |-> WorkOf(p, E).done, open |-> WorkOf(p, E).open]
      /\ WorkOf(p, E).phase \in {"none", "forward", "cleanup"}
  BY DEF WorkOf
<1> DEFINE w == WorkOf(p, E)
<1> HIDE DEF w
<1>5. /\ w = [phase |-> w.phase, todo |-> w.todo, done |-> w.done, open |-> w.open]
      /\ w.phase \in {"none", "forward", "cleanup"}
      /\ w.todo \subseteq 0 .. MaxGrants /\ w.done \subseteq 0 .. MaxGrants
      /\ w.open \in {OpenShut} \cup [how : {"running", "failed", "lost"}, part : 0 .. MaxGrants]
  BY <1>2, <1>3, <1>4 DEF w
<1>6. w \in Abstract!Work
  BY <1>5 DEF Abstract!Work, Abstract!Opens, Abstract!Parts, Abstract!Closed,
              Abstract!Organization, OpenShut
<1> QED BY <1>6 DEF w

\* The status column is the one the work stands for.
LEMMA StatusShown ==
    ASSUME NEW p \in SagaRow, NEW E \in [Slots -> EffectRow], Consistent(p, E)
    PROVE  Abstract!Status(WorkOf(p, E)) = p.status
<1> DEFINE w == WorkOf(p, E)
           c == p.cleanup_requested
<1>1. CASE p.status = "absent"
  <2>1. p = NoSaga /\ E = [e \in Slots |-> NoEffect]
    <3>1. ~ StatusConsistent(p, E)
      BY <1>1 DEF StatusConsistent, ExpectedStatus, RefreshedStatus
    <3> QED BY <3>1 DEF Consistent
  <2>2. \A f \in Phase(c) : E[f].state \notin Running
    BY <2>1 DEF NoEffect, Phase, Running
  <2>3. w.open = OpenShut /\ w.phase = "none"
    BY <1>1, <2>2, IdleWork DEF WorkOf
  <2> HIDE DEF w
  <2>4. Abstract!Status(w) = "absent"
    BY <2>3 DEF Abstract!Status, Abstract!Closed, Abstract!Organization, OpenShut
  <2> QED BY <1>1, <2>4 DEF w
<1>2. ASSUME p.status # "absent"
      PROVE  Abstract!Status(w) = p.status
  <2>1. EffectsConsistent(p, E) /\ StatusConsistent(p, E)
    BY <1>2, StoredMeans
  <2>2. w.phase = (IF c THEN "cleanup" ELSE "forward") /\ c \in BOOLEAN /\ p.status \in Statuses
    BY <1>2 DEF WorkOf, SagaRow
  <2>3. p.status \notin {"absent", "manual_review"} =>
           (c <=> p.status \in {"cleanup_pending", "cleanup_running",
                                "cleanup_completed", "cleanup_failed"})
    BY <2>1, SummaryHolds
  <2>4. CASE p.status = "manual_review"
    <3>1. PICK f \in Phase(c) : E[f].state = "unknown"
      BY <2>1, <2>4, StatusMeans DEF InState
    <3>2. OpenPart(p, E) = [how |-> How[E[f].state], part |-> Part(f)]
      BY <2>1, <3>1, OpenMeans DEF Running
    <3>3. w.open.how = "lost"
      BY <3>1, <3>2 DEF WorkOf, How
    <3> HIDE DEF w
    <3> QED BY <2>2, <2>4, <3>3
            DEF Abstract!Status, Abstract!Closed, Abstract!Organization
  <2>5. CASE p.status \in {"running", "cleanup_running"}
    <3>1. PICK f \in Slots : E[f].state = "in_flight"
      BY <2>1, <2>5, StatusMeans DEF InFlight
    <3>2. f \in Phase(c)
      BY <2>1, <3>1, OutsidePhase DEF Open
    <3>3. OpenPart(p, E) = [how |-> How[E[f].state], part |-> Part(f)]
      BY <2>1, <3>1, <3>2, OpenMeans DEF Running
    <3>4. w.open.how = "running"
      BY <3>1, <3>3 DEF WorkOf, How
    <3> HIDE DEF w
    <3> QED BY <2>2, <2>3, <2>5, <3>4
            DEF Abstract!Status, Abstract!Closed, Abstract!Organization
  <2>6. CASE p.status \in {"failed", "cleanup_failed"}
    <3>1. PICK f \in Phase(c) : E[f].state = "failed"
      BY <2>1, <2>6, StatusMeans DEF InState
    <3>2. OpenPart(p, E) = [how |-> How[E[f].state], part |-> Part(f)]
      BY <2>1, <3>1, OpenMeans DEF Running
    <3>3. w.open.how = "failed"
      BY <3>1, <3>2 DEF WorkOf, How
    <3> HIDE DEF w
    <3> QED BY <2>2, <2>3, <2>6, <3>3
            DEF Abstract!Status, Abstract!Closed, Abstract!Organization
  <2>7. CASE p.status \in {"pending", "cleanup_pending"}
    <3>1. /\ InState(E, c, {"in_flight", "unknown", "failed"}) = {}
          /\ PendingIn(E, c) # {}
      BY <2>1, <2>7, StatusMeans
    <3>2. /\ \A f \in Phase(c) : E[f].state \notin Running
          /\ InState(E, c, {"pending"}) # {}
      BY <3>1 DEF InState, PendingIn, Running
    <3>3. w.open = OpenShut /\ w.todo # {}
      BY <3>2, IdleWork, WorkParts
    <3> HIDE DEF w
    <3> QED BY <2>2, <2>3, <2>7, <3>3
            DEF Abstract!Status, Abstract!Closed, Abstract!Organization, OpenShut
  <2>8. CASE p.status \in {"completed", "cleanup_completed"}
    <3>1. InState(E, c, {"pending", "in_flight", "unknown", "failed"}) = {}
      BY <2>1, <2>8, StatusMeans
    <3>2. /\ \A f \in Phase(c) : E[f].state \notin Running
          /\ InState(E, c, {"pending"}) = {}
      BY <3>1 DEF InState, Running
    <3>3. w.open = OpenShut /\ w.todo = {}
      BY <3>2, IdleWork, WorkParts
    <3> HIDE DEF w
    <3> QED BY <2>2, <2>3, <2>8, <3>3
            DEF Abstract!Status, Abstract!Closed, Abstract!Organization, OpenShut
  <2> QED BY <1>2, <2>2, <2>4, <2>5, <2>6, <2>7, <2>8 DEF Statuses
<1> QED BY <1>1, <1>2
-----------------------------------------------------------------------------
(* The transactions. *)

Follows(p, E, q, F) ==
    WorkOf(q, F) = WorkOf(p, E) \/ Abstract!Step(WorkOf(p, E), WorkOf(q, F))

\* What an open effect may become.
Closes(old, new) ==
    \/ old.state \in {"in_flight", "unknown"} /\ new.state \in Done
    \/ old.state \in {"failed", "unknown"} /\ new.state = "pending"
    \/ old.state = "in_flight" /\ new.state \in {"failed", "unknown"}

\* One open effect was closed.
LEMMA CloseFollows ==
    ASSUME NEW p \in SagaRow, NEW E \in [Slots -> EffectRow], Consistent(p, E),
           p.status # "absent", NEW e \in Phase(p.cleanup_requested), NEW row,
           NEW q \in SagaRow, NEW F \in [Slots -> EffectRow], F = [E EXCEPT ![e] = row],
           Consistent(q, F), q.status # "absent",
           q.cleanup_requested = p.cleanup_requested, Closes(E[e], row)
    PROVE  Follows(p, E, q, F)
<1>1. Stored(p, E) /\ Stored(q, F)
  BY StoredMeans DEF Stored
<1>2. e \in Slots /\ F[e] = row /\ \A f \in Slots : f # e => F[f] = E[f]
  BY DEF Phase
<1>3. Moved(p, E, q, F, e)
  BY <1>1, <1>2 DEF Moved
<1>4. CASE E[e].state \in {"in_flight", "unknown"} /\ row.state \in Done
  BY <1>2, <1>3, <1>4, SettleStep DEF Follows, Abstract!Step
<1>5. CASE E[e].state \in {"failed", "unknown"} /\ row.state = "pending"
  BY <1>2, <1>3, <1>5, ReopenStep DEF Follows, Abstract!Step
<1>6. CASE E[e].state = "in_flight" /\ row.state \in {"failed", "unknown"}
  BY <1>2, <1>3, <1>6, StopStep DEF Follows, Abstract!Step
<1> QED BY <1>4, <1>5, <1>6 DEF Closes

\* A refreshed saga is a stored one of the same phase.
LEMMA RefreshedRow ==
    ASSUME NEW p \in SagaRow, NEW E
    PROVE  /\ Refresh(p, E).status # "absent"
           /\ Refresh(p, E).cleanup_requested = p.cleanup_requested
  BY DEF Refresh, RefreshedStatus, SagaRow

\* So is one whose effect was claimed, or quarantined.
LEMMA UpdatedRow ==
    ASSUME NEW p \in SagaRow
    PROVE  /\ ClaimedSaga(p).status # "absent" /\ QuarantinedSaga(p).status # "absent"
           /\ ClaimedSaga(p).cleanup_requested = p.cleanup_requested
           /\ QuarantinedSaga(p).cleanup_requested = p.cleanup_requested
           /\ CleaningSaga(p) \in SagaRow /\ CleaningSaga(p).cleanup_requested = TRUE
  BY DEF ClaimedSaga, QuarantinedSaga, CleaningSaga, SagaRow

\* Recording the organization changes neither.
LEMMA OrganizationRow ==
    ASSUME NEW p \in SagaRow, NEW e, NEW outcome
    PROVE  /\ WithOrganization(p, e, outcome).status = p.status
           /\ WithOrganization(p, e, outcome).cleanup_requested = p.cleanup_requested
  BY DEF WithOrganization, SagaRow

\* The state a retry selects for, and the one it writes.
LEMMA RetryCloses ==
    ASSUME NEW p \in SagaRow, NEW E \in [Slots -> EffectRow], NEW e \in Selected(p, E),
           e \in Slots, NEW resolution, NEW observed,
           NEW row \in Resolved(p, E[e], e[1], resolution, observed)
    PROVE  Closes(E[e], row)
<1>1. E[e] \in EffectRow
  OBVIOUS
<1>2. CASE row = ResetEffect(E[e])
  <2>1. row.state = "pending"
    BY <1>1, <1>2, ReleasedMeans DEF ResetEffect
  <2>2. E[e].state \in {"failed", "unknown"}
    BY DEF Selected
  <2> QED BY <2>1, <2>2 DEF Closes
<1>3. ASSUME p.status = "manual_review", NEW o \in Outcomes(e[1]),
             row = SettledEffect(E[e], o), o.state \in {"applied", "compensated"}
      PROVE  Closes(E[e], row)
  <2>1. row.state = o.state
    BY <1>1, <1>3, SettledMeans
  <2>2. E[e].state = "unknown"
    BY <1>3 DEF Selected
  <2> QED BY <1>3, <2>1, <2>2 DEF Closes, Done
<1> QED BY <1>1, <1>2, <1>3, ResolvedType

\* Every outcome of a worker closes its effect.
LEMMA FinalizeCloses ==
    ASSUME NEW old \in EffectRow, old.state = "in_flight", NEW e \in Slots,
           NEW outcome \in Outcomes(e[1])
    PROVE  Closes(old, SettledEffect(old, outcome))
<1>1. SettledEffect(old, outcome).state = outcome.state
  BY SettledMeans
<1>2. outcome.state \in {"failed", "unknown", "applied", "compensated"}
  BY OutcomeType
<1> QED BY <1>1, <1>2 DEF Closes, Done

\* An expired lease closes its effect.
LEMMA QuarantineCloses ==
    ASSUME NEW old \in EffectRow, old.state = "in_flight"
    PROVE  Closes(old, QuarantinedEffect(old))
<1>1. QuarantinedEffect(old).state = "unknown"
  BY ReleasedMeans DEF QuarantinedEffect
<1> QED BY <1>1 DEF Closes

\* The states of the effects of the other sagas, and of all of them when only a
\* lease runs out, are what they were.
LEMMA StayFollows ==
    ASSUME NEW p, NEW E, NEW q, NEW F, q = p, \A e \in Slots : F[e].state = E[e].state
    PROVE  Follows(p, E, q, F)
  BY SameWork DEF Follows

\* The rows of the transactions.
StepFollows(s) == Follows(saga[s], effect[s], saga'[s], effect'[s])
RowsFit == \A s \in Sagas : /\ saga[s] \in SagaRow /\ effect[s] \in [Slots -> EffectRow]
                            /\ Consistent(saga[s], effect[s])
RowsFitNext == \A s \in Sagas : /\ saga'[s] \in SagaRow /\ effect'[s] \in [Slots -> EffectRow]
                                /\ Consistent(saga'[s], effect'[s])

\* retry.
LEMMA RetryFollows ==
    ASSUME TypeOK, RowsFit, RowsFitNext, NEW s \in Sagas, NEW a \in Actors, NEW k \in Keys,
           NEW request, Retry(s, a, k, request)
    PROVE  StepFollows(s) /\ \A t \in Sagas : t # s => StepFollows(t)
<1>1. PICK e \in Selected(saga[s], effect[s]) :
        \E row \in Resolved(saga[s], effect[s][e], e[1], request.resolution, request.observed) :
          /\ effect' = [effect EXCEPT ![s][e] = row]
          /\ saga' = [saga EXCEPT ![s] =
                Refresh(WithOrganization(saga[s], e, [state |-> row.state, id |-> row.external_id]),
                        effect'[s])]
  BY DEF Retry
<1>2. PICK row \in Resolved(saga[s], effect[s][e], e[1], request.resolution, request.observed) :
          /\ effect' = [effect EXCEPT ![s][e] = row]
          /\ saga' = [saga EXCEPT ![s] =
                Refresh(WithOrganization(saga[s], e, [state |-> row.state, id |-> row.external_id]),
                        effect'[s])]
  BY <1>1
<1> DEFINE p == saga[s]
           q == WithOrganization(p, e, [state |-> row.state, id |-> row.external_id])
<1>3. /\ p \in SagaRow /\ effect[s] \in [Slots -> EffectRow] /\ Consistent(p, effect[s])
      /\ saga'[s] \in SagaRow /\ effect'[s] \in [Slots -> EffectRow]
      /\ Consistent(saga'[s], effect'[s]) /\ p.status # "absent"
  BY DEF RowsFit, RowsFitNext, Retry, Locks
<1>4. effect'[s] = [effect[s] EXCEPT ![e] = row]
  BY <1>2 DEF TypeOK
<1>5. saga'[s] = Refresh(q, effect'[s])
  BY <1>2 DEF TypeOK
<1>6. e \in Phase(p.cleanup_requested) /\ e \in Slots
  BY <1>3, StoredMeans, SelectedMeans DEF Phase
<1>7. q \in SagaRow /\ q.cleanup_requested = p.cleanup_requested
  <2>1. effect[s][e] \in EffectRow
    BY <1>3, <1>6
  <2>2. q \in SagaRow
    BY <1>3, <1>6, <2>1, RetriedType
  <2> QED BY <1>3, <2>2, OrganizationRow
<1>8. saga'[s].status # "absent" /\ saga'[s].cleanup_requested = p.cleanup_requested
  <2> HIDE DEF q, p
  <2> QED BY <1>5, <1>7, RefreshedRow
<1>9. Closes(effect[s][e], row)
  BY <1>3, <1>6, RetryCloses
<1>10. StepFollows(s)
  BY <1>3, <1>4, <1>6, <1>8, <1>9, CloseFollows DEF StepFollows
<1>11. ASSUME NEW t \in Sagas, t # s
       PROVE  StepFollows(t)
  <2>1. saga'[t] = saga[t] /\ effect'[t] = effect[t]
    BY <1>2, <1>11 DEF TypeOK
  <2> QED BY <2>1, StayFollows DEF StepFollows
<1> QED BY <1>10, <1>11

\* start.
LEMMA StartFollows ==
    ASSUME TypeOK, RowsFit, NEW s \in Sagas, NEW a \in Actors, NEW n \in 0 .. MaxGrants,
           NEW k \in Keys, Start(s, a, n, k)
    PROVE  \A t \in Sagas : StepFollows(t)
<1>1. /\ saga' = [saga EXCEPT ![s] = StartedSaga(a)] /\ saga[s].status = "absent"
      /\ effect' = [effect EXCEPT ![s] = StartedEffects(n)]
  BY DEF Start
<1>2. saga[s] = NoSaga /\ effect[s] = [e \in Slots |-> NoEffect]
  <2>1. ~ StatusConsistent(saga[s], effect[s])
    BY <1>1 DEF StatusConsistent, ExpectedStatus, RefreshedStatus
  <2> QED BY <2>1 DEF RowsFit, Consistent
<1>3. saga'[s] = StartedSaga(a) /\ effect'[s] = StartedEffects(n)
  BY <1>1 DEF TypeOK
<1>4. Abstract!Start(WorkOf(saga[s], effect[s]), WorkOf(saga'[s], effect'[s]))
  BY <1>2, <1>3, StartStep
<1>5. StepFollows(s)
  BY <1>4 DEF StepFollows, Follows, Abstract!Step
<1>6. ASSUME NEW t \in Sagas, t # s
      PROVE  StepFollows(t)
  <2>1. saga'[t] = saga[t] /\ effect'[t] = effect[t]
    BY <1>1, <1>6 DEF TypeOK
  <2> QED BY <2>1, StayFollows DEF StepFollows
<1> QED BY <1>5, <1>6

\* request_cleanup.
LEMMA CleanupFollowsTable ==
    ASSUME TypeOK, RowsFit, RowsFitNext, NEW s \in Sagas, NEW a \in Actors, NEW k \in Keys,
           NEW expected, RequestCleanup(s, a, k, expected)
    PROVE  \A t \in Sagas : StepFollows(t)
<1>1. /\ effect' = [effect EXCEPT ![s] = CleanedEffects(effect[s])]
      /\ saga' = [saga EXCEPT ![s] = Refresh(CleaningSaga(saga[s]), effect'[s])]
      /\ saga[s].status \in {"completed", "failed"} /\ ~ saga[s].cleanup_requested
  BY DEF RequestCleanup
<1>2. /\ saga[s] \in SagaRow /\ effect[s] \in [Slots -> EffectRow]
      /\ Consistent(saga[s], effect[s])
  BY DEF RowsFit
<1>3. effect'[s] = CleanedEffects(effect[s]) /\ saga'[s] = Refresh(CleaningSaga(saga[s]), effect'[s])
  BY <1>1 DEF TypeOK
<1>4. saga'[s].cleanup_requested = TRUE /\ saga'[s].status # "absent"
  <2>1. CleaningSaga(saga[s]) \in SagaRow /\ CleaningSaga(saga[s]).cleanup_requested = TRUE
    BY <1>2, UpdatedRow
  <2> QED BY <1>3, <2>1, RefreshedRow
<1>5. Abstract!RequestCleanup(WorkOf(saga[s], effect[s]), WorkOf(saga'[s], CleanedEffects(effect[s])))
  <2>1. saga'[s].cleanup_requested /\ saga'[s].cleanup_requested \in BOOLEAN
    BY <1>4
  <2> QED BY <1>1, <1>2, <1>4, <2>1, CleanupStep
<1>6. StepFollows(s)
  BY <1>3, <1>5 DEF StepFollows, Follows, Abstract!Step
<1>7. ASSUME NEW t \in Sagas, t # s
      PROVE  StepFollows(t)
  <2>1. saga'[t] = saga[t] /\ effect'[t] = effect[t]
    BY <1>1, <1>7 DEF TypeOK
  <2> QED BY <2>1, StayFollows DEF StepFollows
<1> QED BY <1>6, <1>7

\* quarantine_expired: each saga of the batch loses one part.
LEMMA QuarantineFollows ==
    ASSUME TypeOK, RowsFit, RowsFitNext, NEW batch \in SUBSET Sagas, QuarantineExpired(batch)
    PROVE  \A t \in Sagas : StepFollows(t)
<1>1. PICK victim \in [batch -> Slots] :
        /\ \A s \in batch : victim[s] \in ExpiredEffects(effect[s])
        /\ effect' = [s \in Sagas |->
              IF s \in batch
              THEN [effect[s] EXCEPT ![victim[s]] = QuarantinedEffect(@)]
              ELSE effect[s]]
  BY DEF QuarantineExpired, Quarantine
<1>2. /\ saga' = [s \in Sagas |-> IF s \in batch THEN QuarantinedSaga(saga[s]) ELSE saga[s]]
      /\ \A s \in batch : Quarantinable(saga[s], effect[s])
  BY DEF QuarantineExpired, Quarantine
<1>3. ASSUME NEW s \in Sagas, s \in batch
      PROVE  StepFollows(s)
  <2> DEFINE e == victim[s]
             row == QuarantinedEffect(effect[s][e])
  <2>1. /\ saga[s] \in SagaRow /\ effect[s] \in [Slots -> EffectRow]
        /\ Consistent(saga[s], effect[s])
        /\ saga'[s] \in SagaRow /\ effect'[s] \in [Slots -> EffectRow]
        /\ Consistent(saga'[s], effect'[s])
    BY DEF RowsFit, RowsFitNext
  <2>2. saga[s].status # "absent" /\ e \in Slots /\ effect[s][e].state = "in_flight"
    BY <1>1, <1>2, <1>3 DEF Quarantinable, ExpiredEffects
  <2>3. effect'[s] = [effect[s] EXCEPT ![e] = row] /\ saga'[s] = QuarantinedSaga(saga[s])
    BY <1>1, <1>2, <1>3
  <2>4. e \in Phase(saga[s].cleanup_requested)
    BY <2>1, <2>2, StoredMeans, OutsidePhase DEF Open
  <2>5. saga'[s].status # "absent" /\ saga'[s].cleanup_requested = saga[s].cleanup_requested
    BY <2>1, <2>3, UpdatedRow
  <2>6. effect[s][e] \in EffectRow
    BY <2>1, <2>2
  <2>7. Closes(effect[s][e], row)
    BY <2>2, <2>6, QuarantineCloses
  <2> HIDE DEF row, e
  <2> QED BY <2>1, <2>2, <2>3, <2>4, <2>5, <2>7, CloseFollows DEF StepFollows
<1>4. ASSUME NEW s \in Sagas, s \notin batch
      PROVE  StepFollows(s)
  <2>1. saga'[s] = saga[s] /\ effect'[s] = effect[s]
    BY <1>1, <1>2, <1>4
  <2> QED BY <2>1, StayFollows DEF StepFollows
<1> QED BY <1>3, <1>4

\* claim_next.
LEMMA ClaimFollows ==
    ASSUME TypeOK, RowsFit, RowsFitNext, NEW s \in Sagas, ClaimNext(s)
    PROVE  \A t \in Sagas : StepFollows(t)
<1>1. Claimable(saga[s], effect[s])
  BY DEF ClaimNext
<1>2. PICK e \in Slots : /\ IsNext(saga[s], effect[s], e)
                         /\ effect' = [effect EXCEPT ![s][e] = ClaimedEffect(@)]
                         /\ saga' = [saga EXCEPT ![s] = ClaimedSaga(@)]
  BY DEF ClaimNext, Claim
<1>3. /\ saga[s] \in SagaRow /\ effect[s] \in [Slots -> EffectRow]
      /\ Consistent(saga[s], effect[s])
      /\ saga'[s] \in SagaRow /\ effect'[s] \in [Slots -> EffectRow]
      /\ Consistent(saga'[s], effect'[s])
  BY DEF RowsFit, RowsFitNext
<1>4. /\ effect'[s] = [effect[s] EXCEPT ![e] = ClaimedEffect(effect[s][e])]
      /\ saga'[s] = ClaimedSaga(saga[s])
  BY <1>2 DEF TypeOK
<1>5. saga[s].status # "absent" /\ e \in Phase(saga[s].cleanup_requested)
  BY <1>1, <1>2 DEF Claimable, IsNext, PendingIn
<1>6. saga'[s].status # "absent" /\ saga'[s].cleanup_requested = saga[s].cleanup_requested
  BY <1>3, <1>4, UpdatedRow
<1>7. /\ effect'[s][e].state = "in_flight"
      /\ \A f \in Slots : f # e => effect'[s][f] = effect[s][f]
  <2>1. effect[s][e] \in EffectRow
    BY <1>3
  <2>2. ClaimedEffect(effect[s][e]).state = "in_flight"
    BY <2>1 DEF ClaimedEffect, EffectRow
  <2> QED BY <1>3, <1>4, <2>2
<1>8. Moved(saga[s], effect[s], saga'[s], effect'[s], e)
  BY <1>3, <1>5, <1>6, <1>7, StoredMeans DEF Moved, Stored
<1>9. Abstract!Claim(WorkOf(saga[s], effect[s]), WorkOf(saga'[s], effect'[s]))
  BY <1>1, <1>2, <1>3, <1>7, <1>8, ClaimStep
<1>10. StepFollows(s)
  BY <1>9 DEF StepFollows, Follows, Abstract!Step
<1>11. ASSUME NEW t \in Sagas, t # s
       PROVE  StepFollows(t)
  <2>1. saga'[t] = saga[t] /\ effect'[t] = effect[t]
    BY <1>2, <1>11 DEF TypeOK
  <2> QED BY <2>1, StayFollows DEF StepFollows
<1> QED BY <1>10, <1>11

\* finalize_effect.
LEMMA FinalizeFollows ==
    ASSUME TypeOK, RowsFit, RowsFitNext, NEW r \in held, NEW outcome \in Answers(r),
           FinalizeEffect(r, outcome)
    PROVE  \A t \in Sagas : StepFollows(t)
<1> DEFINE s == r.saga
           e == r.slot
           row == SettledEffect(effect[s][e], outcome)
           q == WithOrganization(saga[s], e, outcome)
<1>1. s \in Sagas /\ e \in Slots /\ outcome \in Outcomes(e[1])
  BY AnswersAreOutcomes DEF TypeOK, HeldRecord
<1>2. /\ effect[s][e].state = "in_flight"
      /\ effect' = [effect EXCEPT ![s][e] = row]
      /\ saga' = [saga EXCEPT ![s] = Refresh(q, effect'[s])]
  BY DEF FinalizeEffect, Current
<1>3. /\ saga[s] \in SagaRow /\ effect[s] \in [Slots -> EffectRow]
      /\ Consistent(saga[s], effect[s])
      /\ saga'[s] \in SagaRow /\ effect'[s] \in [Slots -> EffectRow]
      /\ Consistent(saga'[s], effect'[s])
  BY <1>1 DEF RowsFit, RowsFitNext
<1>4. effect'[s] = [effect[s] EXCEPT ![e] = row] /\ saga'[s] = Refresh(q, effect'[s])
  BY <1>1, <1>2 DEF TypeOK
<1>5. EffectsConsistent(saga[s], effect[s]) /\ saga[s].status # "absent"
  <2>1. effect[s] # [f \in Slots |-> NoEffect]
    BY <1>1, <1>2 DEF NoEffect
  <2>2. EffectsConsistent(saga[s], effect[s]) /\ StatusConsistent(saga[s], effect[s])
    BY <1>3, <2>1 DEF Consistent
  <2> QED BY <2>2 DEF StatusConsistent, ExpectedStatus, RefreshedStatus
<1>6. e \in Phase(saga[s].cleanup_requested)
  BY <1>1, <1>2, <1>3, <1>5, OutsidePhase DEF Open
<1>7. q \in SagaRow /\ q.cleanup_requested = saga[s].cleanup_requested
  BY <1>1, <1>3, OrganizationType, OrganizationRow
<1>8. saga'[s].status # "absent" /\ saga'[s].cleanup_requested = saga[s].cleanup_requested
  <2> HIDE DEF q, s
  <2> QED BY <1>4, <1>7, RefreshedRow
<1>9. Closes(effect[s][e], row)
  <2>1. effect[s][e] \in EffectRow
    BY <1>1, <1>3
  <2> QED BY <1>1, <1>2, <2>1, FinalizeCloses
<1>10. StepFollows(s)
  <2> HIDE DEF s, e, row, q
  <2> QED BY <1>3, <1>4, <1>5, <1>6, <1>8, <1>9, CloseFollows DEF StepFollows
<1>11. ASSUME NEW t \in Sagas, t # s
       PROVE  StepFollows(t)
  <2>1. saga'[t] = saga[t] /\ effect'[t] = effect[t]
    BY <1>1, <1>2, <1>11 DEF TypeOK
  <2> QED BY <2>1, StayFollows DEF StepFollows
<1> QED BY <1>10, <1>11

\* The passing of a lease changes no state of any effect.
LEMMA ExpiryFollows ==
    ASSUME TypeOK, NEW s \in Sagas, NEW e \in Slots, LeaseExpires(s, e)
    PROVE  \A t \in Sagas : StepFollows(t)
<1>1. saga' = saga /\ effect' = [effect EXCEPT ![s][e] = [@ EXCEPT !.lease_until = "past"]]
  BY DEF LeaseExpires
<1>2. ASSUME NEW t \in Sagas
      PROVE  StepFollows(t)
  <2>1. saga'[t] = saga[t] /\ \A f \in Slots : effect'[t][f].state = effect[t][f].state
    BY <1>1 DEF TypeOK, EffectRow
  <2> QED BY <2>1, StayFollows DEF StepFollows
<1> QED BY <1>2

\* Every transaction.
LEMMA NextFollows ==
    ASSUME TypeOK, RowsFit, RowsFitNext, [Next]_vars
    PROVE  \A t \in Sagas : StepFollows(t)
<1>1. ASSUME NEW s \in Sagas, NEW a \in Actors, NEW k \in Keys, NEW request \in Requests(s),
             Retry(s, a, k, request)
      PROVE  \A t \in Sagas : StepFollows(t)
  BY <1>1, RetryFollows
<1>2. ASSUME saga' = saga, effect' = effect
      PROVE  \A t \in Sagas : StepFollows(t)
  BY <1>2, StayFollows DEF StepFollows
<1>3. ASSUME NEW r \in held, FinalizeSuperseded(r) \/ WorkerLost(r)
      PROVE  saga' = saga /\ effect' = effect
  BY <1>3 DEF FinalizeSuperseded, WorkerLost
<1>4. CASE UNCHANGED vars
  BY <1>2, <1>4 DEF vars
<1>5. CASE Next
  BY <1>1, <1>2, <1>3, <1>5, StartFollows, CleanupFollowsTable, QuarantineFollows, ClaimFollows,
     FinalizeFollows, ExpiryFollows DEF Next
<1> QED BY <1>4, <1>5
-----------------------------------------------------------------------------
(* The refinement. *)

\* Nothing is started at first.
LEMMA InitRefines == Init => Abstract!Init
<1>1. SUFFICES ASSUME Init
               PROVE  Abstract!Init
  OBVIOUS
<1> DEFINE E == [e \in Slots |-> NoEffect]
<1>2. WorkOf(NoSaga, E) = Abstract!Nothing
  <2>1. Abstract!Start(WorkOf(NoSaga, E), WorkOf(StartedSaga(NULL), StartedEffects(0)))
    BY StartStep, MaxGrantsAssumption
  <2> QED BY <2>1 DEF Abstract!Start
<1>3. NoSaga.status = "absent"
  BY DEF NoSaga
<1>4. \A s \in Sagas : saga[s] = NoSaga /\ effect[s] = E
  BY <1>1 DEF Init
<1> HIDE DEF E
<1>5. [s \in Sagas |-> WorkOf(saga[s], effect[s])] = [s \in Sagas |-> Abstract!Nothing]
  BY <1>2, <1>4
<1>6. [s \in Sagas |-> saga[s].status] = [s \in Sagas |-> "absent"]
  BY <1>3, <1>4
<1> QED BY <1>5, <1>6 DEF Abstract!Init

\* Every step of Storage is a step of the table.
LEMMA NextRefines ==
    TypeOK /\ SagasConsistent /\ TypeOK' /\ SagasConsistent' /\ [Next]_vars => Abstract!Next
<1>1. SUFFICES ASSUME TypeOK, SagasConsistent, TypeOK', SagasConsistent', [Next]_vars
               PROVE  Abstract!Next
  OBVIOUS
<1>2. RowsFit
  BY <1>1 DEF RowsFit, TypeOK, SagasConsistent
<1>3. RowsFitNext
  BY <1>1 DEF RowsFitNext, TypeOK, SagasConsistent
<1>4. \A s \in Sagas : StepFollows(s)
  BY <1>1, <1>2, <1>3, NextFollows
<1>5. \A s \in Sagas : /\ WorkOf(saga'[s], effect'[s]) \in Abstract!Work
                       /\ Abstract!Status(WorkOf(saga'[s], effect'[s])) = saga'[s].status
  BY <1>3, WorkTyped, StatusShown DEF RowsFitNext
<1>6. \A s \in Sagas :
         \/ WorkOf(saga'[s], effect'[s]) = WorkOf(saga[s], effect[s])
         \/ Abstract!Step(WorkOf(saga[s], effect[s]), WorkOf(saga'[s], effect'[s]))
  BY <1>4 DEF StepFollows, Follows
<1> DEFINE before == [s \in Sagas |-> WorkOf(saga[s], effect[s])]
           after == [s \in Sagas |-> WorkOf(saga'[s], effect'[s])]
<1>7. /\ after \in [Sagas -> Abstract!Work]
      /\ \A s \in Sagas : after[s] = before[s] \/ Abstract!Step(before[s], after[s])
      /\ [s \in Sagas |-> saga'[s].status] = [s \in Sagas |-> Abstract!Status(after[s])]
  BY <1>5, <1>6
<1> QED BY <1>7 DEF Abstract!Next

\* Storage implements the documented state table, for any number of sagas,
\* workers and grants: whatever workers die, answer late or race for a claim,
\* a saga only ever takes its parts one at a time and in order, does none of
\* them twice, and shows the status its parts stand for.
THEOREM LifecycleRefinement == Spec => ImplementsLifecycle
<1>1. TypeOK /\ SagasConsistent /\ TypeOK' /\ SagasConsistent' /\ [Next]_vars
         => [Abstract!Next]_<<[s \in Sagas |-> WorkOf(saga[s], effect[s])],
                              [s \in Sagas |-> saga[s].status]>>
  BY NextRefines
<1> QED BY <1>1, InitRefines, Typing, Consistency, PTL DEF Spec, ImplementsLifecycle, Abstract!Spec
=============================================================================
