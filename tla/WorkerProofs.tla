---------------------------- MODULE WorkerProofs ----------------------------
(***************************************************************************)
(* What batches count is what the activity log says was done, and no       *)
(* worker overtakes a due saga twice with the same other one: for any      *)
(* number of workers, whatever fails and whoever holds which rows.         *)
(***************************************************************************)
EXTENDS Worker, StorageHistoryProofs, FiniteSetTheorems

(* Sums as sizes of sets. *)

\* A set is as large as its image under a function that is one to one.
LEMMA ImagesCount ==
    ASSUME NEW S, IsFiniteSet(S), NEW f, f = [x \in S |-> f[x]],
           \A x, y \in S : f[x] = f[y] => x = y,
           NEW T, T = {f[x] : x \in S}
    PROVE  IsFiniteSet(T) /\ Cardinality(T) = Cardinality(S)
<1>1. f \in [S -> T] /\ \A y \in T : \E x \in S : f[x] = y
  OBVIOUS
<1>2. f \in Bijection(S, T)
  BY <1>1 DEF Bijection, Injection, Surjection, IsInjective
<1> QED BY <1>2, FS_Bijection DEF ExistsBijection

\* Numbers that grow in one place make the units grow by as much.
LEMMA UnitsGrow ==
    ASSUME NEW W, NEW m \in [W -> Nat], NEW n \in [W -> Nat], NEW w \in W,
           \A v \in W : v # w => n[v] = m[v], m[w] <= n[w], IsFiniteSet(Units(m))
    PROVE  /\ IsFiniteSet(Units(n))
           /\ Cardinality(Units(n)) = Cardinality(Units(m)) + (n[w] - m[w])
<1> DEFINE I == (m[w] + 1) .. n[w]
           T == {<<w, i>> : i \in I}
           f == [i \in I |-> <<w, i>>]
<1>1. m[w] \in Nat /\ n[w] \in Nat /\ DOMAIN m = W /\ DOMAIN n = W
  OBVIOUS
<1>2. IsFiniteSet(I) /\ Cardinality(I) = n[w] - m[w]
  <2>1. m[w] + 1 \in Int /\ n[w] \in Int
    BY <1>1
  <2>2. IsFiniteSet(I) /\ Cardinality(I) = IF m[w] + 1 > n[w] THEN 0 ELSE n[w] - (m[w] + 1) + 1
    BY <2>1, FS_Interval
  <2> QED BY <1>1, <2>2
<1>4. IsFiniteSet(T) /\ Cardinality(T) = n[w] - m[w]
  <2> HIDE DEF I
  <2>1. f = [i \in I |-> f[i]] /\ \A i \in I : f[i] = <<w, i>>
    OBVIOUS
  <2>2. T = {f[i] : i \in I}
    BY <2>1
  <2>3. \A i, j \in I : f[i] = f[j] => i = j
    BY <2>1
  <2> HIDE DEF f, T
  <2>4. IsFiniteSet(T) /\ Cardinality(T) = Cardinality(I)
    BY <1>2, <2>1, <2>2, <2>3, ImagesCount
  <2> QED BY <1>2, <2>4
<1>5. Units(m) \cap T = {}
  <2> SUFFICES ASSUME NEW v \in W, NEW i \in 1 .. m[v], NEW j \in I, <<v, i>> = <<w, j>>
               PROVE  FALSE
    BY <1>1 DEF Units
  <2> QED BY <1>1
<1>6. Units(n) = Units(m) \cup T
  <2>1. ASSUME NEW v \in W, NEW i \in 1 .. n[v] PROVE <<v, i>> \in Units(m) \cup T
    <3>1. CASE v = w
      <4>1. i \in 1 .. m[w] \/ i \in I
        BY <1>1, <3>1
      <4> QED BY <1>1, <3>1, <4>1 DEF Units
    <3>2. CASE v # w
      <4>1. i \in 1 .. m[v]
        BY <3>2
      <4> QED BY <1>1, <4>1 DEF Units
    <3> QED BY <3>1, <3>2
  <2>2. ASSUME NEW v \in W, NEW i \in 1 .. m[v] PROVE i \in 1 .. n[v]
    BY <1>1
  <2>3. Units(m) \subseteq Units(n)
    BY <1>1, <2>2 DEF Units
  <2>4. T \subseteq Units(n)
    <3>1. \A i \in I : i \in 1 .. n[w]
      BY <1>1
    <3> QED BY <1>1, <3>1 DEF Units
  <2>5. Units(n) \subseteq Units(m) \cup T
    BY <1>1, <2>1 DEF Units
  <2> HIDE DEF T
  <2> QED BY <2>3, <2>4, <2>5
<1> HIDE DEF T, I
<1>7. Cardinality(Units(m)) \in Nat /\ Cardinality({}) = 0
  BY FS_CardinalityType, FS_EmptySet
<1>8. /\ IsFiniteSet(Units(m) \cup T)
      /\ Cardinality(Units(m) \cup T)
            = Cardinality(Units(m)) + Cardinality(T) - Cardinality(Units(m) \cap T)
  BY <1>4, FS_Union
<1> QED BY <1>1, <1>4, <1>5, <1>6, <1>7, <1>8

\* And they shrink by as much.
LEMMA UnitsShrink ==
    ASSUME NEW W, NEW m \in [W -> Nat], NEW n \in [W -> Nat], NEW w \in W,
           \A v \in W : v # w => n[v] = m[v], n[w] <= m[w], IsFiniteSet(Units(m))
    PROVE  /\ IsFiniteSet(Units(n))
           /\ Cardinality(Units(n)) + (m[w] - n[w]) = Cardinality(Units(m))
<1>1. Units(n) \subseteq Units(m)
  <2>1. \A v \in W : \A i \in 1 .. n[v] : i \in 1 .. m[v]
    OBVIOUS
  <2> QED BY <2>1 DEF Units
<1>2. IsFiniteSet(Units(n))
  BY <1>1, FS_Subset
<1>3. \A v \in W : v # w => m[v] = n[v]
  OBVIOUS
<1>4. Cardinality(Units(m)) = Cardinality(Units(n)) + (m[w] - n[w])
  BY <1>2, <1>3, UnitsGrow
<1> QED BY <1>2, <1>4
-----------------------------------------------------------------------------
(* What a step adds to the activity log. *)

LoggedIn(log, kinds) ==
    UNION {{<<s, i>> : i \in {i \in DOMAIN log[s] : log[s][i].kind \in kinds}} : s \in Sagas}

\* The sagas in F get one more row, of one kind.
Grows(old, new, F, kind) ==
    /\ \A s \in F : \E row \in ActivityRow : row.kind = kind /\ new[s] = Append(old[s], row)
    /\ \A s \in Sagas \ F : new[s] = old[s]

\* Rows of other kinds are as many as before.
LEMMA OtherRowsStay ==
    ASSUME NEW old \in [Sagas -> Seq(ActivityRow)], NEW new, NEW F \in SUBSET Sagas, NEW kind,
           Grows(old, new, F, kind), NEW kinds, kind \notin kinds
    PROVE  LoggedIn(new, kinds) = LoggedIn(old, kinds)
<1>1. ASSUME NEW s \in Sagas
      PROVE  {i \in DOMAIN new[s] : new[s][i].kind \in kinds}
             = {i \in DOMAIN old[s] : old[s][i].kind \in kinds}
  <2>1. CASE s \in F
    <3>1. PICK row \in ActivityRow : row.kind = kind /\ new[s] = Append(old[s], row)
      BY <2>1 DEF Grows
    <3>2. old[s] \in Seq(ActivityRow) /\ Len(old[s]) \in Nat /\ DOMAIN old[s] = 1 .. Len(old[s])
      OBVIOUS
    <3>3. /\ DOMAIN new[s] = 1 .. (Len(old[s]) + 1) /\ new[s][Len(old[s]) + 1] = row
          /\ \A i \in 1 .. Len(old[s]) : new[s][i] = old[s][i]
      BY <3>1, <3>2
    <3>4. \A i \in 1 .. (Len(old[s]) + 1) : i \in 1 .. Len(old[s]) \/ i = Len(old[s]) + 1
      BY <3>2
    <3>5. 1 .. Len(old[s]) \subseteq 1 .. (Len(old[s]) + 1)
      BY <3>2
    <3> QED BY <3>1, <3>2, <3>3, <3>4, <3>5
  <2>2. CASE s \notin F
    BY <2>2 DEF Grows
  <2> QED BY <2>1, <2>2
<1> QED BY <1>1 DEF LoggedIn

\* Rows of that kind are more by one for each of the sagas.
LEMMA NewRowsCount ==
    ASSUME NEW old \in [Sagas -> Seq(ActivityRow)], NEW new, NEW F \in SUBSET Sagas, NEW kind,
           Grows(old, new, F, kind), NEW kinds, kind \in kinds,
           IsFiniteSet(F), IsFiniteSet(LoggedIn(old, kinds))
    PROVE  /\ IsFiniteSet(LoggedIn(new, kinds))
           /\ Cardinality(LoggedIn(new, kinds)) = Cardinality(LoggedIn(old, kinds)) + Cardinality(F)
<1> DEFINE f == [s \in F |-> <<s, Len(old[s]) + 1>>]
           T == {f[s] : s \in F}
<1>1. \A s \in Sagas : Len(old[s]) \in Nat /\ DOMAIN old[s] = 1 .. Len(old[s])
  OBVIOUS
<1>2. IsFiniteSet(T) /\ Cardinality(T) = Cardinality(F)
  <2>1. f = [s \in F |-> f[s]] /\ \A s, t \in F : f[s] = f[t] => s = t
    OBVIOUS
  <2> HIDE DEF f
  <2> QED BY <2>1, ImagesCount
<1>3. \A s \in F : f[s] = <<s, Len(old[s]) + 1>>
  OBVIOUS
<1> HIDE DEF f, T
<1>4. LoggedIn(old, kinds) \cap T = {}
  <2> SUFFICES ASSUME NEW s \in Sagas, NEW i \in DOMAIN old[s], NEW t \in F, <<s, i>> = f[t]
               PROVE  FALSE
    BY DEF LoggedIn, T
  <2>1. s = t /\ i = Len(old[s]) + 1
    BY <1>3
  <2> QED BY <1>1, <2>1
<1>5. ASSUME NEW s \in F
      PROVE  \A i : (i \in DOMAIN new[s] /\ new[s][i].kind \in kinds)
                    <=> \/ i \in DOMAIN old[s] /\ old[s][i].kind \in kinds
                        \/ i = Len(old[s]) + 1
  <2>1. PICK row \in ActivityRow : row.kind = kind /\ new[s] = Append(old[s], row)
    BY DEF Grows
  <2>2. old[s] \in Seq(ActivityRow) /\ Len(old[s]) \in Nat /\ DOMAIN old[s] = 1 .. Len(old[s])
    OBVIOUS
  <2>3. /\ DOMAIN new[s] = 1 .. (Len(old[s]) + 1) /\ new[s][Len(old[s]) + 1] = row
        /\ \A i \in 1 .. Len(old[s]) : new[s][i] = old[s][i]
    BY <2>1, <2>2
  <2>4. \A i : i \in 1 .. (Len(old[s]) + 1) <=> i \in 1 .. Len(old[s]) \/ i = Len(old[s]) + 1
    BY <2>2
  <2> QED BY <2>1, <2>2, <2>3, <2>4
<1>6. \A s \in Sagas \ F : new[s] = old[s]
  BY DEF Grows
<1>7. LoggedIn(new, kinds) = LoggedIn(old, kinds) \cup T
  <2>1. ASSUME NEW s \in Sagas, NEW i \in DOMAIN new[s], new[s][i].kind \in kinds
        PROVE  <<s, i>> \in LoggedIn(old, kinds) \cup T
    <3>1. CASE s \in F /\ i = Len(old[s]) + 1
      BY <1>3, <3>1 DEF T
    <3>2. CASE ~ (s \in F /\ i = Len(old[s]) + 1)
      <4>1. i \in DOMAIN old[s] /\ old[s][i].kind \in kinds
        BY <1>5, <1>6, <2>1, <3>2
      <4> QED BY <4>1 DEF LoggedIn
    <3> QED BY <3>1, <3>2
  <2>2. ASSUME NEW s \in Sagas, NEW i \in DOMAIN old[s], old[s][i].kind \in kinds
        PROVE  <<s, i>> \in LoggedIn(new, kinds)
    <3>1. i \in DOMAIN new[s] /\ new[s][i].kind \in kinds
      BY <1>5, <1>6, <2>2
    <3> QED BY <3>1 DEF LoggedIn
  <2>3. ASSUME NEW s \in F PROVE f[s] \in LoggedIn(new, kinds)
    <3>1. Len(old[s]) + 1 \in DOMAIN new[s] /\ new[s][Len(old[s]) + 1].kind \in kinds
      BY <1>5
    <3>2. s \in Sagas /\ f[s] = <<s, Len(old[s]) + 1>>
      BY <1>3
    <3> QED BY <3>1, <3>2 DEF LoggedIn
  <2>4. LoggedIn(new, kinds) \subseteq LoggedIn(old, kinds) \cup T
    BY <2>1 DEF LoggedIn
  <2>5. LoggedIn(old, kinds) \subseteq LoggedIn(new, kinds)
    BY <2>2 DEF LoggedIn
  <2>6. T \subseteq LoggedIn(new, kinds)
    BY <2>3 DEF T
  <2> QED BY <2>4, <2>5, <2>6
<1>8. /\ Cardinality(LoggedIn(old, kinds)) \in Nat /\ Cardinality(F) \in Nat
      /\ Cardinality({}) = 0
  BY FS_CardinalityType, FS_EmptySet
<1>9. /\ IsFiniteSet(LoggedIn(old, kinds) \cup T)
      /\ Cardinality(LoggedIn(old, kinds) \cup T)
            = Cardinality(LoggedIn(old, kinds)) + Cardinality(T) - Cardinality(LoggedIn(old, kinds) \cap T)
  BY <1>2, FS_Union
<1>10. Cardinality(LoggedIn(old, kinds) \cap T) = 0
  BY <1>4, <1>8
<1> HIDE DEF LoggedIn
<1>11. Cardinality(LoggedIn(old, kinds) \cup T) = Cardinality(LoggedIn(old, kinds)) + Cardinality(F)
  BY <1>2, <1>8, <1>9, <1>10
<1> QED BY <1>7, <1>9, <1>11
-----------------------------------------------------------------------------
(* The invariant. *)

Fields == {"claimed", "completed", "failed", "manual_review", "quarantined"}
BatchRow == [at : {"idle", "quarantine", "claim", "execute", "has_more"}, open : BOOLEAN,
             record : HeldRecord \cup {NULL}, count : [Fields -> Nat]]
BatchesTyped == batch \in [Workers -> BatchRow] /\ counted \in [Fields -> Nat]

\* A batch that executes holds a record of its own, and no other holds any.
RecordsHeld ==
    /\ \A w \in Workers : IF batch[w].at = "execute" THEN batch[w].record \in held
                          ELSE batch[w].record = NULL
    /\ \A v, w \in Workers : /\ batch[v].at = "execute" /\ batch[w].at = "execute"
                             /\ batch[v].record = batch[w].record
                             => v = w

\* The limit is on what was quarantined and claimed together.
WithinLimit ==
    \A w \in Workers :
        /\ batch[w].at \in {"idle", "quarantine"} => batch[w].count = NoCount
        /\ batch[w].count["quarantined"] + batch[w].count["claimed"] <= BatchLimit

\* The rows of the log that a counter stands for.
Kinds == [claimed |-> {"effect_claimed"}, completed |-> {"effect_applied", "effect_compensated"},
          failed |-> {"effect_failed"}, manual_review |-> {"effect_outcome_unknown"}]
Counters == {"claimed", "completed", "failed", "manual_review"}
Counts(b, x) == [w \in Workers |-> b[w].count[x]]
Tallies(x) ==
    /\ IsFiniteSet(Units(Counts(batch, x))) /\ IsFiniteSet(LoggedIn(activity, Kinds[x]))
    /\ counted[x] + Cardinality(Units(Counts(batch, x))) = Cardinality(LoggedIn(activity, Kinds[x]))

\* A worker has overtaken a saga, once, only with one that is now behind it.
OvertakingSound ==
    /\ overtaken \in [Workers -> [Sagas -> [Sagas -> {0, 1}]]]
    /\ \A w \in Workers : \A s, q \in Sagas :
          overtaken[w][s][q] = 1 => Due(s) /\ <<s, q>> \in older

BatchInvariant ==
    /\ BatchesTyped /\ RecordsHeld /\ WithinLimit
    /\ \A x \in Counters : Tallies(x)
    /\ OvertakingSound
-----------------------------------------------------------------------------
(* How a batch moves. *)

\* No count is a count.
LEMMA NoCounts ==
    /\ NoCount \in [Fields -> Nat] /\ \A x \in Fields : NoCount[x] = 0
    /\ \A n \in Nat : /\ QuarantineCount(n) \in [Fields -> Nat]
                      /\ QuarantineCount(n)["quarantined"] = n /\ QuarantineCount(n)["manual_review"] = n
                      /\ \A x \in Fields \ {"quarantined", "manual_review"} : QuarantineCount(n)[x] = 0
<1>1. NoCount \in [Fields -> Nat] /\ \A x \in Fields : NoCount[x] = 0
  BY DEF NoCount, Fields
<1>2. ASSUME NEW n \in Nat, NEW c \in [Fields -> Nat], \A x \in Fields : c[x] = 0
      PROVE  /\ [c EXCEPT !.quarantined = n, !.manual_review = n] \in [Fields -> Nat]
             /\ [c EXCEPT !.quarantined = n, !.manual_review = n]["quarantined"] = n
             /\ [c EXCEPT !.quarantined = n, !.manual_review = n]["manual_review"] = n
             /\ \A x \in Fields \ {"quarantined", "manual_review"} :
                   [c EXCEPT !.quarantined = n, !.manual_review = n][x] = 0
  BY <1>2 DEF Fields
<1> HIDE DEF NoCount
<1> QED BY <1>1, <1>2 DEF QuarantineCount

\* The fields of a batch that moves.
Moved(b, at, record, count) == [b EXCEPT !.at = at, !.record = record, !.count = count]
LEMMA RowsMove ==
    ASSUME NEW b \in BatchRow, NEW at, NEW record, NEW count, NEW new,
           new = Moved(b, at, record, count)
    PROVE  /\ new.at = at /\ new.record = record /\ new.count = count /\ new.open = b.open
           /\ at \in {"idle", "quarantine", "claim", "execute", "has_more"}
              /\ record \in HeldRecord \cup {NULL} /\ count \in [Fields -> Nat] => new \in BatchRow
<1>1. new \in [at : {at}, open : {b.open}, record : {record}, count : {count}]
  BY DEF BatchRow, Moved
<1>2. new = [at |-> at, open |-> b.open, record |-> record, count |-> count]
  BY <1>1
<1>3. b.open \in BOOLEAN
  BY DEF BatchRow
<1> QED BY <1>2, <1>3 DEF BatchRow

\* No batch is a row too.
LEMMA NoBatchRow ==
    /\ NoBatch \in BatchRow /\ NoBatch.at = "idle" /\ NoBatch.record = NULL
    /\ NoBatch.count = NoCount
    /\ [NoBatch EXCEPT !.at = "quarantine", !.open = TRUE] \in BatchRow
    /\ [NoBatch EXCEPT !.at = "quarantine", !.open = TRUE].at = "quarantine"
    /\ [NoBatch EXCEPT !.at = "quarantine", !.open = TRUE].record = NULL
    /\ [NoBatch EXCEPT !.at = "quarantine", !.open = TRUE].count = NoCount
  BY NoCounts DEF NoBatch, BatchRow

\* One worker's batch moves.
MovesTo(w, at, record, count) ==
    /\ batch' \in [Workers -> BatchRow]
    /\ batch'[w].at = at /\ batch'[w].record = record /\ batch'[w].count = count
    /\ \A v \in Workers : v # w => batch'[v] = batch[v]

LEMMA ToMoves ==
    ASSUME BatchesTyped, NEW w \in Workers, NEW at, NEW record, NEW count,
           To(w, at, record, count),
           at \in {"idle", "quarantine", "claim", "execute", "has_more"},
           record \in HeldRecord \cup {NULL}, count \in [Fields -> Nat]
    PROVE  MovesTo(w, at, record, count)
<1>0. PICK new : new = Moved(batch[w], at, record, count)
  OBVIOUS
<1>1. batch \in [Workers -> BatchRow] /\ batch[w] \in BatchRow
  BY DEF BatchesTyped
<1>2. new.at = at /\ new.record = record /\ new.count = count /\ new \in BatchRow
  BY <1>0, <1>1, RowsMove
<1>3. batch' = [batch EXCEPT ![w] = new]
  BY <1>0 DEF To, Moved
<1> QED BY <1>1, <1>2, <1>3 DEF MovesTo

\* A batch that ends.
LEMMA EndMoves ==
    ASSUME BatchesTyped, NEW w \in Workers, batch' = [batch EXCEPT ![w] = NoBatch]
    PROVE  MovesTo(w, "idle", NULL, NoCount)
  BY NoBatchRow DEF BatchesTyped, MovesTo

\* A batch that begins.
LEMMA InvokeMoves ==
    ASSUME BatchesTyped, NEW w \in Workers, Invoke(w)
    PROVE  MovesTo(w, "quarantine", NULL, NoCount)
<1>1. PICK new : new = [NoBatch EXCEPT !.at = "quarantine", !.open = TRUE]
  OBVIOUS
<1>2. new \in BatchRow /\ new.at = "quarantine" /\ new.record = NULL /\ new.count = NoCount
  BY <1>1, NoBatchRow
<1>3. batch' = [batch EXCEPT ![w] = new]
  BY <1>1 DEF Invoke
<1> QED BY <1>2, <1>3 DEF BatchesTyped, MovesTo

\* The counters after one more of field x.
LEMMA CountsRise ==
    ASSUME NEW c \in [Fields -> Nat], NEW x \in Fields, NEW d, d = [c EXCEPT ![x] = @ + 1]
    PROVE  /\ d \in [Fields -> Nat] /\ d[x] = c[x] + 1
           /\ \A y \in Fields : y # x => d[y] = c[y]
  OBVIOUS

\* Which counter an outcome adds to, and which row of the log it leaves.
LEMMA OutcomesCount ==
    ASSUME NEW state \in {"applied", "compensated", "failed", "unknown"}
    PROVE  /\ ResultCounter[state] \in Counters \ {"claimed"}
           /\ ResultCounter[state] \in Fields \ {"claimed", "quarantined"}
           /\ OutcomeActivity[state] \in ActivityKinds
           /\ \A x \in Counters : OutcomeActivity[state] \in Kinds[x] <=> x = ResultCounter[state]
<1>1. CASE state = "applied"
  BY <1>1 DEF ResultCounter, OutcomeActivity, Counters, Fields, Kinds, ActivityKinds
<1>2. CASE state = "compensated"
  BY <1>2 DEF ResultCounter, OutcomeActivity, Counters, Fields, Kinds, ActivityKinds
<1>3. CASE state = "failed"
  BY <1>3 DEF ResultCounter, OutcomeActivity, Counters, Fields, Kinds, ActivityKinds
<1>4. CASE state = "unknown"
  BY <1>4 DEF ResultCounter, OutcomeActivity, Counters, Fields, Kinds, ActivityKinds
<1> QED BY <1>1, <1>2, <1>3, <1>4

\* Which counters the other rows of the log stand for.
LEMMA KindsCount ==
    ASSUME NEW x \in Counters
    PROVE  /\ x \in Fields
           /\ "effect_claimed" \in Kinds[x] <=> x = "claimed"
           /\ "effect_outcome_unknown" \in Kinds[x] <=> x = "manual_review"
           /\ \A kind \in {"provisioning_started", "provisioning_retried", "cleanup_requested"} :
                 kind \notin Kinds[x]
  BY DEF Counters, Kinds, Fields
-----------------------------------------------------------------------------
(* The loop changes the tables only as Storage does. *)

\* A record that is lost.
LEMMA AbandonStorage ==
    ASSUME RecordsHeld, NEW w \in Workers, Abandon(w) PROVE [Next]_vars
<1>1. CASE batch[w].record = NULL
  BY <1>1 DEF Abandon
<1>2. CASE batch[w].record # NULL
  <2>1. batch[w].record \in held /\ WorkerLost(batch[w].record)
    BY <1>2 DEF Abandon, RecordsHeld
  <2> QED BY <2>1 DEF Next
<1> QED BY <1>1, <1>2

\* A command acts on one saga.
LEMMA CommandsAre ==
    ASSUME Commands
    PROVE  \E s \in Sagas : /\ \E a \in Actors, k \in Keys : Command(s, a, k)
                            /\ Stamped(s, {}) /\ Overtakes({}, {s})
<1>1. PICK s \in Written \cup Drawn(Sagas \ Written) :
         /\ \E a \in Actors, k \in Drawn({k \in Keys : Reservable(k)}) : Command(s, a, k)
         /\ Stamped(s, {}) /\ Overtakes({}, {s})
  BY DEF Commands
<1>2. s \in Sagas
  BY DEF Written, Drawn
<1>3. Drawn({k \in Keys : Reservable(k)}) \subseteq Keys
  BY DEF Drawn
<1> QED BY <1>1, <1>2, <1>3

\* Every step of every worker and of the commands.
LEMMA LoopStorage ==
    ASSUME RecordsHeld, [WorkerNext]_workervars PROVE [Next]_vars
<1>1. ASSUME NEW w \in Workers, Invoke(w) PROVE [Next]_vars
  BY <1>1 DEF Invoke
<1>2. ASSUME NEW w \in Workers, QuarantineStep(w) PROVE [Next]_vars
  <2>1. PICK expired \in UpTo(BatchLimit, ExpiredSagas \ locked) :
           IF expired = {} THEN UNCHANGED vars ELSE QuarantineExpired(expired)
    BY <1>2 DEF QuarantineStep
  <2>2. expired \in SUBSET Sagas
    BY DEF UpTo, ExpiredSagas
  <2> QED BY <2>1, <2>2 DEF Next
<1>3. ASSUME NEW w \in Workers, ClaimStep(w) PROVE [Next]_vars
  <2>1. PICK q \in DueAndFree : ClaimNext(q)
    BY <1>3 DEF ClaimStep
  <2>2. q \in Sagas
    BY DEF DueAndFree
  <2> QED BY <2>1, <2>2 DEF Next
<1>4. ASSUME NEW w \in Workers, ClaimNone(w) PROVE [Next]_vars
  BY <1>4 DEF ClaimNone
<1>5. ASSUME NEW w \in Workers, FinalizeStep(w) PROVE [Next]_vars
  <2>1. batch[w].record \in held
    BY <1>5 DEF FinalizeStep, Runs, RecordsHeld
  <2>2. \/ \E outcome \in Answers(batch[w].record) : FinalizeEffect(batch[w].record, outcome)
        \/ FinalizeSuperseded(batch[w].record)
    BY <1>5 DEF FinalizeStep
  <2> QED BY <2>1, <2>2 DEF Next
<1>6. ASSUME NEW w \in Workers, Reply(w) PROVE [Next]_vars
  BY <1>6 DEF Reply
<1>7. ASSUME NEW w \in Workers, PoolClosed(w) \/ Fail(w) PROVE [Next]_vars
  BY <1>7, AbandonStorage DEF PoolClosed, Fail
<1>8. CASE Activate \/ Deactivate \/ \E s \in Sagas : Hold(s) \/ Release(s)
  BY <1>8 DEF Activate, Deactivate, Hold, Release
<1>9. CASE Commands
  <2>1. PICK s \in Sagas : \E a \in Actors, k \in Keys : Command(s, a, k)
    BY <1>9, CommandsAre
  <2>2. PICK a \in Actors, k \in Keys : Command(s, a, k)
    BY <2>1
  <2> QED BY <2>2 DEF Command, Next
<1>10. CASE Expire
  BY <1>10 DEF Expire, Next
<1>11. CASE UNCHANGED workervars
  BY <1>11 DEF workervars
<1> QED BY <1>1, <1>2, <1>3, <1>4, <1>5, <1>6, <1>7, <1>8, <1>9, <1>10, <1>11
        DEF WorkerNext, BatchStep
-----------------------------------------------------------------------------
(* The counters. *)

\* One worker's count is all that changes in the sum.
LEMMA CountsMove ==
    ASSUME BatchesTyped, NEW x \in Fields, NEW w \in Workers, NEW at, NEW record,
           NEW count \in [Fields -> Nat], MovesTo(w, at, record, count)
    PROVE  /\ Counts(batch, x) \in [Workers -> Nat] /\ Counts(batch', x) \in [Workers -> Nat]
           /\ Counts(batch, x)[w] = batch[w].count[x] /\ Counts(batch', x)[w] = count[x]
           /\ \A v \in Workers : v # w => Counts(batch', x)[v] = Counts(batch, x)[v]
<1>1. \A v \in Workers : batch[v] \in BatchRow /\ batch'[v] \in BatchRow
  BY DEF BatchesTyped, MovesTo
<1>2. \A v \in Workers : batch[v].count \in [Fields -> Nat] /\ batch'[v].count \in [Fields -> Nat]
  BY <1>1 DEF BatchRow
<1>3. \A v \in Workers : batch[v].count[x] \in Nat /\ batch'[v].count[x] \in Nat
  BY <1>2
<1> QED BY <1>3 DEF Counts, MovesTo

\* A sum and a size that rise together.
LEMMA SumsRise ==
    ASSUME NEW W, NEW m \in [W -> Nat], NEW n \in [W -> Nat], NEW w \in W,
           \A v \in W : v # w => n[v] = m[v], NEW d \in Nat, n[w] = m[w] + d,
           IsFiniteSet(Units(m)), NEW c \in Nat, NEW k, NEW l,
           c + Cardinality(Units(m)) = k, l = k + d
    PROVE  IsFiniteSet(Units(n)) /\ c + Cardinality(Units(n)) = l
<1>1. m[w] \in Nat /\ m[w] <= n[w] /\ n[w] - m[w] = d
  OBVIOUS
<1>2. IsFiniteSet(Units(n)) /\ Cardinality(Units(n)) = Cardinality(Units(m)) + (n[w] - m[w])
  BY <1>1, UnitsGrow
<1>3. Cardinality(Units(m)) \in Nat
  BY FS_CardinalityType
<1> QED BY <1>1, <1>2, <1>3

\* A batch that counts d more makes the sum rise by d.
LEMMA SumMoves ==
    ASSUME BatchesTyped, NEW x \in Fields, NEW w \in Workers, NEW at, NEW record,
           NEW count \in [Fields -> Nat], MovesTo(w, at, record, count),
           NEW d \in Nat, count[x] = batch[w].count[x] + d,
           IsFiniteSet(Units(Counts(batch, x))), NEW k, NEW l,
           counted[x] + Cardinality(Units(Counts(batch, x))) = k, l = k + d
    PROVE  /\ IsFiniteSet(Units(Counts(batch', x)))
           /\ counted[x] + Cardinality(Units(Counts(batch', x))) = l
<1>1. PICK m : m = Counts(batch, x)
  OBVIOUS
<1>2. PICK n : n = Counts(batch', x)
  OBVIOUS
<1>3. /\ m \in [Workers -> Nat] /\ n \in [Workers -> Nat]
      /\ m[w] = batch[w].count[x] /\ n[w] = count[x]
      /\ \A v \in Workers : v # w => n[v] = m[v]
  BY <1>1, <1>2, CountsMove
<1>4. PICK c : c = counted[x]
  OBVIOUS
<1>5. /\ c \in Nat /\ n[w] = m[w] + d
      /\ IsFiniteSet(Units(m)) /\ c + Cardinality(Units(m)) = k
  BY <1>1, <1>3, <1>4 DEF BatchesTyped
<1>6. IsFiniteSet(Units(n)) /\ c + Cardinality(Units(n)) = l
  BY <1>3, <1>5, SumsRise
<1> QED BY <1>2, <1>4, <1>6

\* A count that rises by what is logged.
LEMMA TallyRises ==
    ASSUME BatchesTyped, activity \in [Sagas -> Seq(ActivityRow)],
           NEW x \in Counters, Tallies(x),
           NEW w \in Workers, NEW at, NEW record, NEW count \in [Fields -> Nat],
           MovesTo(w, at, record, count), counted' = counted,
           NEW F \in SUBSET Sagas, IsFiniteSet(F), NEW kind, Grows(activity, activity', F, kind),
           count[x] = batch[w].count[x] + IF kind \in Kinds[x] THEN Cardinality(F) ELSE 0
    PROVE  Tallies(x)'
<1>1. PICK d : d = IF kind \in Kinds[x] THEN Cardinality(F) ELSE 0
  OBVIOUS
<1>2. x \in Fields
  BY KindsCount
<1>3. /\ IsFiniteSet(Units(Counts(batch, x))) /\ IsFiniteSet(LoggedIn(activity, Kinds[x]))
      /\ counted[x] + Cardinality(Units(Counts(batch, x))) = Cardinality(LoggedIn(activity, Kinds[x]))
  BY DEF Tallies
<1>4. /\ IsFiniteSet(LoggedIn(activity', Kinds[x]))
      /\ Cardinality(LoggedIn(activity', Kinds[x])) = Cardinality(LoggedIn(activity, Kinds[x])) + d
  <2>1. CASE kind \in Kinds[x]
    BY <1>1, <1>3, <2>1, NewRowsCount
  <2>2. CASE kind \notin Kinds[x]
    <3>1. LoggedIn(activity', Kinds[x]) = LoggedIn(activity, Kinds[x])
      BY <2>2, OtherRowsStay
    <3> QED BY <1>1, <1>3, <2>2, <3>1, FS_CardinalityType
  <2> QED BY <2>1, <2>2
<1>5. d \in Nat /\ count[x] = batch[w].count[x] + d
  BY <1>1, FS_CardinalityType
<1>6. /\ IsFiniteSet(Units(Counts(batch', x)))
      /\ counted[x] + Cardinality(Units(Counts(batch', x))) = Cardinality(LoggedIn(activity', Kinds[x]))
  BY <1>2, <1>3, <1>4, <1>5, SumMoves
<1> QED BY <1>4, <1>6 DEF Tallies

\* A batch that ends leaves its count behind.
LEMMA TallyEnds ==
    ASSUME BatchesTyped, NEW x \in Counters, Tallies(x), NEW w \in Workers,
           MovesTo(w, "idle", NULL, NoCount), counted' = Plus(counted, batch[w].count),
           activity' = activity
    PROVE  Tallies(x)'
<1> DEFINE m == Counts(batch, x)
           n == Counts(batch', x)
<1>1. x \in Fields /\ NoCount \in [Fields -> Nat] /\ NoCount[x] = 0
  BY KindsCount, NoCounts
<1>2. /\ m \in [Workers -> Nat] /\ n \in [Workers -> Nat]
      /\ m[w] = batch[w].count[x] /\ n[w] = 0
      /\ \A v \in Workers : v # w => n[v] = m[v]
  BY <1>1, CountsMove
<1>3. /\ IsFiniteSet(Units(m)) /\ IsFiniteSet(LoggedIn(activity, Kinds[x]))
      /\ counted[x] + Cardinality(Units(m)) = Cardinality(LoggedIn(activity, Kinds[x]))
  BY DEF Tallies
<1>4. counted'[x] = counted[x] + m[w] /\ counted[x] \in Nat
  BY <1>1, <1>2 DEF BatchesTyped, Plus
<1> HIDE DEF m, n
<1>5. m[w] \in Nat /\ n[w] <= m[w] /\ m[w] - n[w] = m[w]
  BY <1>2
<1>6. IsFiniteSet(Units(n)) /\ Cardinality(Units(n)) + m[w] = Cardinality(Units(m))
  BY <1>2, <1>3, <1>5, UnitsShrink
<1>7. Cardinality(Units(n)) \in Nat /\ Cardinality(Units(m)) \in Nat
  BY <1>3, <1>6, FS_CardinalityType
<1>8. counted'[x] + Cardinality(Units(n)) = counted[x] + Cardinality(Units(m))
  BY <1>4, <1>5, <1>6, <1>7
<1> QED BY <1>3, <1>6, <1>8 DEF Tallies, m, n

\* What changes no count and logs nothing that is counted.
LEMMA TallyStays ==
    ASSUME NEW x \in Counters, Tallies(x),
           \A w \in Workers : batch'[w].count = batch[w].count, counted' = counted,
           LoggedIn(activity', Kinds[x]) = LoggedIn(activity, Kinds[x])
    PROVE  Tallies(x)'
<1>1. Counts(batch', x) = Counts(batch, x)
  BY DEF Counts
<1> QED BY <1>1 DEF Tallies
-----------------------------------------------------------------------------
(* What the transactions log. *)

\* A transaction on one saga.
LEMMA LogGrows ==
    ASSUME TypeOK, TypeOK', NEW s \in Sagas, NEW kind \in ActivityKinds,
           NEW e \in Slots \cup {NULL}, Log(s, kind, e)
    PROVE  Grows(activity, activity', {s}, kind)
<1>1. saga'[s].revision \in Nat
  BY DEF TypeOK, SagaRow
<1>2. PICK row : row = [kind |-> kind, effect |-> e, revision |-> saga'[s].revision]
  OBVIOUS
<1>3. row \in ActivityRow /\ row.kind = kind
  BY <1>1, <1>2 DEF ActivityRow
<1>4. activity \in [Sagas -> Seq(ActivityRow)] /\ activity' = [activity EXCEPT ![s] = Append(@, row)]
  BY <1>2 DEF TypeOK, Log
<1> QED BY <1>3, <1>4 DEF Grows

\* A quarantine.
LEMMA QuarantineGrows ==
    ASSUME TypeOK, TypeOK', NEW F \in SUBSET Sagas, QuarantineExpired(F)
    PROVE  Grows(activity, activity', F, "effect_outcome_unknown")
<1>1. PICK victim \in [F -> Slots] : Quarantine(F, victim)
  BY DEF QuarantineExpired
<1>2. \A s \in Sagas :
         activity'[s] = IF s \in F
                        THEN Append(activity[s], [kind |-> "effect_outcome_unknown",
                                                  effect |-> victim[s],
                                                  revision |-> saga'[s].revision])
                        ELSE activity[s]
  BY <1>1, Zenon DEF Quarantine
<1>3. ASSUME NEW s \in F
      PROVE  \E row \in ActivityRow : row.kind = "effect_outcome_unknown"
                                      /\ activity'[s] = Append(activity[s], row)
  <2>1. saga'[s].revision \in Nat /\ victim[s] \in Slots /\ s \in Sagas
    BY DEF TypeOK, SagaRow
  <2>2. PICK row : row = [kind |-> "effect_outcome_unknown", effect |-> victim[s],
                          revision |-> saga'[s].revision]
    OBVIOUS
  <2>3. row \in ActivityRow /\ row.kind = "effect_outcome_unknown"
    BY <2>1, <2>2 DEF ActivityRow, ActivityKinds
  <2>4. activity'[s] = Append(activity[s], row)
    BY <1>2, <2>1, <2>2
  <2> QED BY <2>3, <2>4
<1> QED BY <1>2, <1>3 DEF Grows

\* Nothing.
LEMMA NothingGrows ==
    ASSUME activity' = activity, NEW kind
    PROVE  Grows(activity, activity', {}, kind) /\ IsFiniteSet({}) /\ Cardinality({}) = 0
  BY FS_EmptySet DEF Grows
-----------------------------------------------------------------------------
(* The steps of a batch, as far as its row, its record and its count go. *)

\* The parts of the invariant that are about batches.
LoopSound == BatchesTyped /\ RecordsHeld /\ WithinLimit /\ \A x \in Counters : Tallies(x)

\* The other workers' records are still held, and still their own.
LEMMA RecordsMove ==
    ASSUME BatchesTyped, RecordsHeld, NEW w \in Workers, NEW at, NEW record, NEW count,
           MovesTo(w, at, record, count),
           \A v \in Workers : v # w /\ batch[v].at = "execute" => batch[v].record \in held',
           IF at = "execute" THEN record \in held' \ held ELSE record = NULL
    PROVE  RecordsHeld'
<1>1. /\ batch'[w].at = at /\ batch'[w].record = record
      /\ \A v \in Workers : v # w => batch'[v] = batch[v]
  BY DEF MovesTo
<1>2. ASSUME NEW v \in Workers
      PROVE  IF batch'[v].at = "execute" THEN batch'[v].record \in held'
             ELSE batch'[v].record = NULL
  BY <1>1 DEF RecordsHeld
<1>3. ASSUME NEW v \in Workers, NEW u \in Workers, batch'[v].at = "execute", batch'[u].at = "execute",
             batch'[v].record = batch'[u].record
      PROVE  v = u
  <2>1. CASE v # w /\ u # w
    BY <1>1, <1>3, <2>1 DEF RecordsHeld
  <2>2. \A y \in Workers : y # w /\ batch'[y].at = "execute" => batch'[y].record \in held
    BY <1>1 DEF RecordsHeld
  <2>3. CASE v = w /\ u # w
    BY <1>1, <1>3, <2>2, <2>3
  <2>4. CASE v # w /\ u = w
    BY <1>1, <1>3, <2>2, <2>4
  <2> QED BY <2>1, <2>3, <2>4
<1> QED BY <1>2, <1>3 DEF RecordsHeld

\* The other batches stay within the limit.
LEMMA LimitMoves ==
    ASSUME WithinLimit, NEW w \in Workers, NEW at, NEW record, NEW count,
           MovesTo(w, at, record, count), at \in {"idle", "quarantine"} => count = NoCount,
           count["quarantined"] + count["claimed"] <= BatchLimit
    PROVE  WithinLimit'
<1> SUFFICES ASSUME NEW v \in Workers
             PROVE  /\ batch'[v].at \in {"idle", "quarantine"} => batch'[v].count = NoCount
                    /\ batch'[v].count["quarantined"] + batch'[v].count["claimed"] <= BatchLimit
  BY DEF WithinLimit
<1>1. CASE v = w
  BY <1>1 DEF MovesTo
<1>2. CASE v # w
  BY <1>2 DEF MovesTo, WithinLimit
<1> QED BY <1>1, <1>2

\* What a batch that has just begun, or ended, has counted.
LEMMA NoCountWithin == NoCount["quarantined"] + NoCount["claimed"] <= BatchLimit
  BY NoCounts, BatchLimitAssumption DEF Fields

\* A batch that begins.
LEMMA InvokeSound ==
    ASSUME TypeOK, LoopSound, NEW w \in Workers, Invoke(w) PROVE LoopSound'
<1>1. MovesTo(w, "quarantine", NULL, NoCount) /\ BatchesTyped
  BY InvokeMoves DEF LoopSound
<1>2. held' = held /\ activity' = activity /\ counted' = counted /\ batch[w].at = "idle"
  BY DEF Invoke, vars, history
<1>3. RecordsHeld'
  BY <1>1, <1>2, RecordsMove DEF LoopSound, RecordsHeld
<1>4. WithinLimit'
  BY <1>1, LimitMoves, NoCountWithin DEF LoopSound
<1>5. ASSUME NEW x \in Counters PROVE Tallies(x)'
  <2>1. \A v \in Workers : batch'[v].count = batch[v].count
    BY <1>1, <1>2 DEF MovesTo, LoopSound, WithinLimit
  <2> QED BY <1>2, <2>1, TallyStays DEF LoopSound
<1>6. BatchesTyped'
  BY <1>1, <1>2 DEF MovesTo, BatchesTyped
<1> QED BY <1>3, <1>4, <1>5, <1>6 DEF LoopSound

\* A batch that ends.
LEMMA EndSound ==
    ASSUME TypeOK, LoopSound, NEW w \in Workers, batch' = [batch EXCEPT ![w] = NoBatch],
           counted' = Plus(counted, batch[w].count), activity' = activity,
           held' = held \/ held' = held \ {batch[w].record}, batch[w].record = NULL => held' = held
    PROVE  LoopSound'
<1>1. MovesTo(w, "idle", NULL, NoCount) /\ BatchesTyped
  BY EndMoves DEF LoopSound
<1>2. \A v \in Workers : v # w /\ batch[v].at = "execute" => batch[v].record \in held'
  <2> SUFFICES ASSUME NEW v \in Workers, v # w, batch[v].at = "execute"
               PROVE  batch[v].record \in held'
    OBVIOUS
  <2>1. batch[v].record \in held
    BY DEF LoopSound, RecordsHeld
  <2>2. CASE batch[w].at = "execute"
    <3>1. batch[v].record # batch[w].record
      BY <2>2 DEF LoopSound, RecordsHeld
    <3> QED BY <2>1, <3>1
  <2>3. CASE batch[w].at # "execute"
    <3>1. batch[w].record = NULL
      BY <2>3 DEF LoopSound, RecordsHeld
    <3> QED BY <2>1, <3>1
  <2> QED BY <2>2, <2>3
<1>3. RecordsHeld'
  BY <1>1, <1>2, RecordsMove DEF LoopSound
<1>4. WithinLimit'
  BY <1>1, LimitMoves, NoCountWithin DEF LoopSound
<1>5. ASSUME NEW x \in Counters PROVE Tallies(x)'
  BY <1>1, TallyEnds DEF LoopSound
<1>6. batch[w].count \in [Fields -> Nat] /\ counted \in [Fields -> Nat]
  BY <1>1 DEF BatchesTyped, BatchRow
<1>7. BatchesTyped'
  BY <1>1, <1>6 DEF MovesTo, BatchesTyped, Plus
<1> QED BY <1>3, <1>4, <1>5, <1>7 DEF LoopSound

\* Replies, failures and pools that close.
LEMMA ReplySound ==
    ASSUME TypeOK, LoopSound, NEW w \in Workers, Reply(w) PROVE LoopSound'
  BY EndSound DEF Reply, vars

LEMMA AbandonSound ==
    ASSUME TypeOK, LoopSound, NEW w \in Workers, Abandon(w) PROVE LoopSound'
<1>1. activity' = activity /\ (held' = held \/ held' = held \ {batch[w].record})
      /\ (batch[w].record = NULL => held' = held)
  BY DEF Abandon, WorkerLost, vars
<1> QED BY <1>1, EndSound DEF Abandon

\* A batch that goes on, counting what is logged.
LEMMA MoveSound ==
    ASSUME TypeOK, LoopSound, NEW w \in Workers, NEW at, NEW record, NEW count \in [Fields -> Nat],
           To(w, at, record, count), counted' = counted,
           at \in {"claim", "execute", "has_more"}, record \in HeldRecord \cup {NULL},
           NEW F \in SUBSET Sagas, IsFiniteSet(F), NEW kind, Grows(activity, activity', F, kind),
           \A x \in Counters :
              count[x] = batch[w].count[x] + IF kind \in Kinds[x] THEN Cardinality(F) ELSE 0,
           \A v \in Workers : v # w /\ batch[v].at = "execute" => batch[v].record \in held',
           IF at = "execute" THEN record \in held' \ held ELSE record = NULL,
           count["quarantined"] + count["claimed"] <= BatchLimit
    PROVE  LoopSound'
<1>1. MovesTo(w, at, record, count) /\ BatchesTyped
  BY ToMoves DEF LoopSound
<1>2. RecordsHeld'
  BY <1>1, RecordsMove DEF LoopSound
<1>3. WithinLimit'
  BY <1>1, LimitMoves DEF LoopSound
<1>4. ASSUME NEW x \in Counters PROVE Tallies(x)'
  <2>1. Tallies(x) /\ activity \in [Sagas -> Seq(ActivityRow)]
        /\ count[x] = batch[w].count[x] + IF kind \in Kinds[x] THEN Cardinality(F) ELSE 0
    BY DEF LoopSound, TypeOK
  <2> QED BY <1>1, <2>1, TallyRises
<1>5. BatchesTyped'
  BY <1>1 DEF MovesTo, BatchesTyped
<1> QED BY <1>2, <1>3, <1>4, <1>5 DEF LoopSound

\* The records that a step leaves held, if it takes one batch's away.
LEMMA OthersHold ==
    ASSUME RecordsHeld, NEW w \in Workers,
           held \subseteq held' \/ (batch[w].at = "execute" /\ held' = held \ {batch[w].record})
    PROVE  \A v \in Workers : v # w /\ batch[v].at = "execute" => batch[v].record \in held'
<1> SUFFICES ASSUME NEW v \in Workers, v # w, batch[v].at = "execute"
             PROVE  batch[v].record \in held'
  OBVIOUS
<1>1. batch[v].record \in held
  BY DEF RecordsHeld
<1>2. batch[w].at = "execute" => batch[v].record # batch[w].record
  BY DEF RecordsHeld
<1> QED BY <1>1, <1>2

\* Expired effects are quarantined.
LEMMA QuarantineSound ==
    ASSUME TypeOK, TypeOK', LoopSound, NEW w \in Workers, QuarantineStep(w) PROVE LoopSound'
<1>1. PICK expired \in UpTo(BatchLimit, ExpiredSagas \ locked) :
         /\ IF expired = {} THEN UNCHANGED vars ELSE QuarantineExpired(expired)
         /\ To(w, "claim", NULL, QuarantineCount(Cardinality(expired)))
  BY DEF QuarantineStep
<1>2. /\ expired \in SUBSET Sagas /\ IsFiniteSet(expired)
      /\ Cardinality(expired) <= BatchLimit /\ Cardinality(expired) \in Nat
  BY FS_CardinalityType DEF UpTo, ExpiredSagas
<1>3. PICK count : count = QuarantineCount(Cardinality(expired))
  OBVIOUS
<1>4. /\ count \in [Fields -> Nat] /\ count["quarantined"] = Cardinality(expired)
      /\ count["manual_review"] = Cardinality(expired)
      /\ \A x \in Fields \ {"quarantined", "manual_review"} : count[x] = 0
  BY <1>2, <1>3, NoCounts
<1>5. Grows(activity, activity', expired, "effect_outcome_unknown") /\ held' = held
  <2>1. CASE expired = {}
    BY <1>1, <2>1, NothingGrows DEF vars
  <2>2. CASE expired # {}
    <3>1. held' = held
      BY <1>1, <2>2 DEF QuarantineExpired, Quarantine
    <3> QED BY <1>1, <1>2, <2>2, <3>1, QuarantineGrows
  <2> QED BY <2>1, <2>2
<1>6. batch[w].at = "quarantine" /\ batch[w].count = NoCount /\ counted' = counted
  BY DEF QuarantineStep, Runs, LoopSound, WithinLimit
<1>7. ASSUME NEW x \in Counters
      PROVE  count[x] = batch[w].count[x]
                        + IF "effect_outcome_unknown" \in Kinds[x] THEN Cardinality(expired) ELSE 0
  <2>1. x \in Fields /\ x # "quarantined" /\ NoCount[x] = 0
    BY NoCounts, KindsCount DEF Counters
  <2> QED BY <1>2, <1>4, <1>6, <2>1, KindsCount
<1>8. \A v \in Workers : v # w /\ batch[v].at = "execute" => batch[v].record \in held'
  BY <1>5, OthersHold DEF LoopSound
<1>9. count["quarantined"] + count["claimed"] <= BatchLimit
  BY <1>2, <1>4 DEF Fields
<1>10. To(w, "claim", NULL, count)
  BY <1>1, <1>3
<1> QED BY <1>2, <1>4, <1>5, <1>6, <1>7, <1>8, <1>9, <1>10, MoveSound

\* An effect is claimed.
LEMMA ClaimStepSound ==
    ASSUME TypeOK, TypeOK', LoopSound, NEW w \in Workers, ClaimStep(w) PROVE LoopSound'
<1>1. PICK s \in Sagas : ClaimNext(s)
  BY DEF ClaimStep, DueAndFree
<1>2. PICK e \in Slots : Claim(s, e)
  BY <1>1 DEF ClaimNext
<1>3. PICK record \in held' \ held :
         To(w, "execute", record, [batch[w].count EXCEPT !.claimed = @ + 1])
  BY DEF ClaimStep
<1>4. PICK count : count = [batch[w].count EXCEPT !.claimed = @ + 1]
  OBVIOUS
<1>5. batch[w].count \in [Fields -> Nat]
  BY DEF LoopSound, BatchesTyped, BatchRow
<1>6. /\ count \in [Fields -> Nat] /\ count["claimed"] = batch[w].count["claimed"] + 1
      /\ \A x \in Fields : x # "claimed" => count[x] = batch[w].count[x]
  <2>1. "claimed" \in Fields
    BY DEF Fields
  <2> QED BY <1>4, <1>5, <2>1, CountsRise
<1>7. Grows(activity, activity', {s}, "effect_claimed")
  <2>1. Log(s, "effect_claimed", e) /\ "effect_claimed" \in ActivityKinds
    BY <1>2 DEF Claim, ActivityKinds
  <2> QED BY <2>1, LogGrows
<1>8. IsFiniteSet({s}) /\ Cardinality({s}) = 1
  BY FS_Singleton
<1>9. ASSUME NEW x \in Counters
      PROVE  count[x] = batch[w].count[x]
                        + IF "effect_claimed" \in Kinds[x] THEN Cardinality({s}) ELSE 0
  BY <1>5, <1>6, <1>8, KindsCount
<1>10. held \subseteq held'
  BY <1>2 DEF Claim
<1>11. \A v \in Workers : v # w /\ batch[v].at = "execute" => batch[v].record \in held'
  BY <1>10, OthersHold DEF LoopSound
<1>12. count["quarantined"] + count["claimed"] <= BatchLimit
  <2>1. Remaining(batch[w].count) > 0
    BY DEF ClaimStep
  <2>2. /\ count["quarantined"] = batch[w].count["quarantined"]
        /\ batch[w].count["quarantined"] \in Nat /\ batch[w].count["claimed"] \in Nat
    BY <1>5, <1>6 DEF Fields
  <2> QED BY <1>6, <2>1, <2>2, BatchLimitAssumption DEF Remaining
<1>13. counted' = counted /\ record \in HeldRecord \cup {NULL} /\ To(w, "execute", record, count)
  BY <1>3, <1>4 DEF ClaimStep, TypeOK
<1>14. PICK F : F = {s}
  OBVIOUS
<1>15. F \in SUBSET Sagas /\ IsFiniteSet(F) /\ Grows(activity, activity', F, "effect_claimed")
       /\ \A x \in Counters :
             count[x] = batch[w].count[x]
                        + IF "effect_claimed" \in Kinds[x] THEN Cardinality(F) ELSE 0
  BY <1>7, <1>8, <1>9, <1>14
<1> QED BY <1>3, <1>6, <1>11, <1>12, <1>13, <1>15, MoveSound

\* There is nothing to claim.
LEMMA ClaimNoneSound ==
    ASSUME TypeOK, LoopSound, NEW w \in Workers, ClaimNone(w) PROVE LoopSound'
<1>1. PICK count : count = batch[w].count
  OBVIOUS
<1>2. count \in [Fields -> Nat] /\ count["quarantined"] + count["claimed"] <= BatchLimit
  BY <1>1 DEF LoopSound, BatchesTyped, BatchRow, WithinLimit
<1>3. To(w, "has_more", NULL, count) /\ activity' = activity /\ held' = held /\ counted' = counted
  BY <1>1 DEF ClaimNone, vars, history
<1>4. /\ Grows(activity, activity', {}, "effect_claimed")
      /\ IsFiniteSet({}) /\ Cardinality({}) = 0 /\ {} \in SUBSET Sagas
  BY <1>3, NothingGrows
<1>5. ASSUME NEW x \in Counters
      PROVE  count[x] = batch[w].count[x]
                        + IF "effect_claimed" \in Kinds[x] THEN Cardinality({}) ELSE 0
  <2>1. count[x] \in Nat
    BY <1>2, KindsCount
  <2> QED BY <1>1, <1>4, <2>1
<1>6. \A v \in Workers : v # w /\ batch[v].at = "execute" => batch[v].record \in held'
  BY <1>3, OthersHold DEF LoopSound
<1> QED BY <1>2, <1>3, <1>4, <1>5, <1>6, MoveSound

\* An outcome is recorded, or comes too late.
LEMMA FinalizeSound ==
    ASSUME TypeOK, TypeOK', LoopSound, NEW w \in Workers, FinalizeStep(w) PROVE LoopSound'
<1>1. PICK r : r = batch[w].record
  OBVIOUS
<1>2. /\ batch[w].at = "execute" /\ r \in held /\ r \in HeldRecord /\ counted' = counted
  BY <1>1 DEF FinalizeStep, Runs, LoopSound, RecordsHeld, TypeOK
<1>3. held' = held \ {r}
  BY <1>1 DEF FinalizeStep, FinalizeEffect, FinalizeSuperseded
<1>4. \A v \in Workers : v # w /\ batch[v].at = "execute" => batch[v].record \in held'
  BY <1>1, <1>2, <1>3, OthersHold DEF LoopSound
<1>5. PICK old : old = batch[w].count
  OBVIOUS
<1>6. old \in [Fields -> Nat] /\ old["quarantined"] + old["claimed"] <= BatchLimit
  BY <1>5 DEF LoopSound, BatchesTyped, BatchRow, WithinLimit
<1>7. CASE \E outcome \in Answers(r) :
              /\ FinalizeEffect(r, outcome)
              /\ To(w, "claim", NULL, [old EXCEPT ![ResultCounter[outcome.state]] = @ + 1])
  <2>1. PICK outcome \in Answers(r) :
           /\ FinalizeEffect(r, outcome)
           /\ To(w, "claim", NULL, [old EXCEPT ![ResultCounter[outcome.state]] = @ + 1])
    BY <1>7
  <2>2. outcome.state \in {"applied", "compensated", "failed", "unknown"}
    BY <1>2, AnswersAreOutcomes, OutcomeType DEF HeldRecord
  <2>3. PICK y : y = ResultCounter[outcome.state]
    OBVIOUS
  <2>4. PICK kind : kind = OutcomeActivity[outcome.state]
    OBVIOUS
  <2>5. /\ y \in Counters \ {"claimed"} /\ y \in Fields \ {"claimed", "quarantined"}
        /\ kind \in ActivityKinds /\ \A x \in Counters : kind \in Kinds[x] <=> x = y
    BY <2>2, <2>3, <2>4, OutcomesCount
  <2>6. PICK count : count = [old EXCEPT ![y] = @ + 1]
    OBVIOUS
  <2>7. /\ count \in [Fields -> Nat] /\ count[y] = old[y] + 1
        /\ \A x \in Fields : x # y => count[x] = old[x]
    BY <1>6, <2>5, <2>6, CountsRise
  <2>8. PICK s : s = r.saga
    OBVIOUS
  <2>9. s \in Sagas /\ r.slot \in Slots
    BY <1>2, <2>8 DEF HeldRecord
  <2>10. Grows(activity, activity', {s}, kind)
    <3>1. Log(s, kind, r.slot)
      BY <2>1, <2>4, <2>8 DEF FinalizeEffect
    <3> QED BY <2>5, <2>9, <3>1, LogGrows
  <2>11. PICK F : F = {s}
    OBVIOUS
  <2>12. /\ F \in SUBSET Sagas /\ IsFiniteSet(F) /\ Cardinality(F) = 1
         /\ Grows(activity, activity', F, kind)
    BY <2>9, <2>10, <2>11, FS_Singleton
  <2>13. ASSUME NEW x \in Counters
         PROVE  count[x] = batch[w].count[x] + IF kind \in Kinds[x] THEN Cardinality(F) ELSE 0
    <3>1. x \in Fields /\ old[x] \in Nat
      BY <1>6, KindsCount
    <3> QED BY <1>5, <2>5, <2>7, <2>12, <3>1
  <2>14. count["quarantined"] + count["claimed"] <= BatchLimit
    BY <1>6, <2>5, <2>7 DEF Fields
  <2>15. To(w, "claim", NULL, count)
    BY <2>1, <2>3, <2>6
  <2> QED BY <1>2, <1>4, <2>7, <2>12, <2>13, <2>14, <2>15, MoveSound
<1>8. CASE FinalizeSuperseded(r) /\ To(w, "claim", NULL, old)
  <2>1. activity' = activity
    BY <1>8 DEF FinalizeSuperseded
  <2>2. /\ Grows(activity, activity', {}, "effect_claimed")
        /\ IsFiniteSet({}) /\ Cardinality({}) = 0 /\ {} \in SUBSET Sagas
    BY <2>1, NothingGrows
  <2>3. ASSUME NEW x \in Counters
        PROVE  old[x] = batch[w].count[x]
                        + IF "effect_claimed" \in Kinds[x] THEN Cardinality({}) ELSE 0
    <3>1. old[x] \in Nat
      BY <1>6, KindsCount
    <3> QED BY <1>5, <2>2, <3>1
  <2> QED BY <1>2, <1>4, <1>6, <1>8, <2>2, <2>3, MoveSound
<1> QED BY <1>1, <1>5, <1>7, <1>8 DEF FinalizeStep

\* The plugin is activated, or deactivated under its batches.
LEMMA LifecycleSound ==
    ASSUME TypeOK, LoopSound, Activate \/ Deactivate PROVE LoopSound'
<1>1. held' = held /\ activity' = activity /\ counted' = counted
  BY DEF Activate, Deactivate, vars, history
<1>2. batch \in [Workers -> BatchRow]
  BY DEF LoopSound, BatchesTyped
<1>3. /\ batch' \in [Workers -> BatchRow]
      /\ \A w \in Workers : /\ batch'[w].at = batch[w].at /\ batch'[w].record = batch[w].record
                            /\ batch'[w].count = batch[w].count
  <2>1. CASE Activate
    BY <1>2, <2>1 DEF Activate
  <2>2. CASE Deactivate
    <3>1. batch' = [w \in Workers |-> [batch[w] EXCEPT !.open = FALSE]]
      BY <2>2 DEF Deactivate
    <3>2. ASSUME NEW w \in Workers
          PROVE  /\ [batch[w] EXCEPT !.open = FALSE] \in BatchRow
                 /\ [batch[w] EXCEPT !.open = FALSE].at = batch[w].at
                 /\ [batch[w] EXCEPT !.open = FALSE].record = batch[w].record
                 /\ [batch[w] EXCEPT !.open = FALSE].count = batch[w].count
      BY <1>2 DEF BatchRow
    <3> QED BY <3>1, <3>2
  <2> QED BY <2>1, <2>2
<1>4. BatchesTyped'
  BY <1>1, <1>3 DEF BatchesTyped, LoopSound
<1>5. RecordsHeld'
  BY <1>1, <1>3 DEF RecordsHeld, LoopSound
<1>6. WithinLimit'
  BY <1>3 DEF WithinLimit, LoopSound
<1>7. ASSUME NEW x \in Counters PROVE Tallies(x)'
  BY <1>1, <1>3, TallyStays DEF LoopSound
<1> QED BY <1>4, <1>5, <1>6, <1>7 DEF LoopSound

\* What leaves the batches and their records alone, and logs no effect.
LEMMA OtherSound ==
    ASSUME LoopSound, batch' = batch, counted' = counted, held' = held,
           \A x \in Counters : LoggedIn(activity', Kinds[x]) = LoggedIn(activity, Kinds[x])
    PROVE  LoopSound'
<1>1. ASSUME NEW x \in Counters PROVE Tallies(x)'
  BY TallyStays DEF LoopSound
<1> QED BY <1>1 DEF LoopSound, BatchesTyped, RecordsHeld, WithinLimit

\* A command logs what no counter stands for.
LEMMA CommandsSound ==
    ASSUME TypeOK, TypeOK', LoopSound, Commands PROVE LoopSound'
<1>1. PICK t \in Sagas, a \in Actors, k \in Keys : Command(t, a, k)
  BY CommandsAre
<1>2. held' = held
  BY <1>1 DEF Command, Start, Retry, RequestCleanup
<1>3. \E s \in Sagas, e \in Slots \cup {NULL},
         kind \in {"provisioning_started", "provisioning_retried", "cleanup_requested"} :
            Log(s, kind, e)
  <2>1. CASE \E n \in 0 .. MaxGrants : Start(t, a, n, k)
    BY <2>1 DEF Start
  <2>2. CASE \E request \in Requests(t) : Retry(t, a, k, request)
    BY <2>2 DEF Retry, Selected
  <2>3. CASE \E expected \in 1 .. saga[t].revision : RequestCleanup(t, a, k, expected)
    BY <2>3 DEF RequestCleanup
  <2> QED BY <1>1, <2>1, <2>2, <2>3 DEF Command
<1>5. PICK s \in Sagas, e \in Slots \cup {NULL},
           kind \in {"provisioning_started", "provisioning_retried", "cleanup_requested"} :
              Log(s, kind, e)
  BY <1>3
<1>6. kind \in ActivityKinds
  BY DEF ActivityKinds
<1>7. Grows(activity, activity', {s}, kind)
  BY <1>5, <1>6, LogGrows
<1>8. ASSUME NEW x \in Counters
      PROVE  LoggedIn(activity', Kinds[x]) = LoggedIn(activity, Kinds[x])
  <2>1. kind \notin Kinds[x] /\ activity \in [Sagas -> Seq(ActivityRow)]
    BY KindsCount DEF TypeOK
  <2> QED BY <1>7, <2>1, OtherRowsStay
<1> QED BY <1>2, <1>8, OtherSound DEF Commands

\* Every step keeps the counters and the records.
LEMMA LoopStep ==
    ASSUME TypeOK, TypeOK', LoopSound, [WorkerNext]_workervars PROVE LoopSound'
<1>1. CASE Expire
  BY <1>1, OtherSound DEF Expire, LeaseExpires, loop, history
<1>2. CASE UNCHANGED workervars
  BY <1>2, OtherSound DEF workervars, vars, loop, history
<1>3. ASSUME NEW w \in Workers, PoolClosed(w) \/ Fail(w) PROVE LoopSound'
  BY <1>3, AbandonSound DEF PoolClosed, Fail
<1>4. ASSUME NEW s \in Sagas, Hold(s) \/ Release(s) PROVE LoopSound'
  BY <1>4, OtherSound DEF Hold, Release, vars, history
<1> QED BY <1>1, <1>2, <1>3, <1>4, InvokeSound, QuarantineSound, ClaimStepSound, ClaimNoneSound,
           FinalizeSound, ReplySound, LifecycleSound, CommandsSound
        DEF WorkerNext, BatchStep
-----------------------------------------------------------------------------
(* Who comes before whom. *)

\* What a command writes was not due.
LEMMA CommandNotDue ==
    ASSUME NEW s \in Sagas, NEW a, NEW k, Command(s, a, k) PROVE ~ Due(s)
<1>1. saga[s].status \notin {"pending", "cleanup_pending"}
  BY DEF Command, Start, Retry, Selected, RequestCleanup
<1> QED BY <1>1 DEF Due, Claimable

\* Nor was that in which an outcome is recorded: its effect was under way.
LEMMA FinalizeNotDue ==
    ASSUME TypeOK, SagasConsistent, NEW r \in HeldRecord, NEW outcome, FinalizeEffect(r, outcome)
    PROVE  ~ Due(r.saga)
<1>1. PICK s : s = r.saga
  OBVIOUS
<1>2. s \in Sagas /\ r.slot \in Slots /\ effect[s][r.slot].state = "in_flight"
  BY <1>1 DEF FinalizeEffect, Current, HeldRecord
<1>3. SUFFICES ASSUME Due(s) PROVE FALSE
  BY <1>1
<1>4. saga[s].status \in {"pending", "cleanup_pending"}
  BY <1>3 DEF Due, Claimable
<1>5. saga[s] \in SagaRow /\ effect[s] \in [Slots -> EffectRow] /\ Consistent(saga[s], effect[s])
  BY <1>2 DEF TypeOK, SagasConsistent
<1>6. EffectsConsistent(saga[s], effect[s]) /\ StatusConsistent(saga[s], effect[s])
  BY <1>4, <1>5, StoredMeans
<1>7. InFlight(effect[s]) = {}
  BY <1>4, <1>5, <1>6, StatusMeans
<1> QED BY <1>2, <1>7 DEF InFlight

\* A write of q moves no other saga, and keeps those of B before it.
LEMMA StampKeeps ==
    ASSUME NEW q \in Sagas, NEW B, Stamped(q, B), NEW s \in Sagas, s # q
    PROVE  /\ s \in B => <<s, q>> \in older'
           /\ \A t \in Sagas : t # q /\ <<s, t>> \in older => <<s, t>> \in older'
<1>1. PICK C : B \subseteq C /\ Place(q, C)
  BY DEF Stamped
<1>2. <<s, q>> \in C \X {q} <=> s \in C
  OBVIOUS
<1>3. ASSUME NEW t \in Sagas, t # q, <<s, t>> \in older PROVE <<s, t>> \in older'
  <2>1. <<s, t>>[1] # q /\ <<s, t>>[2] # q
    BY <1>3
  <2> QED BY <1>1, <1>3, <2>1 DEF Place
<1> QED BY <1>1, <1>2, <1>3 DEF Place

\* A step keeps the bound if it leaves what is behind a due saga behind it, and
\* claims nothing that is behind a due one whose row is free.
LEMMA OvertakeStep ==
    ASSUME OvertakingSound, NEW claims, NEW T, Overtakes(claims, T),
           \A s, q \in Sagas : <<s, q>> \in older /\ Due(s) /\ q \notin T
                               /\ Claimable(saga'[s], effect'[s]) => <<s, q>> \in older',
           \A w \in Workers : \A s, q \in Sagas :
              <<w, q>> \in claims /\ s \notin locked /\ Claimable(saga'[s], effect'[s])
              => ~ (Due(s) /\ <<s, q>> \in older) /\ <<s, q>> \in older'
    PROVE  OvertakingSound'
<1>1. ASSUME NEW w \in Workers, NEW s \in Sagas, NEW q \in Sagas
      PROVE  /\ overtaken'[w][s][q] \in {0, 1}
             /\ overtaken'[w][s][q] = 1 => Claimable(saga'[s], effect'[s]) /\ <<s, q>> \in older'
  <2>1. overtaken'[w][s][q] =
           IF ~ Claimable(saga'[s], effect'[s]) \/ q \in T THEN 0
           ELSE overtaken[w][s][q] + (IF <<w, q>> \in claims /\ s \notin locked THEN 1 ELSE 0)
    BY DEF Overtakes
  <2>2. /\ overtaken[w][s][q] \in {0, 1}
        /\ overtaken[w][s][q] = 1 => Due(s) /\ <<s, q>> \in older
    BY DEF OvertakingSound
  <2>3. CASE ~ Claimable(saga'[s], effect'[s]) \/ q \in T
    BY <2>1, <2>3
  <2>4. CASE Claimable(saga'[s], effect'[s]) /\ q \notin T /\ <<w, q>> \in claims /\ s \notin locked
    <3>1. ~ (Due(s) /\ <<s, q>> \in older) /\ <<s, q>> \in older'
      BY <2>4
    <3> QED BY <2>1, <2>2, <2>4, <3>1
  <2>5. CASE Claimable(saga'[s], effect'[s]) /\ q \notin T
             /\ ~ (<<w, q>> \in claims /\ s \notin locked)
    <3>1. overtaken'[w][s][q] = overtaken[w][s][q]
      BY <2>1, <2>2, <2>5
    <3> QED BY <2>2, <2>5, <3>1
  <2> QED BY <2>3, <2>4, <2>5
<1>2. overtaken' \in [Workers -> [Sagas -> [Sagas -> {0, 1}]]]
  <2>1. PICK f : f = overtaken'
    OBVIOUS
  <2>2. /\ f = [w \in Workers |-> f[w]]
        /\ \A w \in Workers : f[w] = [s \in Sagas |-> f[w][s]]
        /\ \A w \in Workers : \A s \in Sagas : f[w][s] = [q \in Sagas |-> f[w][s][q]]
    BY <2>1 DEF Overtakes
  <2>3. \A w \in Workers : \A s, q \in Sagas : f[w][s][q] \in {0, 1}
    BY <1>1, <2>1
  <2>4. \A w \in Workers : \A s \in Sagas : f[w][s] \in [Sagas -> {0, 1}]
    BY <2>2, <2>3
  <2>5. \A w \in Workers : f[w] \in [Sagas -> [Sagas -> {0, 1}]]
    BY <2>2, <2>4
  <2> QED BY <2>1, <2>2, <2>5
<1> QED BY <1>1, <1>2 DEF OvertakingSound, Due

\* What writes no saga and changes no state of an effect leaves all as it was.
LEMMA OvertakingStays ==
    ASSUME TypeOK, TypeOK', OvertakingSound, older' = older, overtaken' = overtaken, saga' = saga,
           \A s \in Sagas, e \in Slots : effect'[s][e].state = effect[s][e].state
    PROVE  OvertakingSound'
<1>1. ASSUME NEW s \in Sagas, Due(s) PROVE Claimable(saga'[s], effect'[s])
  <2>1. \A c \in BOOLEAN : PendingIn(effect'[s], c) = PendingIn(effect[s], c)
    BY DEF PendingIn, Phase
  <2> QED BY <1>1, <2>1 DEF Due, Claimable
<1> QED BY <1>1 DEF OvertakingSound, Due

\* A claim passes over no due saga whose row is free, and what is claimed goes
\* behind all others.
LEMMA ClaimOvertakes ==
    ASSUME TypeOK, OvertakingSound, NEW w \in Workers, ClaimStep(w)
    PROVE  OvertakingSound'
<1>1. PICK q \in DueAndFree : /\ \A s \in DueAndFree : <<s, q>> \notin older
                              /\ ClaimNext(q) /\ Stamped(q, Written \ {q})
                              /\ Overtakes({<<w, q>>}, {})
  BY DEF ClaimStep
<1>2. q \in Sagas
  BY DEF DueAndFree
<1>3. PICK e \in Slots : Claim(q, e)
  BY <1>1 DEF ClaimNext
<1>4. /\ saga' = [saga EXCEPT ![q] = ClaimedSaga(saga[q])]
      /\ \E E : effect' = [effect EXCEPT ![q] = E]
      /\ saga \in [Sagas -> SagaRow] /\ effect \in [Sagas -> [Slots -> EffectRow]]
  BY <1>3 DEF Claim, TypeOK
<1>5. ~ Claimable(saga'[q], effect'[q])
  <2>1. saga[q] \in SagaRow /\ saga'[q] = ClaimedSaga(saga[q])
    BY <1>2, <1>4
  <2> QED BY <2>1 DEF ClaimedSaga, SagaRow, Claimable
<1>6. ASSUME NEW s \in Sagas, Claimable(saga'[s], effect'[s])
      PROVE  /\ s # q /\ Due(s) /\ <<s, q>> \in older'
             /\ \A t \in Sagas : <<s, t>> \in older => <<s, t>> \in older'
  <2>1. s # q
    BY <1>5, <1>6
  <2>2. saga'[s] = saga[s] /\ effect'[s] = effect[s]
    BY <1>2, <1>4, <2>1
  <2>3. Due(s)
    BY <1>6, <2>2 DEF Due
  <2>4. s \in Written \ {q}
    BY <2>1, <2>3 DEF Written, Due, Claimable
  <2> QED BY <1>1, <1>2, <2>1, <2>3, <2>4, StampKeeps
<1>7. ASSUME NEW v \in Workers, NEW s \in Sagas, NEW t \in Sagas, <<v, t>> \in {<<w, q>>},
             s \notin locked, Claimable(saga'[s], effect'[s])
      PROVE  ~ (Due(s) /\ <<s, t>> \in older) /\ <<s, t>> \in older'
  <2>1. t = q
    BY <1>7
  <2>2. s \in DueAndFree /\ <<s, q>> \in older'
    BY <1>6, <1>7 DEF DueAndFree
  <2> QED BY <1>1, <2>1, <2>2
<1>8. PICK claims : claims = {<<w, q>>}
  OBVIOUS
<1>9. Overtakes(claims, {})
  BY <1>1, <1>8
<1>10. \A v \in Workers : \A s, t \in Sagas :
          <<v, t>> \in claims /\ s \notin locked /\ Claimable(saga'[s], effect'[s])
          => ~ (Due(s) /\ <<s, t>> \in older) /\ <<s, t>> \in older'
  BY <1>7, <1>8
<1>11. \A s, t \in Sagas : <<s, t>> \in older /\ Due(s) /\ t \notin {}
                           /\ Claimable(saga'[s], effect'[s]) => <<s, t>> \in older'
  BY <1>6
<1> QED BY <1>9, <1>10, <1>11, OvertakeStep

\* A step without a claim keeps the bound if it leaves what is behind a due
\* saga behind it.
LEMMA NoClaimOvertakes ==
    ASSUME OvertakingSound, NEW T, Overtakes({}, T),
           \A s, q \in Sagas : <<s, q>> \in older /\ Due(s) /\ q \notin T => <<s, q>> \in older'
    PROVE  OvertakingSound'
  BY OvertakeStep

\* Every step keeps the bound.
LEMMA OvertakingKept ==
    ASSUME TypeOK, TypeOK', SagasConsistent, RecordsHeld, OvertakingSound,
           [WorkerNext]_workervars
    PROVE  OvertakingSound'
<1>1. CASE Commands
  <2>1. PICK c \in Sagas : /\ \E a \in Actors, k \in Keys : Command(c, a, k)
                           /\ Stamped(c, {}) /\ Overtakes({}, {c})
    BY <1>1, CommandsAre
  <2>2. ~ Due(c)
    BY <2>1, CommandNotDue
  <2>3. \A s, q \in Sagas : <<s, q>> \in older /\ Due(s) /\ q \notin {c} => <<s, q>> \in older'
    BY <2>1, <2>2, StampKeeps
  <2> QED BY <2>1, <2>3, NoClaimOvertakes
<1>2. CASE Expire
  <2>1. PICK t \in Sagas, f \in Slots : LeaseExpires(t, f)
    BY <1>2 DEF Expire
  <2>2. /\ effect' = [effect EXCEPT ![t][f].lease_until = "past"] /\ saga' = saga
        /\ effect \in [Sagas -> [Slots -> EffectRow]]
    BY <2>1 DEF LeaseExpires, TypeOK
  <2>3. \A s \in Sagas, e \in Slots : effect'[s][e].state = effect[s][e].state
    BY <2>2 DEF EffectRow
  <2> QED BY <1>2, <2>2, <2>3, OvertakingStays DEF Expire, loop, history
<1>3. ASSUME NEW w \in Workers, Invoke(w) \/ ClaimNone(w) \/ Reply(w) PROVE OvertakingSound'
  BY <1>3, OvertakingStays DEF Invoke, ClaimNone, Reply, vars, history
<1>4. ASSUME NEW w \in Workers, PoolClosed(w) \/ Fail(w) PROVE OvertakingSound'
  <2>1. Abandon(w)
    BY <1>4 DEF PoolClosed, Fail
  <2>2. saga' = saga /\ effect' = effect /\ older' = older /\ overtaken' = overtaken
    BY <2>1 DEF Abandon, WorkerLost, vars
  <2> QED BY <2>2, OvertakingStays
<1>5. CASE Activate \/ Deactivate \/ \E s \in Sagas : Hold(s) \/ Release(s)
  BY <1>5, OvertakingStays DEF Activate, Deactivate, Hold, Release, vars, history
<1>6. CASE UNCHANGED workervars
  BY <1>6, OvertakingStays DEF workervars, vars, loop, history
<1>7. ASSUME NEW w \in Workers, QuarantineStep(w) PROVE OvertakingSound'
  <2>1. older' = older /\ Overtakes({}, {})
    BY <1>7 DEF QuarantineStep
  <2> QED BY <2>1, NoClaimOvertakes
<1>8. ASSUME NEW w \in Workers, FinalizeStep(w) PROVE OvertakingSound'
  <2>1. PICK r : r = batch[w].record
    OBVIOUS
  <2>2. r \in HeldRecord /\ Overtakes({}, {})
    BY <1>8, <2>1 DEF FinalizeStep, Runs, RecordsHeld, TypeOK
  <2>3. CASE older' = older
    BY <2>2, <2>3, NoClaimOvertakes
  <2>4. CASE \E outcome \in Answers(r) :
                FinalizeEffect(r, outcome) /\ Stamped(r.saga, Earlier(r.saga))
    <3>1. PICK c \in Sagas : c = r.saga
      BY <2>2 DEF HeldRecord
    <3>2. ~ Due(c) /\ Stamped(c, Earlier(c))
      BY <2>2, <2>4, <3>1, FinalizeNotDue
    <3>3. ASSUME NEW s \in Sagas, NEW q \in Sagas, <<s, q>> \in older, Due(s)
          PROVE  <<s, q>> \in older'
      <4>1. s # c
        BY <3>2, <3>3
      <4>2. q = c => s \in Earlier(c)
        BY <3>3 DEF Earlier
      <4> QED BY <3>2, <3>3, <4>1, <4>2, StampKeeps
    <3> QED BY <2>2, <3>3, NoClaimOvertakes
  <2> QED BY <1>8, <2>1, <2>3, <2>4 DEF FinalizeStep
<1> QED BY <1>1, <1>2, <1>3, <1>4, <1>5, <1>6, <1>7, <1>8, ClaimOvertakes
        DEF WorkerNext, BatchStep
-----------------------------------------------------------------------------
(* The theorems. *)

\* No batch has counted anything yet, and no saga has been written.
LEMMA WorkerInitSound == WorkerInit => LoopSound /\ OvertakingSound
<1> SUFFICES ASSUME WorkerInit PROVE LoopSound /\ OvertakingSound
  OBVIOUS
<1>1. /\ batch \in [Workers -> BatchRow] /\ counted = NoCount /\ counted \in [Fields -> Nat]
      /\ \A w \in Workers : /\ batch[w].at = "idle" /\ batch[w].record = NULL
                            /\ batch[w].count = NoCount
  BY NoBatchRow, NoCounts DEF WorkerInit
<1>2. BatchesTyped /\ RecordsHeld
  BY <1>1 DEF BatchesTyped, RecordsHeld
<1>3. WithinLimit
  BY <1>1, NoCountWithin DEF WithinLimit
<1>4. ASSUME NEW x \in Counters PROVE Tallies(x)
  <2>1. x \in Fields /\ NoCount[x] = 0
    BY NoCounts, KindsCount
  <2>2. \A w \in Workers : Counts(batch, x)[w] = 0 /\ DOMAIN Counts(batch, x) = Workers
    BY <1>1, <2>1 DEF Counts
  <2>3. Units(Counts(batch, x)) = {}
    <3>1. DOMAIN Counts(batch, x) = Workers
      BY DEF Counts
    <3> QED BY <2>2, <3>1 DEF Units
  <2>4. \A s \in Sagas : activity[s] = <<>>
    BY DEF WorkerInit, Init
  <2>5. LoggedIn(activity, Kinds[x]) = {}
    BY <2>4 DEF LoggedIn
  <2> QED BY <1>1, <2>1, <2>3, <2>5, FS_EmptySet DEF Tallies
<1>5. OvertakingSound
  BY DEF WorkerInit, OvertakingSound
<1> QED BY <1>2, <1>3, <1>4, <1>5 DEF LoopSound

\* Whatever the batches do, and whatever fails, the loop changes the tables
\* only as the transactions of storage.rs do: all that is proved of Storage
\* holds with process_due driving it.
THEOREM WorkerImplements == WorkerSpec => Spec
<1>1. WorkerInit => Init /\ LoopSound
  BY WorkerInitSound DEF WorkerInit
<1>2. ASSUME TypeOK, LoopSound, [WorkerNext]_workervars
      PROVE  [Next]_vars /\ TypeOK' /\ LoopSound'
  <2>1. [Next]_vars
    BY <1>2, LoopStorage DEF LoopSound
  <2>2. TypeOK'
    BY <1>2, <2>1, NextTypes
  <2> QED BY <1>2, <2>1, <2>2, LoopStep
<1> QED BY <1>1, <1>2, InitTypes, PTL DEF WorkerSpec, Spec

\* The inductive invariant of the loop.
LEMMA BatchInvariance == WorkerSpec => [](TypeOK /\ SagasConsistent /\ BatchInvariant)
<1>1. TypeOK /\ SagasConsistent /\ BatchInvariant /\ [WorkerNext]_workervars /\ TypeOK'
      => BatchInvariant'
  <2> SUFFICES ASSUME TypeOK, SagasConsistent, LoopSound, OvertakingSound, [WorkerNext]_workervars,
                      TypeOK'
               PROVE  LoopSound' /\ OvertakingSound'
    BY DEF BatchInvariant, LoopSound
  <2>1. LoopSound'
    BY LoopStep
  <2>2. OvertakingSound'
    BY OvertakingKept DEF LoopSound
  <2> QED BY <2>1, <2>2
<1>2. WorkerInit => BatchInvariant
  BY WorkerInitSound DEF BatchInvariant, LoopSound
<1> QED BY <1>1, <1>2, WorkerImplements, Typing, Consistency, PTL DEF WorkerSpec

\* The counters that batches return, and those of batches still running, add up
\* to the rows of the activity log: no outcome is counted twice or lost, and no
\* batch exceeds its limit.
THEOREM Counting == WorkerSpec => []CountersMatchLog
<1>1. BatchInvariant => CountersMatchLog
  <2> SUFFICES ASSUME BatchInvariant PROVE CountersMatchLog
    OBVIOUS
  <2>1. ASSUME NEW x \in Counters PROVE CountedBy(Workers, x) = LogRows(Kinds[x])
    BY DEF BatchInvariant, Tallies, CountedBy, Counts, LogRows, LoggedIn
  <2>2. /\ {"claimed", "completed", "failed", "manual_review"} \subseteq Counters
        /\ Kinds["claimed"] = {"effect_claimed"}
        /\ Kinds["completed"] = {"effect_applied", "effect_compensated"}
        /\ Kinds["failed"] = {"effect_failed"}
        /\ Kinds["manual_review"] = {"effect_outcome_unknown"}
    BY DEF Counters, Kinds
  <2>3. \A w \in Workers : batch[w].count.quarantined + batch[w].count.claimed <= BatchLimit
    BY DEF BatchInvariant, WithinLimit
  <2>4. /\ CountedBy(Workers, "claimed") = LogRows({"effect_claimed"})
        /\ CountedBy(Workers, "completed") = LogRows({"effect_applied", "effect_compensated"})
        /\ CountedBy(Workers, "failed") = LogRows({"effect_failed"})
        /\ CountedBy(Workers, "manual_review") = LogRows({"effect_outcome_unknown"})
    BY <2>1, <2>2
  <2> QED BY <2>3, <2>4 DEF CountersMatchLog
<1> QED BY <1>1, BatchInvariance, PTL

\* However many sagas, workers and open transactions there are, no worker takes
\* another saga twice before one that is due all the while, unless its row was
\* held or an operator acted on the other: SKIP LOCKED and late time stamps let
\* nothing starve behind a saga that is always due again.
THEOREM Overtaking == WorkerSpec => []BoundedOvertaking
<1>1. BatchInvariant => BoundedOvertaking
  BY DEF BatchInvariant, OvertakingSound, BoundedOvertaking
<1> QED BY <1>1, BatchInvariance, PTL
=============================================================================
