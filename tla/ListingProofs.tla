---------------------------- MODULE ListingProofs ----------------------------
(***************************************************************************)
(* The pages of a walk never show a saga twice, and leave nothing out that *)
(* was there before the cursor had passed its place: for any sagas,        *)
(* filters and page sizes, and whatever is started and moves on meanwhile. *)
(***************************************************************************)
EXTENDS Listing, TLAPS

Micros == {t \in Nat : (t \div Micro) * Micro = t}
Rows == [requested_by : Actors \cup {"none"}, created_at : Micros]

\* What the table holds: times are whole microseconds, as TIMESTAMPTZ has
\* them, and a saga is absent until its start is committed.
Absent(s) == work[s] = Nothing /\ shown[s] = "absent"
TableSound ==
    /\ now \in Micros
    /\ begun \in [Sagas -> Rows] /\ row \in [Sagas -> Rows]
    /\ work \in [Sagas -> Work] /\ DOMAIN shown = Sagas
    /\ \A s \in Sagas : Absent(s) \/ (work[s].phase # "none" /\ shown[s] # "absent")

Listed(S) == {Item(s) : s \in {s \in S : shown[s] # "absent"}}
Last(seq) == seq[Len(seq)]

\* What the pages of walk w show, and what it is owed that they do not.
PagesSound(w) ==
    /\ w.seen \in Seq(Listed(Sagas))
    /\ \A i, j \in DOMAIN w.seen : i < j => Descending(w.seen[i], w.seen[j])
    /\ \A s \in w.owed : s \in Sagas /\ Matches(s, w.actor, w.status)
Shows(w, s) == \E i \in DOMAIN w.seen : w.seen[i].provisioning_id = s

\* A walk's cursor is that of the last row seen, and what is owed lies ahead.
Ahead(w) ==
    \/ w.cursor = NoCursor /\ w.seen = << >>
    \/ /\ w.seen # << >> /\ w.cursor = EncodeCursor(Last(w.seen))
       /\ \A s \in w.owed : Shows(w, s) \/ Descending(DecodeCursor(w.cursor), Item(s))

IsWalk(w) == w = [at |-> w.at, actor |-> w.actor, status |-> w.status,
                  cursor |-> w.cursor, seen |-> w.seen, owed |-> w.owed]
WalkSound(w) ==
    /\ IsWalk(w) /\ PagesSound(w)
    /\ w.at = "closed" => w = NoWalk
    /\ w.at = "open" => w.seen # << >> /\ Ahead(w)
    /\ w.at \notin {"closed", "open"} => \A s \in w.owed : Shows(w, s)

ListingInvariant == TableSound /\ WalkSound(walk)
-----------------------------------------------------------------------------
(* Times, items and cursors. *)

\* A tick is whole microseconds.
LEMMA TicksAreMicros == ASSUME NEW t \in Micros PROVE t + Micro \in Micros
  BY DEF Micros, Micro

\* What the items are.
Timed == [provisioning_id : Nat, created_at : Micros]

\* An item is a record of a number and a time, and its cursor names it.
LEMMA CursorsAreExact ==
    ASSUME NEW x \in Timed
    PROVE  DecodeCursor(EncodeCursor(x)) = x /\ EncodeCursor(x) # NoCursor
<1>0. x = [provisioning_id |-> x.provisioning_id, created_at |-> x.created_at]
  BY DEF Timed
<1>1. x.created_at \in Micros
  BY DEF Timed
<1>3. (x.created_at \div Micro) * Micro = x.created_at
  BY <1>1 DEF Micros
<1>2. EncodeCursor(x)[1] = x.created_at \div Micro /\ EncodeCursor(x)[2] = x.provisioning_id
      /\ EncodeCursor(x) # NoCursor
  BY DEF EncodeCursor, NoCursor
<1>4. DecodeCursor(EncodeCursor(x)) =
          [created_at |-> EncodeCursor(x)[1] * Micro, provisioning_id |-> EncodeCursor(x)[2]]
  BY DEF DecodeCursor
<1>5. DecodeCursor(EncodeCursor(x)) =
          [created_at |-> x.created_at, provisioning_id |-> x.provisioning_id]
  BY <1>2, <1>3, <1>4, Zenon
<1> QED BY <1>0, <1>2, <1>5

\* The items are of that form.
LEMMA ListedItems ==
    ASSUME TableSound
    PROVE  Listed(Sagas) \subseteq Timed
<1> SUFFICES ASSUME NEW s \in Sagas PROVE Item(s) \in Timed
  BY DEF Listed
<1>1. row[s] \in Rows
  BY DEF TableSound
<1>2. row[s].created_at \in Micros
  BY <1>1 DEF Rows
<1> QED BY <1>2, SagasAreOrdered DEF Item, Timed

\* The order of the pages is the one the cursor compares with.
LEMMA DescendingIsBefore ==
    ASSUME NEW x, NEW y PROVE Descending(x, y) <=> Before(y, x)
<1>1. Descending(x, y) <=> \/ x.created_at > y.created_at
                           \/ x.created_at = y.created_at /\ x.provisioning_id > y.provisioning_id
  BY DEF Descending
<1>2. Before(y, x) <=> \/ y.created_at < x.created_at
                       \/ y.created_at = x.created_at /\ y.provisioning_id < x.provisioning_id
  BY DEF Before
<1> QED BY <1>1, <1>2

\* The order is transitive.
LEMMA DescendingIsTransitive ==
    ASSUME NEW x \in Timed, NEW y \in Timed, NEW z \in Timed,
           Descending(x, y), Descending(y, z)
    PROVE  Descending(x, z)
<1>1. /\ x.provisioning_id \in Nat /\ y.provisioning_id \in Nat /\ z.provisioning_id \in Nat
      /\ x.created_at \in Nat /\ y.created_at \in Nat /\ z.created_at \in Nat
  BY DEF Timed, Micros
<1> QED BY <1>1 DEF Descending
-----------------------------------------------------------------------------
(* A page. *)

\* A sequence given as a function.
LEMMA FunctionsAreSeqs ==
    ASSUME NEW S, NEW k \in Nat, NEW f \in [1 .. k -> S]
    PROVE  f \in Seq(S) /\ Len(f) = k /\ DOMAIN f = 1 .. k
  OBVIOUS

\* What a page shows of the items asked for, and what it leaves for the next.
PageShows(S, items) ==
    /\ items \in Seq(S)
    /\ \A i, j \in 1 .. Len(items) : i < j => Descending(items[i], items[j])
PageLeaves(S, items, more) ==
    \A x \in S : \/ \E i \in 1 .. Len(items) : items[i] = x
                 \/ more /\ Descending(Last(items), x)

\* The row that was fetched too many tells whether there is more.
LEMMA PagesAreCut ==
    ASSUME NEW S, NEW limit \in Nat \ {0}, NEW rows \in FirstOf(S, limit + 1),
           NEW items, items = Items(rows, limit)
    PROVE  /\ PageShows(S, items) /\ PageLeaves(S, items, Len(rows) > limit)
           /\ Len(rows) > limit => Len(items) = limit /\ Len(items) > 0
<1>1. /\ rows \in Seq(S) /\ Len(rows) \in 0 .. (limit + 1) /\ DOMAIN rows = 1 .. Len(rows)
      /\ \A i, j \in 1 .. Len(rows) : i < j => Descending(rows[i], rows[j])
      /\ \A x \in S : \/ \E i \in 1 .. Len(rows) : rows[i] = x
                      \/ /\ Len(rows) = limit + 1
                         /\ \A i \in 1 .. Len(rows) : Descending(rows[i], x)
  <2>1. PICK k \in 0 .. (limit + 1) : rows \in [1 .. k -> S]
    BY DEF FirstOf
  <2>2. k \in Nat /\ rows \in Seq(S) /\ Len(rows) = k /\ DOMAIN rows = 1 .. k
    BY <2>1, FunctionsAreSeqs
  <2> QED BY <2>1, <2>2 DEF FirstOf
<1>4. Len(rows) \in Nat /\ Len(rows) <= limit + 1 /\ limit \in Nat /\ limit > 0
  <2>1. Len(rows) \in 0 .. (limit + 1)
    BY <1>1
  <2> QED BY <2>1
<1>2. CASE Len(rows) > limit
  <2>1. Len(rows) = limit + 1
    BY <1>4, <1>2
  <2>2. items = SubSeq(rows, 1, limit)
    BY <1>2 DEF Items
  <2>3. /\ items \in Seq(S) /\ Len(items) = limit
        /\ \A i \in 1 .. limit : items[i] = rows[i]
    BY <1>1, <2>1, <2>2
  <2>4. Last(items) = rows[limit]
    BY <2>3 DEF Last
  <2>5. PageLeaves(S, items, Len(rows) > limit)
    <3> SUFFICES ASSUME NEW x \in S
                 PROVE  (\E i \in 1 .. limit : items[i] = x) \/ Descending(rows[limit], x)
      BY <2>1, <2>3, <2>4 DEF PageLeaves
    <3>1. ASSUME NEW i \in 1 .. Len(rows), rows[i] = x
          PROVE  (\E j \in 1 .. limit : items[j] = x) \/ Descending(rows[limit], x)
      <4>1. CASE i \in 1 .. limit
        BY <2>3, <3>1, <4>1
      <4>2. CASE i = limit + 1
        BY <1>1, <2>1, <3>1, <4>2
      <4> QED BY <2>1, <3>1, <4>1, <4>2
    <3> QED BY <1>1, <2>1, <3>1
  <2>6. PageShows(S, items)
    BY <1>1, <2>1, <2>3 DEF PageShows
  <2> QED BY <2>3, <2>5, <2>6
<1>3. CASE ~ (Len(rows) > limit)
  <2>1. items = rows
    BY <1>3 DEF Items
  <2>2. Len(rows) # limit + 1
    BY <1>3, <1>4
  <2>3. PageShows(S, items)
    BY <1>1, <2>1 DEF PageShows
  <2>4. PageLeaves(S, items, Len(rows) > limit)
    BY <1>1, <2>1, <2>2 DEF PageLeaves
  <2> QED BY <1>3, <2>3, <2>4
<1> QED BY <1>2, <1>3
-----------------------------------------------------------------------------
(* Turning a page. *)

\* The items that a page is cut from.
Found(w) == {Item(s) : s \in {s \in Sagas : Matches(s, w.actor, w.status)}}
Rest(w) == IF w.cursor = NoCursor THEN Found(w)
           ELSE {x \in Found(w) : Before(x, DecodeCursor(w.cursor))}

\* The walk after that page.
Turned(w, rows, limit) ==
    [w EXCEPT !.at = IF NextCursor(rows, limit) = NoCursor THEN "over" ELSE "open",
              !.cursor = NextCursor(rows, limit),
              !.seen = @ \o Items(rows, limit)]

\* They are items of the table, behind everything seen.
LEMMA RestIsListed ==
    ASSUME TableSound, NEW w, PagesSound(w), Ahead(w)
    PROVE  /\ Rest(w) \subseteq Listed(Sagas)
           /\ w.seen # << >> => \A x \in Rest(w) : Descending(Last(w.seen), x)
<1>1. Found(w) \subseteq Listed(Sagas)
  BY DEF Found, Listed, Matches
<1>2. Rest(w) \subseteq Found(w)
  BY DEF Rest
<1>3. ASSUME w.seen # << >>, NEW x \in Rest(w) PROVE Descending(Last(w.seen), x)
  <2>1. w.cursor = EncodeCursor(Last(w.seen))
    BY <1>3 DEF Ahead
  <2>2. Last(w.seen) \in Timed
    <3>1. w.seen \in Seq(Listed(Sagas)) /\ w.seen # << >>
      BY <1>3 DEF PagesSound
    <3>2. Last(w.seen) \in Listed(Sagas)
      BY <3>1 DEF Last
    <3> QED BY <3>2, ListedItems
  <2>3. w.cursor # NoCursor /\ DecodeCursor(w.cursor) = Last(w.seen)
    BY <2>1, <2>2, CursorsAreExact
  <2>4. Before(x, DecodeCursor(w.cursor))
    BY <1>3, <2>3 DEF Rest
  <2> QED BY <2>3, <2>4, DescendingIsBefore
<1> QED BY <1>1, <1>2, <1>3

\* What is owed and not yet shown is among them.
LEMMA OwedIsAhead ==
    ASSUME NEW w, PagesSound(w), Ahead(w), NEW s \in w.owed, ~ Shows(w, s)
    PROVE  s \in Sagas /\ Item(s) \in Rest(w)
<1>1. s \in Sagas /\ Item(s) \in Found(w)
  BY DEF PagesSound, Found
<1>2. CASE w.cursor = NoCursor
  BY <1>1, <1>2 DEF Rest
<1>3. CASE w.cursor # NoCursor
  <2>1. Descending(DecodeCursor(w.cursor), Item(s))
    BY <1>3 DEF Ahead
  <2>2. Before(Item(s), DecodeCursor(w.cursor))
    BY <2>1, DescendingIsBefore
  <2> QED BY <1>1, <1>3, <2>2 DEF Rest
<1> QED BY <1>2, <1>3

\* Two stretches of a walk, one behind the other.
LEMMA StretchesDescend ==
    ASSUME NEW S, S \subseteq Timed, NEW front \in Seq(S), NEW back \in Seq(S),
           \A i, j \in 1 .. Len(front) : i < j => Descending(front[i], front[j]),
           \A i, j \in 1 .. Len(back) : i < j => Descending(back[i], back[j]),
           front # << >> => \A j \in 1 .. Len(back) : Descending(Last(front), back[j])
    PROVE  \A i, j \in DOMAIN (front \o back) :
              i < j => Descending((front \o back)[i], (front \o back)[j])
<1> DEFINE whole == front \o back
           m == Len(front)
<1>1. m \in Nat /\ Len(back) \in Nat /\ DOMAIN whole = 1 .. (m + Len(back))
  OBVIOUS
<1>2. \A i \in 1 .. m : whole[i] = front[i]
  OBVIOUS
<1>3. \A i \in 1 .. Len(back) : whole[m + i] = back[i]
  OBVIOUS
<1> SUFFICES ASSUME NEW i \in 1 .. (m + Len(back)), NEW j \in 1 .. (m + Len(back)), i < j
             PROVE  Descending(whole[i], whole[j])
  BY <1>1
<1> HIDE DEF whole, m
<1>4. CASE j <= m
  <2>1. i \in 1 .. m /\ j \in 1 .. m
    BY <1>1, <1>4
  <2> QED BY <1>2, <2>1 DEF m
<1>5. CASE i > m
  <2>1. PICK a \in 1 .. Len(back), b \in 1 .. Len(back) : i = m + a /\ j = m + b /\ a < b
    <3>1. i - m \in 1 .. Len(back) /\ j - m \in 1 .. Len(back) /\ i - m < j - m
          /\ i = m + (i - m) /\ j = m + (j - m)
      BY <1>1, <1>5
    <3> QED BY <3>1
  <2> QED BY <1>3, <2>1
<1>6. CASE i <= m /\ j > m
  <2>1. i \in 1 .. m /\ m \in 1 .. m /\ front # << >>
    BY <1>1, <1>6 DEF m
  <2>2. PICK b \in 1 .. Len(back) : j = m + b
    <3>1. j - m \in 1 .. Len(back) /\ j = m + (j - m)
      BY <1>1, <1>6
    <3> QED BY <3>1
  <2>3. Descending(front[m], back[b])
    BY <2>1 DEF Last, m
  <2>4. i = m \/ Descending(front[i], front[m])
    <3>1. CASE i = m
      BY <3>1
    <3>2. CASE i # m
      <4>1. i < m
        BY <1>1, <2>1, <3>2
      <4> QED BY <2>1, <4>1 DEF m
    <3> QED BY <3>1, <3>2
  <2>5. front[i] \in Timed /\ front[m] \in Timed /\ back[b] \in Timed
    BY <2>1 DEF m
  <2>6. Descending(front[i], back[b])
    BY <2>3, <2>4, <2>5, DescendingIsTransitive
  <2> QED BY <1>2, <1>3, <2>1, <2>2, <2>6
<1> QED BY <1>1, <1>4, <1>5, <1>6

\* A walk in a set of records with one value each is that record.
Walks(at, actor, status, cursor, seen, owed) ==
    [at : {at}, actor : {actor}, status : {status}, cursor : {cursor}, seen : {seen}, owed : {owed}]
LEMMA WalksAreRecords ==
    ASSUME NEW at, NEW actor, NEW status, NEW cursor, NEW seen, NEW owed, NEW w
    PROVE  w \in Walks(at, actor, status, cursor, seen, owed)
              <=> w = [at |-> at, actor |-> actor, status |-> status,
                       cursor |-> cursor, seen |-> seen, owed |-> owed]
  BY DEF Walks

\* The fields of the walk after a page.
LEMMA TurnedWalks ==
    ASSUME NEW w, IsWalk(w), NEW rows, NEW limit
    PROVE  Turned(w, rows, limit) =
              [at |-> IF NextCursor(rows, limit) = NoCursor THEN "over" ELSE "open",
               actor |-> w.actor, status |-> w.status, cursor |-> NextCursor(rows, limit),
               seen |-> w.seen \o Items(rows, limit), owed |-> w.owed]
<1>1. ASSUME NEW at, NEW cursor, NEW seen
      PROVE  [w EXCEPT !.at = at, !.cursor = cursor, !.seen = seen]
             \in Walks(at, w.actor, w.status, cursor, seen, w.owed)
  <2>1. w \in Walks(w.at, w.actor, w.status, w.cursor, w.seen, w.owed)
    BY WalksAreRecords DEF IsWalk
  <2> QED BY <2>1 DEF Walks
<1>2. ASSUME NEW at, at = (IF NextCursor(rows, limit) = NoCursor THEN "over" ELSE "open"),
             NEW cursor, cursor = NextCursor(rows, limit),
             NEW seen, seen = w.seen \o Items(rows, limit)
      PROVE  Turned(w, rows, limit) = [at |-> at, actor |-> w.actor, status |-> w.status,
                                       cursor |-> cursor, seen |-> seen, owed |-> w.owed]
  <2>1. Turned(w, rows, limit) = [w EXCEPT !.at = at, !.cursor = cursor, !.seen = seen]
    BY <1>2, Zenon DEF Turned
  <2>2. Turned(w, rows, limit) \in Walks(at, w.actor, w.status, cursor, seen, w.owed)
    BY <1>1, <2>1
  <2> QED BY <2>2, WalksAreRecords
<1> QED BY <1>2, Zenon

\* Turning a page keeps a walk sound, whatever the page size.
LEMMA TurningIsSound ==
    ASSUME TableSound, NEW w, IsWalk(w), PagesSound(w), Ahead(w),
           NEW limit \in Limits, NEW rows \in FirstOf(Rest(w), limit + 1)
    PROVE  WalkSound(Turned(w, rows, limit))
<1> DEFINE items == Items(rows, limit)
           v == Turned(w, rows, limit)
           more == Len(rows) > limit
<1>1. limit \in Nat \ {0}
  BY LimitsAssumption
<1>2. /\ Rest(w) \subseteq Listed(Sagas)
      /\ w.seen # << >> => \A x \in Rest(w) : Descending(Last(w.seen), x)
  BY RestIsListed
<1>3. /\ PageShows(Rest(w), items) /\ PageLeaves(Rest(w), items, more)
      /\ more => Len(items) = limit /\ Len(items) > 0
  BY <1>1, PagesAreCut
<1>4. /\ items \in Seq(Listed(Sagas)) /\ \A j \in 1 .. Len(items) : items[j] \in Rest(w)
      /\ \A i, j \in 1 .. Len(items) : i < j => Descending(items[i], items[j])
  <2>1. items \in Seq(Rest(w))
    BY <1>3 DEF PageShows
  <2>2. \A j \in 1 .. Len(items) : items[j] \in Rest(w)
    BY <2>1
  <2>3. items \in Seq(Listed(Sagas))
    BY <1>2, <2>1
  <2> QED BY <1>3, <2>2, <2>3 DEF PageShows
<1>5. Listed(Sagas) \subseteq Timed
  BY ListedItems
<1>6. more => /\ items # << >> /\ Last(items) = items[limit] /\ Last(items) \in Timed
  <2> SUFFICES ASSUME more PROVE items # << >> /\ Last(items) = items[limit] /\ Last(items) \in Timed
    OBVIOUS
  <2>1. Len(items) = limit /\ limit \in 1 .. Len(items)
    BY <1>1, <1>3
  <2>2. items # << >> /\ Last(items) = items[limit]
    BY <1>4, <2>1 DEF Last
  <2>3. items[limit] \in Listed(Sagas)
    BY <1>4, <2>1
  <2> QED BY <1>5, <2>2, <2>3
<1>7. /\ NextCursor(rows, limit) = IF more THEN EncodeCursor(items[limit]) ELSE NoCursor
      /\ more => EncodeCursor(items[limit]) # NoCursor
                 /\ DecodeCursor(EncodeCursor(items[limit])) = Last(items)
  BY <1>6, CursorsAreExact DEF NextCursor
<1>18. (NextCursor(rows, limit) = NoCursor) <=> ~ more
  BY <1>7
<1>8. v = [at |-> IF more THEN "open" ELSE "over", actor |-> w.actor, status |-> w.status,
           cursor |-> NextCursor(rows, limit), seen |-> w.seen \o items, owed |-> w.owed]
  BY <1>18, TurnedWalks
<1> HIDE DEF items, v
<1>9. w.seen \in Seq(Listed(Sagas)) /\ DOMAIN w.seen = 1 .. Len(w.seen) /\ Len(w.seen) \in Nat
  BY DEF PagesSound
<1>10. PagesSound(v)
  <2>1. v.seen \in Seq(Listed(Sagas))
    BY <1>4, <1>8, <1>9
  <2>2. \A i, j \in DOMAIN (w.seen \o items) : i < j => Descending((w.seen \o items)[i], (w.seen \o items)[j])
    <3>1. \A i, j \in 1 .. Len(w.seen) : i < j => Descending(w.seen[i], w.seen[j])
      BY <1>9 DEF PagesSound
    <3>2. w.seen # << >> => \A j \in 1 .. Len(items) : Descending(Last(w.seen), items[j])
      BY <1>2, <1>4
    <3> QED BY <1>4, <1>5, <1>9, <3>1, <3>2, StretchesDescend
  <2>3. \A s \in v.owed : s \in Sagas /\ Matches(s, v.actor, v.status)
    BY <1>8 DEF PagesSound
  <2> QED BY <1>8, <2>1, <2>2, <2>3 DEF PagesSound
<1>11. \A i \in DOMAIN w.seen : i \in DOMAIN v.seen /\ v.seen[i] = w.seen[i]
  BY <1>4, <1>8, <1>9
<1>12. \A i \in 1 .. Len(items) : \E k \in DOMAIN v.seen : v.seen[k] = items[i]
  <2> SUFFICES ASSUME NEW i \in 1 .. Len(items)
               PROVE  /\ Len(w.seen) + i \in DOMAIN (w.seen \o items)
                      /\ (w.seen \o items)[Len(w.seen) + i] = items[i]
    BY <1>8
  <2> QED BY <1>4, <1>9
<1>13. \A s \in v.owed : Shows(v, s) \/ (more /\ Descending(Last(items), Item(s)))
  <2> SUFFICES ASSUME NEW s \in w.owed
               PROVE  Shows(v, s) \/ (more /\ Descending(Last(items), Item(s)))
    BY <1>8
  <2>1. CASE Shows(w, s)
    BY <1>11, <2>1 DEF Shows
  <2>2. CASE ~ Shows(w, s)
    <3>1. Item(s) \in Rest(w)
      BY <2>2, OwedIsAhead
    <3>2. (\E i \in 1 .. Len(items) : items[i] = Item(s))
          \/ (more /\ Descending(Last(items), Item(s)))
      BY <1>3, <3>1 DEF PageLeaves
    <3>3. ASSUME NEW i \in 1 .. Len(items), items[i] = Item(s) PROVE Shows(v, s)
      <4>1. PICK k \in DOMAIN v.seen : v.seen[k] = Item(s)
        BY <1>12, <3>3
      <4>2. v.seen[k].provisioning_id = s
        BY <4>1 DEF Item
      <4> QED BY <4>2 DEF Shows
    <3> QED BY <3>2, <3>3
  <2> QED BY <2>1, <2>2
<1>14. more => /\ v.seen # << >> /\ Last(v.seen) = Last(items)
  <2> SUFFICES ASSUME more PROVE v.seen # << >> /\ Last(v.seen) = Last(items)
    OBVIOUS
  <2>1. /\ Len(v.seen) = Len(w.seen) + Len(items) /\ Len(items) \in Nat \ {0}
        /\ v.seen = w.seen \o items
    BY <1>3, <1>4, <1>8, <1>9
  <2>2. (w.seen \o items)[Len(w.seen) + Len(items)] = items[Len(items)]
    BY <1>4, <1>9, <2>1
  <2>3. v.seen # << >>
    BY <1>4, <1>9, <2>1
  <2> QED BY <2>1, <2>2, <2>3 DEF Last
<1>15. IsWalk(v) /\ v.at = (IF more THEN "open" ELSE "over") /\ v.cursor = NextCursor(rows, limit)
  BY <1>8 DEF IsWalk
<1>16. CASE more
  <2>1. v.at = "open" /\ v.cursor = EncodeCursor(Last(v.seen))
    BY <1>6, <1>7, <1>14, <1>15, <1>16
  <2>2. DecodeCursor(v.cursor) = Last(items)
    BY <1>7, <1>15, <1>16
  <2>3. Ahead(v)
    BY <1>13, <1>14, <1>16, <2>1, <2>2 DEF Ahead
  <2>4. v.seen # << >>
    BY <1>14, <1>16
  <2>5. WalkSound(v)
    BY <1>10, <1>15, <2>1, <2>3, <2>4 DEF WalkSound
  <2> QED BY <2>5 DEF v
<1>17. CASE ~ more
  <2>1. v.at = "over" /\ \A s \in v.owed : Shows(v, s)
    BY <1>13, <1>15, <1>17
  <2>2. WalkSound(v)
    BY <1>10, <1>15, <2>1 DEF WalkSound
  <2> QED BY <2>2 DEF v
<1> QED BY <1>16, <1>17
-----------------------------------------------------------------------------
(* The client's steps. *)

\* A step of the client alone keeps the table.
LEMMA WalkStep ==
    ASSUME ListingInvariant, UNCHANGED <<work, shown, now, begun, row>>, WalkSound(walk')
    PROVE  ListingInvariant'
<1>1. TableSound'
  BY DEF ListingInvariant, TableSound, Absent
<1>2. WalkSound(walk)'
  BY DEF WalkSound, IsWalk, PagesSound, Ahead, Shows, Listed, Item, Matches
<1> QED BY <1>1, <1>2 DEF ListingInvariant

\* A page that was listed is a walk turned.
LEMMA ListTurns ==
    ASSUME TableSound, NEW w, IsWalk(w), PagesSound(w), Ahead(w), NEW limit \in Limits,
           List(w, limit)
    PROVE  WalkSound(walk')
<1>1. Fetch(w, limit + 1) = FirstOf(Rest(w), limit + 1)
  BY DEF Fetch, Rest, Found
<1>2. PICK rows \in FirstOf(Rest(w), limit + 1) : walk' = Turned(w, rows, limit)
  BY <1>1 DEF List, Turned
<1> QED BY <1>2, TurningIsSound

\* No walk is a walk.
LEMMA NoWalkIsSound == IsWalk(NoWalk) /\ WalkSound(NoWalk)
<1>1. IsWalk(NoWalk)
  BY DEF IsWalk, NoWalk
<1>2. NoWalk.seen = << >> /\ NoWalk.owed = {} /\ NoWalk.at = "closed"
  BY DEF NoWalk
<1>3. PagesSound(NoWalk)
  BY <1>2 DEF PagesSound
<1> QED BY <1>1, <1>2, <1>3 DEF WalkSound

\* The first page of a walk.
LEMMA FirstPageStep ==
    ASSUME ListingInvariant, NEW a \in Actors, NEW f \in Filters, NEW n \in Limits,
           FirstPage(a, f, n)
    PROVE  ListingInvariant'
<1>1. ASSUME NEW owed, owed = {s \in Sagas : Matches(s, a, f)},
             NEW w, w = [NoWalk EXCEPT !.actor = a, !.status = f, !.owed = owed]
      PROVE  IsWalk(w) /\ PagesSound(w) /\ Ahead(w)
  <2>1. NoWalk \in Walks("closed", "none", AnyStatus, NoCursor, << >>, {})
    BY WalksAreRecords DEF NoWalk
  <2>2. w \in Walks("closed", a, f, NoCursor, << >>, owed)
    BY <1>1, <2>1 DEF Walks
  <2>3. w = [at |-> "closed", actor |-> a, status |-> f,
             cursor |-> NoCursor, seen |-> << >>, owed |-> owed]
    BY <2>2, WalksAreRecords
  <2>4. w.actor = a /\ w.status = f /\ w.cursor = NoCursor /\ w.seen = << >> /\ w.owed = owed
    BY <2>3
  <2>5. IsWalk(w)
    BY <2>3 DEF IsWalk
  <2>6. PagesSound(w)
    <3>1. w.seen \in Seq(Listed(Sagas)) /\ DOMAIN w.seen = {}
      BY <2>4
    <3>2. \A s \in w.owed : s \in Sagas /\ Matches(s, w.actor, w.status)
      BY <1>1, <2>4
    <3> QED BY <3>1, <3>2 DEF PagesSound
  <2> QED BY <2>4, <2>5, <2>6 DEF Ahead
<1>2. WalkSound(walk')
  BY <1>1, ListTurns DEF FirstPage, ListingInvariant
<1> QED BY <1>2, WalkStep DEF FirstPage

\* The next page of a walk.
LEMMA NextPageStep ==
    ASSUME ListingInvariant, NEW n \in Limits, NextPage(n)
    PROVE  ListingInvariant'
<1>1. IsWalk(walk) /\ PagesSound(walk) /\ Ahead(walk)
  BY DEF ListingInvariant, WalkSound, NextPage
<1>2. WalkSound(walk')
  BY <1>1, ListTurns DEF NextPage, ListingInvariant
<1> QED BY <1>2, WalkStep DEF NextPage

\* A client that leaves its walk.
LEMMA LeaveStep == ASSUME ListingInvariant, Leave PROVE ListingInvariant'
<1>1. WalkSound(walk')
  BY NoWalkIsSound DEF Leave
<1> QED BY <1>1, WalkStep DEF Leave
-----------------------------------------------------------------------------
(* The sagas' steps. *)

\* A saga that exists has a status.
LEMMA StatusIsPresent ==
    ASSUME NEW w, w.phase # "none" PROVE Status(w) # "absent"
  BY DEF Status

\* What goes on outside the committed rows does not reach a walk.
LEMMA ClockStep ==
    ASSUME ListingInvariant, UNCHANGED <<work, shown, row, walk>>,
           now' \in Micros, begun' \in [Sagas -> Rows]
    PROVE  ListingInvariant'
<1>1. TableSound'
  BY DEF ListingInvariant, TableSound, Absent
<1>2. WalkSound(walk)'
  BY DEF ListingInvariant, WalkSound, IsWalk, PagesSound, Ahead, Shows, Listed, Item, Matches
<1> QED BY <1>1, <1>2 DEF ListingInvariant

\* A start begins, fails, or time passes.
LEMMA BeginStartStep ==
    ASSUME ListingInvariant, NEW s \in Sagas, NEW a \in Actors, BeginStart(s, a)
    PROVE  ListingInvariant'
<1>1. [requested_by |-> a, created_at |-> now] \in Rows
  BY DEF ListingInvariant, TableSound, Rows
<1>2. begun' \in [Sagas -> Rows] /\ now' \in Micros
  BY <1>1 DEF BeginStart, ListingInvariant, TableSound
<1> QED BY <1>2, ClockStep DEF BeginStart

LEMMA AbortStartStep ==
    ASSUME ListingInvariant, NEW s \in Sagas, AbortStart(s) PROVE ListingInvariant'
<1>1. NoRow \in Rows
  BY DEF NoRow, Rows, Micros, Micro
<1>2. begun' \in [Sagas -> Rows] /\ now' \in Micros
  BY <1>1 DEF AbortStart, ListingInvariant, TableSound
<1> QED BY <1>2, ClockStep DEF AbortStart

LEMMA TickStep == ASSUME ListingInvariant, Tick PROVE ListingInvariant'
<1>1. begun' \in [Sagas -> Rows] /\ now' \in Micros
  BY TicksAreMicros DEF Tick, ListingInvariant, TableSound
<1> QED BY <1>1, ClockStep DEF Tick

\* A saga that appears, or moves on, takes only itself from what a walk is
\* owed, adds itself only ahead of the cursor, and changes no item that was shown.
LEMMA MoveStep ==
    ASSUME ListingInvariant, NEW s \in Sagas, NEW w \in Work, w.phase # "none",
           NEW r, Move(s, w, r), row'[s] = r,
           \A t \in Sagas : shown[t] # "absent" => row'[t] = row[t],
           row' \in [Sagas -> Rows], begun' \in [Sagas -> Rows], now' = now
    PROVE  ListingInvariant'
<1>1. /\ work' = [work EXCEPT ![s] = w] /\ shown' = [shown EXCEPT ![s] = Status(w)]
      /\ Status(w) # "absent"
  BY StatusIsPresent DEF Move
<1>2. work \in [Sagas -> Work] /\ DOMAIN shown = Sagas /\ now \in Micros
      /\ \A t \in Sagas : Absent(t) \/ (work[t].phase # "none" /\ shown[t] # "absent")
  BY DEF ListingInvariant, TableSound
<1>3. /\ \A t \in Sagas : work'[t] = IF t = s THEN w ELSE work[t]
      /\ \A t \in Sagas : shown'[t] = IF t = s THEN Status(w) ELSE shown[t]
      /\ work' \in [Sagas -> Work] /\ DOMAIN shown' = Sagas
  <2>1. \A t \in Sagas : shown'[t] = IF t = s THEN Status(w) ELSE shown[t]
    BY <1>1, <1>2
  <2>2. work' \in [Sagas -> Work] /\ \A t \in Sagas : work'[t] = IF t = s THEN w ELSE work[t]
    BY <1>1, <1>2
  <2>3. DOMAIN shown' = Sagas
    BY <1>1, <1>2
  <2> QED BY <2>1, <2>2, <2>3
<1>4. TableSound'
  <2>1. \A t \in Sagas : Absent(t)' \/ (work'[t].phase # "none" /\ shown'[t] # "absent")
    BY <1>1, <1>2, <1>3 DEF Absent
  <2> QED BY <1>2, <1>3, <2>1 DEF TableSound
<1>5. ASSUME NEW t \in Sagas, shown[t] # "absent"
      PROVE  Item(t)' = Item(t) /\ shown'[t] # "absent" /\ row'[t] = row[t]
  BY <1>1, <1>3, <1>5 DEF Item
<1>6. Listed(Sagas) \subseteq Listed(Sagas)'
  BY <1>5 DEF Listed
<1>7. IsWalk(walk) /\ WalkSound(walk)
  BY DEF ListingInvariant, WalkSound
<1> DEFINE owed == IF r.requested_by # walk.actor \/ walk.status \notin {AnyStatus, Status(w)}
                   THEN walk.owed \ {s}
                   ELSE IF Passed([provisioning_id |-> s, created_at |-> r.created_at])
                   THEN walk.owed ELSE walk.owed \cup {s}
<1> HIDE DEF owed
<1>8. walk' = [at |-> walk.at, actor |-> walk.actor, status |-> walk.status,
               cursor |-> walk.cursor, seen |-> walk.seen, owed |-> owed]
  <2>1. walk' = [walk EXCEPT !.owed = owed]
    BY DEF owed, Move
  <2>2. walk \in Walks(walk.at, walk.actor, walk.status, walk.cursor, walk.seen, walk.owed)
    BY <1>7, WalksAreRecords DEF IsWalk
  <2>3. walk' \in Walks(walk.at, walk.actor, walk.status, walk.cursor, walk.seen, owed)
    BY <2>1, <2>2 DEF Walks
  <2> QED BY <2>3, WalksAreRecords
<1>9. /\ walk'.at = walk.at /\ walk'.actor = walk.actor /\ walk'.status = walk.status
      /\ walk'.cursor = walk.cursor /\ walk'.seen = walk.seen /\ walk'.owed = owed
  BY <1>8
<1>10. /\ owed \subseteq walk.owed \cup {s}
       /\ s \in owed => r.requested_by = walk.actor /\ walk.status \in {AnyStatus, Status(w)}
       /\ s \in owed \ walk.owed =>
             walk.at = "open" /\ Descending(DecodeCursor(walk.cursor), Item(s)')
  <2>1. Item(s)' = [provisioning_id |-> s, created_at |-> r.created_at]
    BY DEF Item
  <2> QED BY <2>1 DEF owed, Passed
<1>11. ASSUME NEW t \in walk.owed
       PROVE  /\ t \in Sagas /\ shown[t] # "absent" /\ row[t].requested_by = walk.actor
              /\ walk.status \in {AnyStatus, shown[t]}
  BY <1>7, <1>11 DEF WalkSound, PagesSound, Matches
<1>18. ASSUME NEW t \in owed PROVE t \in Sagas /\ Matches(t, walk.actor, walk.status)'
  <2>1. CASE t = s
    <3>1. shown'[s] = Status(w) /\ r.requested_by = walk.actor
          /\ walk.status \in {AnyStatus, Status(w)}
      BY <1>3, <1>10, <1>18, <2>1
    <3> QED BY <1>1, <1>9, <2>1, <3>1 DEF Matches
  <2>2. CASE t # s
    <3>1. t \in walk.owed
      BY <1>10, <1>18, <2>2
    <3>2. t \in Sagas /\ shown[t] # "absent" /\ row[t].requested_by = walk.actor
          /\ walk.status \in {AnyStatus, shown[t]}
      BY <1>11, <3>1
    <3>3. shown'[t] = shown[t] /\ row'[t] = row[t]
      BY <1>3, <1>5, <2>2, <3>2
    <3> QED BY <1>9, <3>2, <3>3 DEF Matches
  <2> QED BY <2>1, <2>2
<1>12. PagesSound(walk)'
  <2>1. walk'.seen \in Seq(Listed(Sagas)')
    <3>1. walk.seen \in Seq(Listed(Sagas))
      BY <1>7 DEF WalkSound, PagesSound
    <3> QED BY <1>6, <1>9, <3>1
  <2>2. \A i, j \in DOMAIN walk'.seen : i < j => Descending(walk'.seen[i], walk'.seen[j])
    BY <1>7, <1>9 DEF WalkSound, PagesSound
  <2> QED BY <1>9, <1>18, <2>1, <2>2 DEF PagesSound
<1>13. \A t \in Sagas : Shows(walk, t)' <=> Shows(walk, t)
  BY <1>9 DEF Shows
<1>14. Ahead(walk) /\ walk.at = "open" /\ walk.seen # << >> => Ahead(walk)'
  <2> SUFFICES ASSUME walk.seen # << >>, walk.cursor = EncodeCursor(Last(walk.seen)),
                      \A t \in walk.owed : \/ Shows(walk, t)
                                           \/ Descending(DecodeCursor(walk.cursor), Item(t)),
                      NEW t \in owed
               PROVE  Shows(walk, t)' \/ Descending(DecodeCursor(walk'.cursor), Item(t)')
    BY <1>9 DEF Ahead
  <2>1. CASE t \in walk.owed
    <3>1. Item(t)' = Item(t)
      BY <1>5, <1>11, <2>1
    <3> QED BY <1>9, <1>11, <1>13, <2>1, <3>1
  <2>2. CASE t \notin walk.owed
    BY <1>9, <1>10, <2>2
  <2> QED BY <2>1, <2>2
<1>15. IsWalk(walk)'
  BY <1>8, <1>9 DEF IsWalk
<1>16. walk'.at = "closed" => walk' = NoWalk
  <2> SUFFICES ASSUME walk.at = "closed" PROVE walk' = NoWalk
    BY <1>9
  <2>1. walk = NoWalk
    BY <1>7 DEF WalkSound
  <2>2. owed = {}
    BY <1>10, <2>1 DEF NoWalk
  <2> QED BY <1>8, <2>1, <2>2 DEF NoWalk
<1>17. WalkSound(walk)'
  <2>1. walk'.at = "open" => walk'.seen # << >> /\ Ahead(walk)'
    BY <1>7, <1>9, <1>14 DEF WalkSound
  <2>2. walk'.at \notin {"closed", "open"} => \A t \in walk'.owed : Shows(walk, t)'
    BY <1>7, <1>9, <1>10, <1>11, <1>13 DEF WalkSound
  <2> QED BY <1>12, <1>15, <1>16, <2>1, <2>2 DEF WalkSound
<1> QED BY <1>4, <1>17 DEF ListingInvariant

\* A start commits: the row appears under the time at which it began.
LEMMA CommitStartStep ==
    ASSUME ListingInvariant, NEW s \in Sagas, CommitStart(s) PROVE ListingInvariant'
<1>1. PICK w \in Work : Start(work[s], w) /\ Move(s, w, begun[s])
  BY DEF CommitStart
<1>2. w.phase # "none" /\ work[s] = Nothing
  BY <1>1 DEF Start, Nothing
<1>3. shown[s] = "absent"
  BY <1>2 DEF ListingInvariant, TableSound, Absent, Nothing
<1>4. begun[s] \in Rows /\ NoRow \in Rows
  BY DEF ListingInvariant, TableSound, NoRow, Rows, Micros, Micro
<1>5. begun' = [begun EXCEPT ![s] = NoRow] /\ row' = [row EXCEPT ![s] = begun[s]] /\ now' = now
  BY DEF CommitStart
<1>6. row \in [Sagas -> Rows] /\ begun \in [Sagas -> Rows]
  BY DEF ListingInvariant, TableSound
<1>7. row' \in [Sagas -> Rows] /\ begun' \in [Sagas -> Rows]
  BY <1>4, <1>5, <1>6
<1>8. row'[s] = begun[s] /\ \A t \in Sagas : shown[t] # "absent" => row'[t] = row[t]
  BY <1>3, <1>5, <1>6
<1> QED BY <1>1, <1>2, <1>5, <1>7, <1>8, MoveStep

\* No step takes a saga away.
LEMMA StepsStay ==
    ASSUME NEW v \in Work, v.phase # "none", NEW w, Step(v, w) PROVE w.phase # "none"
<1>1. CASE Start(v, w)
  BY <1>1 DEF Start, Nothing
<1>2. CASE Claim(v, w)
  BY <1>2 DEF Claim, Work
<1>3. CASE Settle(v, w) \/ Reject(v, w) \/ Lose(v, w) \/ Reopen(v, w)
  BY <1>3 DEF Settle, Reject, Lose, Reopen, Work
<1>4. CASE RequestCleanup(v, w)
  BY <1>4 DEF RequestCleanup
<1> QED BY <1>1, <1>2, <1>3, <1>4 DEF Step

LEMMA AdvanceStep ==
    ASSUME ListingInvariant, NEW s \in Sagas, Advance(s) PROVE ListingInvariant'
<1>1. PICK w \in Work : Step(work[s], w) /\ Move(s, w, row[s])
  BY DEF Advance
<1>2. work[s] \in Work /\ work[s].phase # "none"
  BY DEF ListingInvariant, TableSound, Absent, Advance
<1>3. w.phase # "none"
  BY <1>1, <1>2, StepsStay
<1>4. row' = row /\ row' \in [Sagas -> Rows] /\ begun' \in [Sagas -> Rows] /\ now' = now
  BY DEF ListingInvariant, TableSound, Advance
<1> QED BY <1>1, <1>3, <1>4, MoveStep-----------------------------------------------------------------------------
(* Every listing. *)

\* It holds at the start and is kept by every step.
LEMMA ListingInvariance == ListingSpec => []ListingInvariant
<1>1. ListingInit => ListingInvariant
  <2> SUFFICES ASSUME ListingInit PROVE ListingInvariant
    OBVIOUS
  <2>1. NoRow \in Rows /\ Nothing \in Work /\ now \in Micros
    BY DEF ListingInit, NoRow, Rows, Micros, Micro, Nothing, Work, Opens, Parts
  <2>2. TableSound
    BY <2>1 DEF ListingInit, Init, TableSound, Absent
  <2> QED BY <2>2, NoWalkIsSound DEF ListingInit, ListingInvariant
<1>2. ListingInvariant /\ [ListingNext]_listingvars => ListingInvariant'
  <2> SUFFICES ASSUME ListingInvariant, [ListingNext]_listingvars PROVE ListingInvariant'
    OBVIOUS
  <2>1. ASSUME NEW s \in Sagas, NEW a \in Actors, BeginStart(s, a) PROVE ListingInvariant'
    BY <2>1, BeginStartStep
  <2>2. ASSUME NEW s \in Sagas, CommitStart(s) PROVE ListingInvariant'
    BY <2>2, CommitStartStep
  <2>3. ASSUME NEW s \in Sagas, AbortStart(s) PROVE ListingInvariant'
    BY <2>3, AbortStartStep
  <2>4. ASSUME NEW s \in Sagas, Advance(s) PROVE ListingInvariant'
    BY <2>4, AdvanceStep
  <2>5. ASSUME NEW a \in Actors, NEW f \in Filters, NEW n \in Limits, FirstPage(a, f, n)
        PROVE  ListingInvariant'
    BY <2>5, FirstPageStep
  <2>6. ASSUME NEW n \in Limits, NextPage(n) PROVE ListingInvariant'
    BY <2>6, NextPageStep
  <2>7. CASE Leave
    BY <2>7, LeaveStep
  <2>8. CASE Tick
    BY <2>8, TickStep
  <2>9. CASE UNCHANGED listingvars
    <3>1. UNCHANGED <<work, shown, now, begun, row, walk>>
      BY <2>9 DEF listingvars
    <3>2. WalkSound(walk')
      BY <3>1 DEF ListingInvariant
    <3> QED BY <3>1, <3>2, WalkStep
  <2> QED BY <2>1, <2>2, <2>3, <2>4, <2>5, <2>6, <2>7, <2>8, <2>9 DEF ListingNext
<1> QED BY <1>1, <1>2, PTL DEF ListingSpec

\* No saga is shown twice on the pages of one walk, nor after one created
\* before it, whatever list is asked for and whatever happens meanwhile.
THEOREM Paging == ListingSpec => []PagesDescend
<1>1. ListingInvariant => PagesDescend
  BY DEF ListingInvariant, WalkSound, PagesSound, PagesDescend
<1> QED BY <1>1, ListingInvariance, PTL

\* A walk that is over has shown everything that has matched ever since its
\* place was still to come, and one that is open has it ahead of its cursor.
THEOREM Completeness == ListingSpec => []NothingOwedIsSkipped
<1>1. ListingInvariant => NothingOwedIsSkipped
  <2> SUFFICES ASSUME ListingInvariant, NEW s \in walk.owed
               PROVE  \/ Shows(walk, s)
                      \/ walk.at = "open" /\ Descending(DecodeCursor(walk.cursor), Item(s))
    BY DEF NothingOwedIsSkipped, Shows
  <2>1. CASE walk.at = "open"
    BY <2>1 DEF ListingInvariant, WalkSound, Ahead
  <2>2. CASE walk.at = "closed"
    BY <2>2 DEF ListingInvariant, WalkSound, NoWalk
  <2>3. CASE walk.at \notin {"closed", "open"}
    BY <2>3 DEF ListingInvariant, WalkSound
  <2> QED BY <2>1, <2>2, <2>3
<1> QED BY <1>1, ListingInvariance, PTL
=============================================================================
