------------------------------ MODULE Listing ------------------------------
(***************************************************************************)
(* list, page by page, while sagas are started and move on.  A page is cut *)
(* by (created_at, provisioning_id), and created_at is the time at which   *)
(* the transaction of the start began: a saga may become visible long      *)
(* after it was created, and two may have been created in one tick.        *)
(*                                                                         *)
(* The sagas themselves are those of Lifecycle, which Storage implements.  *)
(* Their ids are numbers, drawn at random, so that any saga may take any.  *)
(***************************************************************************)
EXTENDS Lifecycle, Sequences, FiniteSets

CONSTANTS
    Actors,        \* the actors that start sagas and list them
    Filters,       \* the status filters asked for; AnyStatus asks for none
    Limits,        \* the page sizes asked for
    LastTick       \* bound: the clock stops there

ASSUME SagasAreOrdered == Sagas \subseteq Nat
ASSUME LimitsAssumption == Limits \subseteq 1 .. 100

VARIABLES
    now,      \* the database's clock, in nanoseconds
    begun,    \* Sagas -> the start transaction that is open
    row,      \* Sagas -> the columns of a committed saga that do not change
    walk      \* a client's way through the pages

listingvars == <<work, shown, now, begun, row, walk>>

AnyStatus == "any"
Micro == 1000    \* TIMESTAMPTZ counts microseconds
NoRow == [requested_by |-> "none", created_at |-> 0]
NoCursor == <<>>
NoWalk == [at |-> "closed", actor |-> "none", status |-> AnyStatus,
           cursor |-> NoCursor, seen |-> <<>>, owed |-> {}]

Item(s) == [provisioning_id |-> s, created_at |-> row[s].created_at]

-----------------------------------------------------------------------------
(* Cursors: "{created_at in microseconds}:{provisioning_id}". *)

EncodeCursor(item) == <<item.created_at \div Micro, item.provisioning_id>>
DecodeCursor(cursor) == [created_at |-> cursor[1] * Micro, provisioning_id |-> cursor[2]]

\* Mutant: the time alone, and not strictly.
BeforeOrAt(x, y) == x.created_at <= y.created_at
\* WHERE (created_at, provisioning_id) < the cursor; ORDER BY both, DESC.
Before(x, y) == \/ x.created_at < y.created_at
                \/ x.created_at = y.created_at /\ x.provisioning_id < y.provisioning_id
Descending(x, y) == \/ x.created_at > y.created_at
                    \/ x.created_at = y.created_at /\ x.provisioning_id > y.provisioning_id

Matches(s, actor, status) == /\ shown[s] # "absent"
                             /\ row[s].requested_by = actor
                             /\ status \in {AnyStatus, shown[s]}

\* ORDER BY ... LIMIT: the first of the items in S, in order, at most n of them.
FirstOf(S, n) ==
    {rows \in UNION {[1 .. k -> S] : k \in 0 .. n} :
        /\ \A i, j \in DOMAIN rows : i < j => Descending(rows[i], rows[j])
        /\ \A x \in S : \/ \E i \in DOMAIN rows : rows[i] = x
                        \/ Len(rows) = n /\ \A i \in DOMAIN rows : Descending(rows[i], x)}

Fetch(w, limit) ==
    LET found == {Item(s) : s \in {s \in Sagas : Matches(s, w.actor, w.status)}}
        rest == IF w.cursor = NoCursor THEN found
                ELSE {x \in found : Before(x, DecodeCursor(w.cursor))}
    IN  FirstOf(rest, limit)

Items(rows, limit) == IF Len(rows) > limit THEN SubSeq(rows, 1, limit) ELSE rows

\* Mutant: the cursor is that of the row fetched to see whether there is more.
NextCursorBeforeTruncation(rows, limit) ==
    IF Len(rows) > limit THEN EncodeCursor(rows[Len(rows)]) ELSE NoCursor
NextCursor(rows, limit) ==
    IF Len(rows) > limit THEN EncodeCursor(Items(rows, limit)[limit]) ELSE NoCursor

List(w, limit) ==
    \E rows \in Fetch(w, limit + 1) :
        walk' = [w EXCEPT !.at = IF NextCursor(rows, limit) = NoCursor THEN "over" ELSE "open",
                          !.cursor = NextCursor(rows, limit),
                          !.seen = @ \o Items(rows, limit)]
-----------------------------------------------------------------------------
(* A client. *)

FirstPage(actor, status, limit) ==
    /\ walk.at = "closed"
    /\ List([NoWalk EXCEPT !.actor = actor, !.status = status,
                           !.owed = {s \in Sagas : Matches(s, actor, status)}], limit)
    /\ UNCHANGED <<work, shown, now, begun, row>>

\* The page size may differ from page to page.
NextPage(limit) ==
    /\ walk.at = "open"
    /\ List(walk, limit)
    /\ UNCHANGED <<work, shown, now, begun, row>>

Leave == /\ walk.at # "closed"
         /\ walk' = NoWalk
         /\ UNCHANGED <<work, shown, now, begun, row>>
-----------------------------------------------------------------------------
(* Sagas. *)

BeginStart(s, actor) ==
    /\ shown[s] = "absent" /\ begun[s] = NoRow
    /\ begun' = [begun EXCEPT ![s] = [requested_by |-> actor, created_at |-> now]]
    /\ UNCHANGED <<work, shown, now, row, walk>>

\* No page to come can show x.
Passed(x) == walk.at # "open" \/ ~ Descending(DecodeCursor(walk.cursor), x)
\* A walk is owed what has matched ever since its place was still to come; r is
\* the row of s.
Move(s, w, r) ==
    /\ work' = [work EXCEPT ![s] = w]
    /\ shown' = [shown EXCEPT ![s] = Status(w)]
    /\ walk' = [walk EXCEPT !.owed =
                   IF r.requested_by # walk.actor \/ walk.status \notin {AnyStatus, Status(w)}
                   THEN @ \ {s}
                   ELSE IF Passed([provisioning_id |-> s, created_at |-> r.created_at]) THEN @
                   ELSE @ \cup {s}]

CommitStart(s) ==
    /\ begun[s] # NoRow
    /\ \E w \in Work : Start(work[s], w) /\ Move(s, w, begun[s])
    /\ row' = [row EXCEPT ![s] = begun[s]]
    /\ begun' = [begun EXCEPT ![s] = NoRow]
    /\ UNCHANGED now

\* The transaction fails, or its process dies.
AbortStart(s) ==
    /\ begun[s] # NoRow
    /\ begun' = [begun EXCEPT ![s] = NoRow]
    /\ UNCHANGED <<work, shown, now, row, walk>>

\* A worker's or an operator's transaction on one saga.
Advance(s) ==
    /\ shown[s] # "absent"
    /\ \E w \in Work : Step(work[s], w) /\ Move(s, w, row[s])
    /\ UNCHANGED <<now, begun, row>>

Tick == /\ now < LastTick * Micro
        /\ now' = now + Micro
        /\ UNCHANGED <<work, shown, begun, row, walk>>
-----------------------------------------------------------------------------
ListingInit == /\ Init
               /\ now = Micro
               /\ begun = [s \in Sagas |-> NoRow]
               /\ row = [s \in Sagas |-> NoRow]
               /\ walk = NoWalk

ListingNext ==
    \/ \E s \in Sagas : \/ \E a \in Actors : BeginStart(s, a)
                        \/ CommitStart(s) \/ AbortStart(s) \/ Advance(s)
    \/ \E a \in Actors, f \in Filters, n \in Limits : FirstPage(a, f, n)
    \/ \E n \in Limits : NextPage(n)
    \/ Leave \/ Tick

ListingSpec == ListingInit /\ [][ListingNext]_listingvars
-----------------------------------------------------------------------------
\* No saga is shown twice on the pages of one walk, and none after one that was
\* created before it, whatever is started and however statuses change between
\* two pages.
PagesDescend ==
    \A i, j \in DOMAIN walk.seen : i < j => Descending(walk.seen[i], walk.seen[j])

\* A walk that is over has shown every saga of its actor that was there when
\* it began, or came to match its filter before the cursor had passed its place,
\* and matched all the time since; until then what is owed is still ahead.  Only
\* a saga that came, by a late commit or a change of status, when the cursor had
\* passed its place may be missed.
NothingOwedIsSkipped ==
    \A s \in walk.owed :
        \/ \E i \in DOMAIN walk.seen : walk.seen[i].provisioning_id = s
        \/ walk.at = "open" /\ Descending(DecodeCursor(walk.cursor), Item(s))
=============================================================================
