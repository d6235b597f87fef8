------------------------------ MODULE RowLocks ------------------------------
(***************************************************************************)
(* claim_next and quarantine_expired statement by statement, as PostgreSQL *)
(* runs them under READ COMMITTED.  Each statement reads the rows committed*)
(* when it starts.  SELECT ... FOR UPDATE OF p SKIP LOCKED finds its saga  *)
(* in that snapshot, passes over a row another transaction holds, and when *)
(* the row has changed since, checks its conditions again: p in its newest *)
(* version, the rows of EXISTS still in the old one.                       *)
(*                                                                         *)
(* The variables of Storage are what is committed.  The transactions that  *)
(* first lock the saga they are given by its id read nothing before they   *)
(* hold it, so they stay single steps that wait for the row.  Insertions   *)
(* are blocked by no row.                                                  *)
(***************************************************************************)
EXTENDS Storage

CONSTANT Connections    \* database connections of the workers' pools

ASSUME ConnectionsAssumption == NULL \notin Connections
\* lib.rs accepts limits from 1 to 100.
ASSUME BatchLimitAssumption == BatchLimit \in Nat \ {0}

VARIABLES
    lock,    \* Sagas -> the connection whose transaction holds the row
    tx       \* Connections -> the transaction it is in

Operations == {"claim_next", "quarantine_expired"}
Points == {"idle", "next", "scanning", "locked", "disappeared", "ready"}

\* CURRENT_TIMESTAMP is the start of the transaction: the leases past by then.
Expired(s, e) == effect[s][e].state = "in_flight" /\ effect[s][e].lease_until = "past"
PastLeases == {<<d[1], d[2], effect[d[1]][d[2]].lease_token>> :
                  d \in {d \in Sagas \X Slots : Expired(d[1], d[2])}}
Idle == [op |-> NULL, at |-> "idle", past |-> {}, snapshot |-> NULL, row |-> NULL, found |-> <<>>]

Found(w) == DOMAIN tx[w].found

\* Mutant: the lease is not compared with the time.
ExpiredForInFlight(w, s, E) == {e \in Slots : E[e].state = "in_flight"}
ExpiredFor(w, s, E) ==
    {e \in Slots : E[e].state = "in_flight" /\ <<s, e, E[e].lease_token>> \in tx[w].past}

\* The conditions of the two saga queries, on the row p and the effects E.  A
\* transaction sees its own quarantined sagas as manual_review.
Qualifies(w, s, p, E) ==
    /\ s \notin Found(w)
    /\ CASE tx[w].op = "claim_next" -> Claimable(p, E)
         [] OTHER -> p.status \in {"running", "cleanup_running"} /\ ExpiredFor(w, s, E) # {}

\* Mutant: the changed row is not checked again.
RecheckNothing(w, s) == TRUE
Recheck(w, s) == Qualifies(w, s, saga[s], tx[w].snapshot.effect[s])

\* Mutant: a row held by another transaction is taken.
FreeAlways(s) == s \in Sagas
Free(s) == lock[s] = NULL
Unlocked(w) == [s \in Sagas |-> IF lock[s] = w THEN NULL ELSE lock[s]]
At(w, point) == tx' = [tx EXCEPT ![w].at = point]
-----------------------------------------------------------------------------
Begin(w, op) ==
    /\ tx[w].at = "idle"
    /\ tx' = [tx EXCEPT ![w] = [Idle EXCEPT !.op = op, !.at = "next",
                 !.past = IF op = "quarantine_expired" THEN PastLeases ELSE {}]]
    /\ UNCHANGED <<vars, lock>>

\* The saga query starts.
Scan(w) ==
    /\ tx[w].at = "next"
    /\ tx' = [tx EXCEPT ![w].at = "scanning", ![w].snapshot = [saga |-> saga, effect |-> effect]]
    /\ UNCHANGED <<vars, lock>>

LockRow(w, s) ==
    /\ tx[w].at = "scanning"
    /\ Qualifies(w, s, tx[w].snapshot.saga[s], tx[w].snapshot.effect[s])
    /\ Free(s)
    /\ Recheck(w, s)
    /\ lock' = [lock EXCEPT ![s] = w]
    /\ tx' = [tx EXCEPT ![w].at = "locked", ![w].row = s, ![w].snapshot = NULL]
    /\ UNCHANGED vars

\* No row is left to lock; rows held by others, operators included, are passed.
FindNone(w) ==
    /\ tx[w].at = "scanning"
    /\ tx' = [tx EXCEPT ![w].at = "ready", ![w].snapshot = NULL]
    /\ UNCHANGED <<vars, lock>>

\* The effect query, with a snapshot of its own.
EffectOf(w, e) ==
    LET s == tx[w].row
    IN  IF tx[w].op = "claim_next" THEN IsNext(saga[s], effect[s], e)
        ELSE e \in ExpiredFor(w, s, effect[s])

FindEffect(w) ==
    /\ tx[w].at = "locked"
    /\ \E e \in Slots :
          /\ EffectOf(w, e)
          /\ LET found == [s \in Found(w) \cup {tx[w].row} |->
                              IF s = tx[w].row THEN e ELSE tx[w].found[s]]
             IN tx' = [tx EXCEPT ![w].found = found, ![w].row = NULL,
                  ![w].at = IF /\ tx[w].op = "quarantine_expired"
                               /\ Cardinality(DOMAIN found) < BatchLimit
                            THEN "next" ELSE "ready"]
    /\ UNCHANGED <<vars, lock>>

\* fetch_one finds nothing, or quarantine_expired reports that the expired
\* effect disappeared while the saga was locked.
MissEffect(w) ==
    /\ tx[w].at = "locked"
    /\ \A e \in Slots : ~ EffectOf(w, e)
    /\ At(w, "disappeared")
    /\ UNCHANGED <<vars, lock>>

\* The updates become visible with the commit, which also releases the rows.
Commit(w) ==
    /\ tx[w].at = "ready"
    /\ IF tx[w].op = "quarantine_expired" THEN Quarantine(Found(w), tx[w].found)
       ELSE IF Found(w) = {} THEN UNCHANGED vars
       ELSE \E s \in Found(w) : Claim(s, tx[w].found[s])
    /\ lock' = Unlocked(w)
    /\ tx' = [tx EXCEPT ![w] = Idle]

\* An error, a lost connection or a dying worker: nothing was written.
Rollback(w) ==
    /\ tx[w].at # "idle"
    /\ lock' = Unlocked(w)
    /\ tx' = [tx EXCEPT ![w] = Idle]
    /\ UNCHANGED vars

\* The transactions that lock their saga first, and what happens outside.
Others ==
    /\ \/ \E s \in Sagas, a \in Actors, n \in 0 .. MaxGrants, k \in Keys : Start(s, a, n, k)
       \/ \E s \in {s \in Sagas : Free(s)}, a \in Actors, k \in Keys :
             \/ \E request \in Requests(s) : Retry(s, a, k, request)
             \/ \E expected \in 1 .. saga[s].revision : RequestCleanup(s, a, k, expected)
       \/ \E r \in {r \in held : Free(r.saga)} :
             \/ \E outcome \in Answers(r) : FinalizeEffect(r, outcome)
             \/ FinalizeSuperseded(r)
       \/ \E r \in held : WorkerLost(r)
       \/ \E s \in Sagas, e \in Slots : LeaseExpires(s, e)
    /\ UNCHANGED <<lock, tx>>

LockInit == Init /\ lock = [s \in Sagas |-> NULL] /\ tx = [w \in Connections |-> Idle]

LockNext ==
    \/ \E w \in Connections :
          \/ \E op \in Operations : Begin(w, op)
          \/ Scan(w)
          \/ \E s \in Sagas : LockRow(w, s)
          \/ FindNone(w) \/ FindEffect(w) \/ MissEffect(w) \/ Commit(w) \/ Rollback(w)
    \/ Others

LockSpec == LockInit /\ [][LockNext]_<<vars, lock, tx>>
-----------------------------------------------------------------------------
\* However the statements of claims, quarantines and the other transactions
\* interleave, what they commit is a step of Storage or nothing: no saga is
\* claimed twice, no effect out of order, none quarantined that was settled.
TransactionsAreAtomic == Spec

\* claim_next's second query is a fetch_one: with the saga locked there is
\* always an effect for it, although the saga was chosen by an old snapshot.
ClaimFindsEffect ==
    \A w \in Connections : tx[w].op = "claim_next" => tx[w].at # "disappeared"

\* storage.rs:719 takes it for granted that the expired effect cannot disappear
\* while the saga is locked, and reports stored data as invalid if it does.
QuarantineFindsEffect ==
    \A w \in Connections : tx[w].op = "quarantine_expired" => tx[w].at # "disappeared"
=============================================================================
