------------------------------- MODULE Worker -------------------------------
(***************************************************************************)
(* process_due, the loop that drives the sagas of Storage: a batch         *)
(* quarantines what has expired, claims and executes effects one after the *)
(* other up to its limit, counts what became of them, and asks whether     *)
(* more is due.  Several workers run batches at the same time; a batch may *)
(* fail at any of its queries, and deactivate closes the pool under it.    *)
(*                                                                         *)
(* updated_at is kept as an order, which saga bears an earlier time than   *)
(* which; the time is the one at which the writing transaction began.      *)
(* Each transaction of Storage is a single step here (RowLocks has the     *)
(* statements), but a row may be held by another one that is still open:   *)
(* SKIP LOCKED passes over it, and everyone else waits for it.             *)
(***************************************************************************)
EXTENDS Storage

CONSTANTS
    Workers,       \* instances and threads that call process_due
    MaxMishaps     \* how many batches may fail, pools be closed and rows be held in one run

ASSUME BatchLimitAssumption == BatchLimit \in Nat \ {0}

VARIABLES
    batch,      \* Workers -> the batch that runs, if any
    prepared,   \* activate has left an open pool behind
    older,      \* updated_at: <<s, q>> when that of s is before that of q
    locked,     \* sagas whose row a transaction holds that is still open
    mishaps,    \* failures, deactivations and held rows so far
    overtaken,  \* history: claims [w][s][q] by w of q while s was due and free
    counted     \* history: the counters of all batches that have ended

loop == <<batch, prepared, older, locked>>
history == <<mishaps, overtaken, counted>>
workervars == <<vars, loop, history>>

NoCount == [claimed |-> 0, completed |-> 0, failed |-> 0, manual_review |-> 0, quarantined |-> 0]
NoBatch == [at |-> "idle", open |-> FALSE, record |-> NULL, count |-> NoCount]
Plus(m, n) == [x \in DOMAIN m |-> m[x] + n[x]]
Due(s) == Claimable(saga[s], effect[s])

Written == {s \in Sagas : saga[s].status # "absent"}
\* q bears a time after those of the sagas in B and before all others.
Place(q, B) ==
    older' = {p \in older : p[1] # q /\ p[2] # q} \cup (B \X {q})
             \cup {q} \X (Written \ (B \cup {q}))
Earlier(q) == {s \in Sagas : <<s, q>> \in older}

\* Mutant: updated_at keeps the time of the insertion.
StampedOnce(q, B) == IF q \in Written THEN UNCHANGED older ELSE Place(q, Written)
\* A transaction that writes q and began after the sagas in B were written.
Stamped(q, B) ==
    \E C \in SUBSET (Written \ {q}) :
        /\ B \subseteq C
        /\ \A s \in C, t \in Written \ (C \cup {q}) : <<t, s>> \notin older
        /\ Place(q, C)

\* Bookkeeping of a step in which workers claim sagas, <<w, q>> in claims, and
\* an operator's command writes those in T.
Overtakes(claims, T) ==
    overtaken' = [w \in Workers |-> [s \in Sagas |-> [q \in Sagas |->
        IF ~ Claimable(saga'[s], effect'[s]) \/ q \in T THEN 0
        ELSE overtaken[w][s][q] + (IF <<w, q>> \in claims /\ s \notin locked THEN 1 ELSE 0)]]]
-----------------------------------------------------------------------------
(* A batch. *)

Invoke(w) ==
    /\ batch[w].at = "idle" /\ prepared
    /\ batch' = [batch EXCEPT ![w] = [NoBatch EXCEPT !.at = "quarantine", !.open = TRUE]]
    /\ UNCHANGED <<vars, prepared, older, locked, history>>

Runs(w, at) == batch[w].at = at /\ batch[w].open
To(w, at, record, count) ==
    batch' = [batch EXCEPT ![w] = [@ EXCEPT !.at = at, !.record = record, !.count = count]]

\* Mutant: cleanups only.
ExpiredCleanups == {s \in Sagas : /\ saga[s].status = "cleanup_running"
                                  /\ ExpiredEffects(effect[s]) # {}}
ExpiredSagas == {s \in Sagas : Quarantinable(saga[s], effect[s])}

\* Mutant: what was quarantined is not counted as under review.
QuarantineCountAlone(n) == [NoCount EXCEPT !.quarantined = n]
QuarantineCount(n) == [NoCount EXCEPT !.quarantined = n, !.manual_review = n]

\* As many sagas of S as there are, n at most.  Which come first makes no
\* difference: an operator writes each of them before it is due again.
UpTo(n, S) ==
    {F \in SUBSET S : IsFiniteSet(F) /\ Cardinality(F) <= n /\ (F = S \/ Cardinality(F) = n)}

QuarantineStep(w) ==
    /\ Runs(w, "quarantine")
    /\ \E expired \in UpTo(BatchLimit, ExpiredSagas \ locked) :
          /\ IF expired = {} THEN UNCHANGED vars ELSE QuarantineExpired(expired)
          /\ To(w, "claim", NULL, QuarantineCount(Cardinality(expired)))
    /\ Overtakes({}, {})
    /\ UNCHANGED <<prepared, older, locked, mishaps, counted>>

Remaining(count) == BatchLimit - (count.quarantined + count.claimed)

\* ORDER BY updated_at LIMIT 1 FOR UPDATE SKIP LOCKED: no row that is due and
\* free is older than the one claimed.  Whatever could be read by now was
\* written before the outcome of the claim will be.
DueAndFree == {s \in Sagas : Due(s)} \ locked
ClaimStep(w) ==
    /\ Runs(w, "claim")
    /\ Remaining(batch[w].count) > 0
    /\ \E q \in DueAndFree :
          /\ \A s \in DueAndFree : <<s, q>> \notin older
          /\ ClaimNext(q)
          /\ Stamped(q, Written \ {q})
          /\ Overtakes({<<w, q>>}, {})
    /\ \E r \in held' \ held :
          To(w, "execute", r, [batch[w].count EXCEPT !.claimed = @ + 1])
    /\ UNCHANGED <<prepared, locked, mishaps, counted>>

ClaimNone(w) ==
    /\ Runs(w, "claim")
    /\ Remaining(batch[w].count) = 0 \/ DueAndFree = {}
    /\ To(w, "has_more", NULL, batch[w].count)
    /\ UNCHANGED <<vars, prepared, older, locked, history>>

\* The FinalizeResult of an outcome, as the counter it adds to.
ResultCounter == [applied |-> "completed", compensated |-> "completed",
                  failed |-> "failed", unknown |-> "manual_review"]

FinalizeStep(w) ==
    LET r == batch[w].record
    IN  /\ Runs(w, "execute")
        /\ r.saga \notin locked
        /\ \/ \E outcome \in Answers(r) :
                 /\ FinalizeEffect(r, outcome)
                 /\ Stamped(r.saga, Earlier(r.saga))
                 /\ To(w, "claim", NULL,
                       [batch[w].count EXCEPT ![ResultCounter[outcome.state]] = @ + 1])
           \/ /\ FinalizeSuperseded(r)
              /\ To(w, "claim", NULL, batch[w].count)
              /\ UNCHANGED older
        /\ Overtakes({}, {})
        /\ UNCHANGED <<prepared, locked, mishaps, counted>>

Reply(w) ==
    /\ Runs(w, "has_more")
    /\ batch' = [batch EXCEPT ![w] = NoBatch]
    /\ counted' = Plus(counted, batch[w].count)
    /\ UNCHANGED <<vars, prepared, older, locked, mishaps, overtaken>>

\* Ends a batch without an answer; what it held is lost with it.
Abandon(w) ==
    /\ batch' = [batch EXCEPT ![w] = NoBatch]
    /\ counted' = Plus(counted, batch[w].count)
    /\ IF batch[w].record = NULL THEN UNCHANGED vars ELSE WorkerLost(batch[w].record)
    /\ UNCHANGED <<prepared, older, locked, overtaken>>

\* A query fails, or the worker dies.
Fail(w) ==
    /\ batch[w].at # "idle" /\ batch[w].open
    /\ mishaps < MaxMishaps
    /\ mishaps' = mishaps + 1
    /\ Abandon(w)

\* The first query on a closed pool ends the batch.
PoolClosed(w) ==
    /\ batch[w].at # "idle" /\ ~ batch[w].open
    /\ Abandon(w)
    /\ UNCHANGED mishaps
-----------------------------------------------------------------------------
(* Lifecycle. *)

Activate ==
    /\ ~ prepared
    /\ prepared' = TRUE
    /\ UNCHANGED <<vars, batch, older, locked, history>>

\* Takes the prepared pool and closes it; batches that cloned it go on until
\* their next query.
Deactivate ==
    /\ prepared /\ mishaps < MaxMishaps
    /\ prepared' = FALSE
    /\ batch' = [w \in Workers |-> [batch[w] EXCEPT !.open = FALSE]]
    /\ mishaps' = mishaps + 1
    /\ UNCHANGED <<vars, older, locked, overtaken, counted>>

\* A transaction has locked the row of s and is still open: a command that
\* waits for its key, or one about to be rejected, or a claim.  It ends without
\* a change, or lets go of the row in the step that writes s.
Hold(s) ==
    /\ prepared /\ mishaps < MaxMishaps
    /\ s \in Written \ locked
    /\ locked' = locked \cup {s}
    /\ mishaps' = mishaps + 1
    /\ UNCHANGED <<vars, batch, prepared, older, overtaken, counted>>

Release(s) ==
    /\ s \in locked
    /\ locked' = locked \ {s}
    /\ UNCHANGED <<vars, batch, prepared, older, history>>
-----------------------------------------------------------------------------
\* Ids and keys are drawn afresh; which comes first makes no difference.
Drawn(S) == IF S = {} THEN {} ELSE {CHOOSE x \in S : TRUE}
Command(s, a, k) ==
    \/ \E n \in 0 .. MaxGrants : Start(s, a, n, k)
    \/ \E request \in Requests(s) : Retry(s, a, k, request)
    \/ \E expected \in 1 .. saga[s].revision : RequestCleanup(s, a, k, expected)
\* A command waits for the row, and may have begun long before it gets it.
Commands ==
    /\ prepared
    /\ \E s \in Written \cup Drawn(Sagas \ Written) :
          /\ s \notin locked
          /\ \E a \in Actors, k \in Drawn({k \in Keys : Reservable(k)}) : Command(s, a, k)
          /\ Stamped(s, {})
          /\ Overtakes({}, {s})
    /\ UNCHANGED <<batch, prepared, locked, mishaps, counted>>

Expire ==
    /\ \E s \in Sagas, e \in Slots : LeaseExpires(s, e)
    /\ UNCHANGED <<loop, history>>

WorkerInit ==
    /\ Init
    /\ batch = [w \in Workers |-> NoBatch]
    /\ prepared = FALSE
    /\ older = {}
    /\ locked = {}
    /\ mishaps = 0
    /\ overtaken = [w \in Workers |-> [s \in Sagas |-> [q \in Sagas |-> 0]]]
    /\ counted = NoCount

BatchStep(w) ==
    \/ QuarantineStep(w) \/ ClaimStep(w) \/ ClaimNone(w) \/ FinalizeStep(w)
    \/ Reply(w) \/ PoolClosed(w)

WorkerNext ==
    \/ \E w \in Workers : Invoke(w) \/ BatchStep(w) \/ Fail(w)
    \/ \E s \in Sagas : Hold(s) \/ Release(s)
    \/ Activate \/ Deactivate \/ Commands \/ Expire

\* A batch that runs goes on: every call it makes returns, because calls to
\* providers have deadlines, and every transaction that holds a row ends.  The
\* plugin starts no worker; that someone calls process_due again and again, and
\* activates the plugin again, is up to its host.  Time passes.  Operators owe
\* nothing, and mishaps need not happen.
Fairness ==
    /\ \A w \in Workers : WF_workervars(BatchStep(w)) /\ WF_workervars(Invoke(w))
    /\ \A s \in Sagas : WF_workervars(Release(s))
    /\ WF_workervars(Activate)
    /\ WF_workervars(Expire)

WorkerSpec == WorkerInit /\ [][WorkerNext]_workervars /\ Fairness
-----------------------------------------------------------------------------
LogRows(kinds) ==
    Cardinality(UNION {{<<s, i>> : i \in {i \in DOMAIN activity[s] : activity[s][i].kind \in kinds}} :
                          s \in Sagas})
\* As many elements as the numbers in n add up to.
Units(n) == UNION {{<<w, i>> : i \in 1 .. n[w]} : w \in DOMAIN n}
CountedBy(workers, x) ==
    counted[x] + Cardinality(Units([w \in workers |-> batch[w].count[x]]))

\* The counters tell what was done: over all batches, ended or running, they
\* are the rows of the activity log, an outcome that came too late counts
\* nowhere, and no batch does more than its limit, quarantines included.
CountersMatchLog ==
    /\ CountedBy(Workers, "claimed") = LogRows({"effect_claimed"})
    /\ CountedBy(Workers, "completed") = LogRows({"effect_applied", "effect_compensated"})
    /\ CountedBy(Workers, "failed") = LogRows({"effect_failed"})
    /\ CountedBy(Workers, "manual_review") = LogRows({"effect_outcome_unknown"})
    /\ \A w \in Workers :
          batch[w].count.quarantined + batch[w].count.claimed <= BatchLimit

\* While a saga is due, no worker claims another one twice before it, not
\* counting claims made while somebody held the row of the first, unless an
\* operator acted on the second in between: none is kept waiting by another
\* that is always due again.
BoundedOvertaking == \A w \in Workers : \A s, q \in Sagas : overtaken[w][s][q] <= 1

\* A saga that is due, or that a worker has taken, comes to rest: it ends or
\* waits for an operator, even if its worker is lost and whatever pools close.
DueSagasComeToRest ==
    \A s \in Sagas :
        saga[s].status \in {"pending", "running", "cleanup_pending", "cleanup_running"} ~>
            saga[s].status \in {"completed", "failed", "manual_review",
                                "cleanup_completed", "cleanup_failed"}
=============================================================================
