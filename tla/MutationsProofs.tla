-------------------------- MODULE MutationsProofs --------------------------
(***************************************************************************)
(* Clients, locks and keys for any number of each.  A client that holds a  *)
(* row has passed its lock statement and one that holds a key has only to  *)
(* execute: every wait is for a transaction that is further on.  The       *)
(* steps implement Storage, so a key that is taken keeps its row and a     *)
(* revision that has not changed stands for unchanged steps.               *)
(***************************************************************************)
EXTENDS Mutations, StorageHistoryProofs

AllPlans == {<<>>, <<"execute">>, <<"reserve", "execute">>, <<"lock", "reserve", "execute">>}

Calls == [operation : CommandOperations, actor : Actors, key : Keys, saga : Sagas \cup {NULL},
          request : Request]
CallFits(call) ==
    /\ call \in Calls
    /\ call.operation = "start" => call.saga = NULL /\ call.request = NoRequest
    /\ call.operation # "start" => call.saga \in Sagas
    /\ call.operation = "request_cleanup" =>
          call.request = [NoRequest EXCEPT !.expected_revision = call.request.expected_revision]
    /\ call.operation = "retry" => call.request.resolution \in Resolutions
ViewFits(v) ==
    /\ v = [saga |-> v.saga, revision |-> v.revision, steps |-> v.steps]
    /\ v.revision \in Nat
    /\ v.saga # NULL => v.saga \in Sagas
Shaped(r) ==
    r = [call |-> r.call, todo |-> r.todo, row |-> r.row, verdict |-> r.verdict, view |-> r.view]
ClientFits(r) ==
    /\ Shaped(r)
    /\ r.todo \in AllPlans
    /\ r.call # NULL \/ r.todo # <<>> => CallFits(r.call)
    /\ r.todo = <<"lock", "reserve", "execute">> => r.call.operation # "start"
    /\ ViewFits(r.view)
ClientsFit ==
    /\ client = [c \in Clients |-> client[c]]
    /\ \A c \in Clients : ClientFits(client[c])

\* Who holds a row has the key still to reserve, or only to execute; who holds
\* a key has only to execute.
LocksFit ==
    /\ lock \in [Sagas -> Clients \cup {NULL}]
    /\ reserved \in [Keys -> Clients \cup {NULL}]
    /\ \A s \in Sagas : lock[s] # NULL =>
          client[lock[s]].todo \in {<<"execute">>, <<"reserve", "execute">>}
    /\ \A k \in Keys : reserved[k] # NULL => client[reserved[k]].todo = <<"execute">>
-----------------------------------------------------------------------------
\* What the plans are made of.
LEMMA PlansMean ==
    /\ Head(<<"execute">>) = "execute" /\ Tail(<<"execute">>) = <<>>
    /\ Head(<<"reserve", "execute">>) = "reserve"
    /\ Tail(<<"reserve", "execute">>) = <<"execute">>
    /\ Head(<<"lock", "reserve", "execute">>) = "lock"
    /\ Tail(<<"lock", "reserve", "execute">>) = <<"reserve", "execute">>
    /\ <<"execute">> # <<>> /\ <<"reserve", "execute">> # <<>>
    /\ <<"lock", "reserve", "execute">> \notin {<<>>, <<"execute">>, <<"reserve", "execute">>}
  OBVIOUS

\* A statement that is next tells the plan.
LEMMA DoingMeans ==
    ASSUME NEW c \in Clients, ClientFits(client[c])
    PROVE  /\ Doing(c, "lock") => client[c].todo = <<"lock", "reserve", "execute">>
           /\ Doing(c, "reserve") => client[c].todo = <<"reserve", "execute">>
           /\ Doing(c, "execute") => client[c].todo = <<"execute">>
           /\ \A st : Doing(c, st) => client[c].todo # <<>> /\ CallFits(client[c].call)
  BY PlansMean DEF Doing, InCall, ClientFits, AllPlans

\* A client without a call is in none.
LEMMA NoCall == NULL \notin Calls
  BY ClientsAssumption DEF Calls, CommandOperations

\* The plan a call begins with.
LEMMA StatementsMean ==
    \A operation : /\ Statements(operation) \in AllPlans
                   /\ Statements(operation) # <<>>
                   /\ Statements("start") # <<"lock", "reserve", "execute">>
                   /\ Statements(operation) # <<"execute">>
                   /\ operation # "start" => Statements(operation) # <<"reserve", "execute">>
  BY PlansMean DEF Statements, AllPlans
-----------------------------------------------------------------------------
(* The record of the client that moves. *)

\* An idle client with what it has read, or been told.
LEMMA IdleMeans ==
    /\ \A s, n : [NoView EXCEPT !.saga = s, !.revision = n]
                    = [saga |-> s, revision |-> n, steps |-> NULL]
    /\ \A w : [Idle EXCEPT !.view = w] = [call |-> NULL, todo |-> <<>>, row |-> NULL,
                                          verdict |-> NULL, view |-> w]
    /\ \A w : [Idle EXCEPT !.verdict = w] = [call |-> NULL, todo |-> <<>>, row |-> NULL,
                                             verdict |-> w, view |-> NoView]
    /\ Idle = [call |-> NULL, todo |-> <<>>, row |-> NULL, verdict |-> NULL, view |-> NoView]
<1>1. ASSUME NEW s, NEW n
      PROVE  [NoView EXCEPT !.saga = s, !.revision = n]
                = [saga |-> s, revision |-> n, steps |-> NULL]
  <2>1. \A v \in [saga : {NULL}, revision : {0}, steps : {NULL}] :
           [v EXCEPT !.saga = s, !.revision = n] \in [saga : {s}, revision : {n}, steps : {NULL}]
    OBVIOUS
  <2>2. NoView \in [saga : {NULL}, revision : {0}, steps : {NULL}]
    BY DEF NoView
  <2>3. [NoView EXCEPT !.saga = s, !.revision = n] \in [saga : {s}, revision : {n}, steps : {NULL}]
    BY <2>1, <2>2
  <2>4. \A v \in [saga : {s}, revision : {n}, steps : {NULL}] :
           v = [saga |-> s, revision |-> n, steps |-> NULL]
    OBVIOUS
  <2> QED BY <2>3, <2>4
<1>2. ASSUME NEW w
      PROVE  [Idle EXCEPT !.view = w] = [call |-> NULL, todo |-> <<>>, row |-> NULL,
                                         verdict |-> NULL, view |-> w]
  BY DEF Idle
<1>3. ASSUME NEW w
      PROVE  [Idle EXCEPT !.verdict = w] = [call |-> NULL, todo |-> <<>>, row |-> NULL,
                                            verdict |-> w, view |-> NoView]
  BY DEF Idle
<1> QED BY <1>1, <1>2, <1>3 DEF Idle

\* A call that has not begun, or is none.
Fresh(r) == r.todo = <<>> \/ (r.todo = Statements(r.call.operation) /\ r.verdict = NULL)

\* A view that is begun, or completed.
LEMMA GetMoves ==
    ASSUME TypeOK, ClientsFit, NEW c \in Clients, NEW s \in Sagas, Get(c, s)
    PROVE  \E r : client' = [client EXCEPT ![c] = r] /\ ClientFits(r)
                  /\ client[c].todo = <<>> /\ r.todo = <<>>
<1>1. saga[s].revision \in Nat
  BY DEF TypeOK, SagaRow
<1>2. ClientFits(client[c])
  BY DEF ClientsFit
<1>3. client[c].call = NULL
  BY DEF Get
<1>4. client[c].todo = <<>>
  BY <1>2, <1>3, NoCall DEF ClientFits, CallFits
<1> DEFINE v == client[c].view
<1>5. CASE client' = [client EXCEPT ![c] = [Idle EXCEPT !.view =
                         [NoView EXCEPT !.saga = s, !.revision = saga[s].revision]]]
  <2> DEFINE r == [call |-> NULL, todo |-> <<>>, row |-> NULL, verdict |-> NULL,
                   view |-> [saga |-> s, revision |-> saga[s].revision, steps |-> NULL]]
  <2>1. [Idle EXCEPT !.view = [NoView EXCEPT !.saga = s, !.revision = saga[s].revision]] = r
    <3>1. [NoView EXCEPT !.saga = s, !.revision = saga[s].revision]
             = [saga |-> s, revision |-> saga[s].revision, steps |-> NULL]
      BY IdleMeans
    <3> QED BY <3>1, IdleMeans
  <2>2. ClientFits(r)
    BY <1>1 DEF ClientFits, Shaped, AllPlans, ViewFits
  <2> QED BY <1>4, <1>5, <2>1, <2>2
<1>6. CASE client' = [client EXCEPT ![c].view.steps = Steps(s)]
  <2> DEFINE r == [call |-> client[c].call, todo |-> client[c].todo, row |-> client[c].row,
                   verdict |-> client[c].verdict,
                   view |-> [saga |-> v.saga, revision |-> v.revision, steps |-> Steps(s)]]
  <2>1. [client[c] EXCEPT !.view = [v EXCEPT !.steps = Steps(s)]] = r
    BY <1>2 DEF ClientFits, Shaped, ViewFits
  <2>2. client' = [client EXCEPT ![c] = [client[c] EXCEPT !.view = [v EXCEPT !.steps = Steps(s)]]]
    BY <1>6
  <2>3. ClientFits(r)
    BY <1>2 DEF ClientFits, Shaped, ViewFits
  <2> QED BY <1>4, <2>1, <2>2, <2>3
<1> QED BY <1>5, <1>6 DEF Get, Reads

\* The record of a client whose transaction has ended.
LEMMA EndRecord ==
    ASSUME NEW r, Shaped(r), NEW w
    PROVE  [r EXCEPT !.todo = <<>>, !.row = NULL, !.verdict = w]
              = [call |-> r.call, todo |-> <<>>, row |-> NULL, verdict |-> w, view |-> r.view]
<1> DEFINE Old == [call : {r.call}, todo : {r.todo}, row : {r.row}, verdict : {r.verdict},
                   view : {r.view}]
           New == [call : {r.call}, todo : {<<>>}, row : {NULL}, verdict : {w}, view : {r.view}]
<1>1. r \in Old
  BY DEF Shaped
<1>2. \A q \in Old : [q EXCEPT !.todo = <<>>, !.row = NULL, !.verdict = w] \in New
  OBVIOUS
<1>3. [r EXCEPT !.todo = <<>>, !.row = NULL, !.verdict = w] \in New
  BY <1>1, <1>2
<1>4. \A q \in New :
         q = [call |-> r.call, todo |-> <<>>, row |-> NULL, verdict |-> w, view |-> r.view]
  OBVIOUS
<1> HIDE DEF New
<1> QED BY <1>3, <1>4

\* The record of a client whose transaction goes on.
LEMMA ProceedRecord ==
    ASSUME NEW r, Shaped(r), NEW t, NEW x
    PROVE  [r EXCEPT !.todo = t, !.row = x]
              = [call |-> r.call, todo |-> t, row |-> x, verdict |-> r.verdict, view |-> r.view]
<1> DEFINE Old == [call : {r.call}, todo : {r.todo}, row : {r.row}, verdict : {r.verdict},
                   view : {r.view}]
           New == [call : {r.call}, todo : {t}, row : {x}, verdict : {r.verdict}, view : {r.view}]
<1>1. r \in Old
  BY DEF Shaped
<1>2. \A q \in Old : [q EXCEPT !.todo = t, !.row = x] \in New
  OBVIOUS
<1>3. [r EXCEPT !.todo = t, !.row = x] \in New
  BY <1>1, <1>2
<1>4. \A q \in New :
         q = [call |-> r.call, todo |-> t, row |-> x, verdict |-> r.verdict, view |-> r.view]
  OBVIOUS
<1> HIDE DEF New
<1> QED BY <1>3, <1>4

\* The record of a client that asks again.
LEMMA AgainRecord ==
    ASSUME NEW r, Shaped(r), NEW t, NEW w
    PROVE  [r EXCEPT !.todo = t, !.verdict = w]
              = [call |-> r.call, todo |-> t, row |-> r.row, verdict |-> w, view |-> r.view]
<1> DEFINE Old == [call : {r.call}, todo : {r.todo}, row : {r.row}, verdict : {r.verdict},
                   view : {r.view}]
           New == [call : {r.call}, todo : {t}, row : {r.row}, verdict : {w}, view : {r.view}]
<1>1. r \in Old
  BY DEF Shaped
<1>2. \A q \in Old : [q EXCEPT !.todo = t, !.verdict = w] \in New
  OBVIOUS
<1>3. [r EXCEPT !.todo = t, !.verdict = w] \in New
  BY <1>1, <1>2
<1>4. \A q \in New :
         q = [call |-> r.call, todo |-> t, row |-> r.row, verdict |-> w, view |-> r.view]
  OBVIOUS
<1> HIDE DEF New
<1> QED BY <1>3, <1>4

\* The record of a client with a new call.
LEMMA AskRecord ==
    ASSUME NEW r, Shaped(r), NEW t, NEW x
    PROVE  [r EXCEPT !.call = x, !.todo = t]
              = [call |-> x, todo |-> t, row |-> r.row, verdict |-> r.verdict, view |-> r.view]
<1> DEFINE Old == [call : {r.call}, todo : {r.todo}, row : {r.row}, verdict : {r.verdict},
                   view : {r.view}]
           New == [call : {x}, todo : {t}, row : {r.row}, verdict : {r.verdict}, view : {r.view}]
<1>1. r \in Old
  BY DEF Shaped
<1>2. \A q \in Old : [q EXCEPT !.call = x, !.todo = t] \in New
  OBVIOUS
<1>3. [r EXCEPT !.call = x, !.todo = t] \in New
  BY <1>1, <1>2
<1>4. \A q \in New :
         q = [call |-> x, todo |-> t, row |-> r.row, verdict |-> r.verdict, view |-> r.view]
  OBVIOUS
<1> HIDE DEF New
<1> QED BY <1>3, <1>4

\* The requests clients make.
LEMMA RequestsFit ==
    ASSUME NEW n \in Nat
    PROVE  /\ NoRequest \in Request /\ Decisions \subseteq Request
           /\ \A q \in Request : /\ [q EXCEPT !.expected_revision = n] \in Request
                                 /\ [q EXCEPT !.expected_revision = n].expected_revision = n
                                 /\ [q EXCEPT !.expected_revision = n].resolution = q.resolution
           /\ [NoRequest EXCEPT !.expected_revision = 0] = NoRequest
<1>1. NoRequest \in Request
  BY DEF NoRequest, Request, Observations
<1>2. \A q \in Request : q = [q EXCEPT !.expected_revision = q.expected_revision]
  BY DEF Request
<1>3. NoRequest.expected_revision = 0
  BY DEF NoRequest
<1>4. Decisions \subseteq Request
  BY DEF Decisions, Request
<1>5. \A q \in Request : /\ [q EXCEPT !.expected_revision = n] \in Request
                         /\ [q EXCEPT !.expected_revision = n].expected_revision = n
                         /\ [q EXCEPT !.expected_revision = n].resolution = q.resolution
  BY DEF Request
<1> QED BY <1>1, <1>2, <1>3, <1>4, <1>5

Asked(operation, s, request) ==
    \/ operation = "start" /\ s = NULL /\ request = NoRequest
    \/ operation = "retry" /\ s \in Sagas /\ request \in Decisions
    \/ operation = "request_cleanup" /\ s \in Sagas /\ request = NoRequest

\* A client with a new call.
LEMMA AskMoves ==
    ASSUME ClientsFit, NEW c \in Clients, NEW operation, NEW a \in Actors, NEW k \in Keys,
           NEW s, NEW request, Asked(operation, s, request), Ask(c, operation, a, k, s, request)
    PROVE  \E r : /\ client' = [client EXCEPT ![c] = r] /\ ClientFits(r) /\ r.view = NoView
                  /\ client[c].todo = <<>> /\ Fresh(r)
<1>1. ClientFits(client[c]) /\ client[c].call = NULL
  BY DEF ClientsFit, Ask
<1>2. client[c].todo = <<>> /\ client[c].view.revision \in Nat
  BY <1>1, NoCall DEF ClientFits, CallFits, ViewFits
<1> DEFINE n == IF operation = "start" THEN 0 ELSE client[c].view.revision
           q == [request EXCEPT !.expected_revision = n]
           call == [operation |-> operation, actor |-> a, key |-> k, saga |-> s, request |-> q]
           r == [call |-> call, todo |-> Statements(operation), row |-> NULL, verdict |-> NULL,
                 view |-> NoView]
<1>3. n \in Nat
  BY <1>2
<1>4. operation \in CommandOperations /\ s \in Sagas \cup {NULL} /\ request \in Request
  BY <1>3, RequestsFit DEF Asked, CommandOperations
<1>5. q \in Request /\ q.expected_revision = n /\ q.resolution = request.resolution
  BY <1>3, <1>4, RequestsFit
<1>6. operation = "start" => s = NULL /\ q = NoRequest
  BY <1>3, RequestsFit DEF Asked
<1>7. operation # "start" => s \in Sagas
  BY DEF Asked
<1>8. operation = "request_cleanup" => q = [NoRequest EXCEPT !.expected_revision = q.expected_revision]
  BY <1>5 DEF Asked
<1>9. operation = "retry" => q.resolution \in Resolutions
  BY <1>5 DEF Asked, Decisions
<1>10. CallFits(call)
  <2> HIDE DEF q
  <2>1. call \in Calls
    BY <1>4, <1>5 DEF Calls
  <2> QED BY <2>1, <1>6, <1>7, <1>8, <1>9 DEF CallFits
<1>11. client' = [client EXCEPT ![c] = [Idle EXCEPT !.call = call, !.todo = Statements(operation)]]
  BY DEF Ask
<1>12. [Idle EXCEPT !.call = call, !.todo = Statements(operation)] = r
  <2>1. Shaped(Idle) /\ Idle.row = NULL /\ Idle.verdict = NULL /\ Idle.view = NoView
    BY DEF Shaped, Idle
  <2> HIDE DEF call
  <2>2. [Idle EXCEPT !.call = call, !.todo = Statements(operation)]
           = [call |-> call, todo |-> Statements(operation), row |-> Idle.row,
              verdict |-> Idle.verdict, view |-> Idle.view]
    BY <2>1, AskRecord, Zenon
  <2> QED BY <2>1, <2>2
<1>13. ClientFits(r)
  <2>1. ViewFits(NoView)
    BY DEF ViewFits, NoView
  <2>2. call.operation = operation
    OBVIOUS
  <2> HIDE DEF call
  <2> QED BY <2>1, <2>2, <1>10, StatementsMean DEF ClientFits, Shaped
<1>14. r.view = NoView /\ Fresh(r)
  BY DEF Fresh
<1> HIDE DEF r, call
<1> QED BY <1>2, <1>11, <1>12, <1>13, <1>14

\* A client that asks again, or gives up.
LEMMA AgainMoves ==
    ASSUME ClientsFit, NEW c \in Clients, AskAgain(c) \/ GiveUp(c)
    PROVE  \E r : /\ client' = [client EXCEPT ![c] = r] /\ ClientFits(r)
                  /\ r.view \in {client[c].view, NoView}
                  /\ client[c].todo = <<>> /\ Fresh(r)
<1>1. ClientFits(client[c]) /\ client[c].call # NULL /\ client[c].todo = <<>>
  BY DEF ClientsFit, AskAgain, GiveUp, InCall
<1>2. CASE AskAgain(c)
  <2> DEFINE r == [call |-> client[c].call, todo |-> Statements(client[c].call.operation),
                   row |-> client[c].row, verdict |-> NULL, view |-> client[c].view]
  <2>1. client' = [client EXCEPT ![c] = r]
    <3>1. client' = [client EXCEPT ![c] = [client[c] EXCEPT
                        !.todo = Statements(client[c].call.operation), !.verdict = NULL]]
      BY <1>2 DEF AskAgain
    <3>2. Shaped(client[c])
      BY <1>1 DEF ClientFits
    <3> QED BY <3>1, <3>2, AgainRecord
  <2>2. ClientFits(r)
    BY <1>1, StatementsMean DEF ClientFits, Shaped
  <2>3. Fresh(r)
    BY DEF Fresh
  <2> QED BY <1>1, <2>1, <2>2, <2>3
<1>3. CASE GiveUp(c)
  <2>1. ClientFits(Idle)
    BY DEF ClientFits, Shaped, Idle, ViewFits, NoView, AllPlans
  <2>2. client' = [client EXCEPT ![c] = Idle] /\ Idle.view = NoView /\ Fresh(Idle)
    BY <1>3 DEF GiveUp, Idle, Fresh
  <2> QED BY <1>1, <2>1, <2>2
<1> QED BY <1>2, <1>3

\* A client whose transaction has ended.
LEMMA EndMoves ==
    ASSUME ClientsFit, NEW c \in Clients, NEW verdict, End(c, verdict)
    PROVE  \E r : /\ client' = [client EXCEPT ![c] = r] /\ ClientFits(r) /\ r.todo = <<>>
                  /\ r.view \in {client[c].view, NoView}
<1>1. ClientFits(client[c])
  BY DEF ClientsFit
<1>2. CASE verdict \in {NULL, "ok"}
  <2> DEFINE r == [call |-> client[c].call, todo |-> <<>>, row |-> NULL, verdict |-> verdict,
                   view |-> client[c].view]
  <2>1. client' = [client EXCEPT ![c] = [client[c] EXCEPT !.todo = <<>>, !.row = NULL,
                                                          !.verdict = verdict]]
    BY <1>2 DEF End
  <2>2. [client[c] EXCEPT !.todo = <<>>, !.row = NULL, !.verdict = verdict] = r
    <3>1. Shaped(client[c])
      BY <1>1 DEF ClientFits
    <3> QED BY <3>1, EndRecord
  <2>3. ClientFits(r)
    BY <1>1 DEF ClientFits, Shaped, AllPlans
  <2> QED BY <2>1, <2>2, <2>3
<1>3. CASE verdict \notin {NULL, "ok"}
  <2> DEFINE r == [call |-> NULL, todo |-> <<>>, row |-> NULL, verdict |-> verdict,
                   view |-> NoView]
  <2>1. client' = [client EXCEPT ![c] = r]
    BY <1>3, IdleMeans DEF End
  <2>2. ClientFits(r)
    BY DEF ClientFits, Shaped, ViewFits, NoView, AllPlans
  <2>3. r.todo = <<>> /\ r.view = NoView
    OBVIOUS
  <2> HIDE DEF r
  <2> QED BY <2>1, <2>2, <2>3
<1> QED BY <1>2, <1>3

\* A client whose next statement has been executed, and left it a row.
Further(c, r, row) ==
    /\ r.todo = Tail(client[c].todo) /\ r.view = client[c].view
    /\ r.call = client[c].call /\ r.row = row /\ r.verdict = client[c].verdict

\* A client whose transaction goes on.
LEMMA ProceedMoves ==
    ASSUME ClientsFit, NEW c \in Clients, NEW row, Proceed(c, row),
           CallFits(client[c].call),
           Tail(client[c].todo) \in {<<"execute">>, <<"reserve", "execute">>}
    PROVE  \E r : client' = [client EXCEPT ![c] = r] /\ ClientFits(r) /\ Further(c, r, row)
<1>1. ClientFits(client[c])
  BY DEF ClientsFit
<1> DEFINE r == [call |-> client[c].call, todo |-> Tail(client[c].todo), row |-> row,
                 verdict |-> client[c].verdict, view |-> client[c].view]
<1>2. client' = [client EXCEPT ![c] = r]
  <2>1. client' = [client EXCEPT ![c] =
                      [client[c] EXCEPT !.todo = Tail(client[c].todo), !.row = row]]
    BY DEF Proceed
  <2>2. Shaped(client[c])
    BY <1>1 DEF ClientFits
  <2> QED BY <2>1, <2>2, ProceedRecord
<1>3. ClientFits(r)
  BY <1>1, PlansMean DEF ClientFits, Shaped, AllPlans
<1>4. Further(c, r, row)
  BY DEF Further
<1> HIDE DEF r
<1> QED BY <1>2, <1>3, <1>4
-----------------------------------------------------------------------------
(* What a move of a client does to the locks. *)

Owns(a, s) == saga[s].status # "absent" /\ saga[s].requested_by = a

OnlyAsks(c, r) ==
    /\ client[c].todo = <<>> /\ Fresh(r) /\ lock' = lock /\ reserved' = reserved
GoesOn(c, r) ==
    /\ r.call = client[c].call /\ r.verdict = client[c].verdict
    /\ UNCHANGED vars
Ends(c, r) == r.todo = <<>> /\ lock' = Without(lock, c) /\ reserved' = Without(reserved, c)
TakesRow(c, r) ==
    /\ client[c].todo = <<"lock", "reserve", "execute">>
    /\ r.todo = <<"reserve", "execute">> /\ reserved' = reserved /\ GoesOn(c, r)
    /\ \E s \in Sagas : /\ lock[s] = NULL /\ lock' = [lock EXCEPT ![s] = c]
                        /\ s = r.call.saga /\ r.row = saga[s] /\ Owns(r.call.actor, s)
TakesKey(c, r) ==
    /\ client[c].todo = <<"reserve", "execute">> /\ r.todo = <<"execute">> /\ lock' = lock
    /\ GoesOn(c, r) /\ r.row = client[c].row
    /\ \E k \in Keys : /\ reserved[k] = NULL /\ reserved' = [reserved EXCEPT ![k] = c]
                       /\ k = r.call.key /\ mutation[k] = NULL
Moves(c, r) ==
    /\ client' = [client EXCEPT ![c] = r] /\ ClientFits(r)
    /\ OnlyAsks(c, r) \/ Ends(c, r) \/ TakesRow(c, r) \/ TakesKey(c, r)

\* A client's step other than a read.
CallStep(c) ==
    \/ \E a \in Actors, k \in Keys :
          \/ Ask(c, "start", a, k, NULL, NoRequest)
          \/ \E s \in Sagas, d \in Decisions : Ask(c, "retry", a, k, s, d)
          \/ \E s \in Sagas : Ask(c, "request_cleanup", a, k, s, NoRequest)
    \/ AskAgain(c) \/ GiveUp(c) \/ LockSaga(c) \/ Reserve(c) \/ Execute(c) \/ Break(c)

\* Locking the row, or finding none.
LEMMA LockSagaMoves ==
    ASSUME ClientsFit, NEW c \in Clients, LockSaga(c)
    PROVE  \E r : Moves(c, r) /\ r.view \in {client[c].view, NoView}
<1>1. ClientFits(client[c]) /\ Doing(c, "lock")
  BY DEF ClientsFit, LockSaga
<1>2. client[c].todo = <<"lock", "reserve", "execute">> /\ CallFits(client[c].call)
  BY <1>1, DoingMeans
<1>3. Tail(client[c].todo) = <<"reserve", "execute">>
  BY <1>2, PlansMean
<1> DEFINE s == client[c].call.saga
<1>4. CASE End(c, "provisioning_not_found")
  <2>1. PICK r : /\ client' = [client EXCEPT ![c] = r] /\ ClientFits(r) /\ r.todo = <<>>
                 /\ r.view \in {client[c].view, NoView}
    BY <1>4, EndMoves
  <2> QED BY <1>4, <2>1 DEF Moves, Ends, End
<1>5. CASE /\ Proceed(c, saga[s]) /\ lock' = [lock EXCEPT ![s] = c] /\ reserved' = reserved
           /\ saga[s].status # "absent" /\ saga[s].requested_by = client[c].call.actor
  <2>0. PICK r : client' = [client EXCEPT ![c] = r] /\ ClientFits(r) /\ Further(c, r, saga[s])
    BY <1>2, <1>3, <1>5, ProceedMoves
  <2>1. /\ client' = [client EXCEPT ![c] = r] /\ ClientFits(r)
        /\ r.todo = Tail(client[c].todo) /\ r.view = client[c].view
        /\ r.call = client[c].call /\ r.row = saga[s] /\ r.verdict = client[c].verdict
    BY <2>0 DEF Further
  <2>2. lock[s] = NULL /\ s \in Sagas
    BY <1>1, <1>2 DEF LockSaga, Free, CallFits, ClientFits
  <2>3. GoesOn(c, r) /\ s = r.call.saga /\ Owns(r.call.actor, s)
    BY <1>5, <2>1 DEF GoesOn, Owns, LockSaga
  <2>4. TakesRow(c, r)
    BY <1>2, <1>3, <1>5, <2>1, <2>2, <2>3 DEF TakesRow
  <2> QED BY <2>1, <2>4 DEF Moves
<1> QED BY <1>4, <1>5 DEF LockSaga

\* Reserving the key, or being answered from the ledger.
LEMMA ReserveMoves ==
    ASSUME ClientsFit, NEW c \in Clients, Reserve(c)
    PROVE  \E r : Moves(c, r) /\ r.view \in {client[c].view, NoView}
<1>1. ClientFits(client[c]) /\ Doing(c, "reserve")
  BY DEF ClientsFit, Reserve
<1>2. client[c].todo = <<"reserve", "execute">> /\ CallFits(client[c].call)
  BY <1>1, DoingMeans
<1>3. Tail(client[c].todo) = <<"execute">>
  BY <1>2, PlansMean
<1> DEFINE k == client[c].call.key
           verdict == LedgerVerdict(client[c].call, client[c].row)
<1>4. ASSUME NEW word, End(c, word)
      PROVE  \E r : Moves(c, r) /\ r.view \in {client[c].view, NoView}
  <2>1. PICK r : /\ client' = [client EXCEPT ![c] = r] /\ ClientFits(r) /\ r.todo = <<>>
                 /\ r.view \in {client[c].view, NoView}
    BY <1>4, EndMoves
  <2> QED BY <1>4, <2>1 DEF Moves, Ends, End
<1>5. CASE /\ Proceed(c, client[c].row) /\ reserved' = [reserved EXCEPT ![k] = c]
           /\ lock' = lock /\ verdict = "execute"
  <2>0. PICK r : client' = [client EXCEPT ![c] = r] /\ ClientFits(r) /\ Further(c, r, client[c].row)
    BY <1>2, <1>3, <1>5, ProceedMoves
  <2>1. /\ client' = [client EXCEPT ![c] = r] /\ ClientFits(r)
        /\ r.todo = Tail(client[c].todo) /\ r.view = client[c].view
        /\ r.call = client[c].call /\ r.row = client[c].row /\ r.verdict = client[c].verdict
    BY <2>0 DEF Further
  <2>2. reserved[k] = NULL /\ k \in Keys
    BY <1>2 DEF Reserve, CallFits, Calls
  <2>3. mutation[k] = NULL
    BY <1>5 DEF LedgerVerdict
  <2>4. GoesOn(c, r)
    BY <2>1 DEF GoesOn, Reserve
  <2>5. TakesKey(c, r)
    BY <1>2, <1>3, <1>5, <2>1, <2>2, <2>3, <2>4 DEF TakesKey
  <2> QED BY <2>1, <2>5 DEF Moves
<1> QED BY <1>4, <1>5 DEF Reserve

\* Every step of a client other than a read, as a move.
LEMMA CallsMove ==
    ASSUME ClientsFit, NEW c \in Clients, CallStep(c)
    PROVE  \E r : Moves(c, r) /\ r.view \in {client[c].view, NoView}
<1>1. ASSUME NEW operation, NEW a \in Actors, NEW k \in Keys, NEW s, NEW request,
             Asked(operation, s, request), Ask(c, operation, a, k, s, request)
      PROVE  \E r : Moves(c, r) /\ r.view \in {client[c].view, NoView}
  <2>1. PICK r : /\ client' = [client EXCEPT ![c] = r] /\ ClientFits(r) /\ r.view = NoView
                 /\ client[c].todo = <<>> /\ Fresh(r)
    BY <1>1, AskMoves
  <2> QED BY <1>1, <2>1 DEF Moves, OnlyAsks, Ask
<1>2. CASE AskAgain(c) \/ GiveUp(c)
  <2>1. PICK r : /\ client' = [client EXCEPT ![c] = r] /\ ClientFits(r)
                 /\ r.view \in {client[c].view, NoView}
                 /\ client[c].todo = <<>> /\ Fresh(r)
    BY <1>2, AgainMoves
  <2> QED BY <1>2, <2>1 DEF Moves, OnlyAsks, AskAgain, GiveUp
<1>3. ASSUME NEW word, End(c, word)
      PROVE  \E r : Moves(c, r) /\ r.view \in {client[c].view, NoView}
  <2>1. PICK r : /\ client' = [client EXCEPT ![c] = r] /\ ClientFits(r) /\ r.todo = <<>>
                 /\ r.view \in {client[c].view, NoView}
    BY <1>3, EndMoves
  <2> QED BY <1>3, <2>1 DEF Moves, Ends, End
<1>4. CASE Execute(c) \/ Break(c)
  BY <1>3, <1>4 DEF Execute, Break
<1>5. CASE \E a \in Actors, k \in Keys :
              \/ Ask(c, "start", a, k, NULL, NoRequest)
              \/ \E s \in Sagas, d \in Decisions : Ask(c, "retry", a, k, s, d)
              \/ \E s \in Sagas : Ask(c, "request_cleanup", a, k, s, NoRequest)
  BY <1>1, <1>5 DEF Asked
<1> QED BY <1>2, <1>4, <1>5, LockSagaMoves, ReserveMoves DEF CallStep

\* What a client's record is after one of them moved.
LEMMA OneMoves ==
    ASSUME ClientsFit, NEW c \in Clients, NEW r, client' = [client EXCEPT ![c] = r], ClientFits(r)
    PROVE  /\ ClientsFit' /\ client'[c] = r
           /\ \A d \in Clients : d # c => client'[d] = client[d]
<1>1. /\ client' = [d \in Clients |-> client'[d]] /\ client'[c] = r
      /\ \A d \in Clients : d # c => client'[d] = client[d]
  BY DEF ClientsFit
<1>2. \A d \in Clients : ClientFits(client'[d])
  BY <1>1 DEF ClientsFit
<1> QED BY <1>1, <1>2 DEF ClientsFit

\* Locks fit after a move.
LEMMA MoveKeepsLocks ==
    ASSUME ClientsFit, LocksFit, NEW c \in Clients, NEW r, Moves(c, r)
    PROVE  ClientsFit' /\ LocksFit'
<1>1. /\ ClientsFit' /\ client'[c] = r
      /\ \A d \in Clients : d # c => client'[d] = client[d]
  BY OneMoves DEF Moves
<1>2. CASE OnlyAsks(c, r)
  <2>1. /\ \A s \in Sagas : lock[s] # c
        /\ \A k \in Keys : reserved[k] # c
    BY <1>2, PlansMean, ClientsAssumption DEF OnlyAsks, LocksFit
  <2> QED BY <1>1, <1>2, <2>1 DEF OnlyAsks, LocksFit
<1>3. CASE Ends(c, r)
  <2>1. /\ \A s \in Sagas : lock'[s] = (IF lock[s] = c THEN NULL ELSE lock[s])
        /\ \A k \in Keys : reserved'[k] = (IF reserved[k] = c THEN NULL ELSE reserved[k])
        /\ lock' = [s \in Sagas |-> lock'[s]] /\ reserved' = [k \in Keys |-> reserved'[k]]
    BY <1>3 DEF Ends, Without, LocksFit
  <2>2. /\ \A s \in Sagas : lock'[s] \in Clients \cup {NULL} /\ lock'[s] # c
        /\ \A k \in Keys : reserved'[k] \in Clients \cup {NULL} /\ reserved'[k] # c
    BY <2>1, ClientsAssumption DEF LocksFit
  <2>3. lock' \in [Sagas -> Clients \cup {NULL}] /\ reserved' \in [Keys -> Clients \cup {NULL}]
    BY <2>1, <2>2
  <2>4. \A s \in Sagas : lock'[s] # NULL => client'[lock'[s]].todo = client[lock[s]].todo
                                            /\ lock[s] # NULL
    BY <1>1, <2>1, <2>2
  <2>5. \A k \in Keys : reserved'[k] # NULL => client'[reserved'[k]].todo = client[reserved[k]].todo
                                               /\ reserved[k] # NULL
    BY <1>1, <2>1, <2>2
  <2>6. \A s \in Sagas : lock'[s] # NULL =>
           client'[lock'[s]].todo \in {<<"execute">>, <<"reserve", "execute">>}
    BY <2>4 DEF LocksFit
  <2>7. \A k \in Keys : reserved'[k] # NULL => client'[reserved'[k]].todo = <<"execute">>
    BY <2>5 DEF LocksFit
  <2> QED BY <1>1, <2>3, <2>6, <2>7 DEF LocksFit
<1>4. CASE TakesRow(c, r)
  <2>1. PICK s \in Sagas : lock[s] = NULL /\ lock' = [lock EXCEPT ![s] = c]
    BY <1>4 DEF TakesRow
  <2>2. /\ client'[c].todo = <<"reserve", "execute">> /\ reserved' = reserved
        /\ lock'[s] = c /\ \A t \in Sagas : t # s => lock'[t] = lock[t]
        /\ lock' \in [Sagas -> Clients \cup {NULL}]
    BY <1>1, <1>4, <2>1 DEF TakesRow, LocksFit
  <2>3. \A k \in Keys : reserved[k] # c
    BY <1>4, PlansMean, ClientsAssumption DEF TakesRow, LocksFit
  <2>4. \A t \in Sagas : lock'[t] # NULL =>
           client'[lock'[t]].todo \in {<<"execute">>, <<"reserve", "execute">>}
    BY <1>1, <2>2 DEF LocksFit
  <2>5. \A k \in Keys : reserved'[k] # NULL => client'[reserved'[k]].todo = <<"execute">>
    BY <1>1, <2>2, <2>3 DEF LocksFit
  <2> QED BY <1>1, <2>2, <2>4, <2>5 DEF LocksFit
<1>5. CASE TakesKey(c, r)
  <2>1. PICK k \in Keys : reserved[k] = NULL /\ reserved' = [reserved EXCEPT ![k] = c]
    BY <1>5 DEF TakesKey
  <2>2. /\ client'[c].todo = <<"execute">> /\ lock' = lock
        /\ reserved'[k] = c /\ \A l \in Keys : l # k => reserved'[l] = reserved[l]
        /\ reserved' \in [Keys -> Clients \cup {NULL}]
    BY <1>1, <1>5, <2>1 DEF TakesKey, LocksFit
  <2>3. \A s \in Sagas : lock'[s] # NULL =>
           client'[lock'[s]].todo \in {<<"execute">>, <<"reserve", "execute">>}
    BY <1>1, <2>2 DEF LocksFit
  <2>4. \A l \in Keys : reserved'[l] # NULL => client'[reserved'[l]].todo = <<"execute">>
    BY <1>1, <2>2 DEF LocksFit
  <2> QED BY <1>1, <2>2, <2>3, <2>4 DEF LocksFit
<1> QED BY <1>1, <1>2, <1>3, <1>4, <1>5 DEF Moves
-----------------------------------------------------------------------------
(* Steps. *)

\* What of MutationsNext concerns clients.
LEMMA StepCases ==
    ASSUME [MutationsNext]_allvars
    PROVE  \/ \E c \in Clients, s \in Sagas : Get(c, s)
           \/ \E c \in Clients : CallStep(c)
           \/ Workers
           \/ UNCHANGED allvars
  BY DEF MutationsNext, CallStep

\* Clients and locks fit after every step.
LEMMA FitStep ==
    ASSUME TypeOK, ClientsFit, LocksFit, [MutationsNext]_allvars
    PROVE  ClientsFit' /\ LocksFit'
<1>1. ASSUME NEW c \in Clients, NEW s \in Sagas, Get(c, s)
      PROVE  ClientsFit' /\ LocksFit'
  <2>1. PICK r : /\ client' = [client EXCEPT ![c] = r] /\ ClientFits(r)
                 /\ client[c].todo = <<>> /\ r.todo = <<>>
    BY <1>1, GetMoves
  <2>2. Moves(c, r)
    BY <1>1, <2>1 DEF Moves, OnlyAsks, Get, Fresh
  <2> QED BY <2>2, MoveKeepsLocks
<1>2. ASSUME NEW c \in Clients, CallStep(c)
      PROVE  ClientsFit' /\ LocksFit'
  BY <1>2, CallsMove, MoveKeepsLocks
<1>3. CASE Workers \/ UNCHANGED allvars
  BY <1>3 DEF Workers, allvars, ClientsFit, LocksFit
<1> QED BY <1>1, <1>2, <1>3, StepCases

\* The circle of waits is excluded by what the holders have left to do.
LEMMA NoCircle == ClientsFit /\ LocksFit => NoWaitCycle
<1> SUFFICES ASSUME ClientsFit, LocksFit, NEW W \in (SUBSET Clients) \ {{}}
             PROVE  \E c \in W : WaitsFor(c) \cap W = {}
  BY DEF NoWaitCycle
<1>1. \A c \in Clients : ClientFits(client[c])
  BY DEF ClientsFit
<1>2. \A c \in Clients : WaitsFor(c) # {} => Doing(c, "lock") \/ Doing(c, "reserve")
  BY DEF WaitsFor
<1>3. \A c \in W : Doing(c, "lock") => client[c].todo = <<"lock", "reserve", "execute">>
  BY <1>1, DoingMeans
<1>4. \A c \in W : Doing(c, "reserve") => client[c].todo = <<"reserve", "execute">>
  BY <1>1, DoingMeans
<1>5. \A d : client[d].todo = <<"execute">> => ~ Doing(d, "lock") /\ ~ Doing(d, "reserve")
  BY PlansMean DEF Doing
<1>6. CASE \E c \in W : ~ Doing(c, "lock") /\ ~ Doing(c, "reserve")
  BY <1>2, <1>6
<1>7. CASE \A c \in W : Doing(c, "lock") \/ Doing(c, "reserve")
  <2>1. CASE \E c \in W : Doing(c, "reserve")
    <3>1. PICK c \in W : Doing(c, "reserve")
      BY <2>1
    <3>2. client[c].call.key \in Keys
      BY <1>1, <3>1, DoingMeans DEF CallFits, Calls
    <3>3. ~ Doing(c, "lock")
      BY <1>3, <1>4, <3>1, PlansMean
    <3>4. WaitsFor(c) = {reserved[client[c].call.key]} \ {NULL}
      BY <3>1, <3>3 DEF WaitsFor
    <3>5. \A d \in WaitsFor(c) : d \notin W
      BY <1>5, <1>7, <3>2, <3>4 DEF LocksFit
    <3> QED BY <3>5
  <2>2. CASE \A c \in W : ~ Doing(c, "reserve")
    <3>1. PICK c \in W : Doing(c, "lock")
      BY <1>7, <2>2
    <3>2. client[c].call.saga \in Sagas
      <4>1. client[c].todo = <<"lock", "reserve", "execute">>
        BY <1>3, <3>1
      <4>2. CallFits(client[c].call)
        BY <1>1, <3>1, DoingMeans
      <4>3. client[c].call.operation # "start"
        BY <1>1, <4>1 DEF ClientFits
      <4> QED BY <4>2, <4>3 DEF CallFits
    <3>3. WaitsFor(c) = {lock[client[c].call.saga]} \ {NULL}
      BY <2>2, <3>1 DEF WaitsFor
    <3>4. \A d \in WaitsFor(c) : client[d].todo \in {<<"execute">>, <<"reserve", "execute">>}
      BY <3>2, <3>3 DEF LocksFit
    <3>5. \A d \in W : client[d].todo = <<"lock", "reserve", "execute">>
      BY <1>3, <1>7, <2>2
    <3> QED BY <3>4, <3>5, PlansMean
  <2> QED BY <2>1, <2>2
<1> QED BY <1>6, <1>7
-----------------------------------------------------------------------------
(* Mutations implements Storage. *)

Started == \A s \in Sagas : saga[s].status # "absent" => saga[s].revision >= 1

\* A saga that is there has a revision to name.
LEMMA StartedStep ==
    ASSUME TypeOK, SagasConsistent, Started, [Next]_vars
    PROVE  Started'
<1>1. ASSUME NEW s \in Sagas, saga'[s].status # "absent"
      PROVE  saga'[s].revision >= 1
  <2>1. saga[s].revision \in Nat
    BY DEF TypeOK, SagaRow
  <2>2. CASE Advances(s)
    <3>1. saga'[s].revision = saga[s].revision + 1
      BY <2>2 DEF Advances, Keeps
    <3> QED BY <2>1, <3>1
  <2>3. CASE Rests(s)
    BY <1>1, <2>3 DEF Rests, Started
  <2> QED BY <2>2, <2>3, StepAdvances
<1> QED BY <1>1 DEF Started

\* What a client writes is a transaction of Storage.
LEMMA WriteImplements ==
    ASSUME TypeOK, Started, NEW call, CallFits(call), Write(call)
    PROVE  Next
<1>1. call.actor \in Actors /\ call.key \in Keys /\ call.request \in Request
  BY DEF CallFits, Calls
<1>2. CASE \E s \in Sagas, n \in 0 .. MaxGrants : Start(s, call.actor, n, call.key)
  BY <1>1, <1>2 DEF Next
<1>3. CASE call.operation = "retry" /\ Retry(call.saga, call.actor, call.key, call.request)
  <2>1. call.saga \in Sagas /\ call.request.resolution \in Resolutions
    BY <1>3 DEF CallFits
  <2>2. /\ saga[call.saga].revision = call.request.expected_revision
        /\ saga[call.saga].revision >= 1 /\ saga[call.saga].revision \in Nat
    BY <1>3, <2>1 DEF Retry, Locks, Started, TypeOK, SagaRow
  <2>3. call.request.expected_revision \in 1 .. saga[call.saga].revision
    BY <2>2
  <2>4. call.request \in Requests(call.saga)
    BY <1>1, <2>1, <2>3 DEF Request, Requests
  <2> QED BY <1>1, <1>3, <2>1, <2>4 DEF Next
<1>4. CASE /\ call.operation = "request_cleanup"
           /\ RequestCleanup(call.saga, call.actor, call.key, call.request.expected_revision)
  <2>1. call.saga \in Sagas
    BY <1>4 DEF CallFits
  <2>2. /\ saga[call.saga].revision = call.request.expected_revision
        /\ saga[call.saga].revision >= 1 /\ saga[call.saga].revision \in Nat
    BY <1>4, <2>1 DEF RequestCleanup, Locks, Started, TypeOK, SagaRow
  <2>3. call.request.expected_revision \in 1 .. saga[call.saga].revision
    BY <2>2
  <2> QED BY <1>1, <1>4, <2>1, <2>3 DEF Next
<1> QED BY <1>2, <1>3, <1>4 DEF Write

\* Every step is one of Storage, or leaves its rows and records alone.
LEMMA MutationsStep ==
    ASSUME TypeOK, Started, ClientsFit, [MutationsNext]_allvars
    PROVE  [Next]_vars
<1>1. ASSUME NEW c \in Clients, Execute(c)
      PROVE  [Next]_vars
  <2>1. CallFits(client[c].call)
    BY <1>1, DoingMeans DEF Execute, ClientsFit
  <2>2. Write(client[c].call) \/ UNCHANGED vars
    BY <1>1 DEF Execute
  <2> QED BY <2>1, <2>2, WriteImplements
<1>2. ASSUME NEW c \in Clients, CallStep(c), ~ Execute(c)
      PROVE  UNCHANGED vars
  BY <1>2 DEF CallStep, Ask, AskAgain, GiveUp, LockSaga, Reserve, Break
<1>3. CASE Workers
  BY <1>3 DEF Workers, Next
<1>4. ASSUME NEW c \in Clients, NEW s \in Sagas, Get(c, s)
      PROVE  UNCHANGED vars
  BY <1>4 DEF Get
<1>5. CASE UNCHANGED allvars
  BY <1>5 DEF allvars
<1> QED BY <1>1, <1>2, <1>3, <1>4, <1>5, StepCases

MutationsInvariant ==
    /\ TypeOK /\ SagasConsistent /\ ActivityCoversRevisions /\ Started
    /\ ClientsFit /\ LocksFit

\* Every step from a state of the invariant is a step of Storage.
LEMMA InvariantSteps == MutationsInvariant /\ [MutationsNext]_allvars => [Next]_vars
  BY MutationsStep DEF MutationsInvariant

\* The invariant of Mutations.
LEMMA MutationsInvariance == MutationsSpec => []MutationsInvariant
<1>1. MutationsInit => MutationsInvariant
  <2>1. MutationsInit => ActivityCoversRevisions /\ Started
    BY DEF MutationsInit, Init, ActivityCoversRevisions, Started, NoSaga
  <2>2. MutationsInit => SagasConsistent
    BY DEF MutationsInit, Init, SagasConsistent, Consistent
  <2>3. ClientFits(Idle)
    BY PlansMean DEF ClientFits, Shaped, Idle, ViewFits, NoView, AllPlans
  <2>4. MutationsInit => ClientsFit /\ LocksFit
    BY <2>3 DEF MutationsInit, ClientsFit, LocksFit
  <2> QED BY <2>1, <2>2, <2>4, InitTypes DEF MutationsInit, MutationsInvariant
<1>2. MutationsInvariant /\ [MutationsNext]_allvars => MutationsInvariant'
  <2>1. SUFFICES ASSUME MutationsInvariant, [MutationsNext]_allvars
                 PROVE  MutationsInvariant'
    OBVIOUS
  <2>2. /\ TypeOK /\ SagasConsistent /\ ActivityCoversRevisions /\ Started
        /\ ClientsFit /\ LocksFit
    BY <2>1 DEF MutationsInvariant
  <2>3. [Next]_vars
    BY <2>1, InvariantSteps
  <2>4. ClientsFit' /\ LocksFit'
    BY <2>1, <2>2, FitStep
  <2>5. TypeOK' /\ SagasConsistent' /\ ActivityCoversRevisions' /\ Started'
    BY <2>2, <2>3, NextTypes, NextConsistent, HistoryGrows, StartedStep
  <2> QED BY <2>4, <2>5 DEF MutationsInvariant
<1> QED BY <1>1, <1>2, PTL DEF MutationsSpec

\* The commands as clients see them implement Storage: whatever is asked twice,
\* waits or breaks, the tables change by its transactions alone.
THEOREM MutationsImplement == MutationsSpec => Spec
  BY InvariantSteps, MutationsInvariance, PTL DEF MutationsSpec, MutationsInit, Spec

\* Transactions never wait for each other in a circle, for any number of clients,
\* sagas and keys.
THEOREM NoDeadlock == MutationsSpec => []NoWaitCycle
<1>1. MutationsInvariant => NoWaitCycle
  BY NoCircle DEF MutationsInvariant
<1> QED BY <1>1, MutationsInvariance, PTL
-----------------------------------------------------------------------------
(* Answers. *)

RowFits(row, call) ==
    /\ row # NULL /\ row.operation = call.operation /\ row.actor = call.actor
    /\ row.request = call.request
    /\ call.saga # NULL => row.provisioning_id = call.saga
AnswerSound(x, row) == RowFits(row, x.call) /\ x.response = row.response

\* Every answer was given to a call and agrees with the row of its key.
AnswersSound ==
    \A x \in answered : /\ x = [call |-> x.call, response |-> x.response] /\ CallFits(x.call)
                        /\ AnswerSound(x, mutation[x.call.key])

\* A row of the ledger stays as it is.
LEMMA LedgerStays ==
    ASSUME TypeOK, TypeOK', SagasConsistent, [Next]_vars, NEW k \in Keys, mutation[k] # NULL
    PROVE  mutation'[k] = mutation[k]
<1>1. ASSUME NEW l \in Keys, NEW operation \in CommandOperations, NEW s \in Sagas,
             Commits(l, operation, s)
      PROVE  mutation'[k] = mutation[k]
  BY <1>1, CommitsMeans
<1> QED BY <1>1, LedgerStep DEF Works

\* The row a command writes is the command's own.
LEMMA WrittenMatches ==
    ASSUME TypeOK, TypeOK', NEW call, CallFits(call), Write(call)
    PROVE  RowFits(mutation'[call.key], call)
<1>1. /\ call.key \in Keys /\ call.actor \in Actors /\ call.request \in Request
      /\ call.saga \in Sagas \cup {NULL}
  BY DEF CallFits, Calls
<1>2. ASSUME NEW operation \in CommandOperations, NEW s \in Sagas, NEW request \in Request,
             Complete(call.key, operation, call.actor, s, request)
      PROVE  /\ mutation'[call.key] # NULL /\ mutation'[call.key].operation = operation
             /\ mutation'[call.key].actor = call.actor
             /\ mutation'[call.key].provisioning_id = s
             /\ mutation'[call.key].request = request
  <2> DEFINE row == [operation |-> operation, actor |-> call.actor, provisioning_id |-> s,
                     request |-> request,
                     response |-> [status |-> saga'[s].status, revision |-> saga'[s].revision]]
  <2>1. mutation'[call.key] = row
    BY <1>1, <1>2 DEF Complete, TypeOK
  <2>2. row \in MutationRow
    BY <1>1 DEF MutationRow, CommandOperations, TypeOK, SagaRow
  <2> QED BY <2>1, <2>2, NoRowAssumption
<1>3. CASE /\ call.operation = "start"
           /\ \E s \in Sagas, n \in 0 .. MaxGrants : Start(s, call.actor, n, call.key)
  <2>1. call.saga = NULL /\ call.request = NoRequest
    BY <1>3 DEF CallFits
  <2>2. PICK s \in Sagas : Complete(call.key, "start", call.actor, s, NoRequest)
    BY <1>3 DEF Start
  <2> QED BY <1>1, <1>2, <1>3, <2>1, <2>2 DEF RowFits, CommandOperations
<1>4. CASE call.operation = "retry" /\ Retry(call.saga, call.actor, call.key, call.request)
  <2>1. call.saga \in Sagas
    BY <1>4 DEF CallFits
  <2>2. Complete(call.key, "retry", call.actor, call.saga, call.request)
    BY <1>4 DEF Retry
  <2> QED BY <1>1, <1>2, <1>4, <2>1, <2>2 DEF RowFits, CommandOperations
<1>5. CASE /\ call.operation = "request_cleanup"
           /\ RequestCleanup(call.saga, call.actor, call.key, call.request.expected_revision)
  <2>1. /\ call.saga \in Sagas
        /\ call.request = [NoRequest EXCEPT !.expected_revision = call.request.expected_revision]
    BY <1>5 DEF CallFits
  <2>2. Complete(call.key, "request_cleanup", call.actor, call.saga, call.request)
    BY <1>5, <2>1 DEF RequestCleanup
  <2> QED BY <1>1, <1>2, <1>5, <2>1, <2>2 DEF RowFits, CommandOperations
<1> QED BY <1>3, <1>4, <1>5 DEF Write

\* Answers stay sound, and new ones are.
LEMMA AnswersStep ==
    ASSUME TypeOK, TypeOK', SagasConsistent, ClientsFit, AnswersSound, [Next]_vars,
           [MutationsNext]_allvars
    PROVE  AnswersSound'
<1> SUFFICES ASSUME NEW x \in answered'
             PROVE  /\ x = [call |-> x.call, response |-> x.response] /\ CallFits(x.call)
                    /\ AnswerSound(x, mutation'[x.call.key])
  BY DEF AnswersSound
<1>1. CASE x \in answered
  <2>1. /\ x = [call |-> x.call, response |-> x.response] /\ CallFits(x.call)
        /\ AnswerSound(x, mutation[x.call.key])
    BY <1>1 DEF AnswersSound
  <2>2. x.call.key \in Keys /\ mutation[x.call.key] # NULL
    BY <2>1 DEF CallFits, Calls, AnswerSound, RowFits
  <2> QED BY <2>1, <2>2, LedgerStays
<1>2. ASSUME NEW c \in Clients, Execute(c), x \notin answered
      PROVE  /\ x = [call |-> x.call, response |-> x.response] /\ CallFits(x.call)
             /\ AnswerSound(x, mutation'[x.call.key])
  <2>1. /\ Write(client[c].call)
        /\ x = [call |-> client[c].call, response |-> mutation'[client[c].call.key].response]
    BY <1>2 DEF Execute
  <2>2. CallFits(client[c].call)
    BY <1>2, DoingMeans DEF Execute, ClientsFit
  <2>3. RowFits(mutation'[client[c].call.key], client[c].call)
    BY <2>1, <2>2, WrittenMatches
  <2> QED BY <2>1, <2>2, <2>3 DEF AnswerSound
<1>3. ASSUME NEW c \in Clients, Reserve(c), x \notin answered
      PROVE  /\ x = [call |-> x.call, response |-> x.response] /\ CallFits(x.call)
             /\ AnswerSound(x, mutation'[x.call.key])
  <2>1. /\ LedgerVerdict(client[c].call, client[c].row) = "replay"
        /\ x = [call |-> client[c].call, response |-> mutation[client[c].call.key].response]
        /\ mutation' = mutation
    BY <1>3 DEF Reserve, Response, vars
  <2>2. CallFits(client[c].call)
    BY <1>3, DoingMeans DEF Reserve, ClientsFit
  <2>3. mutation[client[c].call.key] # NULL /\ Matches(client[c].call)
    BY <2>1 DEF LedgerVerdict
  <2> QED BY <2>1, <2>2, <2>3 DEF Matches, RowFits, AnswerSound
<1>4. ASSUME NEW c \in Clients, CallStep(c), ~ Execute(c), ~ Reserve(c)
      PROVE  answered' = answered
  BY <1>4 DEF CallStep, Ask, AskAgain, GiveUp, LockSaga, Break
<1>5. ASSUME NEW c \in Clients, NEW s \in Sagas, Get(c, s)
      PROVE  answered' = answered
  BY <1>5 DEF Get
<1>6. CASE Workers \/ UNCHANGED allvars
  <2>1. answered' = answered
    BY <1>6 DEF Workers, allvars
  <2> QED BY <1>1, <2>1
<1> QED BY <1>1, <1>2, <1>3, <1>4, <1>5, <1>6, StepCases

\* A key answers with one response, to one command, however often and by whomever
\* it is asked.
THEOREM OneAnswerPerKey == MutationsSpec => []AnswersOfAKeyAgree
<1>1. MutationsInit => AnswersSound
  BY DEF MutationsInit, AnswersSound
<1>2. MutationsInvariant /\ MutationsInvariant' /\ AnswersSound /\ [MutationsNext]_allvars
         => AnswersSound'
  BY AnswersStep, InvariantSteps DEF MutationsInvariant
<1>3. AnswersSound => AnswersOfAKeyAgree
  <2> SUFFICES ASSUME AnswersSound, NEW x \in answered, NEW y \in answered,
                      x.call.key = y.call.key
               PROVE  x = y
    BY DEF AnswersOfAKeyAgree
  <2>1. /\ x = [call |-> x.call, response |-> x.response] /\ CallFits(x.call)
        /\ y = [call |-> y.call, response |-> y.response] /\ CallFits(y.call)
        /\ x.response = y.response
        /\ RowFits(mutation[x.call.key], x.call) /\ RowFits(mutation[x.call.key], y.call)
    BY DEF AnswersSound, AnswerSound
  <2>2. /\ x.call.operation = y.call.operation /\ x.call.actor = y.call.actor
        /\ x.call.request = y.call.request
    BY <2>1 DEF RowFits
  <2>3. x.call.saga = y.call.saga
    BY <2>1, <2>2, ClientsAssumption DEF RowFits, CallFits
  <2>4. x.call = y.call
    BY <2>1, <2>2, <2>3 DEF CallFits, Calls
  <2> QED BY <2>1, <2>4
<1> QED BY <1>1, <1>2, <1>3, MutationsInvariance, PTL DEF MutationsSpec
-----------------------------------------------------------------------------
(* Views. *)

\* A view agrees with a revision and steps: it is older, or shows them.
Agrees(v, revision, steps) ==
    /\ v.revision <= revision
    /\ v.steps # NULL /\ v.revision = revision => v.steps = steps
ViewsAgree ==
    \A c \in Clients : client[c].view.saga # NULL =>
        Agrees(client[c].view, saga[client[c].view.saga].revision, Steps(client[c].view.saga))
NextSteps(s) == [e \in Slots |-> [status |-> effect'[s][e].state, attempt |-> effect'[s][e].attempts,
                                  external_id |-> effect'[s][e].external_id]]

\* A view that agrees with a saga still does after a step.
LEMMA OldViewAgrees ==
    ASSUME TypeOK, SagasConsistent, [Next]_vars, NEW v, ViewFits(v), v.saga # NULL,
           Agrees(v, saga[v.saga].revision, Steps(v.saga))
    PROVE  Agrees(v, saga'[v.saga].revision, NextSteps(v.saga))
<1> DEFINE s == v.saga
<1>1. s \in Sagas /\ v.revision \in Nat /\ saga[s].revision \in Nat
  BY DEF ViewFits, TypeOK, SagaRow
<1>2. CASE Advances(s)
  <2>1. saga'[s].revision = saga[s].revision + 1
    BY <1>2 DEF Advances, Keeps
  <2> QED BY <1>1, <2>1 DEF Agrees
<1>3. CASE Rests(s)
  <2>1. ASSUME NEW e \in Slots
        PROVE  /\ effect'[s][e].state = effect[s][e].state
               /\ effect'[s][e].attempts = effect[s][e].attempts
               /\ effect'[s][e].external_id = effect[s][e].external_id
    <3>1. effect[s][e] \in EffectRow
      BY <1>1, <2>1 DEF TypeOK
    <3> QED BY <1>3, <2>1, <3>1 DEF Rests, EffectRow
  <2>2. NextSteps(s) = Steps(s)
    BY <2>1 DEF NextSteps, Steps
  <2>3. saga'[s] = saga[s]
    BY <1>3 DEF Rests
  <2> QED BY <2>2, <2>3
<1> QED BY <1>1, <1>2, <1>3, StepAdvances

\* The view of a client that reads agrees with what it has read.
LEMMA ReadAgrees ==
    ASSUME TypeOK, ClientsFit, ViewsAgree, NEW c \in Clients, NEW s \in Sagas, Get(c, s)
    PROVE  LET v == client'[c].view
           IN  v.saga = s /\ Agrees(v, saga[s].revision, Steps(s))
<1>1. ClientFits(client[c]) /\ saga[s].revision \in Nat /\ s # NULL
  BY ClientsAssumption DEF ClientsFit, TypeOK, SagaRow
<1> DEFINE v == client[c].view
<1>2. CASE client' = [client EXCEPT ![c] = [Idle EXCEPT !.view =
                         [NoView EXCEPT !.saga = s, !.revision = saga[s].revision]]]
  <2>1. client'[c].view = [saga |-> s, revision |-> saga[s].revision, steps |-> NULL]
    <3>1. [NoView EXCEPT !.saga = s, !.revision = saga[s].revision]
             = [saga |-> s, revision |-> saga[s].revision, steps |-> NULL]
      BY IdleMeans
    <3>2. client'[c] = [Idle EXCEPT !.view =
                           [saga |-> s, revision |-> saga[s].revision, steps |-> NULL]]
      BY <1>2, <3>1 DEF ClientsFit
    <3> QED BY <3>2, IdleMeans
  <2> QED BY <1>1, <2>1 DEF Agrees
<1>3. CASE v.saga = s /\ client' = [client EXCEPT ![c].view.steps = Steps(s)]
  <2>1. client'[c].view = [saga |-> s, revision |-> v.revision, steps |-> Steps(s)]
    <3>1. [client[c] EXCEPT !.view = [v EXCEPT !.steps = Steps(s)]].view
             = [saga |-> s, revision |-> v.revision, steps |-> Steps(s)]
      BY <1>1, <1>3 DEF ClientFits, Shaped, ViewFits
    <3>2. client'[c] = [client[c] EXCEPT !.view = [v EXCEPT !.steps = Steps(s)]]
      BY <1>3 DEF ClientsFit
    <3> QED BY <3>1, <3>2
  <2>2. v.revision <= saga[s].revision
    BY <1>1, <1>3 DEF ViewsAgree, Agrees
  <2> QED BY <2>1, <2>2 DEF Agrees
<1> QED BY <1>2, <1>3 DEF Get, Reads

\* Views agree after every step.
LEMMA ViewsStep ==
    ASSUME TypeOK, SagasConsistent, ClientsFit, ViewsAgree, [Next]_vars, [MutationsNext]_allvars
    PROVE  ViewsAgree'
<1> DEFINE Fine(v) == v.saga # NULL => Agrees(v, saga'[v.saga].revision, NextSteps(v.saga))
<1>1. \A c \in Clients : Fine(client[c].view)
  BY OldViewAgrees DEF ClientsFit, ClientFits, ViewsAgree
<1>2. Fine(NoView)
  BY DEF NoView
<1>3. ASSUME NEW c \in Clients, CallStep(c)
      PROVE  \A d \in Clients : Fine(client'[d].view)
  <2>1. PICK r : Moves(c, r) /\ r.view \in {client[c].view, NoView}
    BY <1>3, CallsMove
  <2>2. client'[c] = r /\ \A d \in Clients : d # c => client'[d] = client[d]
    BY <2>1, OneMoves DEF Moves
  <2> HIDE DEF Fine
  <2> QED BY <1>1, <1>2, <2>1, <2>2
<1>4. ASSUME NEW c \in Clients, NEW s \in Sagas, Get(c, s)
      PROVE  \A d \in Clients : Fine(client'[d].view)
  <2>1. PICK r : client' = [client EXCEPT ![c] = r] /\ ClientFits(r)
    BY <1>4, GetMoves
  <2>2. \A d \in Clients : d # c => client'[d] = client[d]
    BY <2>1, OneMoves
  <2>3. client'[c].view.saga = s /\ Agrees(client'[c].view, saga[s].revision, Steps(s))
    BY <1>4, ReadAgrees
  <2>4. saga' = saga /\ effect' = effect
    BY <1>4 DEF Get, vars
  <2>5. NextSteps(s) = Steps(s)
    BY <2>4 DEF NextSteps, Steps
  <2>6. Fine(client'[c].view)
    BY <2>3, <2>4, <2>5
  <2> HIDE DEF Fine
  <2> QED BY <1>1, <2>2, <2>6
<1>5. ASSUME Workers \/ UNCHANGED allvars
      PROVE  \A d \in Clients : Fine(client'[d].view)
  <2>1. client' = client
    BY <1>5 DEF Workers, allvars
  <2> HIDE DEF Fine
  <2> QED BY <1>1, <2>1
<1>6. \A d \in Clients : Fine(client'[d].view)
  BY <1>3, <1>4, <1>5, StepCases
<1> QED BY <1>6 DEF ViewsAgree, Steps, NextSteps

\* A view under the current revision shows the current steps, for any number of
\* clients and however far apart its two queries were.
THEOREM ViewSafety == MutationsSpec => []ViewsAreSafeToActOn
<1>1. MutationsInit => ViewsAgree
  BY DEF MutationsInit, ViewsAgree, Idle, NoView
<1>2. MutationsInvariant /\ ViewsAgree /\ [MutationsNext]_allvars => ViewsAgree'
  BY ViewsStep, InvariantSteps DEF MutationsInvariant
<1>3. ViewsAgree => ViewsAreSafeToActOn
  BY DEF ViewsAgree, Agrees, ViewsAreSafeToActOn
<1> QED BY <1>1, <1>2, <1>3, MutationsInvariance, PTL DEF MutationsSpec
-----------------------------------------------------------------------------
(* Grips: what a transaction has read under its locks stays as it was read. *)

\* Who has passed its lock statement holds the row it read, of a saga its actor
\* started; who has only to execute holds a key that no row of the ledger has.
Locked(c) ==
    /\ client[c].todo \in {<<"reserve", "execute">>, <<"execute">>}
    /\ client[c].call.operation # "start"
GripsRow(c) ==
    LET s == client[c].call.saga
    IN  Locked(c) => lock[s] = c /\ client[c].row = saga[s] /\ Owns(client[c].call.actor, s)
GripsKey(c) ==
    client[c].todo = <<"execute">> =>
        reserved[client[c].call.key] = c /\ mutation[client[c].call.key] = NULL
Unanswered(c) == client[c].todo # <<>> => client[c].verdict = NULL
Grips(c) == GripsRow(c) /\ GripsKey(c) /\ Unanswered(c)
AllGrip == \A c \in Clients : Grips(c)

\* What a client grips.
LEMMA GripMeans ==
    ASSUME ClientsFit, NEW c \in Clients
    PROVE  /\ Locked(c) => client[c].call.saga \in Sagas
           /\ client[c].todo = <<"execute">> => client[c].call.key \in Keys
  BY PlansMean DEF ClientsFit, ClientFits, CallFits, Calls, Locked

\* The client that moves grips what it takes, and lets go when it ends.
LEMMA MoverGrips ==
    ASSUME ClientsFit, LocksFit, NEW c \in Clients, NEW r, Moves(c, r), Grips(c)
    PROVE  Grips(c)'
<1>1. client'[c] = r
  BY OneMoves DEF Moves
<1>2. CASE r.todo = <<>>
  BY <1>1, <1>2, PlansMean DEF Grips, GripsRow, GripsKey, Unanswered, Locked
<1>3. CASE OnlyAsks(c, r) /\ r.todo # <<>>
  <2>1. r.todo = Statements(r.call.operation) /\ r.verdict = NULL
    BY <1>3 DEF OnlyAsks, Fresh
  <2>2. /\ r.todo # <<"execute">>
        /\ r.call.operation # "start" => r.todo # <<"reserve", "execute">>
    BY <2>1, StatementsMean
  <2> QED BY <1>1, <2>1, <2>2 DEF Grips, GripsRow, GripsKey, Unanswered, Locked
<1>4. CASE TakesRow(c, r)
  <2>1. PICK s \in Sagas : /\ lock' = [lock EXCEPT ![s] = c]
                           /\ s = r.call.saga /\ r.row = saga[s] /\ Owns(r.call.actor, s)
    BY <1>4 DEF TakesRow
  <2>2. r.verdict = NULL /\ r.todo = <<"reserve", "execute">>
    BY <1>4, PlansMean DEF TakesRow, GoesOn, Grips, Unanswered
  <2>3. lock'[s] = c /\ saga' = saga
    BY <1>4, <2>1 DEF TakesRow, GoesOn, vars, LocksFit
  <2> QED BY <1>1, <2>1, <2>2, <2>3, PlansMean
          DEF Grips, GripsRow, GripsKey, Unanswered, Locked, Owns
<1>5. CASE TakesKey(c, r)
  <2>1. PICK k \in Keys : /\ reserved' = [reserved EXCEPT ![k] = c]
                          /\ k = r.call.key /\ mutation[k] = NULL
    BY <1>5 DEF TakesKey
  <2>2. /\ client[c].todo = <<"reserve", "execute">> /\ r.todo = <<"execute">>
        /\ r.call = client[c].call /\ r.row = client[c].row /\ r.verdict = client[c].verdict
        /\ lock' = lock /\ saga' = saga /\ mutation' = mutation
    BY <1>5 DEF TakesKey, GoesOn, vars
  <2>3. reserved'[k] = c
    BY <2>1 DEF LocksFit
  <2>4. r.verdict = NULL
    BY <2>2, PlansMean DEF Grips, Unanswered
  <2>5. GripsRow(c)'
    BY <1>1, <2>2 DEF Grips, GripsRow, Locked, Owns
  <2> QED BY <1>1, <2>1, <2>2, <2>3, <2>4, <2>5 DEF Grips, GripsKey, Unanswered
<1> QED BY <1>2, <1>3, <1>4, <1>5 DEF Moves, Ends

\* A step that spares the row and the key a client grips.
Spares(d) ==
    /\ \A s \in Sagas : lock[s] = d /\ saga[s].status # "absent" => saga'[s] = saga[s]
    /\ \A k \in Keys : reserved[k] = d => mutation'[k] = mutation[k]

\* A client keeps its grip while others move.
LEMMA OthersGrip ==
    ASSUME ClientsFit, LocksFit, NEW c \in Clients, NEW r, Moves(c, r),
           NEW d \in Clients, d # c, Grips(d), Spares(d)
    PROVE  Grips(d)'
<1>1. client'[d] = client[d]
  BY OneMoves DEF Moves
<1>2. /\ \A s \in Sagas : lock[s] = d => lock'[s] = d
      /\ \A k \in Keys : reserved[k] = d => reserved'[k] = d
  <2>1. d # NULL
    BY ClientsAssumption
  <2>2. CASE OnlyAsks(c, r)
    BY <2>2 DEF OnlyAsks
  <2>3. CASE Ends(c, r)
    BY <2>3 DEF Ends, Without, LocksFit
  <2>4. CASE TakesRow(c, r)
    BY <2>1, <2>4 DEF TakesRow, LocksFit
  <2>5. CASE TakesKey(c, r)
    BY <2>1, <2>5 DEF TakesKey, LocksFit
  <2> QED BY <2>2, <2>3, <2>4, <2>5 DEF Moves
<1>3. GripsRow(d)'
  <2>1. SUFFICES ASSUME Locked(d)
                 PROVE  LET s == client[d].call.saga
                        IN  /\ lock'[s] = d /\ client[d].row = saga'[s]
                            /\ saga'[s].status # "absent"
                            /\ saga'[s].requested_by = client[d].call.actor
    BY <1>1 DEF GripsRow, Locked, Owns
  <2>2. client[d].call.saga \in Sagas
    BY <2>1, GripMeans
  <2> QED BY <1>2, <2>1, <2>2 DEF Grips, GripsRow, Spares, Owns
<1>4. GripsKey(d)'
  <2>1. SUFFICES ASSUME client[d].todo = <<"execute">>
                 PROVE  LET k == client[d].call.key
                        IN  reserved'[k] = d /\ mutation'[k] = NULL
    BY <1>1 DEF GripsKey
  <2>2. client[d].call.key \in Keys
    BY <2>1, GripMeans
  <2> QED BY <1>2, <2>1, <2>2 DEF Grips, GripsKey, Spares
<1>5. Unanswered(d)'
  BY <1>1 DEF Grips, Unanswered
<1> QED BY <1>3, <1>4, <1>5 DEF Grips

\* What one client writes spares what the others grip.
LEMMA WriteSpares ==
    ASSUME TypeOK, ClientsFit, NEW c \in Clients, Execute(c), Grips(c), NEW d \in Clients, d # c
    PROVE  Spares(d)
<1> DEFINE call == client[c].call
<1>1. client[c].todo = <<"execute">> /\ CallFits(call)
  BY DoingMeans DEF Execute, ClientsFit
<1>2. reserved[call.key] = c /\ (call.operation # "start" => lock[call.saga] = c)
  BY <1>1 DEF Grips, GripsKey, GripsRow, Locked
<1>3. /\ saga \in [Sagas -> SagaRow] /\ mutation \in [Keys -> MutationRow \cup {NULL}]
      /\ call.key \in Keys
  BY <1>1 DEF TypeOK, CallFits, Calls
<1>4. ASSUME NEW operation, NEW a, NEW s, NEW request, Complete(call.key, operation, a, s, request)
      PROVE  \A k \in Keys : reserved[k] = d => mutation'[k] = mutation[k]
  BY <1>2, <1>3, <1>4 DEF Complete
<1>5. CASE \E s \in Sagas, n \in 0 .. MaxGrants : Start(s, call.actor, n, call.key)
  <2>1. PICK s \in Sagas, n \in 0 .. MaxGrants : Start(s, call.actor, n, call.key)
    BY <1>5
  <2>2. \A k \in Keys : reserved[k] = d => mutation'[k] = mutation[k]
    BY <1>4, <2>1 DEF Start
  <2>3. \A t \in Sagas : saga[t].status # "absent" => saga'[t] = saga[t]
    BY <1>3, <2>1 DEF Start
  <2> QED BY <2>2, <2>3 DEF Spares
<1>6. CASE call.operation = "retry" /\ Retry(call.saga, call.actor, call.key, call.request)
  <2>1. \A k \in Keys : reserved[k] = d => mutation'[k] = mutation[k]
    BY <1>4, <1>6 DEF Retry
  <2>2. lock[call.saga] = c
    BY <1>2, <1>6
  <2>3. \A t \in Sagas : t # call.saga => saga'[t] = saga[t]
    BY <1>3, <1>6 DEF Retry
  <2> QED BY <2>1, <2>2, <2>3 DEF Spares
<1>7. CASE /\ call.operation = "request_cleanup"
           /\ RequestCleanup(call.saga, call.actor, call.key, call.request.expected_revision)
  <2>1. \A k \in Keys : reserved[k] = d => mutation'[k] = mutation[k]
    BY <1>4, <1>7 DEF RequestCleanup
  <2>2. lock[call.saga] = c
    BY <1>2, <1>7
  <2>3. \A t \in Sagas : t # call.saga => saga'[t] = saga[t]
    BY <1>3, <1>7 DEF RequestCleanup
  <2> QED BY <2>1, <2>2, <2>3 DEF Spares
<1>8. CASE UNCHANGED vars
  BY <1>8 DEF vars, Spares
<1> QED BY <1>5, <1>6, <1>7, <1>8 DEF Execute, Write

\* Workers pass over, or wait for, the rows that are held.
LEMMA WorkersSpare ==
    ASSUME TypeOK, Workers, NEW d \in Clients
    PROVE  Spares(d)
<1>1. d # NULL /\ saga \in [Sagas -> SagaRow]
  BY ClientsAssumption DEF TypeOK
<1>2. ASSUME NEW s \in Sagas, Free(s), ClaimNext(s)
      PROVE  Spares(d)
  BY <1>1, <1>2 DEF Free, ClaimNext, Claim, Spares
<1>3. ASSUME NEW r \in held, Free(r.saga), NEW outcome \in Answers(r), FinalizeEffect(r, outcome)
      PROVE  Spares(d)
  <2>1. mutation' = mutation /\ \A t \in Sagas : t # r.saga => saga'[t] = saga[t]
    BY <1>1, <1>3 DEF FinalizeEffect
  <2> QED BY <1>1, <1>3, <2>1 DEF Free, Spares
<1> QED BY <1>2, <1>3 DEF Workers

\* Every client keeps its grip.
LEMMA GripsStep ==
    ASSUME TypeOK, ClientsFit, LocksFit, AllGrip, [MutationsNext]_allvars
    PROVE  AllGrip'
<1>1. ASSUME NEW c \in Clients, NEW s \in Sagas, Get(c, s)
      PROVE  AllGrip'
  <2>1. PICK r : /\ client' = [client EXCEPT ![c] = r] /\ ClientFits(r)
                 /\ client[c].todo = <<>> /\ r.todo = <<>>
    BY <1>1, GetMoves
  <2>2. Moves(c, r)
    BY <1>1, <2>1 DEF Moves, OnlyAsks, Get, Fresh
  <2>3. \A d \in Clients : Spares(d)
    BY <1>1 DEF Get, vars, Spares
  <2>4. Grips(c)'
    BY <2>2, MoverGrips DEF AllGrip
  <2>5. \A d \in Clients : d # c => Grips(d)'
    BY <2>2, <2>3, OthersGrip DEF AllGrip
  <2> QED BY <2>4, <2>5 DEF AllGrip
<1>2. ASSUME NEW c \in Clients, CallStep(c)
      PROVE  AllGrip'
  <2>1. PICK r : Moves(c, r)
    BY <1>2, CallsMove
  <2>2. ASSUME NEW d \in Clients, d # c
        PROVE  Spares(d)
    <3>1. CASE Execute(c)
      BY <2>2, <3>1, WriteSpares DEF AllGrip
    <3>2. CASE ~ Execute(c)
      <4>1. UNCHANGED vars
        BY <1>2, <3>2 DEF CallStep, Ask, AskAgain, GiveUp, LockSaga, Reserve, Break
      <4> QED BY <4>1 DEF vars, Spares
    <3> QED BY <3>1, <3>2
  <2>3. Grips(c)'
    BY <2>1, MoverGrips DEF AllGrip
  <2>4. \A d \in Clients : d # c => Grips(d)'
    BY <2>1, <2>2, OthersGrip DEF AllGrip
  <2> QED BY <2>3, <2>4 DEF AllGrip
<1>3. ASSUME Workers \/ UNCHANGED allvars
      PROVE  AllGrip'
  <2>1. client' = client /\ lock' = lock /\ reserved' = reserved
    BY <1>3 DEF Workers, allvars
  <2>2. \A d \in Clients : Spares(d)
    <3>1. CASE Workers
      BY <3>1, WorkersSpare
    <3>2. CASE UNCHANGED allvars
      BY <3>2 DEF allvars, vars, Spares
    <3> QED BY <1>3, <3>1, <3>2
  <2>3. ASSUME NEW d \in Clients
        PROVE  Grips(d)'
    <3>1. Grips(d) /\ Spares(d)
      BY <2>2 DEF AllGrip
    <3>2. GripsRow(d)'
      BY <2>1, <3>1, GripMeans DEF Grips, GripsRow, Locked, Owns, Spares
    <3>3. GripsKey(d)'
      BY <2>1, <3>1, GripMeans DEF Grips, GripsKey, Spares
    <3> QED BY <2>1, <3>1, <3>2, <3>3 DEF Grips, Unanswered
  <2> QED BY <2>3 DEF AllGrip
<1> QED BY <1>1, <1>2, <1>3, StepCases
-----------------------------------------------------------------------------
(* Verdicts. *)

\* What a retry can record: one row, but for a confirmation, which records what
\* was confirmed.
CanResolve(p, kind, resolution, observed) ==
    \/ resolution = "retry_failed" /\ p.status # "manual_review" /\ observed = NULL
    \/ resolution = "confirm_not_applied" /\ p.status = "manual_review" /\ observed = NULL
    \/ /\ resolution = "confirm_applied" /\ p.status = "manual_review"
       /\ Confirmation(kind, observed) # {}

\* A retry finds a row to record exactly then.
LEMMA ResolvedMeans ==
    ASSUME NEW p, NEW row, NEW kind, NEW resolution \in Resolutions, NEW observed
    PROVE  Resolved(p, row, kind, resolution, observed) # {} <=>
              CanResolve(p, kind, resolution, observed)
<1>1. CASE resolution = "retry_failed"
  BY <1>1 DEF Resolved, CanResolve
<1>2. CASE resolution = "confirm_not_applied"
  BY <1>2 DEF Resolved, CanResolve
<1>3. CASE resolution = "confirm_applied" /\ p.status = "manual_review"
  <2>1. Resolved(p, row, kind, resolution, observed)
           = {SettledEffect(row, o) : o \in Confirmation(kind, observed)}
    BY <1>3 DEF Resolved, CanResolve
  <2> QED BY <1>3, <2>1 DEF CanResolve
<1>4. CASE resolution = "confirm_applied" /\ p.status # "manual_review"
  BY <1>4 DEF Resolved, CanResolve
<1> QED BY <1>1, <1>2, <1>3, <1>4 DEF Resolutions

\* The checks of retry, in their order, let through what the tables allow.
LEMMA RetryVerdictMeans ==
    ASSUME NEW p \in SagaRow, NEW E \in [Slots -> EffectRow],
           EffectsConsistent(p, E), StatusConsistent(p, E),
           NEW q, q.resolution \in Resolutions
    PROVE  RetryVerdict(p, E, q) = "ok" <=>
              /\ p.revision = q.expected_revision
              /\ \E e \in Selected(p, E) :
                    Resolved(p, E[e], e[1], q.resolution, q.observed) # {}
<1> DEFINE stopped == p.status \in {"manual_review", "failed", "cleanup_failed"}
           confirmable == \E e \in Selected(p, E) : Confirmation(e[1], q.observed) # {}
<1>1. stopped <=> Selected(p, E) # {}
  <2>1. stopped => One(Selected(p, E))
    BY SummaryHolds
  <2>2. ~ stopped => Selected(p, E) = {}
    BY DEF Selected
  <2> QED BY <2>1, <2>2 DEF One
<1>2. (\E e \in Selected(p, E) : Resolved(p, E[e], e[1], q.resolution, q.observed) # {}) <=>
         \/ stopped /\ q.resolution = "retry_failed" /\ p.status # "manual_review" /\ q.observed = NULL
         \/ q.resolution = "confirm_not_applied" /\ p.status = "manual_review" /\ q.observed = NULL
         \/ q.resolution = "confirm_applied" /\ p.status = "manual_review" /\ confirmable
  <2> DEFINE Can(e) == CanResolve(p, e[1], q.resolution, q.observed)
  <2>1. \A e \in Selected(p, E) :
           Resolved(p, E[e], e[1], q.resolution, q.observed) # {} <=> Can(e)
    BY ResolvedMeans
  <2>2. p.status = "manual_review" => stopped
    OBVIOUS
  <2>3. CASE Selected(p, E) = {}
    BY <1>1, <2>2, <2>3
  <2>4. CASE Selected(p, E) # {}
    BY <1>1, <2>1, <2>4 DEF CanResolve
  <2> QED BY <2>3, <2>4
<1>3. RetryVerdict(p, E, q) = "ok" <=>
         /\ p.revision = q.expected_revision
         /\ stopped
         /\ p.status = "manual_review" \/ q.resolution = "retry_failed"
         /\ ~ (q.resolution = "confirm_not_applied" /\ q.observed # NULL)
         /\ ~ (q.resolution = "retry_failed" /\ p.status = "manual_review")
         /\ ~ (/\ q.resolution = "retry_failed" /\ p.status \in {"failed", "cleanup_failed"}
               /\ q.observed # NULL)
         /\ ~ (q.resolution = "confirm_applied" /\ p.status = "manual_review" /\ ~ confirmable)
  BY DEF RetryVerdict
<1> HIDE DEF confirmable
<1> QED BY <1>2, <1>3 DEF Resolutions

\* The checks of request_cleanup do.
LEMMA CleanupVerdictMeans ==
    ASSUME NEW p, NEW q
    PROVE  CleanupVerdict(p, q) = "ok" <=>
              /\ p.revision = q.expected_revision
              /\ ~ p.cleanup_requested /\ p.status \in {"completed", "failed"}
  BY DEF CleanupVerdict

\* With the grips on row and key, the verdict is that of the tables.
LEMMA VerdictsFollow ==
    TypeOK /\ SagasConsistent /\ ClientsFit /\ AllGrip => VerdictsAreExact
<1> SUFFICES ASSUME TypeOK, SagasConsistent, ClientsFit, AllGrip, NEW c \in Clients,
                    Doing(c, "execute"), client[c].call.operation # "start"
             PROVE  Verdict(c) = "ok" <=> CanWrite(client[c].call)
  BY DEF VerdictsAreExact
<1> DEFINE call == client[c].call
           s == call.saga
           p == saga[s]
           E == effect[s]
<1>1. client[c].todo = <<"execute">> /\ CallFits(call)
  BY DoingMeans DEF ClientsFit
<1>2. Locked(c)
  BY <1>1 DEF Locked
<1>3. s \in Sagas /\ client[c].row = p /\ p.status # "absent" /\ p.requested_by = call.actor
  BY <1>2, GripMeans DEF AllGrip, Grips, GripsRow, Owns
<1>4. Reservable(call.key)
  BY <1>1 DEF AllGrip, Grips, GripsKey, Reservable
<1>5. Locks(s, call.actor, call.request.expected_revision) <=>
         p.revision = call.request.expected_revision
  BY <1>3 DEF Locks
<1>6. CASE call.operation = "retry"
  <2>1. p \in SagaRow /\ E \in [Slots -> EffectRow] /\ Consistent(p, E)
    BY <1>3 DEF TypeOK, SagasConsistent
  <2>2. EffectsConsistent(p, E) /\ StatusConsistent(p, E)
    BY <1>3, <2>1, StoredMeans
  <2>3. call.request.resolution \in Resolutions
    BY <1>1, <1>6 DEF CallFits
  <2>4. RetryVerdict(p, E, call.request) = "ok" <=>
           /\ p.revision = call.request.expected_revision
           /\ \E e \in Selected(p, E) :
                 Resolved(p, E[e], e[1], call.request.resolution, call.request.observed) # {}
    BY <2>1, <2>2, <2>3, RetryVerdictMeans
  <2>5. Verdict(c) = RetryVerdict(p, E, call.request)
    BY <1>3, <1>6 DEF Verdict
  <2> QED BY <1>4, <1>5, <1>6, <2>4, <2>5 DEF CanWrite
<1>7. CASE call.operation # "retry"
  <2>1. Verdict(c) = CleanupVerdict(p, call.request)
    BY <1>3, <1>7 DEF Verdict
  <2> QED BY <1>4, <1>5, <1>7, <2>1, CleanupVerdictMeans DEF CanWrite
<1> QED BY <1>6, <1>7
-----------------------------------------------------------------------------
(* Replays. *)

\* The saga of a committed command belongs to the actor of the command.
LedgerOwned ==
    \A k \in Keys : mutation[k] # NULL =>
        Owns(mutation[k].actor, mutation[k].provisioning_id)

\* No update changes who requested a saga.
LEMMA UpdatesKeepActor ==
    ASSUME NEW p \in SagaRow, NEW e, NEW outcome, NEW E
    PROVE  /\ Refresh(WithOrganization(p, e, outcome), E).requested_by = p.requested_by
           /\ Refresh(CleaningSaga(p), E).requested_by = p.requested_by
           /\ ClaimedSaga(p).requested_by = p.requested_by
           /\ QuarantinedSaga(p).requested_by = p.requested_by
  BY DEF Refresh, WithOrganization, CleaningSaga, ClaimedSaga, QuarantinedSaga, SagaRow

\* Nor does a step, once the saga is there.
LEMMA ActorsStay ==
    ASSUME TypeOK, [Next]_vars, NEW t \in Sagas, saga[t].status # "absent"
    PROVE  saga'[t].requested_by = saga[t].requested_by
<1>1. saga \in [Sagas -> SagaRow] /\ saga[t] \in SagaRow
  BY DEF TypeOK
<1>2. ASSUME NEW s \in Sagas, NEW a \in Actors, NEW n \in 0 .. MaxGrants, NEW k \in Keys,
             Start(s, a, n, k)
      PROVE  saga'[t].requested_by = saga[t].requested_by
  BY <1>1, <1>2 DEF Start
<1>3. ASSUME NEW s \in Sagas, NEW a \in Actors, NEW k \in Keys, NEW request \in Requests(s),
             Retry(s, a, k, request)
      PROVE  saga'[t].requested_by = saga[t].requested_by
  <2>1. PICK e, outcome : saga' = [saga EXCEPT ![s] =
                              Refresh(WithOrganization(saga[s], e, outcome), effect'[s])]
    BY <1>3 DEF Retry
  <2> QED BY <1>1, <2>1, UpdatesKeepActor
<1>4. ASSUME NEW s \in Sagas, NEW a \in Actors, NEW k \in Keys, NEW expected,
             RequestCleanup(s, a, k, expected)
      PROVE  saga'[t].requested_by = saga[t].requested_by
  <2>1. saga' = [saga EXCEPT ![s] = Refresh(CleaningSaga(saga[s]), effect'[s])]
    BY <1>4 DEF RequestCleanup
  <2> QED BY <1>1, <2>1, UpdatesKeepActor
<1>5. ASSUME NEW batch \in SUBSET Sagas, QuarantineExpired(batch)
      PROVE  saga'[t].requested_by = saga[t].requested_by
  <2>1. saga' = [s \in Sagas |-> IF s \in batch THEN QuarantinedSaga(saga[s]) ELSE saga[s]]
    BY <1>5 DEF QuarantineExpired, Quarantine
  <2> QED BY <1>1, <2>1, UpdatesKeepActor
<1>6. ASSUME NEW s \in Sagas, ClaimNext(s)
      PROVE  saga'[t].requested_by = saga[t].requested_by
  <2>1. saga' = [saga EXCEPT ![s] = ClaimedSaga(saga[s])]
    BY <1>6 DEF ClaimNext, Claim
  <2> QED BY <1>1, <2>1, UpdatesKeepActor
<1>7. ASSUME NEW r \in held, NEW outcome, FinalizeEffect(r, outcome)
      PROVE  saga'[t].requested_by = saga[t].requested_by
  <2>1. saga' = [saga EXCEPT ![r.saga] =
                    Refresh(WithOrganization(saga[r.saga], r.slot, outcome), effect'[r.saga])]
    BY <1>7 DEF FinalizeEffect
  <2> QED BY <1>1, <2>1, UpdatesKeepActor
<1>8. ASSUME NEW r \in held, FinalizeSuperseded(r) \/ WorkerLost(r)
      PROVE  saga'[t].requested_by = saga[t].requested_by
  BY <1>8 DEF FinalizeSuperseded, WorkerLost
<1>9. ASSUME NEW s \in Sagas, NEW e \in Slots, LeaseExpires(s, e)
      PROVE  saga'[t].requested_by = saga[t].requested_by
  BY <1>9 DEF LeaseExpires
<1>10. CASE UNCHANGED vars
  BY <1>10 DEF vars
<1> QED BY <1>2, <1>3, <1>4, <1>5, <1>6, <1>7, <1>8, <1>9, <1>10 DEF Next

\* A saga that is there stays there.
LEMMA SagasStay ==
    ASSUME TypeOK, SagasConsistent, SagasConsistent', TypeOK', Started, [Next]_vars,
           NEW s \in Sagas, saga[s].status # "absent"
    PROVE  saga'[s].status # "absent"
<1>1. saga[s].revision \in Nat /\ saga[s].revision >= 1
  BY DEF TypeOK, SagaRow, Started
<1>2. CASE Advances(s)
  <2>1. saga'[s].revision # 0
    BY <1>1, <1>2 DEF Advances, Keeps
  <2>2. saga'[s] # NoSaga
    BY <2>1 DEF NoSaga
  <2>3. StatusConsistent(saga'[s], effect'[s])
    BY <2>2 DEF SagasConsistent, Consistent
  <2> QED BY <2>3 DEF StatusConsistent, ExpectedStatus, RefreshedStatus
<1>3. CASE Rests(s)
  BY <1>3 DEF Rests
<1> QED BY <1>2, <1>3, StepAdvances

\* A command that commits belongs to the actor of its saga.
LEMMA LedgerOwnedStep ==
    ASSUME TypeOK, TypeOK', SagasConsistent, SagasConsistent', Started, LedgerOwned, [Next]_vars
    PROVE  LedgerOwned'
<1> SUFFICES ASSUME NEW k \in Keys, mutation'[k] # NULL
             PROVE  LET s == mutation'[k].provisioning_id
                    IN  saga'[s].status # "absent" /\ saga'[s].requested_by = mutation'[k].actor
  BY DEF LedgerOwned, Owns
<1>1. CASE mutation[k] # NULL
  <2>1. mutation'[k] = mutation[k]
    BY <1>1, LedgerStays
  <2>2. mutation[k].provisioning_id \in Sagas
    BY <1>1 DEF TypeOK, MutationRow
  <2>3. Owns(mutation[k].actor, mutation[k].provisioning_id)
    BY <1>1 DEF LedgerOwned
  <2> QED BY <2>1, <2>2, <2>3, SagasStay, ActorsStay DEF Owns
<1>2. ASSUME mutation[k] = NULL,
             NEW l \in Keys, NEW operation, NEW a, NEW s, NEW request,
             Complete(l, operation, a, s, request),
             saga'[s].status # "absent", saga'[s].requested_by = a
      PROVE  LET t == mutation'[k].provisioning_id
             IN  saga'[t].status # "absent" /\ saga'[t].requested_by = mutation'[k].actor
  <2>1. k = l
    BY <1>2 DEF Complete, TypeOK
  <2>2. mutation'[k].provisioning_id = s /\ mutation'[k].actor = a
    BY <1>2, <2>1 DEF Complete, TypeOK
  <2> QED BY <1>2, <2>2
<1>3. CASE mutation[k] = NULL
  <2>1. mutation' # mutation
    BY <1>3
  <2>2. ASSUME NEW s \in Sagas, NEW a \in Actors, NEW n \in 0 .. MaxGrants, NEW l \in Keys,
               Start(s, a, n, l)
        PROVE  LET t == mutation'[k].provisioning_id
               IN  saga'[t].status # "absent" /\ saga'[t].requested_by = mutation'[k].actor
    <3>1. saga'[s].status # "absent" /\ saga'[s].requested_by = a
      BY <2>2 DEF Start, StartedSaga, NoSaga, TypeOK
    <3> QED BY <1>2, <1>3, <2>2, <3>1 DEF Start
  <2>3. ASSUME NEW s \in Sagas, NEW a \in Actors, NEW l \in Keys, NEW request \in Requests(s),
               Retry(s, a, l, request)
        PROVE  LET t == mutation'[k].provisioning_id
               IN  saga'[t].status # "absent" /\ saga'[t].requested_by = mutation'[k].actor
    <3>1. saga'[s].status # "absent" /\ saga'[s].requested_by = a
      BY <2>3, SagasStay, ActorsStay DEF Retry, Locks
    <3> QED BY <1>2, <1>3, <2>3, <3>1 DEF Retry
  <2>4. ASSUME NEW s \in Sagas, NEW a \in Actors, NEW l \in Keys,
               NEW expected \in 1 .. saga[s].revision, RequestCleanup(s, a, l, expected)
        PROVE  LET t == mutation'[k].provisioning_id
               IN  saga'[t].status # "absent" /\ saga'[t].requested_by = mutation'[k].actor
    <3>1. saga'[s].status # "absent" /\ saga'[s].requested_by = a
      BY <2>4, SagasStay, ActorsStay DEF RequestCleanup, Locks
    <3> QED BY <1>2, <1>3, <2>4, <3>1 DEF RequestCleanup
  <2>5. ASSUME \/ \E batch \in SUBSET Sagas : QuarantineExpired(batch)
               \/ \E s \in Sagas : ClaimNext(s)
               \/ \E r \in held : \E outcome \in Answers(r) : FinalizeEffect(r, outcome)
               \/ \E r \in held : FinalizeSuperseded(r)
               \/ \E r \in held : WorkerLost(r)
               \/ \E s \in Sagas, e \in Slots : LeaseExpires(s, e)
               \/ UNCHANGED vars
        PROVE  FALSE
    BY <2>1, <2>5 DEF QuarantineExpired, Quarantine, ClaimNext, Claim, FinalizeEffect,
                      FinalizeSuperseded, WorkerLost, LeaseExpires, vars
  <2> QED BY <2>2, <2>3, <2>4, <2>5 DEF Next
<1> QED BY <1>1, <1>3
-----------------------------------------------------------------------------
\* The invariant, with the grips and the owners.
GripInvariant == MutationsInvariant /\ AllGrip /\ LedgerOwned

\* It is one.
LEMMA GripInvariance == MutationsSpec => []GripInvariant
<1>1. MutationsInit => AllGrip /\ LedgerOwned
  <2>1. ASSUME MutationsInit
        PROVE  AllGrip /\ LedgerOwned
    <3>1. \A c \in Clients : client[c].todo = <<>>
      BY <2>1 DEF MutationsInit, Idle
    <3>2. \A k \in Keys : mutation[k] = NULL
      BY <2>1 DEF MutationsInit, Init
    <3> QED BY <3>1, <3>2, PlansMean
            DEF AllGrip, Grips, GripsRow, GripsKey, Unanswered, Locked, LedgerOwned
  <2> QED BY <2>1
<1>2. MutationsInvariant /\ MutationsInvariant' /\ AllGrip /\ LedgerOwned
         /\ [MutationsNext]_allvars => AllGrip' /\ LedgerOwned'
  BY GripsStep, LedgerOwnedStep, InvariantSteps DEF MutationsInvariant
<1> QED BY <1>1, <1>2, MutationsInvariance, PTL DEF MutationsSpec, GripInvariant

\* A command is turned down if and only if it could not take effect, for any number
\* of clients, sagas and keys, whatever happened since the row was locked.
THEOREM VerdictExactness == MutationsSpec => []VerdictsAreExact
<1>1. GripInvariant => VerdictsAreExact
  BY VerdictsFollow DEF GripInvariant, MutationsInvariant
<1> QED BY <1>1, GripInvariance, PTL

\* What a client is told at the end of a transaction.
LEMMA EndTells ==
    ASSUME ClientsFit, NEW c \in Clients, NEW verdict \in {NULL, "ok"}, End(c, verdict)
    PROVE  client'[c].verdict = verdict
<1>1. client'[c] = [client[c] EXCEPT !.todo = <<>>, !.row = NULL, !.verdict = verdict]
  BY DEF End, ClientsFit
<1>2. client'[c] = [call |-> client[c].call, todo |-> <<>>, row |-> NULL, verdict |-> verdict,
                    view |-> client[c].view]
  BY <1>1, EndRecord DEF ClientsFit, ClientFits
<1> QED BY <1>2

\* A command that has taken effect is answered from the ledger, never turned down,
\* for any number of clients that ask again.
THEOREM Replaying == MutationsSpec => CommittedCommandsAreReplayed
<1> DEFINE Replayed == \A c \in Clients :
              InCall(c) /\ mutation[client[c].call.key] # NULL /\ Matches(client[c].call) =>
                  client'[c].verdict \in {NULL, "ok"}
<1>1. GripInvariant /\ [MutationsNext]_allvars => Replayed
  <2> SUFFICES ASSUME GripInvariant, [MutationsNext]_allvars, NEW c \in Clients,
                      InCall(c), mutation[client[c].call.key] # NULL, Matches(client[c].call)
               PROVE  client'[c].verdict \in {NULL, "ok"}
    OBVIOUS
  <2> DEFINE call == client[c].call
  <2>1. /\ ClientsFit /\ LocksFit /\ Grips(c) /\ LedgerOwned /\ TypeOK
        /\ client[c].todo # <<>> /\ client[c].verdict = NULL
    BY DEF GripInvariant, MutationsInvariant, AllGrip, Grips, Unanswered, InCall
  <2>2. ClientFits(client[c]) /\ CallFits(call) /\ call # NULL
    BY <2>1, NoCall DEF ClientsFit, ClientFits, CallFits
  <2>3. call.key \in Keys
    BY <2>2 DEF CallFits, Calls
  <2>4. ASSUME NEW d \in Clients, NEW r, Moves(d, r), d # c
        PROVE  client'[c] = client[c]
    BY <2>1, <2>4, OneMoves DEF Moves
  <2>5. CASE LockSaga(c)
    <3>1. client[c].todo = <<"lock", "reserve", "execute">>
      BY <2>2, <2>5, DoingMeans DEF LockSaga
    <3>2. call.saga # NULL
      BY <2>2, <3>1, ClientsAssumption DEF ClientFits, CallFits
    <3>3. Owns(call.actor, call.saga)
      BY <2>1, <2>3, <3>2 DEF Matches, LedgerOwned
    <3>4. Proceed(c, saga[call.saga])
      BY <2>5, <3>3 DEF LockSaga, Owns
    <3>5. PICK r : client' = [client EXCEPT ![c] = r] /\ Further(c, r, saga[call.saga])
      BY <2>1, <2>2, <3>1, <3>4, PlansMean, ProceedMoves
    <3>6. client'[c].verdict = client[c].verdict
      BY <2>1, <3>5 DEF Further, ClientsFit
    <3> QED BY <2>1, <3>6
  <2>6. CASE Reserve(c)
    <3>1. LedgerVerdict(call, client[c].row) = "replay"
      BY DEF LedgerVerdict
    <3>2. End(c, "ok")
      BY <2>6, <3>1 DEF Reserve
    <3> QED BY <2>1, <3>2, EndTells
  <2>7. CASE Execute(c)
    <3>1. client[c].todo = <<"execute">>
      BY <2>2, <2>7, DoingMeans DEF Execute
    <3> QED BY <2>1, <3>1 DEF Grips, GripsKey
  <2>8. CASE Break(c)
    BY <2>1, <2>8, EndTells DEF Break
  <2>9. CASE CallStep(c)
    <3>1. ~ AskAgain(c) /\ ~ GiveUp(c)
      BY DEF AskAgain, GiveUp
    <3>2. \A operation, a, k, s, request : ~ Ask(c, operation, a, k, s, request)
      BY <2>2 DEF Ask
    <3> QED BY <2>5, <2>6, <2>7, <2>8, <2>9, <3>1, <3>2 DEF CallStep
  <2>10. ASSUME NEW d \in Clients, CallStep(d), d # c
         PROVE  client'[c] = client[c]
    BY <2>1, <2>4, <2>10, CallsMove
  <2>11. ASSUME NEW d \in Clients, NEW s \in Sagas, Get(d, s)
         PROVE  client'[c] = client[c]
    <3>1. d # c
      BY <2>2, <2>11 DEF Get
    <3>2. PICK r : client' = [client EXCEPT ![d] = r] /\ ClientFits(r)
      BY <2>1, <2>11, GetMoves
    <3> QED BY <2>1, <3>1, <3>2, OneMoves
  <2>12. CASE Workers \/ UNCHANGED allvars
    BY <2>1, <2>12 DEF Workers, allvars
  <2> QED BY <2>1, <2>9, <2>10, <2>11, <2>12, StepCases
<1>2. GripInvariant /\ [MutationsNext]_allvars => [Replayed]_allvars
  BY <1>1
<1> QED BY <1>2, GripInvariance, PTL DEF MutationsSpec, CommittedCommandsAreReplayed
=============================================================================
