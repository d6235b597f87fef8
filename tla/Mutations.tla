----------------------------- MODULE Mutations -----------------------------
(***************************************************************************)
(* The commands of the public role statement by statement, as clients see  *)
(* them: a client reads a saga with get, asks for start, retry or          *)
(* request_cleanup under an idempotency key, and may ask again when the    *)
(* answer did not reach it.  Several clients may use one key.              *)
(*                                                                         *)
(* retry and request_cleanup lock the row of their saga and then reserve   *)
(* their key; start reserves its key and locks nothing.  INSERT ... ON     *)
(* CONFLICT DO NOTHING waits for a transaction that has reserved the same  *)
(* key and not ended.  What a transaction has decided from the row it      *)
(* locked it writes in the end, as one step of Storage.                    *)
(*                                                                         *)
(* The reads of get hold no lock: READ COMMITTED gives each statement a    *)
(* snapshot of its own, so the row and the steps of a view may be torn.    *)
(***************************************************************************)
EXTENDS Storage

CONSTANT Clients    \* instances and operators that call the public role

ASSUME ClientsAssumption ==
    /\ NULL \notin Clients \cup Sagas
    /\ NULL \notin [operation : {"start", "retry", "request_cleanup"}, actor : Actors,
                    key : Keys, saga : Sagas \cup {NULL}, request : Request]

VARIABLES
    client,      \* Clients -> what the client asks, and how far its call is
    lock,        \* Sagas -> the client whose transaction holds the row
    reserved,    \* Keys -> the client whose open transaction inserted it
    answered     \* the commands that were answered with a response, and with which

allvars == <<vars, client, lock, reserved, answered>>

\* Mutant: request_cleanup reserves its key first, as start does.
StatementsCleanupReservesFirst(operation) ==
    CASE operation = "start" -> <<"reserve", "execute">>
      [] operation = "retry" -> <<"lock", "reserve", "execute">>
      [] OTHER -> <<"reserve", "lock", "execute">>
Statements(operation) ==
    IF operation = "start" THEN <<"reserve", "execute">> ELSE <<"lock", "reserve", "execute">>

NoView == [saga |-> NULL, revision |-> 0, steps |-> NULL]
Idle == [call |-> NULL, todo |-> <<>>, row |-> NULL, verdict |-> NULL, view |-> NoView]
InCall(c) == client[c].todo # <<>>
Doing(c, statement) == InCall(c) /\ Head(client[c].todo) = statement
-----------------------------------------------------------------------------
(* get. *)

Steps(s) == [e \in Slots |-> [status |-> effect[s][e].state, attempt |-> effect[s][e].attempts,
                              external_id |-> effect[s][e].external_id]]

\* Mutant: the steps are read before the row.
ReadsStepsFirst(c, s) ==
    \/ /\ client[c].view.saga # s \/ client[c].view.revision # 0
       /\ client' = [client EXCEPT ![c] = [Idle EXCEPT !.view =
                    [NoView EXCEPT !.saga = s, !.steps = Steps(s)]]]
    \/ /\ client[c].view.saga = s /\ client[c].view.revision = 0
       /\ client' = [client EXCEPT ![c].view.revision = saga[s].revision]
\* The two queries of load_view_tx.
Reads(c, s) ==
    \/ client' = [client EXCEPT ![c] = [Idle EXCEPT !.view =
                    [NoView EXCEPT !.saga = s, !.revision = saga[s].revision]]]
    \/ /\ client[c].view.saga = s /\ client[c].view.steps = NULL
       /\ client' = [client EXCEPT ![c].view.steps = Steps(s)]

Get(c, s) ==
    /\ client[c].call = NULL
    /\ saga[s].status # "absent"
    /\ Reads(c, s)
    /\ UNCHANGED <<vars, lock, reserved, answered>>
-----------------------------------------------------------------------------
(* Calls. *)

Decisions == {d \in [expected_revision : {0}, resolution : Resolutions, observed : Observations] :
                 IF d.resolution = "confirm_applied" THEN d.observed # "mixed"
                 ELSE d.observed \in {NULL, "mixed"}}

\* The revision is the one the client has read.
Ask(c, operation, a, k, s, request) ==
    /\ client[c].call = NULL
    /\ operation # "start" => client[c].view.saga = s /\ client[c].view.steps # NULL
    /\ client' = [client EXCEPT ![c] = [Idle EXCEPT
          !.call = [operation |-> operation, actor |-> a, key |-> k, saga |-> s,
                    request |-> [request EXCEPT !.expected_revision =
                                    IF operation = "start" THEN 0 ELSE client[c].view.revision]],
          !.todo = Statements(operation)]]
    /\ UNCHANGED <<vars, lock, reserved, answered>>

\* A client that has heard nothing, or does not trust what it heard.
AskAgain(c) ==
    /\ client[c].call # NULL /\ ~ InCall(c)
    /\ client' = [client EXCEPT ![c] =
          [@ EXCEPT !.todo = Statements(client[c].call.operation), !.verdict = NULL]]
    /\ UNCHANGED <<vars, lock, reserved, answered>>

GiveUp(c) ==
    /\ client[c].call # NULL /\ ~ InCall(c)
    /\ client' = [client EXCEPT ![c] = Idle]
    /\ UNCHANGED <<vars, lock, reserved, answered>>
-----------------------------------------------------------------------------
(* Statements. *)

Without(locks, c) == [x \in DOMAIN locks |-> IF locks[x] = c THEN NULL ELSE locks[x]]
\* The transaction ends, and with it its locks and an open reservation.  A
\* client that was turned down drops its call, one that heard nothing keeps it.
End(c, verdict) ==
    /\ client' = [client EXCEPT ![c] =
          IF verdict \in {NULL, "ok"} THEN [@ EXCEPT !.todo = <<>>, !.row = NULL, !.verdict = verdict]
          ELSE [Idle EXCEPT !.verdict = verdict]]
    /\ lock' = Without(lock, c)
    /\ reserved' = Without(reserved, c)
Proceed(c, row) ==
    client' = [client EXCEPT ![c] = [@ EXCEPT !.todo = Tail(client[c].todo), !.row = row]]

\* Mutant: the row is read, not locked.
FreeAlways(s) == s \in Sagas
Free(s) == lock[s] = NULL

LockSaga(c) ==
    LET s == client[c].call.saga
    IN  /\ Doing(c, "lock")
        /\ Free(s)
        /\ IF saga[s].status # "absent" /\ saga[s].requested_by = client[c].call.actor
           THEN /\ Proceed(c, saga[s])
                /\ lock' = [lock EXCEPT ![s] = c]
                /\ UNCHANGED reserved
           ELSE End(c, "provisioning_not_found")
        /\ UNCHANGED <<vars, answered>>

Matches(call) ==
    LET row == mutation[call.key]
    IN  /\ row.operation = call.operation /\ row.actor = call.actor
        /\ row.request = call.request
        /\ call.saga # NULL => row.provisioning_id = call.saga

\* Mutant: the revision is compared before the ledger is asked.
LedgerVerdictAfterRevision(call, row) ==
    IF row # NULL /\ row.revision # call.request.expected_revision THEN "revision_conflict"
    ELSE IF mutation[call.key] = NULL THEN "execute"
    ELSE IF Matches(call) THEN "replay" ELSE "idempotency_conflict"
\* begin_mutation, for a key no open transaction has reserved.
LedgerVerdict(call, row) ==
    IF mutation[call.key] = NULL THEN "execute"
    ELSE IF Matches(call) THEN "replay" ELSE "idempotency_conflict"

\* Mutant: the view of today instead of the response of then.
ResponseOfToday(k) ==
    LET p == saga[mutation[k].provisioning_id] IN [status |-> p.status, revision |-> p.revision]
Response(k) == mutation[k].response

Reserve(c) ==
    LET call == client[c].call
        verdict == LedgerVerdict(call, client[c].row)
    IN  /\ Doing(c, "reserve")
        /\ reserved[call.key] = NULL
        /\ \/ /\ verdict = "execute"
              /\ Proceed(c, client[c].row)
              /\ reserved' = [reserved EXCEPT ![call.key] = c]
              /\ UNCHANGED <<lock, answered>>
           \/ /\ verdict = "replay"
              /\ End(c, "ok")
              /\ answered' = answered \cup {[call |-> call, response |-> Response(call.key)]}
           \/ /\ verdict \notin {"execute", "replay"}
              /\ End(c, verdict)
              /\ UNCHANGED answered
        /\ UNCHANGED vars

RetryVerdict(p, E, request) ==
    CASE p.revision # request.expected_revision -> "revision_conflict"
      [] /\ p.revision = request.expected_revision
         /\ \/ p.status \notin {"manual_review", "failed", "cleanup_failed"}
            \/ p.status # "manual_review" /\ request.resolution # "retry_failed"
            \/ request.resolution = "confirm_not_applied" /\ request.observed # NULL ->
            "invalid_transition"
      [] /\ p.revision = request.expected_revision
         /\ \/ /\ request.resolution = "retry_failed"
               /\ \/ p.status = "manual_review"
                  \/ p.status \in {"failed", "cleanup_failed"} /\ request.observed # NULL
            \/ /\ request.resolution = "confirm_applied" /\ p.status = "manual_review"
               /\ \A e \in Selected(p, E) : Confirmation(e[1], request.observed) = {} ->
            "manual_resolution_required"
      [] OTHER -> "ok"

CleanupVerdict(p, request) ==
    CASE p.revision # request.expected_revision -> "revision_conflict"
      [] p.revision = request.expected_revision
            /\ ~ p.cleanup_requested /\ p.status = "manual_review" -> "manual_resolution_required"
      [] p.revision = request.expected_revision
            /\ (p.cleanup_requested \/ p.status \notin {"completed", "failed", "manual_review"}) ->
            "invalid_transition"
      [] OTHER -> "ok"

\* Decided from the row that was locked.
Verdict(c) ==
    LET call == client[c].call
    IN  CASE call.operation = "start" -> "ok"
          [] call.operation = "retry" -> RetryVerdict(client[c].row, effect[call.saga], call.request)
          [] OTHER -> CleanupVerdict(client[c].row, call.request)

Write(call) ==
    \/ /\ call.operation = "start"
       /\ \E s \in Sagas, n \in 0 .. MaxGrants : Start(s, call.actor, n, call.key)
    \/ call.operation = "retry" /\ Retry(call.saga, call.actor, call.key, call.request)
    \/ /\ call.operation = "request_cleanup"
       /\ RequestCleanup(call.saga, call.actor, call.key, call.request.expected_revision)

Execute(c) ==
    /\ Doing(c, "execute")
    /\ End(c, Verdict(c))
    /\ IF Verdict(c) = "ok"
       THEN /\ Write(client[c].call)
            /\ answered' = answered \cup
                  {[call |-> client[c].call, response |-> mutation'[client[c].call.key].response]}
       ELSE UNCHANGED <<vars, answered>>

\* The process dies or its connection breaks; the client does not know when.
Break(c) ==
    /\ InCall(c)
    /\ End(c, NULL)
    /\ UNCHANGED <<vars, answered>>

\* Workers: a claim passes over a row that is held, a finalize waits for it.  No
\* lease runs out here: to a client a quarantine is a finalize that knows nothing.
Workers ==
    /\ \/ \E s \in {s \in Sagas : Free(s)} : ClaimNext(s)
       \/ \E r \in {r \in held : Free(r.saga)} :
             \E outcome \in Answers(r) : FinalizeEffect(r, outcome)
    /\ UNCHANGED <<client, lock, reserved, answered>>
-----------------------------------------------------------------------------
MutationsInit ==
    /\ Init
    /\ client = [c \in Clients |-> Idle]
    /\ lock = [s \in Sagas |-> NULL]
    /\ reserved = [k \in Keys |-> NULL]
    /\ answered = {}

MutationsNext ==
    \/ \E c \in Clients :
          \/ \E s \in Sagas : Get(c, s)
          \/ \E a \in Actors, k \in Keys :
                \/ Ask(c, "start", a, k, NULL, NoRequest)
                \/ \E s \in Sagas, d \in Decisions : Ask(c, "retry", a, k, s, d)
                \/ \E s \in Sagas : Ask(c, "request_cleanup", a, k, s, NoRequest)
          \/ AskAgain(c) \/ GiveUp(c) \/ LockSaga(c) \/ Reserve(c) \/ Execute(c)
          \/ Break(c)
    \/ Workers

MutationsSpec == MutationsInit /\ [][MutationsNext]_allvars
-----------------------------------------------------------------------------
\* What was decided from the locked row is what the tables allow when it is
\* written: a command is turned down if and only if it could not take effect,
\* whatever workers and other clients did since the row was read.
CanWrite(call) ==
    /\ Reservable(call.key)
    /\ CASE call.operation = "start" -> \E s \in Sagas : saga[s].status = "absent"
         [] call.operation = "retry" ->
               /\ Locks(call.saga, call.actor, call.request.expected_revision)
               /\ \E e \in Selected(saga[call.saga], effect[call.saga]) :
                     Resolved(saga[call.saga], effect[call.saga][e], e[1],
                              call.request.resolution, call.request.observed) # {}
         [] OTHER ->
               /\ Locks(call.saga, call.actor, call.request.expected_revision)
               /\ ~ saga[call.saga].cleanup_requested
               /\ saga[call.saga].status \in {"completed", "failed"}
VerdictsAreExact ==
    \A c \in Clients :
        Doing(c, "execute") /\ client[c].call.operation # "start" =>
            (Verdict(c) = "ok" <=> CanWrite(client[c].call))

\* No transactions wait for each other in a circle: of any that wait, one
\* waits for a row or a key that none of the others holds.
WaitsFor(c) ==
    CASE Doing(c, "lock") -> {lock[client[c].call.saga]} \ {NULL}
      [] Doing(c, "reserve") -> {reserved[client[c].call.key]} \ {NULL}
      [] OTHER -> {}
NoWaitCycle ==
    \A W \in (SUBSET Clients) \ {{}} : \E c \in W : WaitsFor(c) \cap W = {}

\* All answers with a response to one key are the same response to the same
\* command, whichever client asked and however much later it asked again.
AnswersOfAKeyAgree ==
    \A x, y \in answered : x.call.key = y.call.key => x = y

\* A view whose revision is still that of the saga shows the saga's steps as
\* they are, though get reads row and steps in two snapshots: whoever acts on
\* a torn view under the revision it shows is turned down.
ViewsAreSafeToActOn ==
    \A c \in Clients : LET v == client[c].view IN
        v.saga # NULL /\ v.steps # NULL /\ v.revision = saga[v.saga].revision =>
            v.steps = Steps(v.saga)

\* A command that has taken effect is never afterwards turned down: asking
\* again gets its response, although the revision it names is gone.
CommittedCommandsAreReplayed ==
    [][\A c \in Clients :
          InCall(c) /\ mutation[client[c].call.key] # NULL /\ Matches(client[c].call) =>
              client'[c].verdict \in {NULL, "ok"}]_allvars
=============================================================================
