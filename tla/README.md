# Organization provisioning: a TLA+ verification project

This directory holds TLA+ models of the organization provisioning plugin, the
TLC runs that check them on small instances, and TLAPS proofs that hold for
every instance. Paths are relative to the repository; `storage.rs` and `lib.rs`
are in `src/crates/lenso-organization-provisioning-postgres-plugin/src/`.

To check one run: `tlc -config MCStorageTwoSagas.cfg MCStorage`. To check the
proofs: `tlapm MutationsProofs.tla`, and likewise for the other seven proof
modules.

## 1. The system

The plugin bootstraps an organization and a set of entitlement grants as a
*saga*: `start` records the intent, workers call `process_due` to carry out one
*effect* at a time against two providers, and an operator decides what happens
when an effect was rejected or its outcome is not known. Nothing is replayed
automatically.

| Component | State | Operations | What makes it correct |
|---|---|---|---|
| Saga storage (`storage.rs`, migration 001) | four tables: sagas, effects, activity, mutations | `start`, `retry`, `request_cleanup`, `quarantine_expired`, `claim_next`, `finalize_effect`, `has_more` | the status summarizes the effects; one effect open at a time, in order; stale workers change nothing; cleanup covers exactly what was applied; every change has a revision and a log row |
| Mutation ledger (`begin_mutation`, `complete_mutation`) | a row per (caller, key) | reserve, complete, replay, conflict | a key takes effect once; its answer is the one it gave first |
| Row locks and snapshots (PostgreSQL, READ COMMITTED) | who holds which saga row; what each statement sees | `FOR UPDATE`, `SKIP LOCKED` | interleaved statements amount to whole transactions |
| Worker batch (`process_due`) | counters of one call | quarantine, then claim, execute, finalize up to a limit, then `has_more` | counters add up; every due saga is eventually served |
| Downstream execution (`execute_effect`) | none; holds an `EffectRecord` across the call | create, put, revoke | domain errors are failures, runtime errors are unknown, and ids are present |
| Providers (organization-admin, entitlements-admin; external) | what they created; what they remember of a key | create, put, revoke | idempotent by downstream key |
| Reading (`get`, `list`, cursors) | none | view, keyset pages | a view is one committed state; pages miss nothing they promise |
| Authorization (`authorize_public`, `authorize_worker`; Auth verifier external) | none | caller allowlists, actor assertion | the order of refusals; who may see a saga |
| Configuration and request validators | immutable | validate | bounds on single values |
| Plugin lifecycle (`activate`, `deactivate`) | the prepared handle | set once, close the pool | no call before activation; a batch cut off changes nothing |
| Schema operator, generated capability crates, tests | - | - | - |

**How they interact.** Every request goes through authorization and the
validators to one transaction of the storage; `process_due` is the only caller
with several transactions, and it calls a provider *between* two of them with
nothing locked. Workers, operators and other instances of the plugin meet only
in the database: by row locks, by the lease and its fence (`lease_token`), by
the saga's `revision`, and by the ledger's keys.

**What is hard.** A worker that dies, or answers after its lease was
quarantined and after an operator, and another worker, acted on the same
effect. A status column that three pieces of SQL write independently and every
query trusts. A retry that selects its effect without naming a kind. Queries
that choose a row in one snapshot and read it in another. A cleanup that starts
from any mixture of applied, failed, confirmed and pending grants. Commands
repeated with the same key, or sent by two operators at one revision.
`PROJECT.json` lists each hazard at its line, with the properties that cover it.

## 2. The modules

| Module | What it is |
|---|---|
| `Storage` | the four tables and the transactions on them, each one step |
| `StorageInvariant` | the inductive invariant, a predicate of one saga's rows |
| `Lifecycle` | abstract specification: the state table of `docs/plugin-card.md`, without rows, leases or fences |
| `StorageLifecycle` | the refinement mapping from `Storage` to `Lifecycle` |
| `StorageDocs` | two statements of the repository that `Storage` does not satisfy |
| `RowLocks` | `claim_next` and `quarantine_expired` statement by statement under READ COMMITTED, over the tables of `Storage` |
| `MCStorage`, `MCRowLocks`, `MCProvisioning`, `MCMutations`, `MCWorker`, `MCListing` | symmetry and search constraints for TLC |
| `StorageProofs` | proofs of the type invariant, of the inductive invariant and of what it implies |
| `StorageHistoryProofs` | proofs about steps: finality, versioning, the log, no replay; the records workers hold; the ledger against the log |
| `StorageLifecycleProofs` | `Storage` implements `Lifecycle` |
| `RowLocksProofs` | `RowLocks` implements `Storage`; a claim finds its effect |
| `Provisioning` | `Storage` with the two providers and the calls that outlive their workers |
| `ProvisioningProofs` | `Provisioning` implements `Storage`; one organization comes of a saga; what exists at the providers agrees with what the saga says |
| `Mutations` | the commands of the public role statement by statement, as clients see them; `get` |
| `MutationsProofs` | `Mutations` implements `Storage`; no deadlock; one answer per key; safe views; exact verdicts; replays |
| `Worker` | `process_due`: batches of several workers, their counters, `activate` and `deactivate`; liveness |
| `WorkerProofs` | `Worker` implements `Storage`; exact counters; bounded overtaking |
| `Listing` | `list`: pages, cursors and filters over the sagas of `Lifecycle` |
| `ListingProofs` | pages descend and skip nothing they owe |

### Storage

| Variable | In the code |
|---|---|
| `saga[s]` | a row of `organization_provisionings`; `NoSaga` if there is none |
| `effect[s][slot]` | a row of `organization_provisioning_effects`; a slot is its (kind, ordinal), unique in a saga |
| `activity[s]` | the saga's rows of `organization_provisioning_activity`, in order |
| `mutation[k]` | a row of `organization_provisioning_mutations`, by (caller, key) |
| `held` | the `EffectRecord`s workers hold between `claim_next` and `finalize_effect` |

| Action | In the code |
|---|---|
| `Start` | `start`: ledger row, saga, one create and up to `MaxGrants` put effects, activity |
| `Retry` | `retry`: `lock_saga`, revision, ledger, the selected effect, the resolution, `refresh_saga_status`, activity |
| `RequestCleanup` | `request_cleanup`: skips pending and failed puts, adds a revocation for each applied one, refreshes |
| `QuarantineExpired` | `quarantine_expired`, a batch of sagas in one transaction |
| `ClaimNext` | `claim_next`: the saga query, the effect query, both updates, activity, the record it returns |
| `FinalizeEffect`, `FinalizeSuperseded` | the two branches of `finalize_effect`'s fence check; the outcomes are those `execute_effect` can return (`Answers`) |
| `WorkerLost` | a worker that never finalizes: death, a lost connection, `deactivate` |
| `LeaseExpires` | `CURRENT_TIMESTAMP` passes `lease_until`, whatever the worker does |

`RefreshedStatus`, `CleanedEffects`, `SettledEffect`, `Before` and the other
operators are the SQL expressions and loops those functions use; `map` in
`PROJECT.json` gives the lines of each.

Every transaction other than the two queries with `SKIP LOCKED` locks its saga
row before it reads anything of the saga, so it is a single step; `RowLocks`
shows the same of those two. Abstractions of data:

- Times are left out. A lease is `ahead` or `past`, and which due saga comes
  first is open, because `SKIP LOCKED` may pass over any that is held.
- A fence is a random UUID in the code, a fresh number in the model: nothing
  reads more than equality.
- `organization_id` stands for (organization_id, owner_membership_id), which are
  only written together.
- Operator observations are none, an organization's pair, a grant id, or
  `mixed`: any combination of columns no arm of `retry`'s match accepts.
- Error texts, receipts, evidence, names, slugs and what a grant confers are left
  out; `last_error` is kept as present or absent because the status reads it.
- A call that fails, conflicts or is replayed changes nothing and is a stutter.
  The ledger's state `started` is written and completed by one transaction, so
  it is never committed.
- The number of grants of a saga is chosen freely at `Start`: the code copies
  the configuration of the moment.
- `Sagas` bounds how many ids may be drawn, `Keys` how many commands may take
  effect, since each uses a new key. A retry chain is therefore as long as the
  keys allow, and so is the number of attempts of an effect. Expired leases,
  lost workers and late answers are not bounded by anything else.

### RowLocks

`lock` says which connection's transaction holds a saga row and `tx` where each
transaction is: its snapshot, the leases past at its start
(`CURRENT_TIMESTAMP` is the time of the transaction's start), the row it has
locked and what it has found. `Scan` takes the snapshot of the saga query;
`LockRow` passes over held rows and, as READ COMMITTED does for a row that has
changed, evaluates the condition again with the new saga row and the *old*
effect rows of the EXISTS; `FindEffect` and `MissEffect` are the second query,
with a snapshot of its own; `Commit` writes; `Rollback` is an error, a lost
connection or a dead worker. `FindNone` is allowed at any time, which covers
rows held by transactions the model keeps as single steps. Those (`Others`) wait
until the row is free. Insertions are blocked by no row.

### Lifecycle

A saga is a set of parts to do (part 0 the organization, part i a grant), a set
done, and at most one part that is open: running, failed or lost. `Start`,
`Claim`, `Settle`, `Reject`, `Lose`, `Reopen` and `RequestCleanup` are the rows of
the documented table, and `shown` is the status it gives. The mapping reads
`work` off the effect rows of the phase a saga is in, and `shown` off the stored
`status` column: that the two agree after every transaction is a large part of
what the refinement shows.

### Provisioning

| Variable | In the code |
|---|---|
| `calls` | requests of `execute_effect` under way, and answers nobody has read yet |
| `organizations`, `grants` | what exists at the providers, with the saga and attempt that made it |

`Send` is a call of `create_organization`, `put_entitlement` or
`revoke_entitlement` after its own refusals (`Callable`); `Serve` is the provider
carrying it out, or rejecting it; `Finalize` is what the worker makes of the
answer, or of a runtime failure, and `finalize_effect`; `Lose` is a worker that
is gone. A call whose worker gave up stays in `calls` and can be served at any
later time, or never. `DomainError`, `Compensated` and `RuntimeFailure` are the
arms that turn a provider's reply into an outcome.

The providers are other plugins. What is assumed of them is what
`docs/plugin-card.md` and the requests rely on: a creation is idempotent under
its key (`DownstreamKey`), a put converges on one grant per scope, subject and
feature, a revocation names a grant id and a missing one is "already absent",
and a domain error means nothing was done. Ids are never given out again: a grant
that was revoked and one put later have different ids (`NewGrantId`).
An operator's `confirm_applied` is what the provider shows at that time (`Verified`),
because the code records it without asking; `confirm_not_applied` is not restricted,
since a delayed call can make it wrong after the fact.

### Mutations

| Variable | In the code |
|---|---|
| `client[c]` | a client: its last view, the call it made, the statements still to run, the locked row, the verdict it heard |
| `lock[s]` | the transaction that holds the saga row (`lock_saga`) |
| `reserved[k]` | the open transaction that inserted the ledger row of a key (`begin_mutation`) |
| `answered` | history: the commands answered with a response, and with which |

`Get` is the two queries of `load_view_tx`, each with its own snapshot: the row,
later the steps. `Ask`, `AskAgain` and `GiveUp` are the client. A call is its
statements in order: `LockSaga` (not for `start`), `Reserve` (insert, or wait for
whoever inserted the key, then replay or conflict), `Execute` (the checks on the
locked row, the writes, the commit, which is one action of `Storage`). `Break` is
a connection or process that fails at any statement. The verdicts are in the
code's order: not found, replay or key conflict, revision, transition. A request
hash is the request itself. Workers take part only through the rows they lock;
no lease runs out in this module, because to a client a quarantine is what a
finalize that knows nothing is: one more revision.

### Worker

| Variable | In the code |
|---|---|
| `batch[w]` | a call of `process_due`: where it is, whether its pool is open, the record it executes, its counters |
| `prepared` | the handle `activate` sets and `deactivate` takes |
| `older` | `updated_at`: the pairs of sagas of which the first bears an earlier time |
| `locked` | the sagas whose row a transaction holds that is still open |
| `mishaps`, `overtaken`, `counted` | a bound, and history for the properties |

`QuarantineStep`, `ClaimStep`, `ClaimNone`, `FinalizeStep` and `Reply` are the loop;
`Fail` is any `?` in it, or the worker's death, with the record it held;
`PoolClosed` is the first query after `deactivate`. Keys and new sagas are drawn in
one order only (`Drawn`): there is no symmetry to exploit in a liveness run, and
nothing compares them.

`Hold` and `Release` are transactions that keep a row without changing it yet: a
command that waits for its key or is about to be turned down, a claim that has not
committed. A claim takes a due saga that is the oldest of those whose row is free
(SKIP LOCKED) and finds none when all are held; a quarantine passes over held rows
as well; `finalize_effect` and the commands wait.

`updated_at` is the time at which the writing transaction *began*, so a
transaction that waited for its row bears a time before others that committed
meanwhile. `Stamped(q, B)` gives q any place in the order after the sagas in B:
a command may have begun at any time, a `finalize_effect` after what came before
its saga when the saga was claimed. A claim puts its saga last: what can be read
when it commits was written before the outcome of that claim will be. The
sagas of a quarantine keep their places, because nothing compares them until an
operator has written them again.

Transactions are single steps here, as in `Storage`: a claim whose snapshot is
older than the last commit is the subject of `RowLocks`. That is why
`overtaken[w][s][q]` is counted for each worker by itself: a worker begins its
second claim of q after it has recorded the outcome of its first, and sees both.

### Listing

| Variable | In the code |
|---|---|
| `now` | the database's clock |
| `begun[s]`, `row[s]` | a start that is open, and the columns of a committed saga |
| `walk` | a client's way through the pages: filter, cursor, what it has seen; `owed` is history |

It EXTENDS `Lifecycle` rather than `Storage`: a page shows ids, times and
statuses, and the state table says which statuses a saga can go through.
`created_at` is the time at which a start's transaction *begins* (`BeginStart`),
the saga is visible when it commits (`CommitStart`), and several may share a
time. Ids are numbers, because the code orders by them. `Fetch` is the query with
its keyset condition, ORDER BY and LIMIT (`FirstOf`), `Items` and `NextCursor` the
truncation and the cursor, `EncodeCursor` and `DecodeCursor` the conversion: times are in nanoseconds
and the cursor in microseconds, so it is a division and a multiplication, exact
because the column holds no more than microseconds. Requests that are refused
(limit, status, cursor) change nothing. A saga that commits, or comes to match the
filter, while its place is still to come is `owed` from then on; only one whose
place the cursor has `Passed` is not.

## 3. The runs

The `Storage` and `provisioning` runs turn TLC's deadlock check off because that
system really stops, when every saga has settled and no key is left for a
command. The others leave it on, but it says nothing of locks: a transaction can
always fail (`Rollback`, `Break`), a client ask again, a worker call again. That
no transactions wait for each other for ever is `NoWaitCycle`.

| Run | Instance | Distinct states | What it shows |
|---|---|---|---|
| `one_saga` | 1 saga, up to 2 grants, 4 keys, 2 organization ids, 2 grant ids | 22,684 | rows, log and held records agree through every order of claims, answers, lost workers, expired leases and four commands |
| `two_sagas` | 2 sagas, 2 actors, up to 1 grant, 4 keys | 66,038 | fences, revisions and the ledger keep workers and operators apart; `has_more` is exact |
| `lifecycle` | 2 sagas, up to 2 grants, 3 keys, batches of 2 | 23,308 | the inductive invariant holds; `Storage` implements `Lifecycle` |
| `row_locks` | 2 connections, 1 saga, up to 1 grant, 2 keys | 61,514 | what commits is a step of `Storage`; a claim always finds its effect |
| `row_locks_batch` | 2 connections, 2 sagas without grants, batches of 2 | 50,544 | the same for quarantines of several sagas |
| `provisioning` | 1 saga, up to 2 grants, 3 keys, 2 organization ids, 3 grant ids | 36,481 | what exists at the providers agrees with the saga, whatever calls do after their workers; refinement of `Storage` |
| `mutations` | 2 clients, 2 actors, 1 saga without grants, 3 keys, at most 5 revisions (`FewRevisions`) | 698,845 | exact verdicts, replays, no deadlock, safe views |
| `worker` | 2 workers, 2 sagas, up to 1 grant, 2 keys, batches of 2, 1 mishap (a batch that fails, a pool that closes or a row that is held) | 416,480 | exact counters, no starvation while a row is free, and liveness |
| `listing` | 3 sagas, 2 actors, filters *any* and *pending*, pages of 1 and 2, 2 ticks, at most 2 sagas not fresh (`FewMoves`) | 269,002 | pages miss nothing they owe |
| `quarantine_race` | as `row_locks` | violation | a quarantine may find no expired effect (finding 1) |
| `doc_table` | 1 saga, 3 keys | violation | finding 2 |
| `response_schema` | 1 saga, up to 33 grants | violation | finding 3 |

**Why the bounds are enough.** Two grants are the least for which order among
grants, a mixture of applied and failed ones, and a cleanup with more than one
revocation exist. Four commands allow start, a confirmation, a cleanup and a
retry of a revocation, or three retries of one effect, each leaving a
stale worker behind; two ids of each sort tell a recorded id from another
one. Two sagas with two actors are the least for the ledger to relate different
sagas and for ownership to matter; `lifecycle` and `row_locks_batch` let one
quarantine take both. Two connections are the least for a race of claims; a
saga without grants still has an effect, so the batches need no more.

In `provisioning` the number of calls is bounded by the attempts alone, and those
by the keys: three allow a start and two decisions about one effect, or a
decision and a cleanup, each with a delayed call left behind. In `mutations` a
deadlock needs two transactions and two resources, and a replay, a conflict and a
fresh command need three keys at most; five revisions allow a start, a claim, an
outcome, a command and what follows it. In `worker` two sagas are the least for
one to overtake another, two workers the least for them to compete, a batch of
two for a quarantine to use up part of the limit, and one mishap stops a batch
at any query, closes the pool under both, or holds a row over any number of claims of
the other saga. In `listing` three sagas with pages
of one and two give walks of up to three pages, ids that agree and disagree with
the times, and starts that commit behind the cursor; the constraint cuts
histories in which all three have moved on, which differ in nothing a page shows.
For what is proved (section 4) the bounds do not matter.

**Fairness.** Only `worker` needs it: `DueSagasComeToRest` is a leads-to. Weak
fairness is assumed of
- each step of a batch that runs: the loop has no branch that waits, its queries
  return or fail, and calls to providers have the deadline of the invocation;
- `Invoke` and `Activate`: the plugin starts no worker of its own, so somebody has
  to call `process_due` again and to activate it after it was deactivated; this
  is what the host owes, and without it nothing can be promised;
- `Release`: every transaction that holds a row ends; it runs no calls to providers;
- `Expire`: time passes.

Nothing is assumed of operators, of a provider's success (every outcome is
allowed at every call, the unknown one included) or of mishaps. A saga comes to
rest when it has ended or waits for an operator, which is all the code promises.

**Symmetry.** Sagas, actors, keys, ids, clients and connections are model values
that nothing orders, and only safety is checked under symmetry. `worker` has
none, because of liveness, and `listing` none, because ids and times are ordered.

**`response_schema`** searches for a long history and is limited by the
constraint `AllSucceed` to those in which no call fails; a violation found under
a constraint is one without it.

**Properties.**

| Property | Says |
|---|---|
| `TypeOK` | every column has a value of its type |
| `StatusSummarizesEffects` | the status fits the effects: due means claimable, running means exactly one in flight, stopped means exactly one for the operator, of the saga's phase |
| `NoAutomaticReplay` | between two claims of an effect there is a retry of it |
| `HeldInputsAreRecorded` | a worker's record, however stale, has the recorded organization or grant id |
| `GrantsNeedOrganization` | no grant before the organization; the residue flag is exact |
| `CleanupCoversGrants` | revocations are exactly the applied grants, by their ids |
| `ActivityCoversRevisions` | one log row for each revision, in order |
| `SettledEffectsAreFinal` | applied, compensated and skipped effects never change |
| `EveryChangeIsVersioned` | what changes a saga raises its revision by one |
| `OneFenceHolder` | at most one record of a saga can be finalized |
| `CommandsAreSerialized` | a command commits at the revision after the one its caller read, and no two at the same |
| `LedgerMatchesActivity` | the keys and the operator rows of the log correspond |
| `HasMoreIsExact` | `has_more` iff a claim or a quarantine has something to do |
| `SagasConsistent` | the inductive invariant |
| `ImplementsLifecycle` | refinement of the documented table |
| `TransactionsAreAtomic` | `RowLocks` implements `Storage` |
| `ClaimFindsEffect` | the `fetch_one` of `claim_next` finds a row |
| `ImplementsStorage` | `Provisioning` implements `Storage`: no reply or silence gives an outcome it does not allow |
| `RecordedOrganizationIsTheOnlyOne` | a saga that records an organization made that one and no other |
| `CompletedMeansProvided` | of a completed saga the organization and every grant are in force under the ids recorded |
| `NoGrantOutlivesCleanup` | a grant in force after a cleanup was put by a call an operator had decided about |
| `ResidueIsKnown` | an organization that exists is shown as residue, unless an operator decided about its creation |
| `VerdictsAreExact` | a command is turned down iff it could not take effect when its verdict was written |
| `NoWaitCycle` | transactions do not wait for each other in a circle |
| `AnswersOfAKeyAgree` | a key has one response to one command, whoever asks and whenever |
| `CommittedCommandsAreReplayed` | a command that took effect is never turned down when it is asked again |
| `ViewsAreSafeToActOn` | a view, torn or not, whose revision is current shows the current steps |
| `CountersMatchLog` | the counters of all batches are the rows of the log, and the limit is kept |
| `BoundedOvertaking` | while a saga is due, no worker claims another one twice before it; claims made while its row is held do not count, and an operator who acts on the other starts the count anew |
| `DueSagasComeToRest` | a saga that is due or taken ends or waits for an operator |
| `PagesDescend` | no saga twice on the pages of a walk, none out of order |
| `NothingOwedIsSkipped` | a finished walk has shown all that have matched its filter ever since their place was still to come |

`NoGrantOutlivesCleanup` and `ResidueIsKnown` have an exception on purpose: without
it TLC finds a call that reaches the provider after an operator confirmed that it
was not applied. The code cannot know; the properties say that nothing else can
leave a grant or an organization behind unseen.

Each comes with a mutant, a plausible error in one mapped definition, that TLC
finds to violate it.

## 4. The proofs

Assumptions on the constants, each named in its module:

- `Storage`: `MaxGrants` is a natural number; `NULL` is none of the ids, actors,
  numbers or lease values, and no ledger row; organization ids and grant ids are
  disjoint.
- `Provisioning`: `NULL` is no outcome (`NoReplyAssumption`).
- `Mutations`: `NULL` is no client, saga or call (`ClientsAssumption`).
- `RowLocks`: `NULL` is no connection (`ConnectionsAssumption`).
- `RowLocks` and `Worker`: a batch's limit is at least 1 (`BatchLimitAssumption`);
  `process_due` refuses others.
- `Listing`: ids are numbers, because the code orders them (`SagasAreOrdered`), and
  a page's limit is between 1 and 100 (`LimitsAssumption`), as `list` demands.

The sets of sagas, actors, keys, ids, clients, connections and workers may be
infinite.

| Theorem | Property |
|---|---|
| `Typing` | `TypeOK` |
| `Consistency` | `SagasConsistent` |
| `StatusSummary` | `StatusSummarizesEffects` |
| `OrganizationOrdering` | `GrantsNeedOrganization` |
| `CleanupCoverage` | `CleanupCoversGrants` |
| `HasMoreExactness` | `HasMoreIsExact` |
| `SettledFinality` | `SettledEffectsAreFinal` |
| `Versioning` | `EveryChangeIsVersioned` |
| `HistoryCoverage` | `ActivityCoversRevisions` |
| `NoReplay` | `NoAutomaticReplay` |
| `HeldInputs` | `HeldInputsAreRecorded` |
| `FenceExclusion` | `OneFenceHolder` |
| `Serialization` | `CommandsAreSerialized` |
| `LedgerAgreement` | `LedgerMatchesActivity` |
| `LifecycleRefinement` | `ImplementsLifecycle` |
| `StatementsAreAtomic` | `TransactionsAreAtomic` |
| `ClaimsFind` | `ClaimFindsEffect` |
| `ProvisioningImplements` | `ImplementsStorage` |
| `OneOrganization` | `RecordedOrganizationIsTheOnlyOne` |
| `Residue` | `ResidueIsKnown` |
| `NoLeftovers` | `NoGrantOutlivesCleanup` |
| `Provision` | `CompletedMeansProvided` |
| `MutationsImplement` | `MutationsSpec => Spec` |
| `NoDeadlock` | `NoWaitCycle` |
| `OneAnswerPerKey` | `AnswersOfAKeyAgree` |
| `ViewSafety` | `ViewsAreSafeToActOn` |
| `VerdictExactness` | `VerdictsAreExact` |
| `Replaying` | `CommittedCommandsAreReplayed` |
| `WorkerImplements` | `WorkerSpec => Spec` |
| `Counting` | `CountersMatchLog` |
| `Overtaking` | `BoundedOvertaking` |
| `Paging` | `PagesDescend` |
| `Completeness` | `NothingOwedIsSkipped` |

**The inductive invariant.** None of the properties is inductive alone:
`StatusSummarizesEffects` says nothing of the columns a later refresh reads, and
`CleanupCoversGrants` nothing of how a failed creation is left behind.
`Consistent(p, E)` (`StorageInvariant`) speaks of one saga row and its effects:
either neither exists, or

- `RowsAgree`: lease, fence, error and attempts go with the state of the effect;
- `KindsAgree`: the states each kind can be in;
- `OneOpen`: at most one effect in flight, failed or unknown;
- `OrganizationFirst`: grants are untouched until the creation is applied, and
  the saga records its id;
- `CleanupMirrors`: once cleanup is requested, revocations mirror applied grants;
- `StatusConsistent`: the status is the one `refresh_saga_status` would compute,
  or *running* if an effect is in flight.

The last is the heart: a refresh computes it, and the proof shows that a claim
and a quarantine, which write a status of their own, arrive at the same. Being a
predicate of rows, it is preserved by lemmas about each update (`StartKeeps`,
`ClaimKeeps`, `SettleKeeps`, `RetryKeeps`, `CleanupKeeps`, `QuarantineKeeps`,
`ExpiryKeeps`), and `NextConsistent` only takes the actions apart.

**Histories.** `StepAdvances` shows that a step of a saga either adds one
revision and one log row, keeps what is settled and forgets no attempt, or
leaves everything but a lease. Finality, versioning and the log's coverage
follow. `NoReplay` adds that an effect waiting for a claim although it was
claimed before has been retried since.

**Workers.** `WorkerInvariant` says that a held grant's organization, or a held
revocation's grant, was applied with the id held, which finality keeps true, and
that a fence is that of an attempt made and of one record.

**Commands.** `LedgerStep` shows that a step carries out exactly one command,
which takes a free key and logs one row of its kind at the next revision, or
leaves the ledger alone and logs no row of a command's kind. That rows of the
ledger and operator rows of the log correspond, and that no two commands share a
revision, follows from it and from the log's coverage.

**The documented table.** Under `Consistent`, a transaction that settles, claims,
reopens or loses an effect moves one part between *to do*, *done* and *open*
(`Follows`), and leaves the other parts alone; `request_cleanup` mirrors the applied
grants. From these facts about rows each transaction is found to be a step of
`Lifecycle`, the status it shows included. A quarantine of several sagas is one
step of several of its sagas.

**Statements.** `LockInvariant` follows a transaction of `RowLocks` from its saga
query to its commit: the rows it has locked, and the effects it has found, are
still what it chose them for (`HoldsRows`), since every other transaction needs the
row (`Spared`); a lease that was past when it began stays past, and the fence it was
past for is never given out again (`PastStays`); a quarantine stays within its limit
(`Within`). The commit is then a step of `Storage`, and everything before it a
stutter. That `claim_next` never misses (`Fits`) does not rest on its snapshot,
which may be stale: the second check of the status alone, with `Consistent`, gives
an effect to claim. `quarantine_expired` has no such argument: finding 1.

**Providers.** `CallsFit`, that a waiting answer is one its kind of call can have,
is inductive by itself and gives the refinement: what a worker makes of an
answer, or of silence, is among `Answers`. With it `Storage`'s theorems hold of
`Provisioning`. For the one organization the invariant adds that an organization
is known by its key, and that every id that was answered or recorded is that of
the saga's organization; an operator's confirmation keeps it by `Verified`.

The other three need an account of every call (`ProvidersInvariant`). The log has a
claim for each attempt of an effect, and between two of them the decision that
allowed the second (`DecisionsSound`); a call belongs to one attempt and one record
(`CallsOwned`); what an attempt made is what its call was
answered, unless nobody waits for the answer any more (`MadeSound`); and an effect
that is over without a decision has no call of its last attempt left that could
still be carried out (`FinishedSound`). `ResidueIsKnown` and `NoGrantOutlivesCleanup`
follow. For `CompletedMeansProvided` the grants are followed as well: one with a
recorded id is the one recorded (`GrantsRecorded`), it is in force until cleanup asks
for its revocation (`GrantsInForce`, `AnswersInForce`), and a revocation recorded or
answered leaves none (`GrantsRevoked`).

**Clients.** `MutationsInvariant` types the clients (`ClientsFit`) and says what a
client that holds something has left to do (`LocksFit`): who holds a row has
passed its lock, who holds a key has only to execute. Among clients that wait, one
that waits for a key therefore waits for somebody who does not wait, and if all
wait for rows none of them holds one: no circle. Workers cannot close one: `claim_next` and
`quarantine_expired`, the only transactions that hold several rows, pass over those
that are held, `finalize_effect` waits for a row while it holds none, and none of
them reserves a key. The refinement needs only that a
revision a client names exists (`Started`). With it, ledger rows never change
(`LedgerStays`), so answers taken from them agree; and a view is never ahead of
its saga (`ViewsAgree`), while whatever changes steps raises the revision, so that
a view under the current revision shows the current steps.

A verdict is exact because of what its client grips when it is written
(`GripInvariant`): the row it locked, which nobody else changes meanwhile, is the
one it read, and belongs to its actor; a key it reserved is still in no row of the
ledger. The code then asks in an order that gives each refusal only when the
command could not take effect. A committed command is answered again by the same
facts, with `LedgerOwned`: the saga of a ledger row belongs to the actor of its
command, so that the row is found before the ledger is asked.

**Batches.** `RecordsHeld` says that a batch that executes holds a record of its own;
with it every step of `Worker` is one of `Storage` or a stutter, and the theorems
about `Storage` hold under `process_due`. A counter's sum over all workers is the
size of the set `Units`, so that it needs no recursion: `UnitsGrow` and `UnitsShrink`
are what a change at one worker does to it, `OtherRowsStay` and `NewRowsCount` what a
transaction does to the rows of the log that the counter stands for (`Kinds`). Then
`Tallies` is inductive: the ended batches' counter and the running ones' units are
as many as those rows. For `BoundedOvertaking`, `OvertakingSound` says
that a due saga which a worker's claims of another have overtaken is now before that
other one. A claim passes over no due saga that is free and older, and puts what it
takes last (`ClaimOvertakes`); no other transaction moves a saga that stays due,
because an outcome and a command are written to sagas that are not
(`FinalizeNotDue`, `CommandNotDue`, from `Consistent`), and one that moves the other
saga keeps it behind (`StampKeeps`) or is an operator's, which starts the count anew.

**Pages.** `ListingInvariant` says that times are whole microseconds, so that a cursor
decodes to the time it was cut from; that the pages seen descend, and the cursor is
that of the last row seen (`PagesSound`); and that a saga that is owed and not yet
seen lies behind the cursor (`Ahead`), those included that came to match on the way. A page is the first items behind the cursor, so
it keeps both; the last page has nothing behind it, so nothing owed is left.

**Only model-checked.** `DueSagasComeToRest`: liveness under fairness is beyond the
prover, as are `ENABLED` and what a recursive definition computes for every input
(no theorem here needs one). The three findings are counterexamples, and TLC's.

## 5. Findings

1. **`storage.rs:719`** (run `quarantine_race`). `quarantine_expired` treats an
   expired effect that is not there as stored data that is invalid: "expired
   effect disappeared while saga was locked". It can be absent although nothing
   is wrong. The saga query takes its snapshot while the effect is expired; a
   late `finalize_effect` and another `claim_next` commit; the saga is running
   again, so the row passes the second check, which sees the new saga row but
   the old effect row; the effect query then finds only a lease that is ahead.
   The whole batch is rolled back and `process_due` fails.
2. **`docs/plugin-card.md:121`** (run `doc_table`) gives `pending` as the state
   after `confirm_not_applied`; a saga in cleanup goes to `cleanup_pending`. Line 122
   has the same gap: it gives `pending` / `completed` after `confirm_applied`, where
   a saga in cleanup goes to `cleanup_pending` / `cleanup_completed`.
3. **`provisioning-response.schema.json:20`** (run `response_schema`) admits 65
   steps; a saga with more than 32 applied grants has more once its cleanup has
   added a revocation for each.

## 6. What is not modelled

- **Authorization** (`authorize_public`, `authorize_worker`): comparisons with an
  immutable allowlist and one call of the external assertion verifier, all before
  any state is read. The models start from an authenticated actor and keep the
  `requested_by` conditions.
- **Configuration and request validators**: sequential bounds on single values.
  The grants a start copies from the configuration are chosen freely, which
  covers any change of configuration.
- **Schema operator**: thin calls to an external library while the plugin is
  inactive.
- **Generated capability crates and wire encoding**: generated code without
  state; the one bound that meets the storage is finding 3.
- **Tests**: read as a description of what is intended.

PostgreSQL is external: what is assumed of READ COMMITTED and SKIP LOCKED is
stated under `RowLocks`. So are the providers: see `Provisioning`.

What could follow: `Worker` over the statements of `RowLocks`, for batches whose
snapshots are stale; and one composition of `RowLocks`, `Mutations` and
`Provisioning`, which are each shown to implement `Storage` but never run together.
