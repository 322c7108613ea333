# Verification of effaced

effaced is a Python toolkit for the rights of data subjects: it erases, exports
and rectifies the data of one subject in the application's own database and in
the external systems the application has handed data to, and keeps an audit
trail of what it did. This directory holds TLA+ models of the parts of it whose
correctness depends on the order of things, the TLC configurations that check
them on small instances, and proofs that TLAPS checks.

Paths below are relative to `packages/effaced/src/effaced/` unless they start
with `packages/` or `docs/`.

1. [The system](#1-the-system)
2. [Modules and how they correspond to the code](#2-modules)
3. [Runs: what is checked, on which instances](#3-runs)
4. [Fairness](#4-fairness)
5. [Proofs](#5-proofs)
6. [Findings](#6-findings)
7. [What the models leave out](#7-what-the-models-leave-out)
8. [Plan](#8-plan)

## 1. The system

### Components, their state, their operations

| Component | State | Operations that change it | Correct when |
|---|---|---|---|
| **Saga outbox** `saga/outbox.py` | one row per external call still owed: status, attempts, `next_attempt_at`, payload | `enqueue`, `claim_batch`, `mark_succeeded/failed/scheduled/abandoned`, `requeue` | one claimant at a time; outcomes are final; no terminal row keeps corrections; the last success of an operation is recognised as the last |
| **Saga runner** `saga/runner.py` | the batch of one pass, in memory | `run_once`: claim, one concurrent resolver call per entry, settlement in batch order | every outcome is audited before it is recorded; completion events are true, never lost, not repeated without a reason; every request concludes |
| **Erasure planner** `erasure/planner.py` | none of its own; the caller's transaction | `erase_subject`: request, steps, enqueue, completion | rows, outbox entries and tombstone become visible together or not at all; spans in the trail are whole |
| **Subject erasure lock** `adapters/sqlalchemy/subject_erasure_lock.py` | a tombstone per subject; row locks | `acquire`, `mark_erased` | erasures of one subject do not interleave; nothing is written under a running erasure |
| **Overdue reporter** `saga/overdue_erasure_reporter.py` | reads tombstones | – | an attempt that got stuck shows |
| **Audit sink, hash chain, verifier** `audit/` | the insert-only table of events, each citing the hash of the tail | `append` in a transaction of its own; `verify` walks | appends in turn make one list; forks stay visible; a change is reported, and where |
| **Backup replay** `replay/` | a plan derived from a trail that survived | `ReplayPlan.derive`, `Replayer.replay` | every erasure the restore undid is planned, and the replay is whole |
| **Rectifier** `rectification/rectifier.py` | the caller's transaction | `rectify_subject` | rectifications and erasures never mix; every change has its evidence; its entries are those of the saga |
| **Consent and restriction ledgers** `consent/`, `restriction/` | append-only records | `record`, and reads of the latest | the latest record wins, now and at every earlier instant; ties go the protecting way; lifting one scope never lifts another |
| **Exporter** `export/exporter.py` | the bundle under way | `export_subject`: table by table, then all resolvers at once | what was there all along is in the bundle; every source that failed is named |
| **Retention sweeper** `retention/sweeper.py` | read only | `sweep` | an expired row is reported under the subject whose erasure would find it |
| **Data map, linters, subject graph, plan derivation** `manifest/`, `adapters/sqlalchemy/`, `erasure/planner.py` | none | pure functions | what the linters pass resolves; both resolvers agree; an accepted plan erases what was declared, no more and no less; the verifier's verdict is true |
| **Vendor resolvers** `packages/effaced-{s3,stripe,intercom,resend,supabase}` | the external systems | `erase_subject`, `export_subject`, `rectify_subject`, each several requests | what a call reports is true of the system; nothing of anybody else is touched; a call is rejected only for a cause a retry cannot remove |
| **SagaWorker** `packages/effaced-fastapi/` | one thread, a stop flag | `start`, `stop`, the drain loop; no lock | never two loops, if calls do not overlap; while it is up, every request concludes |

The wiring (`EffacedStack`, the Django package), the command line, test doubles
and the TypeScript emitter keep no state of their own.
`PROJECT.json` lists every component and whether it is modelled.

### How they interact

* A caller opens a transaction and calls `erase_subject`. The planner locks the
  subject, works through its steps and enqueues the external calls, **all in the
  caller's transaction**; the caller commits or rolls back.
* Every audit event is committed **on its own** and at once. The trail therefore
  knows of attempts the database has forgotten, and events precede the commits
  they announce.
* Runners (a worker thread, a cron job; any number) claim committed outbox rows,
  call resolvers outside any transaction, and record outcomes. Between claim and
  mark nothing but the **lease** in `next_attempt_at` protects a row.
* The completion event of an operation is appended inside `mark_succeeded`'s
  transaction while the sibling rows are locked, but again through a connection
  of its own.
* An operator requeues abandoned entries, and after a restore derives a plan from
  the trail and replays it.
* Every route of the FastAPI integration serves its request in one session that
  commits when the engine returns and rolls back when it raises. Requests of one
  subject meet in the rows of the database only: erasures lock the subject,
  rectifications and exports do not.
* A resolver reaches its system through requests, between which the application
  writes to the same system, and whose answers may be lost.

### What is hard about it

Two kinds of commit that cannot be atomic with each other (audit appends and the
caller's transaction); settlement loops that end halfway and leave the rest of a
batch to its lease; marks keyed by `entry_id` alone, so a slow runner writes over
what another has settled; completion checks by concurrent runners; an application
that goes on writing during an erasure; appends that read a tail and insert in a
race; restores that undo one side (the database) and not the other (the trail).
`PROJECT.json` lists each hazard with the line where it bites and the properties
that would show it.

## 2. Modules

```
Outbox ── SagaRunner ── SagaProperties ── MCSaga          DeliveryPromise
              │               │  └─ INSTANCE DeliveryPromise (KeepsThePromise)
              │               └── SagaProofs
              ├── SagaWorker ── MCSagaWorker
              │       └── SagaProofs
              └── CrashLoop ── MCCrashLoop
LocalErasure ── ErasureProperties ── MCErasure
                     ├─ INSTANCE ErasureAttempts (KeepsTheTrail)
                     └── ErasureProofs
ErasureAttempts ── Replay ── MCReplay
                     └── ReplayProofs
AuditChain ── MCAuditChain
     └── AuditChainProofs
Manifest ── Planning ── MCPlanning
                 └── PlanningProofs
Requests ── Ledgers ───────────────────┐
     └───── Rectification ── Export ── SubjectRights ── MCSubjectRights
                                            └── SubjectRightsProofs
VendorCalls ── S3Resolver ── SupabaseResolvers ── Vendors ── MCVendors
     └──────── ContactResolvers ──────────┘   └── VendorsProofs
NaturalBounds ── AuditChainProofs, ErasureProofs, PlanningProofs, SubjectRightsProofs,
                 VendorsProofs
```

A definition whose comment starts with *Mutant* is a variation of the
definition beneath it, wrong in the way a plausible bug would be. No behaviour
uses them; they exist to show that each property can fail (`mutants` in
`PROJECT.json`).

### Outbox

One operator per database transaction of `Outbox`, or per step of a transaction
that others can see between. `row[e]` is the row of an entry; `payload` is the
question whether it still carries corrections, and `due` whether
`next_attempt_at` is null or past, so that `OpenGate` is the passing of time.
Attempts are counted up to a bound (`OneMore`, `MaxCounted`), because nothing in the
code bounds them. `locked[s]` holds the rows a session has `FOR UPDATE`. Entry numbers are the claim
order `(enqueued_at, entry_id)`. `Due` and `Oldest` are the query of
`claim_batch` with `SKIP LOCKED` and its limit. `mark_succeeded` is two steps
(`LockSiblings`, `CommitSucceeded`), because the completion event is appended in
between; `requeue` is `LockForRequeue`, one append per row in SagaRunner, and
`CommitRequeue`. The other marks are one `UPDATE … WHERE entry_id`.

### SagaRunner

`pc[r]`, `held[r]`, `claim[r]` are where a `run_once` pass stands, the entries of
its batch it has not booked, and its own copies of them with the outcome of each
call. `effect[e]` says whether the external system has applied the call.

| Code | Action |
|---|---|
| `run_once`: claim | `TakeBatch` |
| `_execute`, `gather` | `Answer` per entry in any order; `Settling` waits for all |
| `_settle` → `_succeed` | `Succeed` (append), `CheckCompletion`, `Complete` (append in the transaction), `Commit` (and the verdict of a verifying resolver) |
| `_settle` → `_park` | `Park` (append), `Parked` |
| `_settle` → `_abandon` | `Abandon` (append), `GiveUp` |
| `_settle` → `_retry` | `Retry` |
| anything raises, the process dies | `Interrupt`: locks go, the batch stays in flight |
| `Outbox.requeue` | `Requeue`, `Announce`, `Reopen`, `InterruptRequeue` |
| a lease, backoff or horizon ends | `GateOpens`; it counts as a *lapse* if the lease ends under a runner still at work |
| the vendor's retention period ends | `Expire` |

A call that raises may or may not have been applied (`Answer`). Faults may come
between any two steps.

### SagaWorker

SagaRunner with its runners as the threads of one worker. `thread[r]` is where the
loop of `_drain` is (`checking` the signal, `passing` through `run_once`,
`sleeping`, `ended`, or `made` and not yet started), `_thread` and `_stop` are the
worker's own fields. They have no lock in the code, so `start` and `stop` are taken
statement by statement: `at[c]` is the statement that caller `c` executes next, and
another caller, the loop or the end of the process may come between any two.

| Code (`saga_worker.py`) | Actions |
|---|---|
| `start`: `_thread is not None` (49), `is_alive()` (49), `_stop.clear()` (51), `_thread = Thread(...)` (52), `_thread.start()` (55) | `start`, `AskAlive`, `ClearStop`, `MakeThread`, `LaunchThread` |
| `stop`: `_stop.set()` (70), `_thread is None` (71), `join(timeout)` (73), `is_alive()` (74), `_thread = None` (75) | `stop`, `LookForThread`, `JoinThread`, `CheckEnded`, `DropThread` |
| `_drain` | `Check`, `Pass` (SagaRunner's `RunOnce` step by step), `Sleep`, `Wake`, `Raised` (`except Exception`) |
| an outcome that no handler catches; the end of the process | `Cancelled`; `Exit` |

A read that finds `None`, a join of a thread that was never started and a second
`Thread.start` raise, which ends the call (`out`). A join returns when the thread has
ended or when its time is up. `Callers` is a constant: the lifespan of the
integration is one caller. The operator does not requeue here.

### CrashLoop

SagaRunner with entries (`Poison`) whose call ends the process whenever a pass has
claimed them: `CrashingPass` is `run_once` up to there, `Crash` the death of the
process, which unlike `Interrupt` is not counted, and a new pass begins when the lease
has run out.

### DeliveryPromise

What whoever enqueues a call is promised, without runners, claims or leases: an
owed call is delivered or given up; what is delivered was applied; a given-up
erasure may be owed again; a certificate names applied calls only, and the last
delivery of an operation has one. `KeepsThePromise` states that SagaRunner
implements it, with `row`, `effect` and `completions` mapped to verdict, applied
and certified.

### LocalErasure, ErasureProperties

`erase_subject` of several calls on a schema given by constants (`ownerOf`,
`tableOf`, `parentOf`, `strategyOf`; tables are numbered in deletion order),
beside application sessions that insert rows. `place[c]` walks through
`erase_subject`: `locking` and `anchoring` are `SubjectErasureLock.acquire`,
`requesting` the first event, `stepping` one step per table, `enqueueing` the
outbox entries and `mark_erased`, `completing` the last event, `committing` the
return to the caller. `stored`, `personal`, `tombstone`, `owed` are what is
committed; `wiped[c]` is the uncommitted work of a call. Row locks are PostgreSQL's
at READ COMMITTED: `Granted` waits for rows other calls have touched and, for a
delete, for open inserts below them; `Orphans` is what the foreign key refuses.
`StepFailed`, `Refused` and `RollBack` are the ends without a commit.

`ErasureAssumption`, `SchemaAssumption` and `PlanAssumption` state what a planner
can be built for: `_check_conflicts` refuses a data map in which a table keeps its
rows below one that loses its own. Planning is where that refusal is modelled.

### ErasureAttempts

The same attempts as the trail sees them: `Requested`, `LocallyCompleted`,
`StepFailed`, `GivenUp`, `Committed`, without rows, locks or plans. Events are
durable at once, the erasure only with the commit. LocalErasure implements it
(`KeepsTheTrail`: the trail without step successes, `attempting` from `place`,
`erased` from `owed`), and Replay builds on it, so that what Replay shows holds of
the erasures LocalErasure describes.

### Replay

A backup (`TakeBackup`) and a restore (`Restore`) at any moment of running
attempts, both external; then `DerivePlan` (`ReplayPlan.derive`: `Window`,
`Entries`, `FailedOnly`, `Indeterminate`, and `After` for the order of the
entries) and `Replayer.replay` entry by entry: `Announce` (`ERASURE_REPLAYED`),
`EraseAgain`, `ErasedAgain`, and the caller's `CommitReplay` or `FailReplay`, which
ends the replay at the first failure and lets the operator start over. The trail
survives the restore, as `derive` asks. Time is the order of the trail; the
instant of the backup may tie with the event next to it. `QuietBackups` is the
operating condition that no finished erasure is uncommitted at the instant of the
backup.

### AuditChain

`rows[e]` says of a stored event whether it is chained, which hash it cites and
whether it recomputes to its own; a hash is the identity of its row (SHA-256
collisions are left out). `ReadTail` and `Insert` are the two statements of
`append`; overlapping appends fork the list and are allowed. `Rejected` is a
duplicate `event_id` or a lost connection. `Edit`, `Repoint`, `Delete` are changes
behind the sink's back, `InsertUnchained` a writer that chains nothing. `Walk` is
the loop of `AuditChainVerifier` (`current` in each of its iterations), `Blamed` the rows it may name, `IntactList` the
reference: one list from its genesis row to its tail, defined without a walk.

### Manifest, Planning

A schema is a set of foreign keys, the tables with an ORM mapper, and for every
table the subject link its model declares and the strategies of its columns; the
initial states are all of them over the given sets. Manifest holds the pure part:
`collect_data_map`, both linters, the two resolvers (`_resolve_path` by mappers,
`_resolve_path_fk` by foreign keys alone, for manifests and Django models), which
turn a link into `hops`, and `fk_safe_deletion_order` as a sequence of rounds.

Planning runs one erasure through it: `Resolve`, `Plan` (`_row_deleted`,
`_check_conflicts`), one step per table (`_delete` or `_anonymize` of `_table_steps`), `Violate`
when the database refuses to delete a row that another refers to, `Commit`,
`ComeBack` for rows inserted afterwards, `verify_subject_erased`.
`subject_scope` is the nested subquery by which executor, exporter, rectifier and
verifier find a subject's rows; `_attribution_statement` the joins by which the
sweeper finds a row's subject.

### Requests, Ledgers, Rectification, Export, SubjectRights

Requests is a session: `Begin`, `Commits`, `Returns`, `Fails`; an event is on the
trail at once, everything else with the commit. The engines fill in what comes
between, with `place[s]` as the place in the engine's method:

| Code | Actions |
|---|---|
| `ConsentLedger.record`, `RestrictionLedger.record` | `Record` (insert and event), `CommitRecord` |
| `status`, `status_as_of`, `RestrictionLedger.status` | operators over the committed records |
| `Rectifier.rectify_subject` | `RejectRectification`, `RequestRectification`, `RectificationStep` per table and category, `CompleteRectification`, `CommitRectification`; `StepRaised` |
| `ErasurePlanner.erase_subject`, as far as others see it | `LockAnchorRow`, `ErasureStep`, `CommitErasure`, `ErasureRaised` |
| `Exporter.export_subject` | `RejectExport`, `RequestExport`, `ReadTable` per table, `CollectExternal`, `CompleteExport`, `ReturnBundle` |

A cell is a category of the subject's row in one table; it holds the number of the
request that wrote it, or a surrogate. A row stays locked from its first update to
the end of the transaction. `WaitsFor` is who waits for whom, and a circle is
ended by an error in one of its sessions, as a database ends a deadlock.
SubjectRights lets sessions serve any mix of the requests on offer.

### VendorCalls, S3Resolver, SupabaseResolvers, ContactResolvers, Vendors

VendorCalls is a system that `held` entries (a slot and a version; objects of a
versioned bucket may be hidden by a delete marker), the calls of its resolver, and
the application that goes on writing (`Write`, `Discard`). Each resolver module has
an action per request of its package: `ListForErasure`, `DeleteBatch`,
`iter_current_objects` and `collect_object_records` for S3 and Supabase storage,
`SelectTable` and `DeleteRows` for PostgREST, `ExportUser` and `DeleteUser` for
GoTrue, and customers and contacts with what hangs below them in
ContactResolvers (Stripe, Intercom, Resend, and the in-memory resolver of the test
package). Between any two requests of a call others may act, and a request may fail before
it acts or after. The error taxonomies are operators (`is_nonretryable`,
`SupabaseOutcome`, `StripeOutcome`, ...) over representative codes.
Vendors joins them; a behaviour is about one of the seven systems and the double.

## 3. Runs

`tlc -workers 2 -config <cfg> <module>`. All runs are exhaustive for their bounds.

| Run | Instance | Shows |
|---|---|---|
| `saga` (`MCSaga.cfg`) | 2 runners, operator, 2 erase entries and 1 rectify entry of a subject, a requeue of all of them at once, 2 attempts, 1 fault, no lapse | completions honest and accounted for; outcomes are final; entries left to be tried again are within their budget; the saga refines DeliveryPromise |
| `saga_lapse` (`MCSagaLapse.cfg`) | the same entries, one of a retention-only vendor, 1 lapse, no fault | what survives two runners settling one entry: every outcome audited, no completion lost, no false `ERASURE_COMPLETED`, no corrections in terminal rows |
| `saga_worker` (`MCSagaWorker.cfg`) | 1 worker with 2 thread objects, 1 caller of any number of `start`s and `stop`s, batches of 2, 2 erase entries, one of which only expires, 1 verifying vendor, 1 failing pass, fairness | never two drain loops; while a worker is up every request concludes |
| `erasure` (`MCErasure.cfg`) | 3 calls, 2 at a time, 2 writers, 2 faults; all rows go and the subject may sign up again, or the user survives pseudonymized beside retained invoices; fairness | one commit for everything; spans are whole; nothing is orphaned or slips in; every call ends; refinement of ErasureAttempts |
| `audit_chain` (`MCAuditChain.cfg`) | 2 appenders that may overlap, 4 events, 1 change | the verdict is exact in every reachable table; appends in turn make one list; forks are never healed; an edit is reported at its row |
| `replay` (`MCReplay.cfg`) | 2 attempts in 2 sessions, 2 subjects, 2 failures, quiet backups, fairness | plans are complete; replays are whole; what was lost returns |
| `vendors` (`MCVendors.cfg`) | 8 systems, 2 calls, 3 slots of which 1 is a sibling's, pages and batches of 1, 2 changes by the application, any request may fail | reports are true, exports whole, nothing of others, rejected only for cause, rectifications hold |
| `planning` (`MCPlanning.cfg`) | 3 tables, 5 sets of foreign keys (self-reference, cycle, two keys to one table), every mix of links and strategies, 2 rows per table, straight and crossed references, 3 entry points | linter and resolvers agree; an accepted plan erases exactly what was declared or is refused by somebody else's row; verdict and sweep are right |
| `subject_rights` (`MCSubjectRights.cfg`) | 2 sessions, 3 requests, 1 failure, 2 tables and 2 categories under 3 plans; or records of both ledgers with 2 timestamps | the last word protects; commits are evidenced and serial; bundles are whole; no deadlock |
| `saga_late_mark` | 2 runners, 1 rectify entry, 1 lapse | *violation* of `CompletionIsHonest`, see Findings |
| `saga_crash_loop` | 1 runner, 2 erase entries, one of which crashes it every time, fairness | *violation* of `CrashLoopsConverge` |
| `planning_reverse` | an order linked against the key that its user holds | *violation* of `NothingIsLeft` |

### Bounds, and why they are enough

* **Two runners, an operator.** Every conflict in the outbox is between two
  sessions: two claims, two marks, a mark and a requeue. A third runner adds
  contenders, not a new kind of step.
* **Two erase entries and a third entry** give an operation more than one entry, so
  that "the last one" is a race, and a second operation of the same subject.
* **`MaxAttempts` 2** distinguishes the first from the last permitted attempt.
* **`MaxCounted` 4** is two more than `MaxAttempts`. Nothing reads the attempts but the
  comparison with the budget, so from there on all counts are alike.
* **One fault, one lapse.** Each breaks every intermediate place once. Faults and
  lapses are in separate runs, because `saga` states what holds while leases cover
  the calls and `saga_lapse` what holds without that; with both, the state space is
  beyond TLC's reach here (more than ten million states). A crash and a lapse in one
  behaviour are therefore covered by the theorems only, for the four properties of
  `saga_lapse`, which hold for any number of both.
* **A requeue of all entries** (`saga`) has two rows to reopen at most, so that it may end
  between its two appends; when the rectification is abandoned too, it is refused.
* **Two threads** are what a worker that drops its handle too early would have; a
  batch of two lets a pass fail, or the process die, with half of it settled. Elsewhere
  batches are of one entry. One caller suffices for calls
  that do not overlap: who makes the next call leaves no trace.
* **Three calls, two at a time**, are the least that put an erasure after a failed
  one beside a concurrent one; two writers, one before and one after the lock.
* **Four events** allow a fork with a continuation on both sides and a deletion in
  the middle. Event ids are not in insertion order, so clocks may disagree.
* **Two attempts, two subjects, two failures** allow a replay of two entries that
  fails after the first, and again.
* **Pages and batches of one** put every boundary between two entries; two changes
  are a write and a delete, before, between or behind the requests.
* **Three tables** are a path of two hops with a table in the middle that may be
  annotated or not; two rows let a key point to the wrong one.
* **Three requests in two sessions** are two that interleave and one that comes
  after or before them; two timestamps can tie or disagree with the commits.
* Symmetry (runners, appenders) is used in runs without liveness properties only;
  nothing depends on which of them acts.

`CHECK_DEADLOCK FALSE` is set where a system comes to rest: everything
settled, nobody enqueueing, every call ended. That nothing gets stuck before is
what the liveness properties say. `subject_rights` has no liveness property and checks
for deadlock instead, with a step of its own for the state in which everything
has been asked and answered.

Why some properties are conditional:

* `CompletionIsHonest`, `OutcomesAreFinal`, `CompletionsAreAccountedFor`,
  `WaitingEntriesHaveAttemptsLeft` and `KeepsThePromise` hold only while no lease lapses
  under a working runner (`MaxLapses = 0`). `saga_late_mark` shows what happens otherwise.
* `WaitingEntriesHaveAttemptsLeft` says nothing of entries in flight: one whose passes all
  die before its outcome is booked exceeds its budget without end, as `saga_crash_loop` shows.
* `OneDrainLoop` needs calls of `start` and `stop` that do not overlap
  (`OneCallAtATime`); section 6 says what happens otherwise.
* `EveryRequestConcludes` asks about a worker that was started and that nobody has
  stopped since. A `stop` whose join times out keeps the handle, so a `start` right
  after it is a no-op on a thread that is about to end; and a resolver call that is
  cancelled ends the thread for good. Both leave an application without a worker, and both
  are excluded by `Up`.
* `NothingSlipsIn` is about calls that found and locked a subject row, and the
  instance has rows directly below it (`OneRowGuards`): an insert below a surviving row of
  another table waits for nothing.
* `LostErasuresArePlanned` holds with `QuietBackups`. Without it a backup between
  `ERASURE_LOCAL_COMPLETED` and the commit of its caller loses the erasure and no
  plan names it (section 6).
* `NothingIsLeft` is about links whose hops follow foreign keys away from the
  table; `planning_reverse` shows the other direction. In the `planning` run every
  link lies along a key, so that a scope which an earlier step has emptied does not
  occur there.
* `SweepsAgreeWithErasures` compares whose rows are reported, not how often: the
  sweeper's joins count a row once for every way to its subject, and a hop
  against a key may offer several.
* `SpansAreWhole` needs the lock. The stack of `packages/effaced-django` builds its
  planner without one.
* `ErasuresReportTruly` asks about what the subject had when the call began; what
  is written during a call may stay.

## 4. Fairness

* **Worker** (`saga_worker`): the thread runs, resolver calls return (a call that
  hangs would hang `gather`), gates open with time, retention periods end. A
  call of `start` or `stop` that has begun goes on to its next statement (`GoOn`); its
  join has a timeout. Nobody
  has to start, stop, enqueue, fail or exit; failing passes are bounded. Weak
  fairness of `Drain(r)` suffices: a thread waits for nobody but the vendor.
* **Crash loop** (`saga_crash_loop`): whoever runs the saga starts it again, passes go on
  until they crash, leases run out. With all that the poisoned entry is claimed for ever.
* **Erasure** (`erasure`): a call goes on when its locks are granted, and
  application transactions end. Weak fairness of `Proceed` is per call; that a
  waiting call is not overtaken for ever follows from the bound on calls, so
  `EveryCallEnds` is about deadlock and forgotten locks rather than about the fairness
  of PostgreSQL's lock queue.
* **Replay** (`replay`): the operator repeats the replay until it has committed.
  Nobody has to take a backup, to restore or to erase.

## 5. Proofs

`tlapm <module>` checks them. The theorems hold for every value of the
constants that satisfies the assumptions named in the modules.

### SagaProofs

| Theorem | States |
|---|---|
| `TypeCorrect` | `Spec => []TypeOK` |
| `NoCorrectionsLeft` | `Spec => []TerminalRowsKeepNoCorrections` |
| `OutcomesAudited` | `Spec => []EveryOutcomeIsAudited` |
| `HonestErasures` | `Spec => []ErasureCompletionIsHonest` |
| `NoCompletionLost` | `Spec => []CompletionIsNeverLost` |
| `OutcomesStand` | with `MaxLapses = 0`, `Spec => OutcomesAreFinal` |
| `HonestCompletions` | with `MaxLapses = 0`, `Spec => []CompletionIsHonest` |
| `PromiseIsKept` | with `MaxLapses = 0`, `Spec => KeepsThePromise` |
| `WaitingWithinBudget` | with `MaxLapses = 0`, `Spec => []WaitingEntriesHaveAttemptsLeft` |
| `CompletionsCounted` | with `MaxLapses = 0` and finitely many transactions, `Spec => []CompletionsAreAccountedFor` |
| `OneLoop` | `WorkerSpec /\ []OneCallAtATime => []OneDrainLoop` |

All but the last hold for any number of runners, entries and faults, the first five for any
number of lapsed leases. `CompletionsCounted` asks for a finite set of transactions
because its bound is their number.

* `RowStep` says once what any step may do to a row, `EntryStep` what it may do to a
  row together with the copies that runners hold of it; most proofs go through one
  of them.
* `OutcomesAudited` is not inductive: a runner may stand between its append and
  its mark while another one acts. `AppendFirst` adds that at each of those places
  the event is on the trail.
* `HonestErasures` and `NoCompletionLost` rest on `LockInv`: locks exclude each
  other (`LocksExclude`), a runner that has made its completion check holds the
  rows it has looked at (`LocksFit`), and two runners never are in that part of
  `mark_succeeded` for the same operation (`OneFinisherPerScope`).
  `LockedRowIsStable` concludes that what the check saw is still true when the
  event is appended and when the row commits. Late marks of lapsed runners are
  covered: a mark needs the row unlocked.
* The five theorems about `MaxLapses = 0` rest on `LeaseInv`: an entry has one holder
  at most, and its row is as that holder claimed it (`LeasesHold`); a rectification that is
  still owed has its corrections (`CorrectionsKept`). Without the hypothesis they
  are false: a late mark after a lapse is the counterexample of `saga_late_mark`.
* `WaitingWithinBudget` needs `CopiesCount`: the runner decides by its copy whether an entry
  may be tried again, the row is what is left behind, and both count the same claims as
  long as nobody else claims the row meanwhile. `EntryStep` names the steps that leave an
  entry waiting: an enqueue, a park and a requeue start the count again, and a retry is
  within the budget by the copy, hence by the row.
* `PromiseIsKept` is the refinement step by step. `PromiseActions` states each action
  of DeliveryPromise in terms of what changes, and `PromiseStep` finds the one for
  every step of SagaRunner, or none of the three mapped variables moves.
* `CompletionsCounted` adds to the events of an operation those that are still due to it
  (`DueEvents`): one while a finisher is about to write it, and one while an entry is left
  whose success could bring another. `EventsFit` bounds the sum, and `EventsStep` goes
  through the steps of the finishers: writing the event makes it no longer due, an
  interruption may make it due again but is a fault, and of the other steps only a
  further transaction (`EnqueuedGrows`) makes one more due.
* `OneLoop` is about the worker, for any number of callers whose calls do not overlap.
  `OneDrainLoop` alone is not inductive: `start` asks only whether the thread it knows is
  alive. `KnowsItsThread` adds that every living thread is the known one, and that a call
  about to replace or to drop the handle has found that thread ended. The second half is
  what an overlapping call can make untrue between the question and the assignment.

### AuditChainProofs

| Theorem | States |
|---|---|
| `TypeCorrect` | `Spec => []TypeOK` |
| `ForksStay` | `Spec => NeverHealed` |
| `OneList` | `Spec => []AppendsMakeOneList` |
| `VerdictAlwaysRight` | `Spec => []VerdictIsRight` |
| `ChangesLocated` | `Spec => ChangesAreLocated` |

`IntactList` is not inductive. `Linked` is the half that overlapping appends keep:
rows cite rows that exist, without a cycle, and so do the tails that open appends
have read. `Straight` is the other half while appends take turns: no two rows cite
the same, there is one tail, one append is open. `ForksStay` follows because with `Linked` a
broken list can only be one with two rows citing the same, and rows are never
rewritten.

`VerdictAlwaysRight` compares the walk with a reference that knows no walk, on every
table whatsoever; only `TypeOK`, that the rows are finitely many, is needed of the
behaviour. `WalkFollows` says what one iteration finds. An intact list gives each row a place
(`Places`, from the injection into the natural numbers that defines it), and the walk meets
the row at that place (`WalkReaches`, by the least place it would miss), so it
verifies. Conversely a walk that meets no flaw and every row has met each once
(`MetOnce`: the row before it is the one it cites, back to the genesis row), and the
iterations are the places. `ChangesLocated` rests on `FlawsAreNamed`: on an
intact list with a single rewritten row the walk meets only that flaw.

### PlanningProofs

| Theorem | States |
|---|---|
| `TypeCorrect` | `Spec => []TypeOK` |
| `LintIsRight` | `Spec => []LintForetellsResolution` |
| `SameGraph` | with `NoBackHops`, `Spec => []ResolversAgree` |
| `InDeletionOrder` | `Spec => []ChildrenFirst` |
| `NothingElseIsTaken` | `Spec => []OnlyWhatIsDeclared` |
| `SweepsReachTheScope` | `Spec => []SweepsAgreeWithErasures` |
| `NothingStays` | with `NoBackHops`, `Spec => []NothingIsLeft` |
| `OnlyForeignKeysFail` | with `NoBackHops`, `Spec => []KeyErrorsAreForeign` |
| `VerdictTold` | with `NoBackHops`, `Spec => []VerdictIsRight` |
| `KeyGraphsErase` | the last three, if `how # "orm"`, without `NoBackHops` |

They hold for every finite schema, every set of links, strategies and mappers, and every
content of the tables whose references do not dangle. `NoBackHops` says that no declared
link leads against a foreign key. Without it the properties are false, as the run
`planning_reverse` shows of `NothingIsLeft`; a graph built from foreign keys cannot
have such a hop, which is `KeyGraphsErase`.

* `Course` is the inductive invariant of one erasure: nothing is touched before a plan is
  accepted nor after a step failed, only tables whose step has run have lost rows, and
  no reference dangles (`Referential`), because the database refuses a delete that
  would leave one.
* A scope is built from the subject outward by a recursive function. `ScopeIsNested`
  reads it from the table inward, as one set of rows per table of the path; its existence is
  `StepsExist`, the induction along the path is `LastOf`. From it follow that more
  rows never make a scope smaller (`ScopeGrows`), that a scope is what walks lead to
  (`WalksStartInScope`, `ScopesAreWalked`), and `ScopeKept`.
* `ScopeKept` carries the three theorems about what an erasure leaves: as long as no reference
  dangles, a row that is still there is in a scope exactly if it always was. It needs
  each hop to follow a key; a row that a hop against a key leads to may go first. With
  it each step finds what was declared (`Swept`), and the verifier counts what
  is left of it.
* `OrderIs` unfolds the rounds of the sorter and `RoundIs` concludes that in a schema without
  cycles there is a next round, after all that refer to it. With `_check_conflicts`, this is
  why `KeyErrorsAreForeign` can exclude the subject's own rows: in a table that is
  done they are gone, and the path of a surviving table leads through no table whose rows go.

### ReplayProofs

| Theorem | States |
|---|---|
| `TypeCorrect` | `Spec => []TypeOK`; with it, only entries are ever replayed |
| `PlansAreComplete` | with `QuietBackups`, `Spec => []LostErasuresArePlanned` |
| `WholeReplay` | `Spec => []ReplayIsWhole` |
| `AnnouncedReplay` | `Spec => ReplaysAreAnnounced` |

The plan reads the trail only, so `Coverage` relates trail and database at every
moment a restore may come: from the backup on, the window shows a completion of
everything committed since (`CommittedIsShown`) *and of everything finished that
may still be committed* (`FinishedIsShown`). The second half is false at a backup
that does not wait for the open transactions, which is why the theorem needs
`QuietBackups`; `ReplaysAreAnnounced` is proved only, no run checks it. `Wholeness`
says that what the replay has ticked off is finished in its open transaction
(`DoneIsFinished`) and has its evidence.

### ErasureProofs

| Theorem | States |
|---|---|
| `TypeCorrect` | `Spec => []TypeOK` |
| `CommitsTogether` | `Spec => []CommittedTogether` |
| `ErasedMeansErased` | with `OneRowGuards`, `Spec => NothingSlipsIn` |
| `DeletesAreGranted` | with `OneRowGuards`, `Spec => []NothingIsOrphaned` |
| `SpansDoNotOverlap` | with `Locking`, `Spec => []SpansAreWhole` |
| `TrailIsKept` | `Spec => KeepsTheTrail`, if `"nobody"` is no subject |

* `LockInv` says who holds what: before its first step a call has wiped nothing
  (`NothingEarly`); it wipes and locks rows of its own subject, and the subject rows it has
  locked stay (`OwnRows`); a tombstone has one holder (`OneHolder`); a row that is being
  inserted hangs below no locked row (`OpenInserts`).
* `ErasedMeansErased` needs `NoneEscapes`: of the tables a call has been through, no
  row of the subject is left that is neither wiped nor retained. A row could come
  back behind a step only by an insert, an insert needs its parent, and the parent is
  the locked subject row. That last step is `OneRowGuards`: a subject has one row, and
  all its other rows hang directly below it. In deeper schemas a row can be inserted below a
  surviving row of another table, which no erasure locks, and the properties are
  false (see Findings); the hypothesis is the schema for which the code does protect the
  erasure. `MCErasure` assumes it of its instance.
* `SpansDoNotOverlap`: while a call takes its steps its span is what the trail of
  its subject ends with (`OpenSpans`), because nobody else appends to it.
* `TrailIsKept` maps each step to one of ErasureAttempts or a stutter.
  `EventsAt` selects events by a set of positions, without recursion, and `VisibleGrows`
  says what an append does to the selection. The string that stands for "no subject" must
  not be one.

### SubjectRightsProofs

| Theorem | States |
|---|---|
| `TypeCorrect` | `Spec => []TypeOK` |
| `LastWordCounts` | `Spec => []TheLastWordProtects` |
| `CommitsHaveEvidence` | `Spec => []CommitsAreEvidenced` |
| `CommitsAreInOrder` | `Spec => []CommitsAreSerial` |
| `BundlesTellAll` | `Spec => []BundlesAreWhole` |

* `LastWordCounts` is about the reads: the code takes the last record in its order, the
  property quantifies over all records. The ledgers are finite, so a last record exists
  (`LastRecords`), and the tie-break puts the protecting one last.
* `Fresh`: requests have numbers of their own, so evidence on the trail is never that
  of another request. `AllOnRecord` says which events a request has appended at each of
  its places, and that one under way has no failure on the trail.
* `CommitsAreInOrder` needs `RowsHeld`: a rectification holds the row of every cell whose
  step it has run, if the row is there. An erasure that commits in between has waited for
  these rows, or deleted them before they were locked; either way the last commit that
  changed a cell is the one whose value it has (`LastChangeMoves`, `LastChangeStays`).
* `BundlesTellAll` rests on `AllBundled`: an export has seen every current value, has
  nothing it has not seen, and has a value of every cell in the tables it has read unless it saw
  the row gone.

### VendorsProofs

| Theorem | States |
|---|---|
| `TypeCorrect` | `Spec => []TypeOK` |
| `SiblingsAreSafe` | `Spec => []NothingOfOthers` |
| `AbandonedWithCause` | `Spec => []RejectedForCause` |
| `CorrectionsHold` | `Spec => []RectificationsHold` |
| `ExportsTellAll` | `Spec => []ExportsAreWhole` |
| `ErasuresTellTheTruth` | `Spec => []ErasuresReportTruly` |

They hold for every page and batch size and any number of slots, versions, callers and
writes of the application. `VendorAssumption` asks that the slots are finitely many and that
the application is not one of the callers.

* `Base` is the typing of a call in progress (`CallsFit`: what it has found, has still to
  delete or has read is the subject's own) and of the store.
* A listing is ordered by `Rank`, which tells entries apart (`RankIsInjective`), and a page is a
  prefix of what lies behind the marker (`PageSplits`): whatever is neither on the page
  nor before the marker comes later. This is what makes a listing sound that other
  writes shift between its pages.
* `ExportsTellAll`: whatever was there all along has been read or is ahead of the
  call (`Exporting`, `Ahead`). `ErasuresTellTheTruth`: whatever the subject had when the
  call began and still has is what the call has still to remove (`Erasing`,
  `Pending`), which `BegunIsOld` supports: a version never returns, so an entry that is
  written again is another entry. `CustomerGoesWhole` covers the systems that delete a customer
  with all that hangs below.
* `CorrectionsHold`: an update under way leaves out only fields that were right when it
  read them, or that somebody else has changed since (`FieldsAreRight`).

### NaturalBounds

Least and greatest elements of sets of natural numbers. The installed provers cannot
instantiate the library's induction theorems, whose parameter is an operator; where a
proof needs an induction it takes the least number for which the claim would fail,
and that is `LeastNat`; `LastOf` does the same from the other end. `StepsExist` says that
a function whose every value follows from the one before exists, which the definition
of a recursive function leaves to be shown: it is how the walk of the chain verifier, the
scopes and the deletion order are unfolded.

### Only model-checked

* Liveness: `EveryRequestConcludes`, `EveryCallEnds`, `LostErasuresReturn`. The
  prover does not reason about fairness. That requests never wait for each other in a circle
  is checked as the absence of deadlock.
* The runs that end in a violation: each is the counterexample that makes a hypothesis of a
  theorem necessary, or the finding itself.

All other properties of the passing runs are stated by theorems.

## 6. Findings

Each is a run that TLC ends with a counterexample to what the documentation says.

1. **`saga_late_mark`** (`saga/outbox.py:501`). A mark tests neither the row's
   status nor whose claim it is. A lease lapses; another runner abandons the rectify entry and
   clears its corrections; the first runner's late `mark_failed` makes the row
   claimable; the next pass sends no corrections, succeeds, and
   `RECTIFICATION_COMPLETED` is written. The docs call a short lease merely
   wasteful.
2. **`saga_crash_loop`** (`saga/outbox.py:134`). A claim is counted but not compared with
   the budget; only `SagaRunner._settle` compares, when an outcome is booked. An entry
   whose call ends the process never gets there and is claimed again after every
   lease, for ever. `saga/outbox.py:113` and `PROOFS.md` line 101 say that such an
   entry converges to abandonment.
3. **`planning_reverse`** (`adapters/sqlalchemy/resolution.py:234`). A subject link
   may run against a foreign key that the user's row holds. The user is then
   deleted before the linked table, whose scope starts at the user's row and
   matches nothing; the erasure commits with its rows in place, and the verifier,
   which counts by the same scope, confirms it.

Other behaviour that the models show and that a reader of the docs may not expect, without
a run of its own:

* The tombstone is written in the erasure's own transaction
  (`adapters/sqlalchemy/subject_erasure_lock.py:130`), so one with `erased_at` null is
  never committed (`CommittedTogether`), and the overdue report is empty however many
  attempts have crashed. `saga/overdue_erasure_reporter.py:22` says that a first attempt
  which crashed before committing is exactly such a tombstone.
* `start` and `stop` of the worker have no lock (`saga_worker.py:49` of
  `packages/effaced-fastapi`). Two `start`s at once both find no thread and run two
  drain loops; the longer way is a `start` between line 74 of a `stop`, where the old
  thread has ended, and line 75, which drops the handle of the new one, and then another
  `start`. With `Callers` a set of two in `MCSagaWorker.cfg` TLC finds `OneDrainLoop`
  violated. Line 48 calls a second `start` a no-op; the lifespan of the integration does
  not overlap its calls. Two loops claim different rows, so no entry is harmed, but a
  `stop` joins only the thread whose handle is left.
* A completion is stamped before its caller commits (`replay/plan.py:117`). If the backup is
  taken in between, the erasure is neither in the backup nor in the window, and no
  plan names it: with `QuietBackups = FALSE` in `MCReplay.cfg` TLC finds
  `LostErasuresArePlanned` violated. `replay/replayer.py:27` says that the trail says
  exactly which committed erasures a restore brings back.
* A row inserted below a surviving row of a table other than the subject table
  commits behind the erasure's step (`subject_erasure_lock.py:186`).
* The missing lock of the Django stack, the two ways to lose a worker, and the
  counts of the sweeper: see the conditions above.
* A rectification that commits after an erasure, or behind it on the same rows, writes the
  corrected value over the pseudonym of a surviving row.

## 7. What the models leave out

* **Statements.** A `SELECT … FOR UPDATE` that has to wait takes all its locks in one
  step and sees what was committed meanwhile. Deadlocks between the row locks of
  rectifications and erasures are modelled (`InCircle`). The outbox locks in
  `entry_id` order; the connection pool is not modelled, an exhausted one is a fault. READ COMMITTED on PostgreSQL
  only; SQLite ignores row locks.
* **Steps of a plan.** LocalErasure has one step per table, and a table that
  anonymizes some columns and retains others is "anonymize"; columns are told apart in
  Planning and Rectification, rows in LocalErasure and Planning. Composite keys
  and column types are left out.
* **The application** inserts one row per transaction, so that it never waits for an
  erasure while it holds what the erasure waits for. A circle of that kind ends with an
  error of the database in one of the two, which the model has as a fault. Its code is not
  part of the repository.
* **Lost connections of an erasure.** A call whose connection is gone has lost its locks
  and may still append its failure (`erasure/planner.py:298`), behind the beginning of
  another call's span. Here a call keeps its locks until its transaction ends.
* **The verifier of the chain** raises on a row it cannot parse
  (`audit/chain_verifier.py:158`); here every stored row can be parsed.
* **Outbox columns** no property tells apart: resolver, ref, `last_error`. The
  abandonment hook is isolated from every state change and left out.
* **The trail of the saga** is a set; of completion events the number is kept.
* **Deletion of the chain's tail** is not reported by the verifier, nor could it be
  from the table alone; `ChangesAreLocated` says so.
* **Replay**: one backup and one restore; external refs are not re-derived; the
  operator acts on the newest plan.
* **Requests**: one subject, one row in every table, and rows inserted while a
  rectification runs (which keep their old value) left out. A ledger's reads see
  what is committed. Two tables with the same columns stand for a data map of any size.
* **Vendors**: one subject and one sibling; rate limits, timeouts and refused
  credentials are failing requests; of the answers that no retry can mend, refused
  credentials stand for all. Row limits that a PostgREST server may set on an answer
  are not modelled. The order in which the vendor receives two rectifications of one field
  is nowhere kept by the saga, and `RectificationsHold` does not ask for one.
* **Not modelled**: the curve of the backoff policy, which is arithmetic without state;
  limits and ages of the overdue report; the construction of registries and
  stacks, which is configuration; the migration of manifest payloads; the command
  line, the conformance suite and the TypeScript emitter.

## 8. Plan

1. **The connection pool**: `mark_succeeded` and `requeue` wait for a second
   connection while they hold rows.
2. **Over-replay**: `derive` names a subject whose completed erasure its caller
   rolled back, and the replay erases it; `replay/plan.py:83` calls over-replay a
   convergent no-op.
