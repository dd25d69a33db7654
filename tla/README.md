# Verification of meco_news

TLA+ models of meco_news, a market digest that is collected from news feeds once a day and
sent to a Telegram chat; the TLC runs that check them on small instances; and TLAPS proofs
for every value of their constants. The models follow the program from the worker
processes that read feeds to the copies in the chat, and what stands around it: the daemon,
the guard of maintenance, restores, backups and their retention. Paths below are relative
to the repository root; `tla/` holds this project.

    tlc -config OneDelivery.cfg MCRunOnce.tla     # a run
    tlapm StateStoreProofs.tla                    # proofs; also RunOnceProofs, DaemonProofs,
                                                  # MaintenanceProofs, RestoreProofs,
                                                  # ReconcileProofs, BackupJobProofs,
                                                  # PipelineProofs

## 1. The system

meco_news collects feeds, ranks and selects items, freezes a digest into a durable outbox
(SQLite) and sends the outbox chunk by chunk. What is hard is the sending: a request may be
accepted although its answer is lost, a process may die between any two steps, several
processes may run at once (daemons, scheduled tasks, manual calls), and an operator repairs
what no program can decide. Around it, files are moved under processes that may open them.

| Component | Source (`meco_news/`) | State | Operations | Correct when | Here |
|---|---|---|---|---|---|
| Durable outbox | `storage.py`, `migrations.py` | `deliveries`, `outbox_chunks`, `delivery_attempts`, `delivery_items`, `article_history` | create, prepare, begin/finish attempt, retry, fail, reopen, recover, resolve, reconcile | chunks leave in order; nothing frozen changes; an attempt of unknown outcome is never replayed by itself; history and completion match the acknowledgements | `StateStore`, most |
| Delivery lease | `storage.py` | row `delivery` of `run_leases` | acquire, heartbeat, release, expire, recover | only the holder of a live lease changes the outbox | `StateStore`, whole |
| Delivery cycle | `app.py` `run_once` | locals of an invocation | recover, acquire, plan, collect, select, prepare, send, finish | every message at most once, to one chat; no story twice; every delivery settles | `RunOnce`, whole |
| Daemon scheduler | `app.py` `run_daemon` | row `scheduler` of `run_leases`, heartbeat thread | first cycle, recovery work, sleep, stop | a scheduler without its lease ends; no slot slept over; no hot loop; open work is picked up | `Daemon`, most |
| Operator commands | `app.py` `main` | audit rows | `--resolve-chunk`, `--reconcile-delivery` | only under exclusive maintenance | `StateStore`, `RunOnce` |
| Maintenance guard | `maintenance.py` | marker, OS lock, runtime holder files, fence row | acquire, release, prune stale | exclusive against every writer | `Maintenance`, most |
| Restore | `backup.py`, `storage.py` | database files, sidecars, intent record | restore, roll back, recover an interrupted restore | a crash leaves one whole database; what was sent is not sent again | `Restore`, `Reconcile` |
| Backup jobs, retention | `operations.py`, `backup.py`, `scripts/backup-maintenance.py` | lock file, artifacts and manifests | lock, back up, plan, delete | dead jobs block nobody; what a period keeps stays restorable | `BackupJob`, most |
| Collection | `collectors.py` | process pool, pipes, threads | collect all sources | one result per source, within limits and deadlines | `CollectAll`, whole but parsing |
| Ranking, selection | `ranking.py`, `app.py` | none | freshness, score, deduplicate, select | nothing vanishes but copies; nothing left out but for better | `Selection` |
| Telegram client | `telegram.py` | none | send, classify, build digest | only proven rejections are called rejections; every story placed once | `RunOnce`, `Selection` |
| Retry policy | `app.py`, `storage.py` | budgets frozen with a delivery | count, compare, wait | budgets end retries | `StateStore`, `RunOnce` |
| Schema migration | `migrate.py`, `migrations.py` | schema version, copy, manifest | guarded migrate, verify | all or nothing | no |
| Alerts, metrics, events | `alerts.py`, `metrics.py`, `observability.py` | append-only files | publish, reconcile | | no |
| Preflight, inspection, configuration, URLs | `preflight.py`, `inspection.py`, `config.py`, `models.py`, `timezones.py`, `network.py`, `urls.py` | none | read-only checks | | no |
| Release tooling | `scripts/` | none | build time | | no |

How they interact. `run_daemon`, a scheduled task or a person calls `run_once`; every call
opens a `StateStore`, which recovers an interrupted restore and takes a shared runtime hold
(`RuntimeContext`). `run_once` takes the delivery lease and calls store methods, each one
transaction (`BEGIN IMMEDIATE`) that asserts the lease inside. Between transactions it runs
`collect_all`, ranks and selects, and calls Telegram. Operator commands, restore, migration
and pruning take an exclusive `MaintenanceContext`, which no runtime hold may overlap.
Backup jobs only read the database and have a lock file of their own; retention has none.

The hard behaviours, each at its line, are the `hazards` of `PROJECT.json`.

## 2. Modules

| Module | Models | Composed with |
|---|---|---|
| `StateStore` | The tables of the outbox and the delivery lease; one action per method | |
| `RunOnce` | `run_once` for concurrent invocations, Telegram, the operator, the clock, crashes and store failures | EXTENDS `StateStore` |
| `DeliveryPromise` | What the outbox promises about the chat, without leases, runs or crashes | implemented by `RunOnce` |
| `Daemon` | `run_daemon`, its lease, heartbeat and supervisor, over an abstract cycle | `RunOnce` has the cycle |
| `Maintenance` | The guard between writable stores and maintenance commands, file by file | its `Exclusion` is what `RunOnce`, `Reconcile` assume |
| `Restore` | The file moves of a restore, its rollback, and the recovery by whoever comes next | |
| `Reconcile` | What a restored database contains, over planning, sending, backups and losses | `Restore` has the files |
| `BackupJob` | Backup jobs, their lock file, retention | |
| `CollectAll` | The worker processes of a collection, their pipes, threads and deadlines | |
| `Selection` | Pure: from items to bounded messages | |
| `Pipeline` | One collection from the first worker to the digest | EXTENDS `CollectAll`, `Selection` |
| `MC...` | Values of the constants, for TLC | |
| `...Proofs` | Theorems, see section 4 | |

No module declares a RECURSIVE operator; `Selection` uses folds.

In every module an operator named `Slip...` is a plausible mistake in the definition that
follows it. No specification uses one: `PROJECT.json` pairs them with properties, and TLC finds
the property violated when the slip takes the definition's place.

### StateStore

| Variable | Code |
|---|---|
| `lease` | the `run_leases` row of scope `delivery`; `live` is "expires_at is in the future" |
| `delivery[d]` | row of `deliveries`: state, date, generation, target snapshot, and what the code derives from times and attempts |
| `chunk[d][k]` | row of `outbox_chunks`, with the `delivery_items` assigned to it, the run of its open `delivery_attempts` row, and its audited retries |
| `history` | stories in `article_history` |

A method is atomic because it is one immediate transaction on one database; a
method that raises rolls back, so it is no step of the store (in `RunOnce` it is a
step of the caller: `Refused`). `CanM` is the condition under which method M
commits. The abstractions:

- *Time* is three events: the lease expires (`LeaseExpires`), the recorded
  `next_attempt_at` passes (`RetryDue`), `max_elapsed_seconds` passes
  (`BudgetElapses`). A delivery and its one chunk that can be in `retry_wait` are
  given the same instant by `finish_chunk`, so one flag `due` serves both. The
  elapsed budget counts from the first attempt, and before one exists from the
  delivery's start, so recording the first attempt restarts it (`Attempted`).
- *Counters* of attempts and failed collections are counted up to `MaxAttempts`,
  the frozen limit they are compared with (`CountUp`); audited retries are bounded by
  `MaxResolutions`.
- A run's `owner_id` and `run_id`, two fresh UUIDs, are one model value.
- Stories are identities; payloads, hashes, message ids and texts are left out.
  `error_class` is reduced to "allowlisted for a terminal retry" (`safe`), and
  `terminal_error` to "is a target mismatch" (`mismatch`), the two things the code
  asks of them. `kind` is left out: the running program only writes `content`.
- `expected` of `mark_target_mismatch` is always the snapshot just read, so its
  check cannot fail; the case of equal snapshots commits without a change.

### RunOnce

`run[r]` is a program counter and the locals that outlive a step. Places are named
for the calls of `run_once`: `recover`, `acquire`, `recover2`, `plan`, `reopen`,
`create`, `giveup`, `collect`, `collected`, `allFailed`, `defer`, `select`,
`prepare`, `target`, `loop`, `attempt`, `send`, `finish`, then `except` (the except
clause) and `release` (the finally clause). Every store call is one step, every
refusal or failure goes where its exception goes (`Raise`): suppressed, to the
except clause, or out of the function.

Reads that are merged with the next step, and why nothing that matters comes
between: the queries of `Plan` are followed by calls that assert the lease again,
so a run that lost it changes nothing; the retry policy, the items and the target
of a delivery are immutable once read; `due_chunks` of the for loop is *not* merged
with the attempts (the list may be stale, `queue`), nor is the history read of
`Select` with `Prepare`.

`landed[d][k]` counts the copies of a chunk in the chat and `reached[d]` the chats
that saw a message of d. They model Telegram and are external: `send_html` returns
"accepted" only after the message appeared, and a rejection only if it did not;
anything else is ambiguous, which is how `TelegramClient._call` classifies replies.
A message appears, if at all, while the request is out (Telegram does not post it
after the client has given up).

The world: a run may crash anywhere (`Crash`), any store call may fail
(`StoreFails`), the stop event may be seen where the code looks (`Stops`; a stop
before the first chunk of the loop is seen at `loop`, and the model allows it one
step later too, with the same store). A live run outlives its lease only by stalling,
since `lease_ttl_seconds` exceeds the cycle deadline; these faults share the bound
`MaxFaults`. The lease of a dead run expires without a fault. A slot of `Run` is used
again by a new invocation only when no lease row carries its name, because a new
invocation has a new owner id.

The operator acts only while no run is alive (`OperatorMayAct`), the exclusion that
the maintenance guard promises (`Exclusion` of module `Maintenance`).
`HonestOperator` says that the operator looks into the chat before resolving a chunk.
`ResolveTerminalRetry` is in `StateStore` only: the running program never
produces an allowlisted error class, so `Finish` rejects with `safe = FALSE`.

### Maintenance

| Variable | Code |
|---|---|
| `store[s]` | the `RuntimeContext` of a writable `StateStore`: where `acquire` or `release` is, the entry it has read, its guard file |
| `shared[p]` | `_LOCAL_SHARED_GUARDS` of a process: a guard file and a count |
| `sharing`, `excluding` | who holds the lock on `<db>.guard.lock` |
| `maint[m]` | where a command is in `MaintenanceContext.acquire`, its work, or `release` |
| `marker`, `elapsed` | `<db>.maintenance.json`, and whether its TTL has passed |
| `holders` | marker files in `<db>.runtime.d` |
| `fence` | the row of `maintenance_fences` |

A step is one access to one of these by one thread: the read and the write of
`_LOCAL_SHARED_GUARDS` are two steps, as are the two looks at the marker, the search for
runtime holders and the publication of a marker. The locks, files and rows
survive as the system makes them: the end of a process frees its locks and leaves its files.
A guard file is also closed when nothing refers to it (`CloseGuard`), as Python closes it.

The daemon has three stores: the scheduler's, open for its life; the heartbeat thread's,
opened once; and that of `run_once`, opened again and again inside the first (`Outer`). This
matters: the count may go wrong, and then the scheduler's marker is what keeps maintenance out.
`casualties` is not in the code: it remembers commands that crashed or failed to
release, for `OpenHasAuthority`.

The abstractions: process identities are never confused (the code compares process
creation times); a command is a process of its own and acquires once, as every caller in
`app.py` and `operations.py` does, so the branch of `acquire` that frees stale guards of its own
process is out of reach and left out; so are `refresh`, which nothing calls, the fence file,
which nothing reads, and a runtime marker that cannot be deleted. A failing publication is
undone. The clock is `Elapse`.

### Restore

| Variable | Code |
|---|---|
| `main`, `wal` | for each name (the target, the rollback name, `<target>-wal.orphan`), the version of the database and of the sidecar there |
| `intent` | `<db>.restore-intent.json` |
| `guard` | who holds exclusive maintenance |
| `pc`, `prev`, `moved` | where a process is, and the locals `previous`, `moved_sidecars`, `orphaned_sidecars` |
| `before`, `broken` | not in the code: the database a restore found, and whether a recovery or rollback was itself interrupted |

A process is a restorer (`restore_backup`) or an opener (`StateStore.__init__`, then commits and
a close). Each rename, unlink and write of the intent is a step; `Fail` lets it raise
instead, which starts the rollback, `Crash` ends the process. Recovery
(`_recover_interrupted_restore_files`) is the same five steps for both. The steps of a recovery and of a
rollback whose errors the code suppresses may also do nothing (`Suppress`), and an intent record may
stay where the code only tries to remove it (`KeepIntent`). `Overlap = FALSE` lets one
process at a time touch the files; with `TRUE` an opener may come in the middle of a
restore, as the code lets it (finding 1). One sidecar stands for the three SQLite may
have; what verifying a backup or a manifest refuses is left out, as it moves no file.

### Reconcile

A database is its chunks (payload, story, delivery, state), the states of its deliveries and its
history; `backups` is the set of databases in verified artifacts, `chat` counts what
arrived, and `seen` has, for each story, every payload that ever showed it: unlike the
database, the chat forgets nothing when a restore does. `RestoreBackup` is one step under exclusive maintenance: refusal over a target with
unfinished work or of a backup with an unresolved attempt, `_merge_history`,
`_reconcile_restored_acks`, and quarantine of sendable chunks if there is no target. `Plan`,
`BeginAttempt`, `FinishAttempt` and `Resolve` are the running program in as few steps as a
restore can tell apart. `blind` records that a restore replaced a database that had never
heard of some send (after an earlier restore forgot it), and `lost` that a database was lost.
Left out: deliveries without chunks, which `_reconcile_restored_acks` closes as
`completed_empty`, and backups of the wrong schema.

### Daemon

| Variable | Code |
|---|---|
| `phase` | the time of day; `Slot` is `delivery_time` |
| `today`, `earlier`, `left`, `tries` | the state of today's delivery, of an open one of an earlier day, the wait and the attempts of the open one |
| `sender` | holder of the delivery lease |
| `lease`, `beat` | holder of the scheduler lease, and the heartbeat threads |
| `pc`, `wait` | where `run_daemon` is, and how long it still sleeps |
| `carried`, `crossed`, `idleRuns`, `late` | not in the code: an open delivery of an earlier day at the slot; the daemons the slot met between their checks and their sleep; cycles without sleep; wakings since the lease ran out |

A turn of the main loop is three steps: the checks of the heartbeat and of recovery work
(`Loop`), then either a cycle (`RunCycle`) or `heartbeat_lease` and the computation of the sleep
(`Plan`), and the sleep (`Sleep`). Time passes between any two steps of anyone (`Tick`), so what
a check has read may be out of date when its consequence runs; the slot may come between the
last check and `_next_delivery`, which then takes tomorrow's. A cycle begins with the early
returns of `run_once`, works, and ends with one of the outcomes of `RunOnce`: those that make
`run_daemon` return a code end the process (`Exit`). `HasRecoveryWork`, `NextDurableRetry` and
`NextDelivery` are the functions of those names.

The scheduler lease may run out at any time (`SchedulerLeaseExpires`), also under a
heartbeat thread that is alive: the thread renews every 60 seconds, `config.py` accepts a TTL from
31, and a process may be stalled. Neither its thread nor its main loop knows until one of them
calls `heartbeat_lease`, which refuses a lease that has run out (`Owns`); the thread then ends
(`HeartbeatDies`), the main loop raises (`Plan`). A lapse under a living thread, a thread that dies
of another exception, `Stop` and `Crash` are the faults; a process that ended is started again by its
supervisor. Left out: the reload of the configuration, signal handling, and a clock that
goes back.

### CollectAll, Selection, Pipeline

`CollectAll` has the loop of `collect_all` statement by statement: top of the loop with the
cycle deadline, starts under the limits, the poll of each active source in turn with its four
branches, the cleanup, and the expiry of everything at the deadline. Workers write a frame in
two parts, exit, or hang; receiver threads read what is there; deadlines pass; all of it
between any two steps of the loop. `Sticks` is a worker that survives SIGKILL, `PipeFails` a
`context.Pipe()` without descriptors, which is outside the `try` of a start and raises out of the loop. The frame's content
is "a result" (success or the source's own failure) or "out of memory", which the
supervisor raises.

`Selection` has `freshness_reason`, the score, the three merges of `deduplicate` with the budget
of the fuzzy one, the two passes of `select_digest` and the packing of `build_digest`, on
items that are records of what these compare. The code knows a headline by three things, and so does
an item: `title`, the normalized text without the suffix that names its own publisher, by which
`deduplicate` compares; `tokens`, the words of that text; and `key`, which is `title_key` and
`fingerprint`, of the whole text, by which history and digest compare. Two items may share
either without the other. The ratio of
characters is a relation (`Alike`); a text is its size in units, counted once for the limit in
UTF-16 units and in bytes. The re-check of a separator at `telegram.py:489` cannot
fail after the check before it and is left out.

`Pipeline` runs both: the items found are any few of a catalogue, from the sources that
succeeded. It checks the pure functions against what a digest should be rather than
against a second implementation. A sort puts each item at its rank by a key, and
`ItemAssumption` says what makes that a sort: an id stands for one text, and two items that no
sort key tells apart are one (the code takes whichever of them comes first). It also says how the
three readings of a headline hang together: a title has its tokens, and of two headlines with one
key, hence one text, one may have lost its publisher's words.

### BackupJob

| Variable | Code |
|---|---|
| `file`, `written` | who created the file at the path of `BackupJobLock`, and whose payload is in it |
| `expected`, `took` | the bytes a job has read from a lock it found; whether any job has removed a stale one |
| `backup[j]` | database and manifest of the artifact of job j, its stamp and day |
| `targets[c]` | what a retention run still has to delete of its plan |
| `alone`, `withdrawn` | not in the code: jobs that met no other job; jobs that took their published backup back |

A step is one file operation: exclusive creation, reading, comparing and unlinking a stale
lock, writing the payload, reservation, replacement and publication in `create_backup`,
unlinking database and then manifest in retention. A backup that fails removes its files, also
after the rename that made its manifest visible (the directory sync at `backup.py:126`, or an
interrupt before `published_manifest`): `TakeBack`, then `RemoveManifest`, with other processes between. Jobs and
retention runs die anywhere. Months behave as weeks and are left out, as are referenced artifacts, which no
caller names, and the replication receipt, which nothing reads back.

## 3. Runs

| Run | Question | Bounds | Distinct states |
|---|---|---|---|
| `state_store` | Do the methods, in any order, keep the tables consistent? | 2 runs, 1 delivery of up to 2 chunks, 2 targets, 2 attempts, 1 audited retry | 89,943 |
| `one_delivery` | Is every chunk sent at most once, by one sender, to one chat? Does `run_once` only use the store's methods? | 2 runs, 2 targets, 2 chunks or none, 2 attempts, 2 faults, honest operator | 1.2 M |
| `two_days` | Are generations and stories never repeated? | 2 runs, 2 deliveries, 2 dates, `--force`, 1 attempt, 1 fault | 0.56 M |
| `promise_kept` | Does `run_once` implement `DeliveryPromise`? Does every delivery settle, every attempt close? | 2 runs, 2 chunks, 2 attempts, 1 audited retry, 1 fault, an operator who may be wrong | 0.49 M |
| `daemon` | Does a scheduler without its lease end, is no slot slept over, nothing spun, every delivery settled? | 2 daemons, 3 phases, retries of up to 2 phases, 2 tries, 1 fault, 1 other run | 0.43 M |
| `maintenance` | Is maintenance exclusive, a holder's authority kept, an open store never refused without cause? | a daemon of 3 stores, a one-shot run, 2 commands, 2 faults | 0.61 M |
| `restore` | Does every restore end in the old or the new database? | 2 restorers, 2 openers, one at a time, 4 faults | 0.35 M |
| `reconcile` | Is nothing sent or shown again over backups, losses and restores? | 3 stories, 3 payloads, 2 backups, 2 restores | 0.45 M |
| `pipeline` | Is every source accounted for, every worker gone, every story shown or left out for a reason? | 3 sources on 2 hosts, 2 workers, 1 fault, up to 5 of 9 items | 0.56 M |
| `backup_job` | Is the lock shared only after a takeover, does the retention keep its periods? | 3 jobs, 2 retention runs, 2 days | 4.0 M |
| `restore_race`, `dead_holder` | Statements the code does not keep | see Findings | violated |

Why the bounds are enough. Two runs give every pairwise race on a lease; a third one could
only queue behind it. Two chunks give a first, a last and an order; one delivery gives
every transition of the store, and two the planning rules across generations and dates. Two
attempts separate the first, a retried and an exhausted one. Two faults allow a failure
during the recovery from another. `two_days` gives one attempt per chunk, as a retry changes
nothing between deliveries, and keeps the budget from ending (see Known behaviours).

Two daemons are a holder and a rival; three phases put time before, at and after the slot, and a
delay of two carries a retry into the next day. One fault is a crash, or a heartbeat that dies or is late, each
of which makes two daemons; what two faults in a row do is left to the proofs of the invariants (which
TLC also finds to hold with two, in 2.7 M states, without the liveness). In `maintenance` the daemon has every pair of
threads the code has, the one-shot run is a process without a second store to protect it, and
`MaxGuards` of 4 never blocks a step. In `restore` a second restorer finds what the first
left; four faults allow a restore and its rollback to fail, and the next one as well. Three payloads
and two restores let a restore of a restore lose what the first merged. The
items of `MCPipeline` are copies of each other by url, by title, by likeness and in a chain, with one
title and two keys and with one key and two titles, fresh or not, at both sides of each floor, and of sizes that fit the first message, the
next, or none. Three jobs are one that dies, and two that find its lock; two days with a week
of two let the kept set of one period be the newest of the other.

Symmetry of interchangeable processes, stories or targets is used only in runs without liveness.
Deadlock is checked except in `maintenance` and `dead_holder`, where processes end for
good. `TypeOK` of each module (and `CompletedMeansSent` of `Reconcile`)
can be added to the INVARIANTS of its configurations; the type invariant of the store
is in `state_store`.

Properties worth a word:

- `ExactlyOnce` is "at most once, and exactly once if acknowledged", for an honest
  operator. `KeepsPromise` is the general form: in order, at most once plus once per
  authorised retry, never again after an acknowledgement.
- `StoreSpec` as a property of `RunOnce` says that every step of the composition
  is a step of the store or leaves it alone, so theorems about the store speak about `RunOnce`.
- `Settles` and `AttemptsClose` are conditional on `<>[]Alone`: runs overlap finitely
  often. Without it they are false, and rightly: two invocations can leap-frog for
  ever, each recovering while the other holds the lease.
- `OneScheduler` does not say that one daemon is up: a lease that is renewed by a thread cannot
  promise it. It says that of two one has lost the lease and has woken at most once since, and
  `DaemonSettles` that this one ends. What two schedulers can do to a delivery is `RunOnce`'s question.
- `SlotPlanned` excepts a day that finds a delivery of an earlier day still open, and a daemon that the
  slot met between its checks and its sleep (`crossed`). Both are what the code does (`EverySlotPlanned` under
  Known behaviours); the property says that there is no third way.
- `Exclusion` excepts a heartbeat thread still opening its store five seconds after the daemon
  asked it to stop (`heartbeat.join(timeout=5)`): the scheduler store closes and drops the lock, and a
  command may acquire before the thread writes its marker. Without the exception TLC
  finds this. The process ends next and takes the thread with it, the command keeps its
  authority (`AuthorityKept` has no exception), and a transaction of the late store that starts
  once the marker is there is refused.
- `OldOrNew` and `NoForeignSidecar` are asked as long as no recovery or rollback was itself cut
  short (`broken`); `NeverFresh` is asked always, with an exception for a sidecar under the
  preferred rollback name (see `NoSilentFresh` under Known behaviours).
- `StoryOnce` counts every payload that ever showed a story (`seen`), also one that a restore has
  forgotten since, and excepts only the loss of a live database. `ChunkOnce` excepts restores over
  a database that had itself missed a send (`blind`): `NoSilentReplay` is the same without, and fails.
  `AckSurvives` is about one step, hence about one restore; over two restores it is not true.
- `SelectionJustified` speaks of a known story as the code knows it, by url or by key.
- `PeriodsKept` excepts backups their own job took back, but counts them as the newest of their period
  (`EveryPeriodKept` under Known behaviours does not, and fails).
- Where two halves of one claim fail by different mistakes, the run checks their conjunction
  (`WorkersBounded`, `EverySourceAnswers`, `CopiesAndOnlyCopies`, `SelectionJustified`,
  `AllPlaced`, `DaemonSettles`).

Fairness.

- `RunOnce`: a process that is not killed takes its next step, since `run_once` waits only for
  SQLite (busy timeout) and Telegram (request timeout). Some run is started again and
  again: the daemon does this, or the scheduled task. A lease expires and a retry
  becomes due because time passes. Nothing is assumed of faults, stops, the operator or
  the elapsed budget.
- `Daemon`: the same of its steps, and of a heartbeat thread whose lease is gone, which wakes within 60
  seconds; a scheduler lease runs out if no living thread renews it; a supervisor restarts a daemon that has ended (`run_daemon`
  returns 1 for it to do so, and `compose.yaml` has a restart policy); the delivery lease runs out, the other run ends,
  time passes, and an operator answers a delivery that needs attention.
- `Maintenance`: an acquisition, release or closing that has begun goes on, and TTLs pass;
  nobody has to open a store or issue a command.
- `Pipeline`: the supervisor's loop goes on and the cycle deadline passes. Nothing is asked of workers.

### Findings

1. `restore_race` (code). `StateStore.__init__` recovers interrupted restores before it looks whether
   exclusive maintenance is held. An opener that meets the intent record of a restore in
   progress moves the old database back between the restore's renames; the restore installs over
   it, and the sidecar of the old database ends beside the restored one, which the
   comment in `restore_backup` says must never happen.
2. `dead_holder` (documentation). A dead holder's marker becomes stale, as the module's docstring
   says, but a fence row committed and not released refuses every runtime transaction until
   another command mutates the database and releases.

### Known behaviours

What the code does and a reader may not expect. Each is an operator of the module named: as the only
INVARIANT (PROPERTY for `TerminalRetryWaits` and `NoSilentFresh`) of the configuration named, TLC shows the way there.

| Operator | Configuration | What happens |
|---|---|---|
| `RaceClosed` (`RunOnce`) | `OneDelivery` | The second recovery of `run_once` runs under the caller's own live lease and returns at once; an attempt stranded between the two calls stays in flight during the cycle. No harm to the chat (`ExactlyOnce`), and a later run closes it (`AttemptsClose`). |
| `TerminalRetryWaits` (`StateStore`) | `StateStore` | The closure plan has a terminal retry go to `retry_wait` with its delivery; the code goes to `pending` and `sending`. |
| `AmbiguousNeedsAttention` (`RunOnce`) | `OneDelivery` | A run that meets a stranded attempt and finds the elapsed budget over fails the delivery under it; recovery makes the chunk ambiguous and leaves `failed_terminal` alone. A doubtful delivery then no longer blocks the next date, and its stories may be shown again. This is the only way: see `DoubtIsShown` in section 4. |
| `LockRetained` (`Maintenance`) | `Maintenance` | `_LOCAL_SHARED_GUARDS` is read and written by two threads without a mutex; a lost update releases the OS lock under an open store. `Exclusion` survives because the scheduler's marker is there. |
| `NoSilentFresh` (`Restore`) | `Restore` | Without an intent record, an opener looks for a rollback database at the preferred name only; a restore takes another name when as much as a sidecar lies there, which an earlier failed rollback may have left. If this restore's own rollback dies after its record is gone (the fsync of the directory can raise once it is removed), the next opener starts an empty database beside the one that holds everything. `tests/test_group1_stop_data_loss.py` names "no silent fresh DB" as a fix; it takes four faults. |
| `EverySlotPlanned` (`Daemon`) | `Daemon` | A cycle at the slot that resumes an earlier day's delivery ends without planning today's, and the loop then waits for tomorrow's slot. A slot that comes after `_is_due` or `_has_recovery_work` was read and before `_next_delivery` reads the clock is passed over in the same way. |
| `NoSilentReplay` (`Reconcile`) | `Reconcile` | A restore of an old backup forgets deliveries made since; a second restore, of a backup that holds them unsent, finds no acknowledgement and no reason to hold them, and they are sent again. |
| `NonOverlap` (`BackupJob`) | `BackupJob` | Two jobs find one stale lock; the second unlinks the fresh lock of the first between comparing and unlinking. Both back up; the artifacts are distinct and `PeriodsKept` holds. |
| `EveryPeriodKept` (`BackupJob`) | `BackupJob` | A backup job fails after the rename of its manifest and removes the pair; a retention run that counted it in between deletes the older backup of the day, which then has none. |
| `NoKnownTitle` (`Pipeline`) | `Pipeline` | A story of the history returns under another url with its publisher's suffix, or without it: `title_key` is of the whole text, so it is not recognised, although `deduplicate`, which strips the suffix, would take the two for one. |
| `KeysDistinct` (`Pipeline`) | `Pipeline` | Where the budget of comparisons ends, two stories of one key can both be left and chosen by the first pass, which looks at no key; `prepare_delivery` refuses such a delivery (`storage.py:1306`). |
| `FrameKept` (`CollectAll`) | `Pipeline` | A worker that writes its frame and exits between the poll of the pipe and the look at the process is reported as having sent nothing. |
| `OnlyStuckDetached` (`CollectAll`) | `Pipeline` | At the deadline, the first worker that cannot be killed raises out of the loop and the workers after it are left running. |

Two more, seen while modelling and without an operator: a restored database that has forgotten today's
date lets today be planned again (its history is merged, so no story repeats), and
`build_digest` can send a message that carries only the continuation header.

## 4. Proofs

Each theorem holds for every value of the constants that satisfies the module's assumption: any
number of runs, daemons, jobs, commands, deliveries, chunks, backups, sources, items, workers or faults.

| Module | Theorem | States |
|---|---|---|
| `StateStoreProofs` | `TypeCorrect` | `StoreSpec => []StoreTypeOK` |
| | `SentInOrder` | `StoreSpec => []OutboxOrder` |
| | `HistoryExact` | `StoreSpec => []HistoryIsAcknowledged` |
| | `FrozenForEver` | `StoreSpec => Frozen` |
| | `NeverBlindReplay` | `StoreSpec => NoBlindReplay` |
| | `CompletionExact` | `StoreSpec => []CompletedIffAllSent` |
| | `AmbiguityBlocked` | `StoreSpec => []AmbiguityBlocks` |
| `RunOnceProofs` | `UsesStoreOnly` | `Spec => StoreSpec` |
| | `SendersAreAlone` | `Spec => []OneSender` |
| | `NoSecondCopy` | `Spec => []ExactlyOnce`, for an honest operator |
| | `PromiseKept` | `Spec => KeepsPromise` (a refinement of `DeliveryPromise`) |
| | `OneChatPerDelivery` | `Spec => []OneDestination` |
| | `GenerationsStack` | `Spec => []OneOpenGeneration` |
| | `DoubtIsShown` | `Spec => []AmbiguousNeedsAttention`, if the elapsed budget does not run out |
| | `NoStoryTwice` | `Spec => []NoRepeatedStory`, under both conditions |
| `MaintenanceProofs` | `AuthorityIsKept` | `Spec => []AuthorityKept` |
| | `StoresKeepOut` | `Spec => []Exclusion` |
| | `StoresHaveAuthority` | `Spec => []OpenHasAuthority` |
| `DaemonProofs` | `SchedulerIsOne` | `Spec => []OneScheduler` |
| | `NoSpin` | `Spec => []NoOwnSpin` |
| | `SlotIsPlanned` | `Spec => []SlotPlanned` |
| `BackupJobProofs` | `OnlyTakeoverShares` | `Spec => []SharedOnlyByTakeover` |
| | `DatabaseGoesFirst` | `Spec => []ManifestOutlivesDatabase` |
| | `DeadMarkersYield` | `Spec => []DeadNeverBlocks` |
| | `NewestAreKept` | `Spec => []PeriodsKept` |
| `RestoreProofs` | `NeverStartsOver` | `Spec => NeverFresh`, if `~Overlap` |
| | `NothingForeign` | `Spec => []NoForeignSidecar`, if `~Overlap` |
| | `OldOrNewAlways` | `Spec => []OldOrNew`, if `~Overlap` |
| | `ReportsAreTrue` | `Spec => ReportIsTrue`, if `~Overlap` |
| `ReconcileProofs` | `RestoreKeepsAcks` | `Spec => AckSurvives` |
| | `NoChunkTwice` | `Spec => []ChunkOnce` |
| | `NoStoryAgain` | `Spec => []StoryOnce` |
| `PipelineProofs` | `SourcesAnswer` | `Spec => []EverySourceAnswers` |
| | `WorkersAreBounded` | `Spec => []WorkersBounded` |
| | `OnlyCopiesDropped` | `Spec => []CopiesAndOnlyCopies` |
| | `SelectionIsJustified` | `Spec => []SelectionJustified` |
| | `StoriesPlaced` | `Spec => []AllPlaced` |
| | `PipelineTypeOK` | `Spec => []TypeOK` |

The conditions. `HonestOperator` and `~BudgetMayElapse` are ways the system can be used, not facts of the
code: without the first an operator may order a second copy, without the second a doubtful
delivery may fail (see Known behaviours), and `two_days` has both. `~Overlap` is what the code should
guarantee and does not quite (finding 1). `NestingAssumption` of `Maintenance` says how stores
are opened in `app.py`: one outermost store per process, and only a daemon opens others inside it. `ItemAssumption`
of `Pipeline` says what an id, a key and a sort key tell apart (section 2).

*The store.* `StoreTypeOK` is inductive by itself: besides types it holds the bookkeeping
between a chunk and its open attempt. It serves all the other proofs. The steps of
the store are sorted by what they do to chunks (`OutboxSteps`): nothing
(`QuietStep`), recovery, preparation, or the move of one chunk by one of a few
transitions (`OneChunkMoves`). With that, `OutboxOrder` and `HistoryIsAcknowledged` are
each inductive beside `StoreTypeOK`. `CompletedIffAllSent` also needs how the
delivery's state follows the chunk's move (`SmallSteps`), and `OutboxOrder`.
`AmbiguityBlocks` needs all of them (`StoreInv`): order implies that a
delivery has at most one chunk that is attempted and unsent (`OneOpenChunk`), so a run
that reports a rejection or an acknowledgement cannot leave another chunk ambiguous
under a sendable delivery; and completion implies that recovery, which spares completed
deliveries, never finds an open attempt in one.

*Runs use the store.* `RunInv` adds to `StoreTypeOK` that the locals of a run have their types
where they are used (`RunsOK`) and that generations are below the number of their delivery
(`Numbered`), from which planning finds a new one. Every step of `RunOnce` is then a method of the
store or leaves it alone, so the seven theorems above hold of concurrent runs with crashes.

*The chat.* `ChatInv` adds `OutboxOrder` and `SendInv`: a run that is sending has an open chunk
before it, and if that is in flight the attempt is its own (`Owned`); no two send for one
delivery (`OneSending`); and the copies of a chunk in the chat are within what its row (`Tally`)
and the reply a run holds (`ReplyTally`) allow. The last is the crux: a run that lost its lease
may still hold an answer nobody will record, and the row says so only by being ambiguous. The
refinement then maps each step that posts, acknowledges or pardons to a step of
`DeliveryPromise` and every other to a stutter. `DestinationInv` follows the destination: where a
message may go (`Arrived`), what a run has checked (`Checked`), which destination a
delivery with chunks has (`Addressed`), and that whoever sends aims at it (`Aimed`).

*The plan.* `run_once` reads the tables when it plans and acts on what it read many steps later.
`PlanInv` says what of it is still true while the run has the lease (`Reserved`): that everything else is
settled when it creates a delivery, that its delivery has no chunks while it collects, that its
stories are unseen when it freezes them, that what is left of its queue is sendable. Every step
of the composition is sorted by what it does to the tables (`TableStep`), and each conjunct survives
each sort. `OlderSettled` then gives the one open generation, and `FreshStories`, that a story
shared with an acknowledged chunk is never planned again.

*The guard.* `AuthorityKept` says nothing of a command still acquiring, or of the rows of others.
`GuardInv` adds that a command under way has the lock and lives, and that an unreleased row is that of a
command under way or of a casualty. The shared side of the guard plays no part.
`RuntimeInv` has the shared side: the count of `_LOCAL_SHARED_GUARDS` may go wrong in a daemon once its
threads race, so nothing is said of it from then on; but the outermost store of a process is alone in it
while it acquires (`Acquires`), hence has the lock when it looks for a command the second time,
and from then on its marker keeps commands out (`KeptOut`). `OneMode` is the lock's own rule.

*The daemon.* `SchedulerInv`: a daemon that is up is late exactly if the lease is not its own (`OnTime`), so of
two one is; and a late one never goes to sleep, because `Plan` asks for the lease first, so it has woken at most
once when it waits or starts (`SleepsOnTime`) and twice at most before it ends. The heartbeat thread plays no part: it
only makes the end come sooner. `Working`: who works on a delivery holds its lease. `SpinInv`: a daemon that
goes round without sleep does so for recovery work that is still there, unless another has it (`Recovers`), so it
counts a second idle cycle only while another run is at work. `DayInv`: a daemon sleeps no longer than to
the next slot (`WakesInTime`), and whoever has checked today's slot, in the loop or asleep and not crossed by it,
has seen today's delivery planned (`HasSeen`) or an earlier one open (`Carried`).

*Backups.* `LockInv`: without a takeover the file at the lock path is that of whoever has
passed its creation. `AloneInv` follows a job that has met no other from what it finds to
its takeover. `ManifestInv`: what a retention run plans to delete is published, and the one
whose manifest it unlinks has lost its database. `KeptInv`: what any retention run still has to
delete is `Superseded`, and a superseded backup stays so whatever is published later, which
is why a plan may be as old as it likes. A backup that its job takes back keeps its place in the
order of publications, so what it superseded stays superseded: the theorem excepts the backup
itself (`withdrawn`), not its effect.

*Restores.* `PlaceInv` holds in every case: whose turn it is, what a recovery has read (`Reads`), what a
restore has moved and where it remembers it (`Moves`, `Remembered`), and that the preferred
rollback name is taken wherever a database may lie under another (`Noticed`). `WholeInv` adds
what holds until a recovery or rollback is itself cut short: with k the name in the intent
record, one database is current, in place or at k, and every sidecar lies beside its own
(`Shape`); during a rollback k is instead the name the restore reserved, and between the two moves
of a recovery the sidecar may still be to follow (`Between`). `Course` says what each step of a
restore finds, `Unused` that versions and names are used once.

*Reconciliation.* `Placed`: a payload is planned once and keeps its place in every copy of the
database, which is why a restore that recognises chunks by `chunk_id` and payload finds every
acknowledgement. `SendInv`: what may still be sent has not been seen in the chat. For stories, `RowInv` says what
one database must be: a story is planned again only after a delivery failed before showing it
(`GivenUp`), and its history has what it sent. `SeenInv` relates the databases to the chat: what was seen is in
the live history or ambiguous in the live outbox (`SeenKept`). A database with a failed delivery is
never restored over, so until one is lost no two databases, live or in backups, have a
story under different payloads, and the live one has or remembers what any backup has (`Shared`): whatever
a restore brings back is what was shown, or is not planned again.

*The collection.* `CollectInv`: the table of active sources is that of the processes present
(`Entries`), the counts per host are its own and within the limits (`Slots`); until the end a source is
pending, active or has its result (`Placed`), what is pending has no worker yet (`Unused`), and an error has a
worker or a missing pipe to blame (`Blamed`). Workers,
receivers and deadlines move between any two steps of the loop, and only in ways that keep it
(`Behaves`); entries begin by `Starting` and end by `Leaving`.

*The digest.* `PipeInv` says that each stage has what the one before computed: the ranked items are
typed and told apart by their key (`Worth`), `unique` is what deduplication leaves of them, then the
selection and the digest of that. The rest is about what is computed, for any sequence of items.
Induction is the absence of a least counterexample (`Counting`); a fold of the library is a choice of a
recursive function over sets, so `RecursionExists` builds one from agreeing approximations, and
`ClusterRuns`, `DiverseRuns`, `FallbackRuns` and `PackedRuns` give each fold of `Selection` as a run, one
item a step. Along the run goes an invariant:

- `Clustered`: of the candidates so far, each is retained, like a retained one, or put aside, and no two
  retained are alike. Before it, `Exact` leaves no url and no title twice (`ExactOf`), so an item is
  covered over a url, a title and a likeness: the chain of three in `CopiesAndOnlyCopies`.
- `First`, `Second`: a candidate not chosen had no place among the chosen ones before it (`Outdone`). Later
  choices, of the first pass or the second, come after it, so its reason stays (`OutdoneStays`).
  `Titled` and `Keyed`: no two chosen have one title, and two of one key were both above the floor. If likeness was
  compared to the end there are none such with tokens: of two headlines with one key the words of one contain those of
  the other (`SimilarNested`), so deduplication has merged them.
- `Packs`: what the messages and the current one show is in order, and with the omitted makes all
  stories so far; all messages fit; who is omitted is too long (`TooLong`), for the header
  alone only while it stands alone.

The sorts need that a rank is taken once (`Ranks`, `RankSort`): a strict order on a finite set gives each
item its own number of smaller ones.

What proving changed. `NeverFresh` was stated without its exception and is false without it; a fourth
fault shows it (`NoSilentFresh`). `OlderSettled` is not invariant if the budget may run out. `NestingAssumption`
was implicit in the constants of the runs, and so was `ItemAssumption`: with two items of one id and
different texts, or of one key, a sort of `Selection` is not one. The sorts are by ranks and the
counts of `Diverse` are of sets, where the proofs need no order of summation; `AllShown` states the order of
the stories by their places instead of by filtering a sequence. Ages between four days and staleness
were missing from the items, although they order them (`Published`).
`SpinInv` needed that a cycle begun for recovery work finds that work still due, once time was allowed to pass
between the check and the cycle.

Only model-checked: liveness (`Settles`, `AttemptsClose`, `DaemonSettles`, `CollectionEnds`), which
is out of the prover's reach. Every other property of a passing run is a theorem.

## 5. Not modelled

- `prune_history` works by age in days, which the rows of `StateStore` do not carry;
  `start_run`, `complete_run`, `fail_run`, `ensure_collection_retry` and
  `reopen_collection_retry` are called by tests only; `heartbeat_lease` of a live lease is no step
  while expiry is an event; the audit trail is written and not read.
- Schema migration: one SQLite transaction under the guard of `Maintenance`, which asserts the fence
  before it commits; the copy made before is for an operator. The rest is SQL and checks that refuse.
- The delay arithmetic of retries: no property depends on how long a wait is, only on its end.
- Parsing, normalisation, HTML and the classification of HTTP answers: they decide which data
  arrives, and the models take every answer they may give.
- Alerts: receipts the health command appends, which the delivery program neither writes nor reads.
- Metrics, events, preflight, inspection, configuration, URL and network policy, time zones: they
  keep no state that a later step reads.
- Release tooling: outside the running system.
