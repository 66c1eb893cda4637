# A TLA+ verification project for the office site

The repository is a complete Drupal 9.4 site (the Open Social distribution and
about three hundred contributed modules, all committed) with a dozen modules of
its own under `modules/custom`.  What can go wrong in it in a way a test hardly
reaches is in two places.  One is the code by which independent PHP requests,
which share a database and on each web node a piece of memory and nothing else,
coordinate and defer work: locks, queues, cron, job processors, the cache in
front of the database, and the scheduled logic of the site on top of them.  The
other is the browser side of in-place editing, where clicks, deferred callbacks
and late replies drive state machines that must agree with each other and with
the server.  This project models both.

Contents: [inventory](#inventory) · [modules](#modules) · [runs](#runs) ·
[bounds](#bounds) · [fairness](#fairness) · [proofs](#proofs) ·
[findings](#findings) · [assumptions](#assumptions) ·
[not modelled](#what-is-not-modelled) · [known limits](#known-limits-of-the-code) · [plan](#plan)

To repeat the work, in this directory: `tlc -workers 2 -config X.cfg M` for a
run of the table below, `tlapm M.tla` for a module of proofs.

## Inventory

Each component with the state it keeps, its operations, its partners, what is
hard about it and what makes it correct.

| Component | State | Operations | Interacts with | Hard behaviour | Correct means | Status |
|---|---|---|---|---|---|---|
| Lock backend (`core/lib/Drupal/Core/Lock`) | rows of `semaphore` (name, owner, expiry); per request the array `locks` | acquire, renewal, lockMayBeAvailable, wait, release, releaseAll at shutdown | everything that must not run twice | a row is read, judged expired and deleted in three statements; requests die anywhere; the table is created lazily | no two live leases on a name; nothing left after shutdown; calls return | modelled |
| Queue (`Queue/DatabaseQueue`) | rows of `queue` (id, name, created, expire) | createItem, claimItem, releaseItem, delayItem, deleteItem, deleteQueue, garbageCollection | cron, batches | SELECT then UPDATE; writes by consumers that outlived their lease; stale request times | an item has one consumer within its lease | modelled |
| Cron (`Cron.php`) | lock `cron`, `system.cron_last`, per run its position in hooks and queues | run, hooks, system_cron's garbage collection, processQueues with its exceptions | lock, queue | runs overlap, outlive their lock, throw, die | hooks exclude each other; items are processed at least once, and eventually | modelled |
| Advanced queue (`contrib/advancedqueue`) | rows of `advancedqueue` (state, expires, available, processed, retries) | enqueueJobs, cleanupQueue, claimJob, processJob, onSuccess, onFailure, retryJob, releaseJob, deleteJob | cron, drush, administration forms | whole-row writes of an old copy; thresholds; administrators racing processors | leases exclude; no unfinished job is lost; recent results are kept | modelled |
| Chained fast cache (`Cache/ChainedFastBackend`) | rows of the bin and the last write timestamp; a fast copy per node; the timestamp, the tag counter and the REQUEST_TIME a request has | getMultiple, set, delete, invalidate, tags, removeBin, garbageCollection, reset | database and APCu backends, every reader of configuration, plugins, routes | copies made late, validity judged by each reader, cached timestamps, milliseconds, a timestamp that is an ordinary row | what the fast backend serves is what was last set | modelled |
| Database and APCu cache backends | rows / entries with created, expire, checksum | as above | tag checksums | | | partly: as the two ends of the chain |
| Cache collector | items in memory, keys to persist | get, set, updateCache, invalidateCache, clear | lock, chained cache | merge of concurrent updates | no update is lost | not modelled, see the plan |
| Cache tags | invalidation counters | invalidateTags, isValid, getCurrentChecksum | all caches, transactions | counters cached per request; invalidations inside a transaction | no item is valid after a committed invalidation | partly: one tag, as the chained cache uses it; transactions see the plan |
| Ultimate cron | `ultimate_cron_lock` rows with a `current` column; per job its schedule | lock, unlock, expire, isLocked, cleanup; serial launcher; run; log; unlock by hand | cron hooks, lock table, log | expiry races a new owner; a run decides on a lock and a log it has read before; shutdown functions | one run of a job at a time, and one per schedule; no lock outlives its process | modelled |
| Challenges (`openideal_challenge`) | a challenge's dates and open flag | open and close by cron, edits | node API, mail, events | load and save without a lock, five per run, exceptions | every due opening and closing is processed, in order | modelled |
| In-place editing (`core/modules/quickedit`) | states of entities and fields, mutexes, forms, dialog, pending callbacks and requests; on the server the tempstore copy | user events, deferred callbacks, AJAX replies; fieldForm, submitForm, entitySave | forms, tempstore | replies that are late or fail, nested listeners, callbacks in between | one commit at a time, replies meet the field that waits, changes are kept | partly: two editors of four |
| Ideas (`openideal_idea`) | node, group, membership, flag | insert hook, cron that saves 50 ideas | group, flag, votes | partial failure | an idea has its group and author | not modelled, see the plan |
| Shared temp store | rows with owner and expiry | setIfOwner, deleteIfOwner | lock | check then act | one owner | not modelled, see the plan |
| Commerce orders | version of an order | loadForUpdate, save | lock | stale versions | no lost update | not modelled, see the plan |
| Batch API | a batch and its queue | progressive processing | queue | one browser per batch | | not modelled, see the plan |
| Configuration import, route rebuilding | their data | import, rebuild | lock | only through the lock | | not modelled: `Semaphore` covers their concurrency |
| Persistent lock backend | as the lock | as the lock | configuration import | fixed owner id | | not modelled: subclass that differs by an id |
| Flood control | rows per event | register, isAllowed | | no coordination at all | | not modelled |
| Activities (Open Social) | entities | queue workers | queue, cron | that of the queue | | not modelled |
| Entities, layout, media, share buttons, orders and invoices | entities | CRUD, rendering | | none | | not modelled |
| Themes, vendor code, other contributed modules (maestro among them) | | | | | | not modelled |

How the parts fit: cron takes the lock `cron`, calls the hooks under it (one of
them, `system_cron()`, collects the garbage of the queues and cache bins), gives
the lock back and then works through the queues *without* it, so that the queue
itself must keep overlapping runs apart.  The advanced queue repeats the same
pattern with its own table and is driven by cron, by drush daemons and by forms.
All of them read configuration and plugin definitions through chained fast bins.
On this site `ultimate_cron` takes over the hooks: each becomes a job with a
schedule, a lock and a log of its own, and the challenges' hook is one of them.
In-place editing talks to the server by requests that load a field's form, submit
it into a private tempstore, and at last save the entity from there.

## Modules

One module per component; `MC<module>` instantiates it for TLC, and
`<module>Proofs` holds its theorems.  Definitions keep the names of the code.
An action is one SQL statement or one access to shared memory together with the
PHP up to the next one, because between two of them every other request may
run.  `\* Variant:` marks an operator that changes the one below it the way a
plausible bug would; no specification uses a variant, they exist to see that a
property notices.

**`Lease`** is the abstract specification of a lock: a lease on a name is granted
only when all other leases on it have run out.  Two lock services of the site
implement it, each with a table of its own: `Semaphore`, whose comparison leaves
a tolerance (`Slack`), and `UltimateCron`, where the leases are those on threads
and jobs that the processes know of (`leases`).

**`Semaphore`** models `DatabaseLockBackend` and `LockBackendAbstract::wait()`.
`row` and `table` are the table, `locks[p]` the request's array, `call[p]` the
local variables of its call and `granted` (a history variable) the leases
`acquire()` has returned `TRUE` for.  acquire() is `Acquire`, then either
`Extend` or `InsertRow`/`Record`, `InsertConflict`, `InsertNoTable`/`CreateTable`;
lockMayBeAvailable() is `Select`, `CheckExpired`, `Break`; release() and
releaseAll() forget first and delete second.  A statement may fail (`DbFault`):
a failed INSERT goes to ensureTableExists(), which takes a CREATE TABLE that failed
for one that was not needed, so that acquire() toggles `$retry` and may insert again
without a table (`NextPass`); every other failure ends the call.  `FatalError` (PHP
runs the shutdown function) and `Crash` (it does not) can happen at every statement.
`Slack` stands for the tolerance of the comparison of stored expiry times.

**`DatabaseQueue`** models the queue from the point of view of its table, with
consumers that follow only the interface: they claim in two statements
(`ClaimSelect`, `ClaimUpdate`), and then release, delay, delete or abandon.
`disturbed` (history) holds the items that a consumer wrote after its lease was
over.  `GarbageCollection(t)` has an arbitrarily old request time.

**`Cron`** EXTENDS `DatabaseQueue` and adds the control of `Cron::run()`: every
step that touches the queue conjoins an action of the queue.  The hooks are a
sequence of steps, one of which is `system_cron()`; `WorkerThrows` chooses among
`DelayedRequeueException`, `RequeueException`, `SuspendQueueException`; any other
exception is `LeaveItem`.  The cron lock is a variable with the behaviour `Lease`
states, which `Semaphore` is shown to implement.

**`AdvancedQueue`** models `Processor` and the `Database` backend with its
`updateJob()`, which writes back the whole `Job` object read at the SELECT;
hence `copy[p]`, and `loaded[a]` for the retry form.  `SeekOldItems` and
`PurgeOldItems` are the two statements of the threshold.  `settled` (when a job
got its last final result), `got`, `deleted` and `disturbed` are history.

**`ChainedFast`** models one bin of `ChainedFastBackend` over
`DatabaseBackend`, `ApcuBackend` and the checksums of cache tags: `row`, `mark`
with `markExpire` (the timestamp is a row, too) and the counter `count` of the
tag are in the database, `fast[n]` is the memory of a node.  Of a request,
`lastWrite[r]` is the timestamp, `tagCache[r]` the counter it has read,
`invalidated[r]` its `$invalidatedTags` and `requestTime[r]` its REQUEST_TIME: an
invalidated row is invalid for a reader only if its own REQUEST_TIME and the
counter *it* has say so (`Unexpired`, `Checksum`, `Readable`).  getMultiple() is
`GetMultiple`, `ReadFast` (or `ReadFastThrows`), `ReadConsistent` (the SELECT),
`PrepareItems` (the verdict on the rows) and one `PutFast` per item; set() is
`SetMultiple` (the checksum) and `Upsert`; every write is followed by `ReadClock`,
`Compare`, `StoreTimestamp` (markAsOutdated()) and, for set(), by `PutFast`.
invalidateTags() counts once per request until a tagged item is set again
(`InvalidateTagsAgain`); removeBin() drops the table and then empties the fast backend
(`RemoveFast`).  A process serves one request after the other (`NextRequest`).
`meant` (what a new request is to get), `wrote`, `top`, `doubtful` (what a request has
that was not current when it was read, or is not any more), `suspect` (copies made
of that) and `orphaned` are history.

**`UltimateCron`** models the lock service, `SerialLauncher`, `CronJob::run()`,
the crontab scheduler's decision and the log.  `row[n]` is the row of a lock
whose `current` is 0; `run[r]` holds the local variables of a process, among them
the ids it knows: `own` (what launchJobs() locked and will unlock), `cur` (what
runThread() has locked since), `jlock`.  A run is `Start`, `Probe`
(findFreeThread()), the lock in `Select`, `Expire`, `Insert`, then per job
`Scheduled` (is it locked?), `Due` (is it due by the log?), the lock again,
`Callback`, `Finish` (the log entry, written *before* the unlock), `Unlock` and
`Check`, at the end `Release`.  `StartThread` is a run with `?thread=N`, which
goes on without the lock; `RunCronJob` a job launched by hand; a fatal error is
followed by the shutdown functions in the order they were registered: thread,
job, log entry.  `ImplementsLease` maps the leases `until` and `juntil` of all
processes to those of `Lease`; the administrator's unlock maps to giving up the
lease when its id is read.  reLock() has no caller in the repository and is left out.

**`Challenges`** models `openideal_challenge_cron()`: per operation `Query`,
`Load`, and `Save` and `Dispatch` for each challenge, on the copies that were
loaded.  Exceptions end the run anywhere; users save drafts at any time.
`undisturbed` (history) holds the challenges nobody else may have touched since
the run began.  Only the fields the scheduling reads and writes are kept.

**`QuickEdit`** models the page as a value and each handler as an operator from
page to page, since Backbone runs listeners, and the set() calls they make,
inside the set() that causes them: `setEntity` and `setField` are validation,
assignment and listeners, in the code's order.  `timers` are the deferred callbacks,
in order, `requests` the AJAX calls under way.  What a request does on the server and
its answer are one step; two requests under way that are alike count as one.  A
callback is deferred for each field whose change is announced, and user events and
replies may come between any two callbacks.  A callback whose model has been destroyed
(`Destroyed`) does nothing, since nobody listens to that model.  Every field has one
instance on the page, and there are at most two entities.  The parts of `Inv` (`OneCommit`, `SavesAwaited`, ...) are predicates of
a page, because they hold between any two set() calls of a handler, which is how they
are proved.

History variables are written and never read by guards or by the other
variables' updates.

## Runs

| Run | Question | Answer |
|---|---|---|
| `semaphore` | two requests, one lock, deaths and a fault: `IInv`, `OneLiveHolder`, `NothingLeftBehind`, refinement of `Lease`; does every call return (`CallsReturn`)? | holds |
| `queue` | three consumers and a collector with an old request time: `QueueInv` | holds |
| `cron` | two runs, two hooks, two queues, two failures: `CronInv`, `HooksExclusive`, `AtLeastOnce`; is every item processed in the end (`EventuallyDone`)? | holds |
| `advanced_queue` | two processors that may die, an administrator, threshold in days: `Inv`, `LeasesExclusive`, `NothingLost` | holds |
| `advanced_queue_items` | concurrent cleanups, two jobs, threshold in items: `Inv`, `KeepsRecent` | holds |
| `advanced_queue_live` | a death, retries, delays: does every job get a result (`EventuallySettled`)? | holds |
| `advanced_queue_claim` | is a queued job claimed once (`ClaimedOnce`)? | **violated** |
| `chained_fast` | two processes on a node, a death or a removal: `Inv`, `Fresh` | holds |
| `chained_fast_invalid` | `UpToDate` with one process that reads with `$allow_invalid` | **violated** |
| `quick_edit` | two entities, three fields, six user events at any time, a failed request: `Inv`, `DialogHolds`, `ChangesKept` | holds |
| `ultimate_cron` | two processes, a job due twice, a death, fatal error or unlock by hand: `Inv`, `LeasesExclusive`, `StartsDue`, refinement of `Lease` | holds |
| `challenges` | two runs that take two of three challenges, an exception, an edit: `Inv`, `ClosesLast`; is everything due processed in the end (`SchedulesDone`)? | holds |

What the positive answers mean where they carry exceptions:

- `QueueInv` and `LeasesExclusive`: two consumers have an item within their
  leases only if somebody *without* a lease wrote it, a consumer that was too
  slow or an administrator.  claimItem() and the collectors by themselves never
  hand an item out twice.
- `Fresh`: what the fast backend serves to a request that knows the latest
  timestamp is what was last set, unless the copy was not current when it was
  made (`suspect`) or a writer died, or removed the bin, before it stored a
  timestamp (`orphaned`).  The exceptions are reachable, and each is a path by which the
  cache serves outdated items, so `Fresh` says that there are no others.  A copy is
  not current if its reader or writer was overtaken between its access to the
  consistent backend and its `PutFast`; if it was read with `$allow_invalid`
  (`chained_fast_invalid`); if its reader had cached the tag's counter before the
  invalidation, or began in an earlier second than the request that invalidated
  it, and so took the row for valid; or if its writer computed the checksum from a
  counter that was out of date.  A request does not know the latest timestamp
  while it goes on with one it has cached, or after a slow writer has replaced a
  later one by an earlier.  Writes and copies in the same millisecond, timestamps
  lost to TRUNCATE or garbageCollection(), and those that invalidateAll() has expired
  for younger requests only, are *not* exceptions.
- `UltimateCron!LeasesExclusive`: leases that are over, or that an administrator
  revoked, exclude nothing; the code does not interrupt their jobs.
- `StartsDue` is about the default of one thread, runs that hold it, and
  log entries written in the ordinary way (`by = "run"`).  With several threads,
  or jobs launched by hand, two runs may execute a job twice for one schedule, and after a fatal
  error a run may see the job unlocked before its log entry is there.
- `ClosesLast`: other runs and edits may interfere, and with more than `LIMIT`
  openings due a challenge may be closed before its earlier opening is processed
  (and then ends open).
- `ChangesKept` names its exceptions: the user discards the changes; a commit closes
  the entity with a field that was changed after the save was sent; a form that cannot be
  loaded resets whatever field is active (`util.es6.js:140`); the page is reloaded;
  and three callbacks the user can be faster than.  `opening` makes all fields
  of the entity candidates, `candidate` and `rerender` replace a field that was
  saved (`AppView.es6.js:529`): what the user changes before them is lost.
- `DialogHolds` is about an entity that is open and has unsaved changes.  A dialog
  may also be there for one that is not: two cancels in a row defer two
  dialogs, of which the second is shown after the first was answered.

`CHECK_DEADLOCK FALSE` stands in the run of `Semaphore`, where all requests
have shut down or died in the end, in `advanced_queue`, where the queue may
have been deleted and the processors killed, in `ultimate_cron`, where all
processes may have been killed, and in `quick_edit`, where the user stops at last.

## Bounds

Every bound is a constant with a guard that uses it.

- Time (`MaxTime`) is 2 to 6 with leases of 1 or 2: enough for a lease to be
  granted, to run out, to be taken over and to run out again while a slow
  holder is still there.  The clock stops at the bound; no property depends on
  it going on except the liveness ones, see below.
- Two processes show every pairwise race, and may make several calls each, so
  that the one that comes third (after a release of somebody else's lock, say) may
  be the first again.  `queue` has three consumers because two must claim after
  an overdue one has written the item.
- One name, item or cache id where the code treats them independently; two
  queues for cron's order, two jobs for the threshold in items, three challenges
  for a limit of two.
  One node stands for all: a process of another node is one whose copies are not
  seen.
- Failures (`MaxFaults`, `MaxFails`, 1 or 2) may hit any step; a second one may
  hit the recovery from the first.
- `MaxWrites` = 2 counts calls that set, delete or invalidate: an item is set, and
  then overtaken, withdrawn or invalidated while the other request has it.  Times of
  1 and 2 give a millisecond with several accesses, and a request that began
  a second before the other.
- `ultimate_cron` has one job and one thread, scheduled at two of three times, and
  four lock ids per process: TLC confirms that one is left at every INSERT, and five
  give the same states.
- `quick_edit` has `MaxEvents` = 6 user events: opening an entity, activating and
  changing a field take three, saving, cancelling or leaving it one more, which leaves
  two for what the user does between the callbacks that follow; activating needs
  no mouse move first.  Two of the three fields share an entity, and
  both editors are there.

Process sets are symmetric (identities are only compared); runs with a liveness
property use no symmetry.  The theorems remove all of these bounds for the safety
properties.

## Fairness

- `Semaphore!FairSpec`: weak fairness of a call's own statements.  PHP executes
  a call to its end unless it dies, which is a separate action.  Nobody is
  obliged to call, and time may stop: that calls return does not rest on it.
- `Cron!CronFairSpec`: runs are started again and again (cron is periodic), a
  started run proceeds, and time passes.  Failures are bounded by `MaxFails`, so
  what is shown is that the system recovers from any finite number of them.
- `AdvancedQueue!FairSpec`: the same for processors of each queue.
- `Challenges!FairSpec`: each run is started again and again and goes on unless it
  throws.  `SchedulesDone` needs the bound on exceptions: the oldest schedule
  comes first, so a challenge whose save always throws holds up the others.

`Start` and `ProcessQueue` are weakly fair per run or per processor and queue,
which is what a crontab gives.  No step that competes for a lock or for an item
is given strong fairness.

## Proofs

The theorems hold for every value of the constants that satisfies the named
assumptions of each module (times are natural numbers, lease times positive
where the code says so, thresholds and limits as their forms enforce them).

| Module | Theorem | Says |
|---|---|---|
| `SemaphoreProofs` | `Invariance`, `MutualExclusion`, `CleanShutdown` | `[]IInv`, `[]OneLiveHolder`, `[]NothingLeftBehind` |
| | `Refinement` | the backend implements `Lease` |
| `DatabaseQueueProofs` | `QueueInvariance`, `ExclusiveClaiming` | `[]QueueInv`, claims exclude |
| `CronProofs` | `CronInvariance`, `HookExclusion`, `ExecutedAtLeastOnce` | `[]CronInv`, `[]HooksExclusive`, `[]AtLeastOnce` |
| | `CronUsesQueue` | every behaviour of cron is one of the queue |
| `AdvancedQueueProofs` | `Invariance`, `Exclusion`, `NoJobLost` | `[]Inv`, `[]LeasesExclusive`, `[]NothingLost` |
| | `RecentResultsKept` | `KeepsRecent`, an action property |
| `ChainedFastProofs` | `Invariance`, `Freshness` | `[]Inv`, `[]Fresh` |
| `UltimateCronProofs` | `Invariance`, `Exclusion` | `[]Inv`, `[]LeasesExclusive` |
| | `Scheduling` | `StartsDue`, an action property |
| | `Refinement` | the lock service implements `Lease` |
| `ChallengesProofs` | `Invariance` | `[]Inv` |
| | `Order` | `ClosesLast`, an action property |
| `QuickEditProofs` | `Invariance` | `[]Inv` |
| | `DialogIsHeld`, `ChangesAreKept` | `DialogHolds`, `ChangesKept`, action properties |

The arguments:

- *Lock.*  `OneLiveHolder` is not inductive: it says nothing about rows.
  `LiveLeaseOwnsRow` ties a live lease to its row; the unique key then gives
  exclusion.  It survives `Break` because a row about to be broken was read
  expired (`BreaksExpired`) and the DELETE repeats the test, and it survives the
  DELETEs of release() because the lease was given up before (`DeletesForgone`).
  `RowsTracked` does the same for shutdown: every row of a request is in its
  `locks`, or is just being inserted or deleted.
- *Queue.*  `ClaimOwnsRow`: the row of an item claimed within its lease carries
  that lease, so no UPDATE with `expire = 0` matches.  `FreshIds` keeps a stale
  SELECT from claiming a different item.
- *Cron.*  Each action of cron is an action of the queue or leaves it alone
  (`CronUsesQueue`), so `QueueInv` is inherited instead of proved again.
  `LockBacksLease` gives `HooksExclusive` as above, and `DeletesFinished`
  (a run at its deleteItem() has a finished item) gives `AtLeastOnce`.
- *Advanced queue.*  `RowHasLease` as in the queue.  `ResultsKept` ties final
  states to results, so that the purge, which only removes final states, loses
  nothing.  `LimitStillRecent` says that the time a cleanup has read can only be
  made more conservative by what others do before the DELETE; `KeepsRecent`
  follows.  It needs finite cardinalities and cites `FiniteSetTheorems`.
- *Chained fast cache.*  A row that a new request reads as valid is what is meant
  (`RowsMeant`); so is what a request has read or set, unless it is doubtful
  (`ItemsMeant`), and a copy made after the last write of its item, unless it was made of
  something doubtful (`CopiesMeant`).  The last write of an item is earlier than some
  timestamp, or its writer is going to store one (`WritesMarked`).  To a request
  that knows `top`, a copy that is served is thus later than the last write.  The
  strictness comes from the millisecond markAsOutdated() adds.  `NotFromFuture` is
  needed because validity is relative: what an invalidation stores is expired for
  everybody who begins later, since no REQUEST_TIME and no cached counter is ahead.
- *Ultimate cron.*  `RowsBackLeases`: a lease that is not over is that of the
  current row, so the INSERT of anybody else meets the unique key; it survives
  `Expire` because the UPDATE names the id that was read and tests the expiry
  again.  `OwnIds` and `RowsInPlace` keep ids apart, `GoneWhenAgain` says that a
  thread is locked again only when the run's own row is gone, and `Revoked` that
  the administrator's stale id is nobody's live lease.  For `StartsDue`,
  `LaunchesAlone` and `StillPending`: while a run holds the only thread between
  its two reads and the lock of the job, no other run that held it executes the
  job, so the log entry it has read is still the latest.  Lemmas about moves of
  one process that frees at most rows (`MovesInv`, `KeepMoves`) serve most actions.
  The refinement is proved along with the invariant, action by action: such a
  move gives up leases at most (`ForgoStep`), since a process without a lock has no
  lease that could wander to another name with its local variables (`OwnIds`),
  and an INSERT that succeeds finds no row and therefore, by `RowsBackLeases`,
  no lease of anybody else (`GrantStep`).
- *Challenges.*  `Current`: what a run has found and loaded of an undisturbed
  challenge is what is stored; `OpeningsFirst`: a due opening of an undisturbed
  challenge is still in the run's list, or the run has not yet looked.  When
  the run closes it, no due opening can be left.
- *In-place editing.*  A handler is a tree of set() calls, so the proof goes by
  operator and not by action.  `Changes` says what all listeners of a field's new
  state do together (`ChangeState`); they keep the invariant `Good` of the page if
  the change is `Admissible`, that is, if the field has no save under way and has the
  form the new state needs.  What makes the changes of the code admissible is
  `acceptEditorStateChange()`: nothing but the answer to its save takes a field out
  of 'saving', and only a field that is changed or invalid gets there.  For an
  entity, `CallbacksInTurn` is carried through every state: a callback that closes
  was deferred after all those that open, so that none of them meets an entity in a
  state that would let it act.  This is what a user who clicks between callbacks
  could disturb, and why no assumption about the user is needed.  `KeptBut` follows the
  changed fields and `StaysOpen` the entity of the dialog along every operator;
  they give `ChangesKept` and `DialogHolds`.

Only model-checked: the liveness properties (`CallsReturn`, `EventuallyDone`,
`EventuallySettled`, `SchedulesDone`), since the prover does not reason about
fairness, and the violations.  Every other invariant and action property of the runs is a
theorem.

## Findings

1. `advanced_queue_claim`: `claimJob()`'s UPDATE tests `expires = 0`, not the
   state.  A processor that selected a job before another one claimed *and
   finished* it claims it again and executes it a second time.
2. `chained_fast_invalid`: a read with `$allow_invalid` copies an item whose tag
   was invalidated into the fast backend without its tags, where it is valid.

Each quotes in `PROJECT.json` the comment it contradicts.  Two more disagreements
with comments are reachable in the models and listed among the hazards:
`enqueueJobs()` drops the object startTransaction() returns, so that its inserts
are not atomic (`Database.php:182`), and a slow set() or reader puts an item into
the fast cache after it was replaced (`ChainedFastBackend.php:184`), or a reader with
a cached tag counter one that was invalidated (`CacheTagsChecksumTrait.php:131`).

## Assumptions

- A SQL statement is atomic, and its effect is visible to the next statement of
  anyone (autocommit, as these components use it).
- All processes read one clock.  The comments in the code admit drifting clocks,
  but offer no bound under which a guarantee could be stated.
- The unique keys and serial ids of the tables behave as declared.
- Cache items are permanent until they are invalidated, REQUEST_TIME is the second in
  which a request began, all tagged items of the model share one tag, and writes take place outside a transaction (inside one,
  tagged items are skipped).
- Callbacks deferred with `_.defer()` run in the order they were deferred; anything may
  happen between two of them.
- A lock id of ultimate cron is never handed out twice while somebody remembers it
  (in the code it is a serial number or a unique id).
- Outside code (processes that die, clocks, restarts of a web server, callers)
  is marked external in `PROJECT.json`.

## What is not modelled

Payloads, serialization, log messages, account switching, events without
listeners in this repository, creation of tables other than `semaphore`, and the
components marked so in the inventory.  Third-party libraries, themes, generated
entity code and the invoice modules (written for APIs this core no longer has)
have no protocol of their own.

Of in-place editing: the image and CKEditor editors, several instances of one
field, the metadata cache, toolbars and everything else that is visual; liveness
is not checked, and does not hold in general (a submit that fails in the network
leaves its field in 'saving', `util.es6.js:198`).  Two submits that run in
parallel on the server are one after the other in the model.  A destroyed model has no
state: one that gets a callback to become active after one that made it a candidate
would still make room for itself, that is, stop or save the field that is active.  Of ultimate cron:
the parsing of rules (a set of times), signals, progress, the user interface.

## Known limits of the code

`PROJECT.json` lists the hazards the properties are aimed at.  These are further
ones that were met while modelling, for which no property is stated:

- `Cron.php:161`: a run that outlived its lock stores an earlier `system.cron_last`
  over a later one.  It feeds the status report and the interval of automated
  cron only.
- `ChainedFastBackend.php:303`: nodes with different clocks; the code gives no
  bound on the skew under which a guarantee could be stated.
- `EntityModel.es6.js:522` and `:337`: after a save `fieldsInTempStore` cannot be
  cleared, because validate() rejects every set() while `isCommitting` is true,
  and until its first set() an entity shares the array of the defaults.  Both are
  in the model; the list only causes an unnecessary question.
- `EntityModel.es6.js:469`: a late form reply may activate a field of an entity
  that is deactivating, whose closing is then held up.
- `AppView.es6.js:529` and `EntityModel.es6.js:183`: a change the user makes before a
  saved field is rendered again, or before its entity is opening, is lost.
- `QuickEditController.php:231`: a form request with `reset` that reaches the
  server after a first save replaces the tempstore copy.
- `SerialLauncher.php:231` and `:288`: with several threads, jobs launched by hand or
  `?thread=N`, a job may run twice for one schedule, never twice at a time
  within its leases.
- `OpenidealChallengeService.php:87` and `:109`: a challenge whose save always throws
  holds up the later ones, and listeners are called twice for one opening.
- `openideal_idea.module:130` and `SharedTempStore.php:201` (not modelled): a group
  without its author after an exception; an owner read before the lock is taken.

## Plan

In this order:

1. `CacheCollector` over `Lease` and an abstract cache that promises what `Fresh`
   says; `CacheTags` with transactions.
2. `TempStore` and `OrderStorage`: optimistic and pessimistic updates under
   the lock, and the private tempstore under two parallel submits of `QuickEdit`.
3. The claims of the advanced queue as an implementation of `Lease`, for the
   jobs that nobody without a lease writes.
4. The ideas' insert hook (partial failure).
