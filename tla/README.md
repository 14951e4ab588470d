# Formal model of imgli

imgli is an image host written in Go: an HTTP server over one SQL database
(SQLite or Postgres) and an object store (local disk, S3, WebDAV or FTP), with a
worker pool for background tasks. This directory holds TLA+ specifications of
its stateful core, TLC instances that check them, and TLAPS proofs. Paths below
are relative to `src/internal/`. `PROJECT.json` maps every definition that models
code to the lines it models, and lists the hazards of the code at the lines
where they bite, the runs, the mutants that show each property can fail, and the
theorems.

## The system

| Component | State | What is hard | What makes it correct | Module |
|---|---|---|---|---|
| Upload (`service/upload`) | `images`, `files` (unique on hash and surface, with `ref_count`), `users.used_storage`, objects | the lookup, `Put`, the transaction and the enqueueing are separate steps | counts, quota and objects in step with the image rows | `ImageStore` |
| Lifecycle (`imagesvc/purge.go`, `group_lifecycle.go`, `trash.go`) | the same | a list is read, then each row is purged in a transaction of its own | refunded once, gone only when due, bytes kept while referenced | `ImageStore` |
| Visibility (`imagesvc/surface.go`, `update.go`) | the same | storage copies outside the transaction, compare-and-set on `file_id` | as above; surface follows visibility | `ImageStore` |
| Task runner (`task/task.go`) | `tasks`, a one-slot channel, the pool | results written by primary key from a stale copy; crashes; lost bells | one worker at a time, bounded retries, every task settles | `TaskRunner`, `TaskQueue` |
| Moderation (`service/moderation`, `adminsvc/review.go`) | `images.status`, `is_whitelisted`, `nsfw_score`, tasks | verdicts race uploads and administrators | nothing is normal by omission; decisions stand | `Moderation` |
| Migration (`storagesvc/migrate*.go`) | `storage_migrate_jobs`, goroutines, `files.storage_policy_id`, objects | crash between copy, update and checkpoint; purge of a file in flight; opposite jobs | no row without its object; a finished job left nothing out | `Migration` |
| Serving (`handler/serve.go`, `servesvc`, `bandwidth`) | view counter, monthly traffic, thumbnails | check-then-act on the last view, the quota and the month; single flights | views not oversold, bounded overrun, no stray thumbnail but by a race | `Serving` |
| Disk cache (`servecache`) | files of a directory | readers without the lock, eviction, a killed process | only whole objects, within the bound | `ServeCache` |
| Rate limits (`handler/ratelimit.go`) | windows in memory | the limits are read before the lock, windows expire and are swept | no window lets more than twice its limit through | `Limiter` |
| Accounts (`service/auth`) | `users`, `sessions`, `auth_tokens`, `invites` | a request reads, then relies on what it read | codes work once, one administrator, no session outlives a password it did not know | `Accounts` |
| Groups and policies (`adminsvc/groups.go`, `policies.go`, `upload/group_access.go`) | `groups`, `storage_policies`, expiries | checks and writes are not one transaction | limits agree, references hold, secrets stay with their endpoint | `Groups` |
| Albums (`albumsvc`) | `albums`, `images.album_id`, visibility | an album is swept image by image | nothing public in a private album, walks are complete | `Albums` |
| Lists (`imagesvc/list.go`, `trash.go`, `discoversvc`, `adminsvc`) | a client's cursor | rows move while a client pages | nothing that stayed is skipped or repeated | `Feeds` |
| Settings and statistics (`service/settings`, `service/stats`) | caches with generations, counters in memory | a refresh overtaken by a save; flush and stop | caches follow the rows, no view lost | `LocalState` |
| Drivers (`storage/*`) | FTP session pool, readers | servers that fail, ignore ranges, write in place | an answer is true, no session leaks | `Drivers` |
| Delivery and probes (`storagesvc/storagesvc.go`, `servesvc`, `adminsvc/policies.go`) | cached drivers | edits of a policy while requests use it | a request goes where the tables say | `Delivery` |
| Start (`model/db.go`, `fk.go`, `indexes.go`) | schema, seeded rows | a start killed between two migrations | a running server has a whole schema | `Startup` |
| Upgrade (`version/upgrade.go`, `handler/admin_upgrade.go`) | the binary, its backup, the download | renames, crashes, overlapping requests | there is always a binary to start | `Upgrade` |

HTTP decoding and rendering, webhooks, API tokens, mail, imaging, the link
builder, configuration, the command line, the doctor and the web frontend are
listed in `PROJECT.json` with the reason they are not modelled: pure functions,
best effort, or callers of the operations above.

The parts meet in the database, where one transaction is atomic, in the object
store, and in the task table. Upload, lifecycle and visibility enqueue
`delete_file` tasks after they commit, uploads ask for `moderate_image` tasks,
and the task runner executes both at some later time. Migration moves the objects
that uploads put and purges delete. `server.Run` starts the repair pass, the
hourly sweeps and the flush loop beside the requests.

## Modules

An action is one database transaction, one storage call or one stretch under a
lock, so that a request can be overtaken, or die, exactly where the Go code can.

**`ImageStore`** is upload, lifecycle, visibility and the deletion tasks in one
state space, because their hazards are in how they interleave. A worker is one
request or background loop; `pc` says where it stands and `job` what it carries.
`SaveLookup`, `SavePut`, `SaveCommit`, `SaveReject` and `SaveThumb` are the stretches of
`Save`; `PurgeFind` is the read of a purge route, `PurgeTx` its transaction with the
gate that route re-evaluates, `EnqueuePhysical` what follows the commit.
`UpdateRead`, `Resolve`, `CreateForSurface` and `Rehome` are the stretches of a switch. File
rows are named by their object paths; a path carries a random token, hence
`taken`. `drift` is a history variable: it becomes TRUE when a purge works from a
`FileID` its image has left. Contents are hashes, an image weighs one unit of
quota, time is the expiry states never, later and past and an `aged` flag for
thirty days in the trash, and the thumbnails of one (surface, hash) are one key.
Where a run has no thumbnails, the tasks that would delete them are left out.

**`Library`** is what the store promises the people who use it: an image gets the
bytes that its upload hashed and has them, in the trash too, until it is purged,
and what happens to one image changes nothing of another. It knows no file rows,
surfaces, reference counts, shared objects or background deletions.
`ImplementsLibrary` states that `ImageStore` implements it: a reader's bytes are
those of the object of the image's file row (`BytesOf`), and a worker that has
hashed an upload and not yet answered is a client that has asked (`Asked`). The
library holds as long as no purge has drifted; `store_stale` shows what happens then.

**`TaskRunner`** inserts the row, rings (`Ring`), claims the least id, runs the
handler and records the result by primary key from the worker's copy (`seen`).
`Age` and `RequeueStuck` are the fifteen-minute cleaner. Faults are a restart (with
or without a successful `requeueAllRunning`), a result that is not recorded, a
claim that fails, and an execution that outlives the cleaner's limit.
**`TaskQueue`** is what the runner promises to those who enqueue, and
`ImplementsQueue` states the refinement: pending and running are both "due". The
queue lets a settled task change only if one of its executions was taken for
stuck, since the code has no status guard there. `ImageStore` and `Moderation` use
tasks in the way the queue permits.

**`Moderation`** has the three columns of an image that verdicts write, the task
with its retries, and uploads, tasks and whitelistings that stop between their
statements. `excused` is a history variable: the images somebody or something
answers for (sampled out, checked clean, given up on, decided by a person).

**`Migration`** has a row and a goroutine per job; a goroutine outlives the
cancellation of its job. `missed` records what a job skipped, failed on or could
not have listed, `crossed` the files for which one goroutine removed the copy that
another goroutine's row update relied on.

**`Serving`** is one image with its file, thumbnail variants and owner. `req` says
where each request stands between the gate, the claim of a view, the delivery and
the metering. `spent` and `free` are histories of the traffic, `turned` says that an
update computed in the old month was executed in the new one. **`ServeCache`** is
the directory with its temporary files and the single lock; **`Limiter`** the fixed
windows, with the log of what passed.

**`Accounts`** has users, sessions named by the password they were opened with, and
the one-time links; a request carries what it read. **`Groups`** has the edits of two
administrators to groups, policies and memberships, each reading first and
writing later.

**`LocalState`** is what the process keeps in memory before the database: three
cached settings, each with its own way of being cleared, and the view counters
with their flush and the shutdown. **`Albums`**, **`Feeds`**, **`Drivers`**, **`Delivery`**,
**`Startup`** and **`Upgrade`** are one component each; their headers say what is
abstracted.

`MCImageStore`, `MCModeration` and `MCMigration` give one module its constants and
symmetry. `MCTaskRunner`, `MCServing`, `MCAccounts` and `MCServices` each put several
modules into one run. Those parts share no variable and no action of one reads
another's, so every behaviour of them together is a shuffle of behaviours of
each: the initial state chooses the part that is followed and the others rest. A
safety property of one part holds of the shuffle exactly if it holds of the part.

## Runs

| Run | Followed | What it shows |
|---|---|---|
| `store_switch` | `ImageStore`: 2 contents, 2 images, 3 paths, 2 workers, no foreign keys; uploads, switches, repair, purges by the owner, account deletion | `RefCountExact`, `ImplementsLibrary`, `UsedExact`, `DeletionsAreDead` |
| `store_purge` | `ImageStore`: 2 images, all seven purge routes, guests, a quota of one, one fault | `TypeOK`, `QuotaRespected`, `LiveImagePurgedOnlyWhenDue` |
| `store_live` | `ImageStore`: 1 image, 2 paths, 2 workers, thumbnails, fair | `StrayObjectsDeleted` |
| `task_runner` | `TaskRunner`: 2 tasks (one without a handler), 2 workers, 3 attempts, 2 faults, fair; or `Startup`: 3 starts, 2 edits | `TypeOK`, `ExclusiveUnlessOverrun`, `NoLostWakeup`, `RetriesBounded`, `ImplementsQueue`, `EveryTaskSettles`; `StartsComplete` |
| `moderation` | 2 images of the same flagged bytes, 1 upload, 1 administrator, 1 edit, 1 fault, 2 configurations | `TypeOK`, `NormalIsAccountedFor`, `DecisionsStand` |
| `migration` | 2 files, 2 policies, a job either way that deletes its source, batches of one, 1 event | `TypeOK`, `ObjectAtPolicyUnlessCrossed`, `DoneMeansVisited`, `EndedStays` |
| `serving` | `Serving`: 2 requests at once and 3 in all, 1 view, 2 months; or `Limiter`: 2 lengths, 4 ticks; or `ServeCache`: 4 keys, 2 clients, 1 fault | `FrontTypeOK`, `ViewsNeverOversold`, `BandwidthHolds`, `StrayThumbsWereRaced`; `LimitsHold`; `CacheHolds` |
| `accounts` | `Accounts`: 2 users, 2 requests, 2 links, 1 invite, 5 events; or `Groups`: 2 administrators, 2 groups, 2 policies, 1 image, 4 edits | `AccessTypeOK`, `CodesWorkOnce`, `OneAdministrator`, `SessionsKnowThePassword`; `RulesHold` |
| `services` | `LocalState` (one cached key, or the counters), `Drivers`, `Delivery`, `Albums`, `Feeds` or `Upgrade` | `ServicesTypeOK`, `SettingsHold`, `ViewsConserved`, `DriversHold`, `AlbumsHold`, `ListsAreComplete`, `BinaryIsKept` |
| `store_stale` | violation | A sweep purges by the `FileID` it read before a switch, and another live image loses its original (databases without foreign keys). |
| `store_surface` | violation | A plain update and a rehoming of one image leave surface and visibility apart until the next start. |
| `store_orphan` | violation | A file row created for a switch that lost its race is never collected. |

Why these bounds are enough. Every race found or listed is between two actors, so
two workers, requests, jobs or administrators are the least that interleave. In
`ImageStore` two images are needed for a shared file, and three paths for a file,
its copy on the other surface and a losing copy. `store_switch` has a second
content, so that an image could get another's bytes; elsewhere one is enough,
since only the bytes tell contents apart. Switching and the full set of purge routes
are in different runs because together they exceed the few minutes a run may
take; the pair that meets, a sweep against a switch, is `store_stale`. In
`task_runner` a task fails three times without faults, so all attempts are
reached, and two faults cover an overrun followed by a crash. `moderation` needs a
second image of the same bytes for inheritance, and begins with the provider
alone: with OCR is reached by an edit. `migration` starts with its stored file on
the first policy, which is the same as the other up to naming; the second file is
uploaded while jobs run. In `serving` the quota of 2 is one original, so that two
requests meet at its edge. `MaxEvents` of `accounts` counts all requests of a
behaviour: five are a registration, a login, two uses of a link and a change. In
`services`, the hot and the profile list stand for the lists by value and the
newest of the plaza, which have the same order and cursor; a fault is an error of
one database or storage call. Pools of images, paths, links or calls are not
reused, so runs stop when they are spent: deadlock is not checked.

Symmetry is taken over identities that no definition orders; the two runs with
liveness use none.

Fairness. `ImageStore!FairSpec` has weak fairness on the steps of a handler that
has begun (goroutines are scheduled, calls return), on the deletion tasks
(`task_runner` shows that they are executed) and on the repair pass that each
start runs. Nothing obliges a user to upload, purge or switch. `TaskRunner!Fairness`
is weak fairness on the workers' steps, their thirty-second poll, the cleaner,
and the ageing of running rows that nobody works on; ringing the bell is not
fair, since the enqueuer may die in between, and faults never are.

## Proofs

All of the following hold for every value of the constants that satisfies the
named assumptions, which say of the sets that they are finite where a count is
taken, and of the numbers that they are natural. Beyond that, releases and
policies are numbers above 0, which stands for a process that is down and for no
policy; an object is cut into pieces of at most two (`Sizes`), as in the run, since a
reader's hard cases are a short answer and a piece out of its place; and the mark
of a missing object is none of the objects. Where a module is used as an instance,
its assumption stands in the MC module that instantiates it, next to the values it
is about. TLC evaluates the assumptions in the runs.

Every safety property that a run checks is stated by a theorem. A module that
composes several parts has a theorem that joins their invariants along the part
that is followed: each step of the composition is a step of one part, or leaves it
as it is (`FrontCorrect`, `AccessIsBoth`, `ProcessIsRunner`, `ServicesAreLocal` and the
theorems named `...Followed`).

### `ImageStoreProofs`

- `TypeCorrect`, `TypeOKHolds`. The types alone are not inductive: `Rehome` looks
  up the file its worker carries and `PurgeTx` the pairs in its batch. `TypeInv` adds
  what a worker carries at each step (`JobsShaped`), that a row has a hash and a
  surface (`FilesTyped`), and that held images have a path (`ImagesPlaced`). That
  counts stay natural numbers rests on the conditional delete: a row goes with the
  reference that is its last.
- `QuotaHolds`. The only place where used storage grows is the transaction whose
  condition is evaluated there; nothing about the early check is used.
- `PathsCorrect`, and from it `DeletionsAreSafe` and `RowsStayServable`. `PathsInv` is an
  ownership argument: a path is free, or put by one worker that has not yet
  committed, or named by a row, or doomed, and never two of these. One lemma
  (`HandOver`) says which transfers preserve it, and each action is shown to be one.
  It uses neither reference counts nor foreign keys, so it holds in spite of
  `store_stale`: what that finding loses is a row, and then its object, never an
  object under a row.
- `LiveImagesLeaveWhenDue`, an action property: each step is shown to purge no live
  image (`SparesImages`) or only one that is due at that very moment
  (`LeavesWhenDue`). What protects a sweep's stale list is that the gate of its route
  is evaluated again in the transaction.
- `UsedIsExact`. Every transaction that takes images out evaluates a condition that
  only held images meet, so what it refunds is exactly what the account loses. It
  needs no assumption on drift: a purge may charge the wrong file, never the wrong
  account.
- `CountsCorrect`, and from it `RefCountIsExact` and `OriginalsKept`. As long as nothing
  has drifted, the count of a row is the cardinality of the set of images that
  point to it, and every held image points to a row (`CountsInv`). A purge takes the
  images of its batch off the rows they point to, and the count reaches zero only
  if all of them go. For a switch this is true only if the new file is another one
  than the old, although the two were read at different times: `SurfInv` shows it,
  by the surface that a row keeps for life and that a path has not before it has
  a row. That a new row starts without images uses `PathsInv`.
- `StoreImplementsLibrary`. A hash and a surface are given to a path once, when its
  row is created, and stay when the row goes (`NamesKept`); so the hash that a worker
  carries is that of the rows it carries, however long ago it read them
  (`HashInv`, `HashesCorrect`). With `CountsInv` and `RowsKeepObjects` the bytes of a
  held image are the hash of its row (`AllReadable`), and an image changes its row
  only in `Rehome`, for one of the same hash. Each action is then an upload of the
  bytes asked for, a failed upload, trash, restore or a purge of the library, or
  a step that no user sees.

### `TaskRunnerProofs`

- `RunnerCorrect`, `RunnerTypes`, `ExclusiveExecution`. A busy worker's row is running or was
  taken for stuck, the row of a busy worker is old only if it was taken for stuck,
  and rows and copies have attempts left; together these are inductive.
- `WakeupsReach`: the bell is never lost.
- `RetriesAreBounded`. `attempts` is no bound: a late result is counted from the
  worker's copy and may turn the column back. What is conserved is, per task, a
  sum (`InCredit`): the errors so far, the set of failures that executions in hand may
  still record (`Credit`, a set of pairs of a worker and an attempt, so that claims
  and results add and remove a block of it), and what the row may still fail while
  it is due or runs unattended (`RowCredit`). Claiming moves it from the row to the
  hands, recording back, a restart hands it to the row, and only the cleaner grants
  more.
- `RunnerImplementsQueue`: every step of the runner is a step of `TaskQueue` or a
  stutter.
- `StartsAreComplete`, `ProcessStartsComplete`. `StartInv` says what the database has when
  a start has come to a given step, whichever starts before it were killed: tables,
  indexes and recorded versions (`SchemaReached`), foreign keys, unless a SQLite
  database was cut between two migrations (`KeysReached`), the defaults
  (`DefaultsReached`), and that what an administrator chose is what is there, or what the
  code takes it for (`ChoicesStay`).

### `ServingProofs`

- `ServingTypes`: with the types, what each step of a request has computed, and that
  nobody but the leader of a flight generates its variant.
- `ViewsCorrect`, `ViewsAreNeverOversold`: the views delivered and those in the hands of
  a request that claimed one, counted as a set of requests, never exceed the views
  claimed; the claim is conditional in its own statement, so these never pass the
  highest limit.
- `TrafficCorrect`, `BandwidthIsBounded`: what was metered in a month, and what every
  request let through in it may still add, stay under the quota plus one largest
  object for each request. The proof counts the requests that are in flight.
- `OnlyRacedThumbsStray`: a thumbnail whose file row is gone has its deletion
  pending, or a request that had opened the original put it later.
- `LimitsAlwaysHold`. A window remembers a count and an end, the property speaks of the
  requests that passed. `SlotHolds` ties them: an open window was opened by one pass in
  the log, its count is the number of limited passes since that one, and whoever
  passed before it belongs to a window that was over by then. A stretch of one
  window's length therefore touches two windows at most, and in each the passes are
  at most the greatest limit they were under.
- `CacheAlwaysHolds`. An entry is a finished file because only the holder of the lock
  renames, and only its own file, written to the end. The bound needs more than the lock: the one
  that puts has listed every entry before it removes any (`PutHolds`), no entry is
  added meanwhile, so when its list is used up the cache is empty. Total size is
  modelled as the cardinality of a set of bytes, which the proof can take apart.
- `FrontCorrect`, `FrontTypes` join the three.

### `ModerationProofs`

- `EveryImageAccounted`, `NormalAccounted`. `NormalIsAccountedFor` speaks of live images and
  is not inductive: an image can be restored. The invariant keeps the account of
  images in the trash too, and adds that a task about to write a clean score has
  excused its image already.
- `DecisionsAreKept`, an action property, from the conditions of the updates alone.

### `MigrationProofs`

- `ObjectsStayAtPolicy`. While a goroutine has a file in hand, the policies fall apart
  into those the row may still come from and those it goes to: a set with the
  goroutine's source and without its target, which no goroutine with the same file
  in hand enters (`Apart`, and `HandInv` for all files). Once the row is outside of the
  set it stays there, so that the object at the source may be deleted. A copy
  against the direction of another breaks this, and is what `crossed` records.
- `DoneHasVisited`. The files a job still has to visit lie behind the persisted
  cursor, behind the cursor in memory, and, while a batch is in hand, in the batch or
  behind all of it (`VisitInv`); a batch that is not full has nothing behind it. The
  persisted cursor may lag but never lead, so a crash repeats work and skips none.
- `WhatEndedStays`, an action property: a goroutine writes to its row only under the
  condition that it has not ended.

### `AccountsProofs`

- `AdministratorIsOne`: the claim of the setting and the flag of the user are one
  transaction, and the claimed account refuses to delete or ban itself.
- `SessionsKnow`: a change of the password takes the user's sessions away in its own
  transaction, and whoever stores one afterwards with a former password is on
  record as late.
- `CodesAreSpentOnce`: an invite is redeemed exactly by the account it names; for
  links, an account has one valid link of a kind, a link that is not a reset is used
  at most once because its use is conditional on its being valid, and each reset
  spends one more of the user's reset links, which is an inequality between a
  count of uses and a cardinality.
- `GroupsCorrect`, `RulesAlwaysHold`. A rule holds at the moment of a write because of what
  its request holds, if nobody has written since it read; `WorkHolds` says what that
  is at each step of each kind of request, and that a request whose rows changed
  since is marked so. Two administrators then meet only through the marks, which are
  the exceptions of `RulesHold`.

### `LocalStateProofs`

- `SettingsAreHeld`. The heart is a fact about refreshes (`ReadersKnow`): the generation
  a refresh has read is never ahead of the cache's, and if it is still the present
  one when the refresh publishes, what it has read is the row, or a save that has
  written and not yet cleared is on record. The theorem covers all keys at once, while
  the run follows one cached key in each behaviour.
- `LocalStateTypes`: among the types, a generation plus the saves that still owe a
  clearing never passes the number of saves.
- `ViewsAreConserved`: every view is in the table, in the buffer, in the hand of one
  flush, or lost on record.

### `ServicesProofs`

One invariant per service of `MCServices`, each with its start, its steps and what it
implies, on the instances that the run checks.

- `AlbumsFollowed`, `AlbumsAlwaysHold`. `Guarded`: an image exposed in a private album is
  excused, or some request `Sweeps` it, which holds of a list still to be made, of an
  image still on a list, and of a write on its way if its compare-and-set will find
  what it read. A visitor is described by his cursor alone (`Walked`): what he has seen
  is what may be shown and is not beyond it. That his cover is shown, and that the
  walk ends with everything seen, need that pages have a last image and finite sets
  a least one, which is proved once for all orders.
- `FeedsFollowed`, `ListsAreAlwaysComplete`. For cursors: a steady row that is not beyond
  the cursor was shown once, one beyond it never, or its second was cut by a cursor
  (`Once`). It rests on each of the orders being a total order of the rows and on a page
  being a prefix of what remains. For offsets: while nothing moved, the rows left
  out are those shown and are exactly as many as the offset (`Numbered`), which is a
  lemma about ranks: the rows with at least n before them are all but n. How many
  rows a walk has skipped is bounded by nothing but the number of pages, because a
  row may move ahead of the cursor again.
- `DeliveryFollowed`: what a request that nothing crosses has read is what the tables
  say now (`Current`), and a driver is used only if its fingerprint is that of the
  row, so that it does not matter who filled the cache.
- `DriversFollowed`, `DriversAlwaysHold`. `SessionsInv` is an ownership argument: no session
  with two calls, none in the pool twice, none in both, and these are all that are
  open. Every step of a call keeps its session or opens, reuses, discards or
  releases one, each of which is a lemma. `Right` says of
  each call, by its step, what it has of the object: a writer that nobody disturbed
  has begun its version up to where it stands, a reader has the pieces before its
  position, each in its place whatever the server answered, and a returned call's
  answer is true. The steps of one call leave those of the others right, or mark them as overtaken.
- `UpgradeFollowed`, and from it `BinaryIsNeverLost`. As long as requests have kept apart, at
  most one is at work beside the binary, and what it may rely on at each of its steps
  is still so (`Ready`): the copy is its own and whole once it renames. A request asks
  for something newer than the process (`Newest`), so the binary is never older than
  the process that ran last; only between the two renames, or after a crash there,
  is the backup what is left of it (`Standing`). A rename takes along those who write
  the file, hence the names that requests write to are in the invariant.
- `ServicesAreLocal`, `ServicesKeepSettings`, `ServicesTypes`: what `LocalStateProofs` shows of
  settings and counters holds in the composition, and the types of all.

### Only model-checked

`StrayObjectsDeleted`, `EveryTaskSettles` and the violation
`UnreferencedRowsCollected` are liveness, which needs ENABLED and is out of the
prover's reach. The three violations are counterexamples, which only TLC finds.
All runs remain worth having beside the proofs: they show that the interesting
cases occur, and their mutants that each property can fail.

## Notes on the code

Met while modelling; the first three are runs, the others are behaviours the
models contain, most of them the exceptions that a property names.

- `store_stale`, `store_surface`, `store_orphan`: see `findings` in `PROJECT.json`.
- Moderation. A task that runs again after a crash can flag an image approved in
  between; whitelisting decides from a row it read earlier; an image in the trash
  while its task runs is skipped and stays normal after a restore.
- Migration. Jobs in opposite directions that delete their sources can delete the
  copy a row points to; a cancelled job's goroutine goes on, and a failed check of
  it removes the other's copy (`migrate.go:224`).
- Serving. The month is computed before the update that adds to it; a claimed view
  is lost when the file row is missing; a leader's cancellation fails its followers.
- Accounts. A reset that read one link may spend a newer one; a login that verified
  the old password may store a session after a change; OIDC creates users whatever
  the registration mode is.
- Settings. `upload.New` builds a settings cache of its own, which saving does not
  clear; a save that fails half way leaves the hotlink and public-statistics caches
  as they were; the public statistics have no generation.
- Statistics. Counts in the hand of the flush loop at exit may be lost.
- Start. A stored quota of 0 of the default group, and a lifecycle of zeros, are
  taken for columns never written and reset at the next start; a SQLite database
  whose first start ended between two migrations never gets foreign keys.
- Drivers. FTP's 550 is taken for "not found" although it also means a refusal;
  temporary files of a killed local `Put` are never collected.
- Delivery. A `cdn_domain` of blanks passes the validation, which trims it, and is
  stored as it is; redirects then use it.
- Lists. The newest feed's cursor keeps whole seconds, so rows of the second in
  which a page ended can be skipped; tables paged by number skip or repeat rows.
- Albums. One image trashed during the sweep of its album ends the sweep; an image
  restored into an album that has turned private stays public until the next start.
- Groups. Two overlapping patches can leave a default above the maximum; a policy
  created as disabled is enabled for a moment.
- Upgrade. Nothing excludes two upgrades at once, which share the names of their
  files and can leave no whole binary.

## Not modelled

Database errors other than rollback (where a module does not name them as faults),
clock skew between processes, several server processes on one Postgres database
(the runner's start-up requeue assumes there is one), strings (names, templates,
wording and layout), and the components marked so in `PROJECT.json`.

## Plan

1. The refinement of the rate limiter to a log of passes, from `SlotsHold`.
