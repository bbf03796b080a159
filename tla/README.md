# Verification of the Grains of Hope backend

TLA+ models of the campaign backend in `src/`: how an entry comes to exist and moves
through the render pipeline until its film is delivered, how the public "1 share = 1
plate" counter follows the database, how photos are checked and requests limited, and how
the panel's accounts, configurations, settings and assets change under overlapping
requests. TLC checks the models on small instances; TLAPS proves the main safety
properties for every value of the constants.

Contents: [the system](#the-system) · [modules](#modules) · [what is
checked](#what-is-checked) · [what is proved](#what-is-proved) ·
[findings](#where-code-and-sources-disagree) · [abstractions](#abstractions) ·
[what is left](#what-is-left)

## The system

A FastAPI program (`src/app`) over MySQL, Redis and S3, run as several worker
processes. Endpoints written `def` run in a thread pool, those written `async def` on
the event loop, so requests of one participant overlap, in one process or in two.
Every request has a SQLAlchemy session of its own under MySQL's REPEATABLE READ: it reads a
snapshot, computes in Python, and writes absolute values when it commits. Redis and S3 are
called in the middle of that and take no part in the transaction. The renderer is another
program that shares the database.

| Component | State | Operations | Talks to |
|---|---|---|---|
| Entry flow: `routers/video.py`, `routers/auth.py` | `users`, `user_verification`, `user_otp`, `jobs`, `job_assets` | `submit`, `verify-otp`, `resend-otp` | S3 (photo), Redis (pending key, flag), `share_service` (plate), WhatsApp |
| Render pipeline and watchdog: `sql/schema.sql` | `jobs.status`, `retry_count`, `locked_at`, `failed_stage`, `job_assets` | `sp_watchdog_tick` every minute; the renderer's claim, finish, fail | the same rows as the panel |
| Jobs router: `routers/jobs.py` | the same rows | `update-job`, `fields`, `video-url`, `assets/{field}` (delete), `send-video`, `toggle-photo-validation`, lists and exports | WhatsApp, S3, Redis |
| Share counter: `routers/share.py`, `services/share_service.py`, `ShareCounter` in `core/redis.py` | `share_events`; Redis `share:total` | a Share tap, a plate for a new entry, `count` | MySQL is the truth, Redis the cache |
| Redis helpers: `core/redis.py` | pending key, flags and the auto-off marker, rate-limit counters, Groq key counters, photo queue | read, set, increment | every router |
| Photo validation: `routers/photo_validation.py` | token, verdict cache, queue | `check_photo`, `queue_photo`, `result`, auto-off | vision providers, Redis |
| Settings: `services/settings_service.py` | JSON row; a cache with a TTL in each process | get, patch | every router |
| Pipeline and vision configuration: `routers/config.py`, `routers/vision.py` and their services | versions, one of them active; audit rows; caches | create-and-activate, rollback, pause; activate, delete | the watchdog, the renderer, photo validation |
| Admin accounts: `services/admin_service.py`, `routers/admins.py`, `core/admin_auth.py` | `admin_users`; account cache for 30 s in each process | create, password, activate, role, delete, bootstrap | every admin endpoint |

What is hard about it:

- **Overlapping requests.** A decision is made on a snapshot (the cap, the entry in flight, the
  waiting entry, the flag) and acted on later. The one lock that orders two submits of a number
  is the `users` row, which an INSERT into `jobs` takes shared and `video_count`
  takes exclusively.
- **Work across systems.** The photo is in S3 before the row exists; the cached pending id is set after
  the commit; the film is delivered before `sent` is committed. Each step can be the last one.
- **Recovery.** A render worker may die with its lock; the watchdog rewinds by status alone, while the
  panel and `send-video` write the same row from older snapshots.
- **Redis.** A key expires, is lost, or a command is applied twice between two calls; a flag and
  its marker are two commands; a limit is checked with one command and used up with another.
- **A cache in every worker.** Accounts and settings are read through a per-process cache
  with a TTL that other workers' changes do not reach.
- **Guards on a snapshot.** "The last super-admin", "the row is inactive", "nobody else uses the object",
  "there is no active version" are each checked in one step and acted on in another.

What makes each component correct, in a sentence: an entry has its photo and one plate, and
nothing else earns that plate; a number is not refused for entries it does not have; `wait` means the number
is not verified; nothing unvetted is queued; an entry is `sent` only after delivery, or by an admin's hand; a status never
runs ahead of the assets it stands for, unless an admin set it or deleted them; an entry is rewound a bounded
number of times; every entry ends `sent` or `failed`; the public counter is
never far ahead of the rows, and right again soon; a photo is approved exactly when it is usable, and
every check is answered; no client passes more than its limit and no burst passes a limit by more than
runs at once; one version of each configuration is active and its audit log is a chain; a revoked account is
let in for 30 seconds at most, and no reset gives an old token back its generation; a settings edit is kept and reaches every worker within the TTL; no asset column
names a deleted object and no object is orphaned. `PROJECT.json` lists the places where each of
these can go wrong, with the property that would show it.

## Modules

| Module | Models | Lines of the code |
|---|---|---|
| `EntryFlow` | the handlers of `video.py` and `auth.py`, with what panel, delivery and renderer do to the rows they make | `submit_video_form`, `verify_otp`, `resend_otp`, `Cache`, `FeatureFlags` |
| `EntryLedger` | the abstract promise: an entry of a stored photo and its plate, in one step | `add_video_request_plate` |
| `MCEntryFlow` | symmetry for TLC | |
| `JobPipeline` | the life of a row after it is queued | `sp_watchdog_tick`, `update_job_status`, `update_video_url`, `send_video_whatsapp`, `delete_job_asset` |
| `PlateCounter` | the share counter, Redis call by Redis call | `record_share`, `bump_counter`, `share_count`, `ShareCounter` |
| `AdminAccounts` | panel accounts, login and tokens, the account cache of each worker, the super-admin's operations, the bootstrap | `admin_service.py`, `admin_auth.py`, `admins.py`, `lifespan` |
| `ConfigVersions` | the pipeline and vision versions, the audit log, the pause flag | `config.py`, `config_service.py`, `vision.py`, `vision_service.py` |
| `SettingsCache` | the settings row and its cache in each worker, thread by thread | `settings_service.py` |
| `AssetStore` | deleting an asset that entries may share | `delete_job_asset` |
| `RedisLimits` | the rate limiter, the Groq keys, the burst queue, command by command | `RateLimiter`, `GroqKeyManager`, `PhotoValidationQueue`, `queue_photo` |
| `PhotoGate` | the verdict, the attempts over the keys, the flag and its auto-off marker | `photo_validation.py`, `FeatureFlags`, `set_photo_validation_setting` |
| `MCPanel`, `MCPhoto` | the components side by side for TLC | |
| `…Proofs` | theorems about the module of that name; `PanelProofs` has those of `AssetStore` and `MCPanel`, `PhotoProofs` those of `RedisLimits`, `PhotoGate` and `MCPhoto` | |

**EntryFlow.** A request is a *session* `sess[r]`: what it read (`flag`, `count`, `job`,
`otp`, whether the number was new or verified) and where it stands (`pc`). The steps of a submit
follow the handler: `SubmitRead` (flag, cap, verification, the waiting entry or the one in flight),
`SubmitReissue` (an unverified number whose entry already waits) or `SubmitPending` (one in flight), else
`SubmitFlush` (`db.flush()`, which allocates the id and takes the lock), `SubmitUpload` (S3),
`SubmitCommitWait` or `SubmitCommitEntry` (everything staged, in one commit), `CachePending` (Redis).
`VerifyRead`, `VerifyFlag` (the flag, read after the rows and in a step of its own), `VerifyCommit` and `ResendRead`/`ResendCommit` are the OTP
endpoints; `FlagRead` is the flag as a request finds it: a flag that Redis has lost, or does not answer for, reads as on; the bulk UPDATE of `resend-otp` is a current read, so it spends the codes as they are
at the commit. `Fail` is an exception, a lock conflict or a crash at any step: what is not committed is gone,
a photo in the bucket and an allocated id stay. Two writers of `video_count` that hold the shared lock and wait for each other
(`CanWriteUser`) get past each other only by a `Fail`, as InnoDB ends one of them.
`AdminUpdate`, `SendVideo`, `ClearPending`, `Render`, `Watchdog` (its rewind of a claimed entry to the queue, and its failing of one), `OtpAges`, `PendingExpires` and `SetFlag` are the rest of the world.

**JobPipeline.** One action per UPDATE of the watchdog: `FailOver` (a) and `Rewind` (b), two
statements that commit separately. MySQL evaluates the assignments of a single-table UPDATE
from left to right with the new values; `FailOver` therefore computes `failed_stage` from the
status it has just assigned. `update-job` and `send-video` are sessions with a snapshot of the
row; `Written` is SQLAlchemy's unit of work, which writes only the columns that differ from the
snapshot, so a stale commit mixes with what happened since. `SendOk` (WhatsApp took it) and
`SendCommit` are separate steps. `DeleteAsset` clears a rendered photo or video at any status. A dead worker is one whose `Finish` never comes. Five history
variables record what the properties speak of and no guard but `MaxEdits` reads: the `rewinds` an entry had, the `edits` of the panel and those of
them that were `overwritten` counts, the statuses set `byHand`, the stages `cleared` since they were rendered.

**PlateCounter.** A session per request: the commit, `EXISTS`, `INCRBY`, `COUNT`, `SETEX` as separate
steps, with expiry, loss of the key, failing calls, and `INCRBY` applied twice by
`retry_on_timeout`. A new entry's plate and a Share tap are the same session here: both commit a
row and then call the counter in the same way. `EntryFlow` has the commit of the former as one step;
what follows it is this module, and no state of the entry depends on it.

**AdminAccounts.** A request is authenticated (`ServeCached`, `ReadAccount` then `StoreAccount`, `ServeOnError`
when the database is down, `ServeInternal` with the service key), loads its target (`Load`, whose guard is the handler's:
`_reject_self`, `_protect_last_superadmin`), and commits (`Commit`, with `Written` for the columns that
differ from the snapshot). Time is relative: `changeAge` counts the ticks since a row changed, `age` those since
a cache entry's data were read, both capped at the TTL; that is all the TTL comparisons need. A login mints a token of the row's
generation `tv` as it is after the login's own commit. `Boot` restarts a worker and runs `ensure_superadmin`.
A deleted username can be created again: `id` counts the accounts a username has had (a handler holds on to the one it loaded, a
token names the username only), and `AccInit` includes usernames whose account is gone while its tokens, of every generation, are not (`GoneRow`).
`overlap` records that a request committed over a change made since it loaded.

**ConfigVersions.** `Begin` is what a handler reads: its guard and the active row it remembers as the audit's
`prev`. Each `Commit…` is one step, because the bulk UPDATE of the active rows is a current read whose locks are
held until the commit. The pause is not in the transaction: `SetPaused` writes Redis (or silently
fails to), `AuditPaused` the log; `LosePaused` is Redis losing the flag, which then reads as not paused. `raced` records that and which kinds of operation committed over a change.

**SettingsCache.** `ReadSettings` takes the time and reads; `StoreData` and `StoreTime` are the two
assignments to the module-level dictionary that the threads of a worker share. `LoadRow`, `CommitRow` and `ReadBack` are `update_settings`. A fill
carries the time it began, an update the time it stored.

**AssetStore.** `CheckAsset` (is the object shared?), `DeleteObject`, `ClearColumn`; S3 may refuse (`DeleteFails`, a 502) and
the process may die after the object is gone (`StopEarly`). `Render` and `Reuse` are the external renderer: a repeat entry
takes over an earlier entry's URL.

**RedisLimits.** A counter is a pair of its value and its remaining life. `Hit` is the pipeline
of INCR and EXPIRE; `allowed` keeps, for each identifier, the requests let through in the last window. `TakeTurn`, `TryKey` (GET) and `Reserve` (INCR) are `get_available_key` with the handler that calls it, `SizeQueue`, `Push`
and `MarkQueued` the queue. `Resend` is `retry_on_timeout`: an INCR of a key or an RPUSH that was applied is applied once more (the round robin's
repeat is in `TakeTurn`, the limiter's is a `CheckRateLimit` of its own). `Dequeue` and `SetResult` are its consumer, which is not in the repository.

**PhotoGate.** A check asks key after key (`AttemptFails`), is answered (`Answer`, `Conclude`) or switches the gate off
(`AutoOffFlag`, `AutoOffMark`) while panel requests set it (`ToggleFlag`, `ToggleMark`). `Findings` is the list of
`decide`'s tests in its order, `Decide` the first that applies.

## What is checked

The longest runs (`panel`, `photo`, `pipeline`, `entry_serial`, `entry_guarded`) take one to three minutes each, the others seconds.

| Run | Question | Instance | States |
|---|---|---|---|
| `entry_serial` | Do the exact claims of the sources hold while requests of one number do not overlap? May a claimed entry return to the queue? | 2 numbers (one on the client list, one exempt from the cap), 2 requests (one by one for each number), 2 ids, 2 codes, cap 1, flag toggled, lost or unreadable | 372 846 |
| `entry_guarded` | Can a verified number keep an entry in `wait`? How many entries can be in flight? | 1 number, 2 requests, 3 ids, 2 codes, cap 2, flag toggled; no `update-job`, no film sent to a waiting entry | 1 584 704 |
| `entry_panel` | What survives every interleaving, with a panel that re-queues? | 1 number, 2 requests, 2 ids, 2 codes, several entries allowed, films sent to waiting entries | 247 709 |
| `unvetted_queued` | Does an unchecked photo reach the queue? *(violated)* | 1 request, flag toggled | |
| `late_verify` | Can a claimed entry go back to the queue? *(violated)* | 2 requests | |
| `pipeline` | Is the row consistent, and does it settle? | 1 entry, 2 requests, max_retry 2, 1 edit (to `photo_done` or `sent`), 1 delivery, URLs in the body, assets deleted | 855 620 |
| `watchdog_stage` | Does an entry the watchdog fails name its stage? *(violated)* | 1 entry | |
| `plates` | How wrong can the counter be, and for how long? | 3 requests, 3 rows, 1 repeated INCRBY | 13 000 |
| `plate_drift` | Is a wrong total always temporary? *(violated)* | 2 requests, 2 rows | |
| `panel` | What do accounts, versions, settings and assets keep under every interleaving of requests, workers, ticks and crashes? | 2 accounts (one of them also over a deleted one), 2 workers, 3 requests, generations up to 2, TTL 2; 4 operations on 3 versions; 2 settings of 2 values, 3 calls, TTL 2; 3 entries, 2 objects, 3 deletions | 757 869 |
| `photo` | Do the limits hold, does the marker mean what the panel shows, does `decide` follow its policy, is every check answered? | 2 clients, limit 2 in 3 ticks; 2 keys of 1 request, queue of 1, 2 requests, 2 ids, 2 repeated commands; 1 check over 2 keys, 2 toggles | 1 226 136 |
| `last_superadmin` | Can the last super-admin go? *(violated)* | 2 accounts, 3 requests | |

**Why these bounds.** Every race in the entry flow is between two requests of one number over one or two
entries: numbers share no row, so a second number only matters for the lists and for what "one by one" leaves open, and
has its run. Two codes are what two first submits that race issue, and one code serves two verifications that overlap. With two ids a
promoted entry and a new one coexist, and in `entry_serial` a second entry meets the cap of one; three ids, and a cap of two
that two submits pass together, are what a third unfinished entry would need. A
failed submit uses up an id, which is why the ids, not the submits, are bounded. In `pipeline` entries share no
column, so one is enough (the proofs are for any set); `MaxRetry` 2 is the smallest at which a stale count
wins back a rewind, one edit is what does it, and two requests are what a stale write needs; its panel sets `photo_done` and `sent`, the two statuses that
run ahead of an asset or of a delivery. `Plates` needs three requests: one that counts, one
whose row is counted before its bump, one whose bump is still to come. Deadlock is checked where the system
always has a step (`plates`, `plate_drift`); elsewhere the bounded ids or edits run
out and the system is at rest, as each cfg says.

In `panel` and `photo` the components share no variable, so each is explored with the others in their initial
state: the sum of the state spaces, with the same projections as the product. Requests, calls and operations run once
each, so their number bounds a run; three requests on two accounts have two that change the same row and one that is
let in meanwhile; four operations on the versions have a seed, a switch and two that overlap it; a TTL of two ticks tells young,
old and expired apart. A limit of one for a key and the queue makes two requests pass it. A username has an account from the start, none, or
one that was deleted, and generations up to two make a later account's reset reach a token of the deleted one. Uuids are drawn in order: they carry no other meaning.
Two repeated commands are one for each of the two requests. `panel` uses the symmetry of requests and of workers; `photo` has a
liveness property and uses none. The analyses of `decide` are those at most two answers away from the best one: every pair of
problems, which is what an order of tests can get wrong; `PolicyHolds` proves the order right for every analysis.

**Serial and overlapping.** `CountIsJobCount`, `OneInFlight` and `CapRespected` are what schema, comments
and settings say. They hold while the submits and verifications of the same number follow one another (`OneByOne`) and `wait` is
left to the OTP (`WaitOrderly`): that is `SerialSpec`, which `entry_serial` explores. They fail as
soon as two requests of a number overlap, see below. What remains then is `CountNeverExceeds` (lost updates only ever
lower the count), `OnePlatePerEntry`, `PendingNamesOwnEntry` and the refinement of `EntryLedger`,
all in `entry_panel`, and in `entry_guarded`, whose instance leaves no step that is not `WaitOrderly` (so that its `Spec` is an
`OrderlySpec`, `WaitOrderly` alone), `WaitMeansUnverified` and `FewInFlight`: the guard can be passed together, but no more entries are unfinished than requests run at once, because whoever adds one
found none in flight. Neither condition is enforced by the code: the panel may set any status at any time, and a client may send two
requests at once. `CountNeverExceeds` needs one assumption, that
the panel does not put entries back to `wait`: the next verification would count them again.

**What the history variables excuse.** The exact claims of the panel hold until two requests overlap in one particular way,
and each property says which; what happens then is known:

| Property | Excepted | What happens then |
|---|---|---|
| `AssetsBehindStatus` | `cleared`, `byHand`: a URL deleted since it was rendered; a status of that stage set by `update-job` | the entry shows a stage whose asset is gone; the renderer that picks it up has no input |
| `SentWasDelivered` | `sent` set by `update-job` | no film was sent, and the panel says it was |
| `RetryBudget` | `overwritten`: an `update-job` that wrote an old count over a newer one | up to max_retry − 1 rewinds more for each |
| `SuperadminRemainsSerially`, `ResetSignsOut` | `overlap`: a commit over a change made since the load | two removals leave no super-admin (run `last_superadmin`); two resets write the same generation, and a token issued between them stays valid |
| `ResetSignsOut` | an account created over a deleted username | it starts at generation 0, and a reset makes a token of the deleted account current |
| `VersionsOneActive` | a seed committed over a change | two workers that start together on an empty table leave two active rows |
| | for vision, a deletion too | deleting a version that is being activated leaves none active |
| `AuditIsChain` | a switch or seed that overlapped another | two audit rows name the same predecessor |
| `PauseMatchesAudit` | a cut or overlapping pause, or Redis down | the log says paused, the pipeline is not |
| | the flag lost by Redis | a pipeline logged as paused runs; one logged as resumed is never paused |
| `NoLostUpdate` | two overlapping patches | the earlier patch is undone, although it names another setting |
| `SettingsConverge` | two interleaved stores in one worker | old data carry a new time and live one TTL longer |
| `NoDanglingUrl`, `NoOrphanObject` | a column changed between another request's check and its write | two deletions of a shared object both keep it; an entry that takes an object over while it is deleted names nothing |
| `NoDanglingUrl` | the entry's own deletion stopped after S3 | the column still names the object; the call can be repeated |
| `MarkerMeansOff` | `set_flag` calls that overlapped or were cut | the panel says "switched off by the system" while the gate is on |

`RevokedWithinTtl` excepts requests served from an expired entry because the database failed: that is the code's choice, and it has no bound in time.
It is what the code gives for a password change too, where README, `admin_auth.py` and `admin_user.py` say "immediately" (finding 9).
`RateCap` needs no exception: the expiry is renewed by every request, refused ones included, so a counter restarts only after a
whole quiet window. The fixed window that README and `video.py` describe would let the limit through on each side of its edge (finding 11). It does not
cover requests let through while Redis is unreachable. `BurstOvershoot` is exact: |Post| requests can all find the last free place, and each command the client
repeats after a timeout takes one more.

**Fairness.** The entry flow has none: all its properties are about what may not happen. `Settles`
assumes what runs by itself (`JobPipeline!Fairness`): MySQL's event fires each minute, a lock
grows old, and some live renderer polls for rows it can claim. No worker has to finish what it
locked, no request has to commit, no admin has to act. The panel of that run sets `photo_done` and
`sent`; a row it puts into a `*_processing` status or on hold has no lock, and nothing in the
code moves it. `DriftHeals` assumes that a request which started finishes or dies, and that a
TTL runs out; nobody has to tap or read, and Redis need not fail. `CheckAnswered` assumes that every attempt of a
check ends, which the client's timeout and its single retry see to; no provider has to answer.
The panel's components have none.

## What is proved

`tlapm` proves every obligation of the eight `…Proofs` modules, for any finite or infinite sets of numbers and
entries, any bounds and any settings, unless a line below says otherwise. The assumptions are the named ones of each
module (`EntryAssumption`, `PipelineAssumption`, `CounterAssumption`, `AccountsAssumption`, `VersionsAssumption`,
`SettingsAssumption`, `AssetAssumption`, `LimitsAssumption`, `GateAssumption`): types of the constants, and a
non-empty finite set of requests for the counter and the burst. Some theorems of the entry flow are about fewer behaviours,
because their claims need it, and each condition is spelled out in `EntryFlow`:

- `OrderlySpec`: an entry leaves `wait` only once its number is verified, and none is put back (`WaitOrderly`).
- `SerialSpec`: in addition the submits and verifications of the same number do not overlap (`OneByOne`). Those of different
  numbers may, resends, panel, renderer and expiries always, and any request may fail or die anywhere.
- `FinishedForGood`: `update-job` leaves a sent or failed entry sent or failed.
- `CheckOnWhenDrained`: the photo check is switched on only while no entry that skipped it waits and no submit that skips it runs.
- `MaxVideos # 0` for the cap: with a cap of zero a new number's first entry is admitted, as there is no row to compare with yet.

| Theorem | States | Rests on |
|---|---|---|
| `EntryFlowProofs!TypeCorrect` | `TypeOK` | `TypeInv` = `TypeOK` with the numbers and ids a session holds |
| `PlatesMatchEntries`, `PendingIsOwn` | `OnePlatePerEntry`, `PendingNamesOwnEntry` | `EntryInv` |
| `LedgerImplemented` | `EntryFlow` implements `EntryLedger` | `EntryInv`, one lemma per kind of step |
| `SessionsHoldTheirOwn`, `CountsToWriteAreReal` | `EntryInv`, and `CountInv` when `"wait" \notin AdminStatuses` | |
| `CountNeverTooHigh` | `CountNeverExceeds` when `"wait" \notin AdminStatuses` | `CountInv` |
| `NoEntryIsLeftWaiting` | `WaitMeansUnverified` of `OrderlySpec` | `WaitInv` |
| `CountIsExactWhenSerial`, `CapHoldsWhenSerial` | `CountIsJobCount`, and with `MaxVideos # 0` `CapRespected`, of `SerialSpec` | `CountedInv` |
| `OneInFlightWhenSerial` | `OneInFlight` of `SerialSpec` with `FinishedForGood` | `FlightInv` |
| `ClaimedStaysClaimedWhenSerial` | `ClaimedNotRequeued` (only the watchdog's rewind) of `SerialSpec` when `"queued" \notin AdminStatuses` | `CountedInv` |
| `FewInFlightAlways` | `FewInFlight` of `OrderlySpec` with `FinishedForGood`, for finitely many requests | `RoomInv` |
| `UnvettedStaysOutWhenDrained` | `UnvettedNeverQueued` under `CheckOnWhenDrained` and `~FlagLost`, any interleaving, when the panel sets neither `wait` nor `queued` | `VettedInv` |
| `DirectQueueVetted` | the action property `DirectQueueIsVetted`, under any interleaving | `EntryInv` |
| `JobPipelineProofs!ColumnsTyped` | `TypeOK` | |
| `SentMeansDelivered`, `AssetsAreBehind`, `RetriesWithinBudget`, `SnapshotsAreSound` | `SentWasDelivered`, `AssetsBehindStatus`, `RetryBudget`, `SessionInv`, for any statuses the panel may set | `PipelineInv` |
| `PlateCounterProofs!CounterTyped` | `TypeOK` | |
| `OvershootIsBounded`, `CounterIsAccountedFor` | `OvershootBounded`, `CounterInv` | `CounterInv` |
| `AdminAccountsProofs!AccountsTyped`, `CacheIsBounded`, `SuperadminRemainsWhenSerial` | `AccTypeOK`, `AccountCacheBounded`, `SuperadminRemainsSerially` | `AccInv` |
| `RevocationWithinTtl`, `ResetIsSignOut` | the action properties `RevokedWithinTtl`, `ResetSignsOut` | `AccInv`, and which steps can let a request in or end it with "ok" |
| `ConfigVersionsProofs!VersionsTyped`, `OneVersionActive` | `VerTypeOK`, `VersionsOneActive` | `VerInv` |
| `AuditChain`, `PauseLogged` | `AuditIsChain`, `PauseMatchesAudit` | `ChainInv`, `PauseInv` |
| `SettingsCacheProofs!SettingsTyped`, `UpdatesAreKept`, `WorkersConverge` | `SetTypeOK`, `NoLostUpdate`, `SettingsConverge` | `SetInv` |
| `PanelProofs!NoDanglingUrlHolds`, `NoOrphanObjectHolds` | `NoDanglingUrl`, `NoOrphanObject` | `AssetInv` |
| `PanelImplementsComponents`, `PanelTyped` | `PanelSpec` implements the four components' specifications; `PanelTypeOK` | the four invariants |
| `PhotoProofs!LimitsTyped`, `OvershootIsLimited`, `WindowIsCapped` | `LimTypeOK`, `BurstOvershoot`, `RateCap` | `LimInv` |
| `GateTyped`, `MarkerIsTruthful` | `GateTypeOK`, `MarkerMeansOff` | `MarkerInv` |
| `PolicyHolds`, `VerdictsFollowPolicy` | the policy for every analysis, `DecideMatchesPolicy` | the fourteen tests of `decide`, case by case |
| `PhotoImplementsComponents`, `PhotoTyped` | `PhotoSpec` implements `LimSpec` and `GateSpec`; `PhotoTypeOK` | both invariants |

None of the properties is inductive alone.

- **EntryInv.** That plates equal entries is preserved by a commit only if the committed id was free: so an
  allocated, uncommitted id lies below `nextJob`, has no row and belongs to one session (`IdsInv`). That a
  cached id is the user's own needs every session's job to be a committed row of its user once it is not being inserted
  (`RowsInv`), and that an entry has a photo needs the photo of every session past its upload (`PlatesInv`).
- **CountInv.** A session that is about to write `count + 1` must leave the count within the entries promoted by
  then. Its `count` was within them when it was read, promotions are never undone, and its own
  entry is one more: either a new row, or for a verification an entry that `wait` kept out of the snapshot's count.
- **WaitInv.** A verification frees one entry only, so an unverified number must have exactly one, and a submit that
  creates another must be the one that creates the number: whoever saw an unverified number knows its waiting entry or
  will write the `users` row, whose unique key lets one of them through (`ClaimsInv`).
- **CountedInv, FlightInv.** What an open transaction has read is still so when it writes: its count is the row's, its waiting entry
  waits, and, if several entries are not allowed, there is room and nothing is in flight (`CountClaims`, `FlightClaims`). The lemma
  `SerialSessions` carries this through every step: under `OneByOne` a commit is of another number, whose rows it cannot touch, and panel
  and renderer change nothing the claims look at (`Harmless`). A verification then finds the number's only entry, so it
  promotes from a count of zero.
- **RoomInv.** `FewInFlight` is not inductive: a submit that has read will add an entry whatever happens meanwhile, and a verification that
  has read may put a finished one back to work. So the entries in flight are counted with those that open verifications hold, and the
  open submits with them. A submit joins only while nothing is in flight, and then every claimed entry has a
  verification of its own, which is another request.
- **VettedInv.** While the check is on, every waiting entry was checked and no submit that skips the check runs; and an entry that a
  verification will queue because it read the flag on was checked, whatever the flag is by then.
- **PipelineInv.** A send that was delivered keeps `delivered > 0`, and a request's snapshot holds no count beyond the rewinds and edits there
  were (`SessionInv`). The bound on the rewinds is not inductive, as it says nothing of the count that decides on the next one: so `Allowance` bounds the
  rewinds an entry had *plus* those its count still allows by `MaxRetry + overwritten * (MaxRetry - 1)`. A rewind moves one from the
  second to the first; an edit over an old count adds at most `MaxRetry - 1` to the second, as it writes at least one. `AssetsBehindStatus` must hold for
  every status `Written` may leave in place as well as for those it writes; it does because what is rendered or `cleared` of a row only grows.
- **CounterInv.** `cached` plus the bumps still to come is at most the rows plus repeats plus one less than the
  requests: the request that seeds is not itself bumping. `total <= rows` for every count held, and
  a pending bump means there is a row.

- **AccInv.** That a super-admin is left needs what a request with a clean view may rely on (`LoadedHolds`): its snapshot is the
  row, and if it removes a super-admin there is another one. That a reset signs out needs `TokensReached`: no token
  of a username's first account is of a generation it has not reached (of later accounts that is false, which is the finding). Both hold only while `~overlap`; the cache's bound holds always, because a read in
  progress carries the same bound as the entry it will become.
- **VerInv.** A seed that nothing overtook still sees an empty table, a deletion that nothing overtook still names an
  inactive row; a switch needs nothing, it repairs whatever it finds.
- **ChainInv.** While no switch overtook another, the last switch logged went to the row that is active, and whoever read it
  undisturbed will record that very row as `prev`.
- **PauseInv.** Redis is written before the log: while no pause was overtaken, at most one is between its two writes and Redis holds
  its value; when none is, Redis holds the last one logged; each time up to a loss of the flag, which only ever turns it off.
- **SetInv.** A reading that disagrees with the row is no younger than the row's last change at every place on its way
  into a cache: read, read back (then the change is of this very tick), and half stored, where the data are new and the
  time is still to come. That last case needs one store at a time in a worker.
- **AssetInv.** What was checked still holds for a request nobody touched (`CheckedHolds`, `ClearingHolds`), and
  every name in use was uploaded.
- **LimInv.** What is spent of a key plus the requests that found room at it is at most the limit less one plus the number of
  requests, and the same for the queue: whoever finds room finds less than the limit spent; every repeated command adds one to both sides, and a request that marks
  its id has been given one, so what it repeats is an id. For `RateCap` (`StampsInv`) the requests let
  through in the last window have different ordinals, all at most the counter's value and at most the limit, and none is
  younger than the last request: when the key goes, a whole window after that, the window is empty.
- **MarkerInv.** While `~tangled`, at most one `set_flag` is between its commands, on either side, and the flag already has its value.

Only model-checked: liveness (`Settles`, `DriftHeals`, `CheckAnswered`), which is out of the prover's reach. The five properties that runs
violate are false of the code; the theorems above say under which conditions `UnvettedNeverQueued`, `ClaimedNotRequeued` (which the run `entry_serial` also checks) and
`SuperadminRemains` hold after all.

## Where code and sources disagree

1. **An unchecked photo is queued** (`unvetted_queued`). `auth.py:93` says "validation off at submit", the code reads the flag at
   verification. Submit with the check off, switch it on, verify: `queued`. Switching the check on only when such entries are through
   avoids it (`UnvettedStaysOutWhenDrained`).
2. **A claimed entry is queued again** (`late_verify`). Two verifications of one code (a double tap) both read the
   waiting entry; the later commit overwrites `photo_processing`. Nothing but such an overlap or the panel does, besides
   the watchdog's rewind of a stuck entry (`ClaimedStaysClaimedWhenSerial`).
3. **The watchdog loses the stage** (`watchdog_stage`). `status` is assigned before the `CASE status` for
   `failed_stage`, so no arm matches and the column is NULL.
4. **A wrong total can stay** (`plate_drift`). `INCRBY` on a key that expired after `EXISTS` makes a key
   without a TTL. `?fresh=true` or a lost key repairs it.
5. **One in flight, count and cap** hold only while requests of one number do not overlap (`entry_serial` shows that case):
   the guards read a snapshot and `video_count` is written as a value. Entries in flight are then bounded by the requests that
   run at once (`FewInFlight`).
6. **The last super-admin can go** (`last_superadmin`). `admins.py:72` blocks "anything that would leave zero active
   super-admins"; the count is taken in each request's own snapshot, and two requests remove the last two.
7. **Nothing decides an unknown head direction.** `photo_validation.py:371` maps it to `camera` so that `looking_at_camera` "stays
   the decider", but `decide` does not read that field.
8. **A stale edit buys rewinds.** `update-job` "increments retry_count" (`jobs.py:301`) by writing the count it read plus one. Overlapping a rewind it lowers
   the column, and "past max retries" (`schema.sql:363`) is reached up to max_retry − 1 rewinds later (`RetryBudget`).
9. **A password change is not immediate.** README:250, `admin_auth.py:9-10` and `admin_user.py:36-37` say it is. Only the worker that served it drops its
   cached account; the others accept the old token for up to `ADMIN_CACHE_TTL` (`RevokedWithinTtl`).
10. **A username created again starts at version 0** (`admin_service.py:194`), and a token names username and version only. Reset, log in, delete, create,
   reset: the deleted account's token is valid for the new one, after an answer that says "existing sessions have been signed out"
   (`admins.py:130`). `ResetSignsOut` is about the first account of a username.
11. **The rate limit's window is not fixed.** README:317-319 and `video.py:57-59` say it starts on the first submit and expires five minutes later;
   `check_rate_limit` renews the expiry with every request, refused ones too. A client that keeps trying stays refused; `RateCap` holds for that reason.
12. **`schema.sql` lacks `repeat`**, which `models/job.py` lists ("in lockstep") and the panel may set; `migrations/005_repeat_entries.sql` adds it.

Findings 1 to 4 and 6 are runs. The others follow from the action named and from what the property beside it has to leave out or to bound.

## Abstractions

- Field validation, formatting, encryption, attribution (`utm`, device, city) and messages that no
  property is about are left out. Rate limits are guards that may always let a request through, so they are left out of
  the entry flow; `RedisLimits` has them.
- A code is right or the request is refused without a write; only requests with the right code are modelled. The hash
  is not. A code ages from fresh (cooldown running) to cool to expired.
- Settings are constants of `EntryFlow`; how far a worker's settings lag behind the row is `SettingsCache`.
- The photo token is passed or refused: `vetted` records that the check was on when the submit was
  admitted, since a token is required exactly then.
- The renderer is external. It locks the row, stores the URLs with the status and unlocks, as README and
  `schema.sql` describe; `photo_processing`, `video_processing`, `stitching` are its stages.
- In `JobPipeline` the panel may set any status of `JOB_STATUSES` (a constant; the proofs are for every choice of it, the run's panel sets `photo_done` and `sent`).
  `done` holds the URLs of the three stages, one for the up to three of a stage, so a deletion takes all the stage has; the film's is protected. The
  renderer writes only a row still in the stage it claimed. `DeleteAsset` is what a deletion does to the row, in one step; its steps, and objects that entries share,
  are `AssetStore`, with one deletable column per entry: the columns do not interact. The URL a `video-url` call brings is not empty.
- `JOB_STATUSES` is that of `models/job.py`, with the `repeat` that migration 005 adds to the column.
- A submit's read of the flag (`video.py:242`) and its snapshot are one step: nothing it reads of the database depends on the flag,
  and the commit uses the flag it read.
- Accounts: password hashes, policy and JWT expiry decide only whether a request goes on. A failed login and a read of the
  audit columns change nothing.
- InnoDB: a bulk UPDATE is a current read and holds row and gap locks until its commit, so it and the
  writes after it are one step; an UPDATE by primary key that matches no row raises, a DELETE does not.
- Settings: the values are tokens; which patches validation accepts does not matter to what happens to an accepted one. The read-back of an
  update and its two assignments fall within one tick (a bound on the time of three statements).
- Photos: fields that `decide` reads, with the known words, an alias and an unknown word each. Redis transactions (`MULTI`) are one step.

## Not modelled

Reports and exports and the lists of the panel (read-only); `update_job_fields`, which writes a participant's name, gender and
language, data no property tells apart; the wrappers of S3, GeoIP, WhatsApp and encryption (they succeed or fail,
which the actions above say); start-up beyond its seeds, and configuration; operator scripts and migrations; and `otp_service.py` and
`snapshot_config_onto_job`, which no module calls. The renderer and the consumer of the photo queue are
other programs: what they do to shared state is modelled as far as this code shows it.

## What is left

- The cap of `EntryFlow` read through `SettingsCache`, so that two workers disagree on it within a TTL; the
  serial claim would then have the settings' lag in its statement.
