# Aether Vault in TLA+

Aether Vault is a version control system for machine-learning checkpoints: a
command-line client (`python/av_cli`), an SDK and training plugins
(`python/av_sdk`, `python/av_plugins`), and a registry (`python/av_server`, FastAPI
over PostgreSQL, Redis and a directory of content-addressed files).  This
directory holds TLA+ models of the parts whose correctness depends on the order
in which several processes act, model-checking runs for TLC, and proofs for TLAPS.

All source paths are relative to the root of the repository.

## 1. Inventory

| Component | State | Operations | Talks to | What is hard | What makes it correct |
|---|---|---|---|---|---|
| Object store and collector (`server.py`, `storage.py`, `gc_mark.py`, `redis_cache.py`) | object rows and files, tree rows, commit rows, Bloom filter | batch check, upload, push of a commit, mark and sweep | client uploads, PostgreSQL, Redis, disk | collection beside uploads and pushes, rows and files apart, crashes, retries | no live object is lost, every push lands |
| Refs (`server.py::update_ref`) | one row per branch | compare-and-swap | push, merge, pull | lost answers, late requests | a ref never loses history |
| Commit, queue, pull, merge (`core.py`, `cmd_sync.py`, `sync.py`, `merge.py`) | commit files, branch files, `.av/pending_push` | commit, push, pull, merge | the registry; other processes of the clone | kills between writes, races of clones, unlocked reads | nothing is stranded, both histories stay complete, everything is delivered |
| Staging index, working tree, stash, watch (`index.py`, `cmd_staging.py`, `cmd_history.py`, `cmd_watch.py`, `core.py`, `repo.py`) | `.av/index`, files, branches, stash | add, rm, unstage, commit, checkout, stash, watch, the SDK's add and commit | commit, trainers that rewrite files | some commands hold `.av/lock`, others read, work and write back | what looks clean is what is recorded; checkout keeps work |
| Ignore rules and the walk (`core.py`) | `.gitignore`, `.avignore` | list the files of the tree | add, status, watch | rules that take back, `**`, ignored directories, any listing order | what is seen is what the rules say, in one order |
| Signing keys (`signing.py`, `cmd_registry.py`, `core.py`) | `.av/keys` | keygen, rotate, sign | commit | a kill between the writes of two files | no finished key is lost |
| Splitting and materialising (`core.py`, `src/core.cpp`) | objects, an index entry | layers, chunks, whole file, and their fallbacks | add, checkout, the writer of the file | the file is read twice; a part fails | an entry restores the file that was hashed |
| Chunk cutter (`src/core.cpp`) | position, rolling hash | one byte | splitting | both ends of the size limits, the last cut | hard bounds; equal tails share chunks |
| Trees and diffs (`core.py`, `semdiff.py`, `server.py`) | flat trees, tree rows | build, resolve, summarise, check out | push, dashboard, checkout | shared subtrees, two formats, two implementations | a tree comes back whole; both summaries agree |
| doctor (`cmd_maintenance.py`) | index, queue, directory as read | repair | all commands of the repository | no lock; it sweeps live temporary files; kills between two durable writes | what a branch was moved to stays queued until delivered |
| Clone, export, restore (`cmd_registry.py`, `cmd_sync.py`, `sync.py`) | archive, resume file, new clone | page, download, upload, resume | a registry that is pushed to | paging beside pushes, failed requests, stale resume files | an archive is closed; a restore lands |
| Promotion (`cmd_policy.py`, `merge.py`) | policies, branches | set, merge, promote | commit graph | the baseline comes from the history that promotions write | no regression lands |
| Backups (`cmd_admin.py`) | dump, archive, manifest | create, verify, restore | a registry that serves and collects | two parts, one after the other | a verified backup restores every commit whole |
| Event feed (`server.py`) | `events` | emit, list, prune | every mutation | ids visible out of order, retention | order; what is missed is explained |
| Webhooks (`server.py`) | `webhooks`, `webhook_deliveries` | first attempt, retry worker, replay | events, subscribers | several workers, restarts, replays | one driver per row, bounded attempts, every row settles |
| Audit chain (`database.py`, `audit_chain_verify.py`) | `audit_log` | append, prune, verify | every mutation | concurrent appends, pruning | one unforked chain per tenant that shows tampering |
| Schema at start (`database.py`, `migrations/`) | tables, version row | migrate, heal, stamp | replicas of several builds | concurrent starts, crashes, a lost version row | a serving replica has its schema |
| Runs (`server.py`, `cmd_run.py`) | status, linked commits | start, link, stop, complete, walk the metrics | pushes | links that land between pages | a walk is complete; no improving run is stopped |
| Budgets (`server.py`, `cmd_budget.py`) | counters | create, consume | agents | concurrent consumers | no spend is lost; the crossing call is told |
| Improver governance (`server.py`, `cmd_improver.py`, `cmd_review.py`, `cmd_canary.py`, `cmd_freeze.py`) | versions, change sets, reviews, critiques, canaries, freeze | propose, approve, apply, promote, roll back | agents | read-then-write across requests | gates held when they were evaluated |
| Evaluations (`server.py`, `cmd_eval.py`) | suites, scores | register, update, freeze, score, reveal | scorers, readers | updates beside freezes | blind scores stay hidden |
| Sandbox (`cmd_sandbox.py`, `sandbox/`) | containers, job rows | run, status, cancel | drivers, registry | reports lost or late | a row is borne out by the job |
| Identity (`identity.py`, `device_flow.py`, `scim.py`, `sso_*.py`) | tokens, sessions, roles, cache | resolve, revoke, suspend, log in | every request | cached resolutions, expiry | what the cache says is recent |
| Rate limiter (`rate_limit.py`, `server.py`) | windows and their counts | check, sweep | every request, Redis | window edges, sweeps, an outage | nobody is refused early or for ever |
| Alarms of failed authentication (`server.py::_note_auth_failure`) | windows per client in memory, or counts in Redis | note a failure, prune, emit | every denied request, the event feed | sweeps and a cap in between, several replicas, an outage | an alarm is of a burst; no burst passes unseen |
| CLI daemon (`daemon*.py`, `av_launcher.cpp`) | socket, state and key files | spawn, serve, idle exit, stop | every command | several spawners, version drift, lost answers | every caller returns; no needless second run |
| Tenancy, tasks and blackboard, SDK and plugins | rows | | | | not modelled, see section 6 |

The web interface, deployment files, benchmarks, scripts and tests have no
protocol of their own and are left out.

## 2. Modules

| Module | Models |
|---|---|
| `CommitGraph` | the commit graph and the walks over it, as pure operators relative to the commit files a client can open |
| `RefSync` (extends `CommitGraph`) | one branch shared by several clones: commit, push queue, pull, merge, compare-and-swap |
| `Promotion` (extends `CommitGraph`) | several branches of one repository: merge, policies, the promotion gate |
| `RegistryStore` | objects, trees, commits, the Bloom filter, uploads and the collector |
| `WorkTree`, `IgnoreRules`, `Staging`, `TreeRows`, `SigningKeys`, `Doctor`, `Transfer`, `Backup` | the command line's own state, one component each |
| `GearCutter`, `CdcCutter` (extends it) | the chunk cutter as operators, and as a machine that reads a file; `Staging` uses the operators |
| `EventFeed`, `AuditChain`, `RateLimit`, `AuthSpike`, `Access`, `SchemaBoot`, `Improver`, `RunTrail`, `Sandbox`, `EvalVault` | components of the registry with the clients that drive them |
| `Ledger`, `Budget` | what a budget account promises, and the account that implements it |
| `WebhookDelivery`, `CommandDaemon` | webhook deliveries, the daemon of the command line, both with liveness |
| `MCRegistryStore`, `MCRefSync`, `MCPromotion` | constants for TLC |
| `MCServer`, `MCClient` | constants for the components that share no state, and their side-by-side composition |
| `RegistryStoreProofs`, `RefSyncProofs` | theorems about the store and the branch |
| `ServiceProofs` | theorems about `WebhookDelivery`, `EventFeed`, `Improver`, `EvalVault`, `Budget` and `RunTrail` |
| `ExecutionProofs` | theorems about `Sandbox` and `CommandDaemon` |
| `WorkspaceProofs` | theorems about `CdcCutter`, `Staging`, `Backup`, `SigningKeys`, `Doctor`, `WorkTree` and `Transfer` |
| `TreeProofs` | theorems about `TreeRows` and `IgnoreRules` |
| `GuardProofs` | theorems about `SchemaBoot`, `AuditChain`, `Access`, `RateLimit` and `AuthSpike` |
| `OrderLemmas` | the least and the greatest of a set of numbers, for all of them |

A cut between two actions is always an `await`, a release of a lock, a request or
a system call at which another process can act.  Names are those of the code.
Where an operator has a companion of a longer name (`Claimable`,
`ClaimableShared`), the companion is a plausible mistake, kept so that each
property can be shown to notice one; no specification uses it.

### Side by side: MCServer and MCClient

The eleven components of `MCServer` and the nine of `MCClient` touch disjoint rows
or files, so an interleaving of two of them shows nothing that one alone does not.
Their composition has a variable `part`, chosen in `Init`, that says which
component moves; the others keep a fixed initial state.  The state spaces add up
and do not multiply, and each component is explored completely.

### RegistryStore

`row`, `file` and `bloom` are the three records of an object: the `DBObject` row
(its `created_at`), the stored file (its mtime) and membership in the filter.
`trees` and `commits` are the committed `DBTree` and `DBCommit` rows.  `push[c]`
is the client's loop around one commit, `up[<<c, o>>]` one request
`POST /api/objects/{hash}`, `ins[c]` the open transaction of `push_commit`, and
`sweep[g]` one request `POST /api/admin/gc`.

A handler is cut into actions at every `await` at which another handler can run.
`upload_object` is `UploadCheck`, `StoreBegin`, `StoreEnd`, `StatFile`,
`InsertRow`, `AddToBloom`.  `push_commit` is `SendCommit` (the lookups of
`build_merkle_tree`) and `LandCommit` (its `COMMIT`).  The code looks trees up one
`await` at a time (`server.py:598-641`), the model all at once: no tree row ever goes
away (`TreeRowsStayClosed`), so a later look can only find one more row, which another push
committed in between.  With the row found, the push lands; without it, it meets the
row at its `INSERT` and fails, and the client's retry finds it.  The collector is
`ReadTrees`, `ReadRoots`, `SelectDead`, `DeleteRows`, one `PurgeFile` per file,
`EndPurge`, `ResetBloom`, `RebuildBloom`, `CommitSweep`.  Transactions follow READ
COMMITTED: rows that an open collection deleted stay visible, and an `INSERT` of
such a key waits for it (`HeldRows`, `HeldTrees`).  `FailPush`, `DropUpload`,
`FailSweep`, the Redis branches and `Restart` are the failures.  A request that
its client gave up on either takes effect before the retry or not at all.  The
store is modelled in shared isolation mode, the default.

### RefSync

`stored` and `ref` are the registry: the commit rows and the row of one branch.
Each clone has `have` (`.av/commits`), `tip` (the branch file) and `queue`
(`.av/pending_push`).  `sess[p]` holds the local variables of process `p`: a
command, `av watch` or an SDK script; several may run in one clone.  `wire` holds
the `update_ref` requests whose client has timed out; `LateSwap` executes one.

| Action | Code |
|---|---|
| `CommitStaged`, `CommitKilled` | `commit_staged` up to the release of the lock; killed after the queue was written |
| `ExpectParent` | `expected_parent` in `_finalize_commit` |
| `FlushFirst`, `StartPush` | the queue is read by `flush_pending_push`, called by `_finalize_commit` and by `av push` |
| `PushEntry`, `SwapEntry`, `RejectToken`, `RemoveDelivered` | the loop of `flush_pending_push` and `remove_pending_push` |
| `PushOwn`, `SwapOwn` | the push of the new commit; every failure path queues it again |
| `LoadQueue`, `SaveQueue`, `DropOwn` | the clean-up after a landed merge, and `remove_pending_push` |
| `PullFetch`, `PullKilled`, `FastForward` | `av pull` |
| `StartMerge`, `MergeCommit` | `av merge <remote tip>` |
| `Kill` | a process killed between any two steps |

Commits are numbered in the order they are made, which stands for their hashes.
Object uploads belong to `RegistryStore`; here an upload that fails is a failed
push.  Conflicts of file contents, dirty working trees and policies end a pull or
a merge early and change nothing that is modelled; such a run of the command is
one that does not take the step.  `JoinFound` says that the walk of a pull along first parents met a commit that is here, without
which a fast-forward is refused whatever the merge base.  `Reach` is the least set closed under the parents
that can be opened, instead of a loop with a visited set; the walk for a merge base is
laid out in levels (`InOrder`, `NextLevel`, `Levels`), as the queue of the code visits them.

### Promotion

`commits`, `tip`, `head` and `policies` are the commit files, the branch files,
HEAD and `.av/policies.json`; a tree is the content of one path, so a three-way merge
takes one decision.  `PolicySet`, `PolicyRemove`, `MergeInto`, `Promote` are the commands with
their gates (`enforce_policy`, `evaluate`, `_latest_metrics_for_ref`); `Land` is the end
of `merge`: nothing, a fast-forward or a commit with two parents and no metrics.

### WorkTree

`disk`, `cas`, `index`, `removed`, `tip`, `head`, `stash` and `lock` are the files of a
repository, `pc` and `mem` the step and the local variables of each process.  A command that
takes `.av/lock` is one or several actions with `lock` held; the SDK, watch, stash
and scoped saves, which read the index, work and write it back without the lock, are cut at
the points where another process can act.  A checkout is `CheckoutStart` (it resolves its target),
`CheckoutCheck` (the guard, under the lock), one `CheckoutFile` for each path, `CheckoutStat` and
`CheckoutHead`; the lock does not stop the program that owns a file, which may write between any two of
them.  `sure` are the paths that the guard passed and nobody has written since.  An index entry is `fresh` while the file has the
stat that the entry records, which is all the code uses sizes and times for; it is `blind`
when a checkout recorded the stat of a file that was written in between (`CheckoutStat`).
A stash reverts file by file; where a file is gone, or its object in HEAD, the command ends there
with the files before it reverted and nothing recorded (`StashFails`).  Records stay at their numbers, and one that was popped is `Nothing`.

### IgnoreRules

The rules are read once (`WalkInit`) and `ListDirectory` is one turn of `os.walk`: the
operating system lists a directory in any order, the code sorts, drops what the rules take out
and goes on with the directories that are left.  `Rules` is the parser of `.gitignore`,
`SegmentsMatch` the matcher with `**`, as a function over the trailing segments of a line: the places
in the path from which they match what is left.  `IsGitignored` is the last line that matches.  Names are
numbers, and the glob of one segment is the set of names it matches.  `Fits` and `TakenOut` are the
reference definition: a line is laid along a path, each segment over the names it covers.

### SigningKeys

`pem` and `pub` are the two files of `.av/keys`, `filed` the directories of its archive.
`keygen` and `keys rotate` are cut between opening, writing and moving each file (`Keygen`,
`WritePem`, `OpenPub`, `WritePub`; `Rotate`, `MovePub`, `GenerateNext`), `Kill` ends a command
there, and `DeleteLeftover` is the user who follows the message of a refused keygen.

### Staging and the cutter

`GearCutter` is `CdcCutter` of `core.cpp` as operators: `Feed` takes a byte, `WantsCut`
decides.  `CdcCutter` runs them over a file of any content (`FeedByte`, `FlushLast`).
`Staging` is `av add` of one file: `kind` and `fused` choose the route; `SplitLayers`,
`HashLayers`, `CopyLayer` and their counterparts for chunks, for the fused route and for the
whole file are its reads and writes, `PublishFails` a full disk with the fallbacks,
`WriteFile` the program that owns the file.  `Restored` is `materialize_file`.

### TreeRows

`treeIndex` is the index over a clean working tree, `log` the local commits and the queue,
`rows` and `roots` the registry.  The hash of a directory covers all that is in it, and is modelled as
what lies below it (`Under`); trees that are equal then share their rows (`RowsOf`), which is what the
early return of `build_merkle_tree` in `Push` amounts to.  `ResolveTrees` is the walk of
`resolve_trees`, level by level (`Frontiers`, as many as a path has names), `CheckedOut` a
checkout with both tree formats, `DiffTrees` and `SummarizeTreeDiff` the two summaries.

### Doctor, Transfer, Backup

`Doctor` cuts `doctor --fix` at its reads (index, directory, queue, temporary files) and its
writes, beside publishing and staging, and beside everything that writes the queue.  A commit is
`BeginCommit`, `StoreCommit` (its file), `ReadToQueue`, `QueueCommit` and `MoveRef`, since each file is
written beside its place and renamed: `temps` and `unrenamed` are those `*.tmp.*` files, and
`SweepTemps` takes all that `ListTemps` saw, live ones of running commands too, whose rename
then fails (`CommitFails`, `PushFails`).  A flush is `Deliver`, `ReadToRemove` and `RemoveDelivered`, a merge
that landed `LandMerge` and `DropParents`, which rewrites the queue without `queue.lock`.  Commands are
killed, objects and commit files lost (`Fault`).  `overwritten` and `superseded` are histories: commits that an
unlocked write of the queue left out, and parents that a merge took out.  `Transfer` has the registry
that is pushed to (`LandCommit`, `AdvanceRef`), the paged listing as clone and export
walk it, the restore with its resume file, and two things that the world does: `Interrupt` at any
step, and `LoseNew`, between two attempts: the registry collects what no commit refers to, or is exchanged
for an empty one.  A request of a restore
that fails, for its client, has taken effect at the registry or has not.  A page is cut from
`Listings`: the rows by falling timestamp, in any order where timestamps are equal, anew for
every request, since the query has no second key (`server.py:1558`).  `Backup` has the
dump, the archive file by file, the manifest, `verify` and `restore`, beside pushes and
collections, any number of them, one at a time, which may fail after unlinking files.  A push does not look at
what a collection has selected (`LandRevision`); `broken` are the commits that landed on an object
which was about to go, or whose file was gone.

### EventFeed, WebhookDelivery, AuditChain

In `EventFeed` an id is drawn at the flush (`EmitEvent`) and seen after
`CommitMutation`, the commit of the caller's session; `PollFetch` and `PollAnswer` are the two queries of `list_events`.
`PruneEvents` deletes any committed rows: `before_days=0` is accepted, and times need not follow ids.  What went
while an older id was still there, or still open, is `overtaken`.  A page is
described by what it holds (the next rows of the project, in order), not computed.
`WebhookDelivery` gives each database session its own `view` of hooks and `draft` of rows, since
SQLAlchemy writes what it loaded and changed: `StartTask`, `FirstAttempt`, `EndTask` are the
task after a mutation, `ClaimBatch`, `RetryRow`, `EndBatch` a worker with
`SKIP LOCKED`, `ReplayRead` and `ReplayWrite` the unlocked read and the waiting write of a replay.
`AuditChain` has `_chain_audit_log` under the advisory lock (`AppendAudit` to
`CommitAudit`), pruning, and both verifications.

### RateLimit, AuthSpike

A request is one step, as a check does not await in memory and is one script in Redis.
`CheckInMemory` sweeps, then opens or extends the window of the counter; `CheckInRedis`
counts in windows of the clock that expire, and tells the rest in whole seconds, which may be one off
(`Ttl`); `FailOpen` is a Redis that does not answer, before it counted or after.
Exempt paths and classes without a limit pass uncounted and are no steps.

In `AuthSpike` a denied request is one step too: `NoteInMemory` prunes when it is due, drops what is
old from the window of the key and adds the failure; `NoteInRedis` increments a count that
expires and deletes it after an alarm, and `NoteFailsOpen` is a Redis that does not answer or whose
answer is lost.  A window holds the numbers of failures, whose times the history has.  The
event is written later (`EmitAnomaly`), or never if its session fails.

### Access

A resolution is `Look` (the cache), `ReadCredential`, `ReadRoles`, `CachePut`, in between
which revocation, suspension, role and group changes, SCIM and a login can commit.
Time is in ticks and every expiry is the ticks left; `said` and `granted`
record how long ago the tables gave each answer.

### SchemaBoot

Each revision of `migrations/versions` is the set of its effects (tables, columns,
indexes, seeds, ...).  `StartReplica`, `TakeLock`, `ApplyRevision`, `Adopt`, `FailStart`, `Serve` are
`ensure_schema` under its advisory lock: the chain for a new database, healing and
stamping for one without a version row, neither for one that is ahead.

### Improver, RunTrail, EvalVault

Each command of an agent is a sequence of requests (`Apply`, `ApplyMint`,
`ApplyTransition`, `ApplyPoint`; `Promote`, `PromoteReviews`, `PromoteCritiques`,
`PromoteLand`), and other agents act between them; `StatusCommit` is the unlocked
read-check-write of a change set's status.  The gate of `promote` takes a listing of critiques that is
not answered for an empty one, and `apply` writes the pointer that it read before minting.
`scenario` bounds what one behaviour does; in an `anonymous` one the registry knows no users, as it does
by default, and `MayReview` has nobody to compare (`server.py:3742`).
`RunTrail` has the row of a run, pushes that flush and then commit their link to it
(`PushFlush`, `PushCommit`) and the walk of auto-stop (`WalkStart`, `WalkPage`,
`WalkDecide`); a page is described by what it holds: the first of what the cursor has left, in order.  In `EvalVault` each handler reads its suite and commits later.

### Ledger and Budget

`Ledger` is the promise: one step records a spend, of either sign, and tells the caller what is exceeded.
`Budget` implements it with a request, a `SELECT ... FOR UPDATE`, and a commit that may roll
back; `LedgerKept` is the refinement, checked by TLC and proved.

### Sandbox

`process` is a job as its driver sees it, `jobRows` what the registry was told.
`Submit`, `AskStatus`, `Cancel` are the commands, each followed by a call of its own to the
registry (`ReportJob`, `PostStatus`) that may be lost.  `ReplayActions` (`av replay-actions --execute`)
runs the commands of an action log one after the other and reports none.

### CommandDaemon

A daemon goes through `Bind`, `WriteKey`, `WriteState`, `ServeStep`, `Trim`, `IdleStop`,
`WatchdogExit`, `Crash`; a caller through discovery, connection, request, answer or
fallback (`CallerStep`).  The three names that all daemons of a repository share
(`sockPath`, `stateFile`, `keyFile`) belong to the daemon that wrote them last.  A daemon takes its
snapshot of the code at the first request it lets in (`codeOf`).  `OutputFails` is an answer that arrived and
cannot be written out: the Python launcher then runs the command itself (`launcher.py:82-102`), while the native one
ignores it (`av_launcher.cpp:658-670`).  `lost` counts the results that did not reach the user, either way.

## 3. Runs

| Run | Bounds | Shows |
|---|---|---|
| `store_two_pushers` | two commits over nested trees with a shared subtree, two objects, one collection, two clock ticks | `TreeRowsClosed`, `GraceGuarantee`, `SettledStaysSettled` |
| `store_faults` | two commits of one tree and object, one collection, two faults | `FreshRowNeverCollected`; under fairness `EveryPushLands` |
| `refs_two_clones` | two clones, four edits and two merges, two faults in commits, pushes, pulls | type correctness, `NeverStranded`, `RemoteHistoryComplete`, `RefAdvances`, `LocalTipAdvances` |
| `refs_retries` | two clones, three edits and two merges, two faults in commits and pushes | `BranchesDelivered` |
| `webhooks` | two events, one hook, two workers, a batch of one, three attempts, disabling after two failures, one replay, one restart | `RowHasOneDriver`, `AttemptBudget`; under fairness `EveryDeliverySettles` |
| `daemon` | a native and a Python caller, two daemons, one internal error, one change of the code | `RerunOnlyAfterLoss`; under fairness `EveryCommandReturns` |
| `server` | see below | twelve properties of eleven components |
| `client` | see below | twelve properties of nine components |
| `store_gc_race` | one push, one collection | *violated*: `GraceClosesRace` |
| `client_legacy_name` | as `client`, with a root-level file named `code` | *violated*: `EveryCommitChecksOut` |
| `client_unstage` | one process, five commands, two commits | *violated*: `CommitsRestorable` |
| `promotion_regression` | five commits, one policy whose baseline is the branch itself | *violated*: `NoRegressionLands` |

The parts of `server`:

| Part | Bounds | Shows |
|---|---|---|
| `feed` | two writers, one reader, two projects, three events, pages of two | `CursorContract`: events come in order, and what a reader never saw was uncommitted when its cursor passed, or pruned with a gap it could see, or pruned while an older event was still there or open |
| `audit` | two requests of two tenants, one background session, five rows, one tampering | `ChainTells`: an untampered chain verifies, and tampering shows |
| `limit` | two replicas, one caller, one request per window of three, a sweep after each instant, four requests in six instants, memory and Redis | `LimitKept` |
| `spike` | two replicas, one host and one identity, a threshold and a window of two, pruning every third call, a cap of one key, three failures in four instants, memory and Redis | `AlarmsAreBursts` |
| `access` | one user, one API token, one session, one resolver, two administrative changes, a TTL and a latency of one tick | `CacheIsRecent` |
| `schema` | one replica of revision 15, two of 17, one lost version row, two crashes | `ServesItsSchema` |
| `improver` | two agents; four scenarios: two change sets without rules; two versions that race under review; one version under every rule with an outage; a review where the registry knows no users | `OnlyApprovedLands` |
| `budget` | two consumers, two dimensions of which one is limited, spends of -1, 1 and 2, four calls | `LedgerKept` |
| `trail` | three commits, pages of two, a patience of two, two clock ticks | `WalkIsComplete`, `ImprovingIsNotStopped` |
| `sandbox` | a job for each of the four drivers, two processes, three commands | `RowIsBorneOut` |
| `eval` | one suite, two definitions, two clients, two scores | `BlindScoresStayHidden` |

The parts of `client`:

| Part | Bounds | Shows |
|---|---|---|
| `tree` | a whole and a chunked path, two contents, two branches, a terminal with two commands beside a trainer with one, two edits, two commits | `CleanIsTrue`; `CheckoutKeepsWork`: what a checkout destroys unstored was written after its guard had looked |
| `walk` | nine files, three levels deep, every `.gitignore` of up to two lines out of eight, two `.avignore`, defaults on and off, from the root and from inside | `WalkIsTheRules` |
| `keys` | three keys, two killed commands | `KeysKept` |
| `doctor` | one whole artifact, two commits of which the second may be a merge, a flush, a merge and doctor at the queue, one fault or kill | `MovedStaysQueued`: a commit that a branch was moved to stays queued until delivered |
| `transfer` | three commits whose clocks are out of order, two blobs, pages of two, one failed request, one lost registry | `ArchiveIsClosed`; `RestoreHasLanded`: a restore that reports success, after any interruptions and resumptions, has landed the whole archive |
| `cutter` | every content of up to twelve bytes over two values, chunks of two to eight | `ChunkBounds`, `TailCutsAlone` |
| `staging` | four contents, four layouts of layers that touch, leave a gap or overlap, two writes by the owner, one full disk, two adds | `EntryRestores` |
| `rows` | the paths `a`, `d/a`, `e/d/a` and `a/b` (one folder again a level deeper, one a directory in a file's place), three entries that share layers and chunks, three commits | `RowsKeepTheTrees`: trees come back whole, and both summaries agree |
| `backup` | two revisions that share one of two blobs, two backups, any number of collections, one at a time | `VerifiedRestoreIsWhole`: all commits of the dump but those that the registry itself lost objects of as they landed |

Each module states its type invariant; those of the store and of the modules in `server`, `client`,
`webhooks` and `daemon` hold on the same instances, as do the inductive invariants of
section 5 that a component's module states (`DeliveryInv`, `TipInv`, `WorkTreeInv`, `ArchiveInv`,
`AlignedInv` without unstage and pop, `RestoreInv`, `SpikeInv`, `LockedRowIsCurrent`, `NoReplay`), but they are not repeated
among the runs' properties: the proofs cover them.

### Bounds

Two objects and two nested trees are the smallest store in which a subtree is
shared and a tree can be visited through its parent only.  `Grace = 1` and
`MaxTime = 2` make an object fresh, at the cutoff, and past it.  A third commit or
tree adds instances of the same situations.  A second, overlapping collection is
covered by the theorems (section 5) that hold for any number of them.  On the branch, four edits and two merges let both
clones diverge, merge, diverge again and merge on top of a merge.  Two faults let
an answer be lost and its retry fail too.

In the composed runs the bounds are the smallest at which each case of the table occurs:
two of whatever can race, one more page, commit or clock tick than a boundary needs.  Two
webhook rows with a batch of one make a worker leave a due row to the other; three attempts
put retries between the first and the last; disabling after two makes a hook go inactive
while a row of it is still due.  Two daemons let a late one take over the names of an early
one; a third adds a repetition.  The cutter's twelve bytes hold a longest chunk, a
shortest one and a tail shorter than the shortest.

Deadlock is checked for the store.  It is switched off elsewhere: once everything is
delivered, or the bounded commands, edits and faults are used up, nothing is left to do.

### What the passing runs leave to the others

The passing runs on the branch start from a founded branch (`Start = "founded"`),
run one process in each clone, and spare merges from faults.  Each of these three
conditions is there because the code needs it: section 4 says what TLC finds without it.
`refs_retries` also leaves out interrupted pulls, for this reason: a pull that is
killed has stored the newest commits and not yet their parents
(`cmd_sync.py:202-218` stores on the way back from the tip).  The next pull stops at
the first file it finds, does not see that the local tip is an ancestor, and
reports a divergence; the merge it asks for cannot be delivered, since its first
parent is not the registry's tip.  With `Faulty = {"pull"}` TLC shows
`BranchesDelivered` violated.

### Fairness

`FairSpec` of the store: the event loop runs every started request to its end, a
running collection goes on, and a client that is up retries its queue (`av push`
and every commit do).  Nothing is assumed of faults, of the clock or of the
operator who starts collections.  `FairSpec` of the branch: a command that has
begun goes on (`WF` of `Continue`); a user with a non-empty queue pushes again and
again, and one whose tip is not the registry's pulls (`SF`, since the other clone
may come between).  Commits and late requests are not fair.  A diverged pull is
followed by the merge it names.

`HookSpec`: the event loop runs every task and the worker loop ticks for ever (`WF`
of `TaskStep` and `WorkerStep`), clocks advance (`BecomeDue`), and a replay that waits for a row's lock gets
it (`ReplayWrite`).  Nothing is assumed of mutations, administrators or restarts.  `DmSpec`: a caller's process
and a daemon's process go on; idle exits, crashes, stops and edits of the code are not fair.
The other specifications state safety only and have no fairness.

## 4. What disagrees with the documentation

Four claims are refuted by a run; `PROJECT.json` has the quotations and the lines.

- *The grace period closes the race between upload and commit* (`server.py:1278`).
  Only for objects that are young; an object that was already there and old is
  collected under a push that reuses it (`store_gc_race`).
- *One atomic commit that checks out identically on any machine* (`README.md:29`).
  Not one that tracks a root-level file named `code` or `artifacts`: its tree is read in
  the legacy format (`client_legacy_name`).
- *`unstage` reverts an entry to its last-committed state* (`cmd_staging.py:301`).  It drops
  the chunks of a chunked artifact; the next commit cannot be restored (`client_unstage`).  `stash pop`
  is the only other way: a file that was modified but not staged gets the hash of HEAD with the parts of the
  record.  Without the two, no commit loses a file, and without chunked files none does at all
  (`CommitsStayRestorable`, section 5).
- *A policy keeps a regression from landing unattended* (`docs/for-agents.md:103`).  The commit
  that lands a candidate has no metrics, and the baseline walk passes the candidate by
  (`promotion_regression`).

The modules state further claims that TLC refutes on the instances of section 3, or
on the variant named with the claim.  They are not among the runs.

Store and branch:

- `RowsHaveFiles` (`models.py:22`, a row represents a stored blob): not after a collection
  that failed between unlinking and `COMMIT` (`server.py:1466`), for which `FailSweep` needs no
  other fault.
- `EnvSnapshotKept` (`development/architecture.md:574`): the snapshot is named by a column of the
  commit, not by a tree, and is collected past its grace period.  The same holds of objects that
  evaluation suites, plans, lessons, tool manifests, policy packs, action logs and improvers name.
- `NeverStranded` from an empty branch (`development/architecture.md:162`, every ref push carries
  compare-and-swap): the push of a commit without parents does not, and its late or
  repeated request rewinds the ref.
- `RemoteHistoryComplete` when a fault strikes before a merge (`core.py:1689`, a commit leaves the
  queue only once delivered): both parents of a landed merge are dropped from the
  queue, stored or not.
- `BranchesDelivered` from an empty registry ref (`README.md:569`, it syncs when the server comes
  back): the first commit of a branch made from another names a parent as the expected
  hash of a ref that does not exist, 409 for ever (`server.py:1189`).
- `LocalTipAdvances` with two processes in a clone (`core.py:1923`): pull and merge write the
  branch without the lock (`cmd_sync.py:277`, `:399`).
- Two overlapping collections delete a row that was collected and uploaded again in
  between; after a rebuild the Bloom filter lacks objects inside their grace period, so its
  "DEFINITELY not stored" (`redis_cache.py:26`) is a hint; a 409 on an upload counts as a
  failure (`client.py:105`); the queue rewrite after a merge runs without `queue.lock`
  (`core.py:1830`); a merge left in the queue is retried with its first parent as the expected
  hash only.

Client:

- `CheckoutNeverDestroys` (`README.md:625`, checkout "refuses to run if you have uncommitted changes it would
  overwrite"): it looks first (`core.py:2208`), then asks the registry, verifies, downloads and writes; what a
  program, which takes no lock, writes into a file in between is overwritten and stored nowhere.
- `StashHoldsWork` (stash "brings everything back"): files rewritten while a stash is taken are reverted
  to HEAD without being in the record.  Re-adding a touched staged file clears `staged`; the SDK,
  watch, stash and scoped saves write the index without the lock.
- `ChecksOutIdentically` (`README.md:29`): overlapping or gapped layers rebuild other bytes.
  `FallbackRestores`: when storing a layer fails, the fallback keeps the list of layers
  (`core.py:1464`).
- The cutter's hard cap needs `MAX_CHUNK >= 2 * MIN_CHUNK - 1`, which the defaults satisfy.
- `ResumeIsSafe` (`cmd_registry.py:225`, "safe either way"): a resume file of another registry or
  an earlier manifest makes a restore skip what is missing.  `CloneIsWhole`: a failed download leaves a
  clone that reports success.  `ClonedCopyVerifies` (`server.py:915`): fields of the signed payload
  do not survive the listing.
- `BehindTakesTheirs` (`tests/test_merge.py:224`): the walk for the merge base may meet an
  older common ancestor before the tip of the branch.  `av merge` into a branch with
  `require_signature` is always denied, as it asks whether the word HEAD is signed.
- `DaemonNeverTheReason` (`daemon.py:16`): a request that outlives the client's timeout is run by
  both.  The spawn lock is released right after the process is started; an orphan that trims
  or exits removes the names of a newer daemon.
- A key that signed commits can be lost after two killed commands (`signing.py:157`): a key whose
  generation was killed before its public half is archived under `unknown` by the next rotation, and
  the next such key replaces it there.  `KeysKept` says what holds with any number of kills.
- Replacing a file `a` by `a/b` makes the push of the commit fail with a `KeyError`; `av branch`
  with the name of an existing branch moves it.

Registry:

- `PrunedMissesAreTold` (`server.py:2113`, `gap` lets a consumer tell "I missed events" from "no new ones"):
  `before_days=0` (`server.py:2163`) prunes rows above an event that is still open; that one commits and is the oldest, so
  no gap is told.
- `NeverDecrements` (`server.py:3511`, usage counters are never decremented): amounts of either sign are added
  (`server.py:3519`), and a consume of -1 opens an exhausted budget again.
- `ProposersDoNotReview` (`server.py:3729`, a self-review is rejected): only where the reviewer is known
  (`server.py:3742`); on a registry without identities, the default, a review of one's own version is stored, and
  the gate of `improver promote` counts it.
- `NoPhantomDelivery` (`server.py:2035`): delivery rows are written by a session of their own and
  survive a mutation that rolled back.
- `FrozenStaysPut` (`server.py:3173`): an update that read the suite before the freeze commits after it.
- `DefaultTenantExists` (`VERSIONING.md:571`): healing and stamping skip what the chain seeds.
  Healing also never makes the two indexes of revision 0014 that no model declares.
- A caller that waits as long as a 429 told it may be refused once more (`rate_limit.py:193`): the TTL is
  rounded.
- An event whose transaction is open when a cursor passes its id is never delivered.  With
  tenancy enforced, background sessions break the default tenant's audit chain for its own
  sessions; verification from the start fails after any pruning; healed and migrated
  chains run across tenants.
- Two status changes of one change set, two packs with one `prev_id`, two updates of one
  run's summary can overwrite each other; the freeze binds the client, not the server; a finish
  may overwrite a stop.
- `ImprovingIsNotStopped` without its first condition (`cmd_run.py:419`, patience counts "consecutive
  non-improving points"): with `--patience 1` and a single value there is nothing before the tail, the value
  is compared with itself (`cmd_run.py:474`), and a run whose first checkpoint was just pushed is a plateau.
- `ArchiveIsClosed` when two commits carry the same timestamp (`cmd_registry.py:151`, "an export must be
  complete"): the listing is ordered by the timestamp alone (`server.py:1558`), so two requests may
  order the two differently, and one of them falls between their pages.  In the run the timestamps differ.
- Negative resolutions are cached too, `invalidate_cached_token` has no caller, and SCIM
  deactivation leaves API tokens valid.

## 5. Proofs

The theorems hold for every value of the constants, bounds included, and for behaviours without
fairness.  Each rests on the assumptions its module names and no other: that a bound is a
natural number, that page sizes, limits and lifetimes are positive, that a function has the domain and
range its comment gives, that the values that mark an absence are not among the others.  These say
more about the code:

- `CutterAssumption`: `MIN_CHUNK <= AVG_CHUNK <= MAX_CHUNK` and `2 * MIN_CHUNK - 1 <= MAX_CHUNK` (section 4);
- `StagingAssumption`: offsets and sizes of layers are not negative, which the parser of the header checks;
- `RunTrailAssumption`: no two commits share a rank, which stands for the unique hash that breaks ties
  between link rows;
- `HookAssumption`: more than one attempt;
- `SessionAssumption`: a session is a tenant's request or runs in the background, never both;
- `AccessAssumption`: API tokens and sessions are different secrets;
- `TreeAssumption`: no hash is the empty word that stands for a path that is not there, and
  `MaxTreeDepth` bounds the names of a path;
- `IgnoreAssumption`: the working tree has finitely many files;
- `SpikeAssumption`: a failure counts against a host or an identity, whose keys differ in their prefix.

Seven theorems have a hypothesis of their own, stated in them; section 4 says what happens without it:

- `OneSweeper`: collections do not overlap (`GraceKept`, `FreshRowsKept`);
- `Calm`: the branch is founded, faults spare merges, and a clone has one process (`QueueHoldsTheRest`,
  `RemoteCanBeFetched`);
- `Alone`: a clone has one process (`LocalBranchAdvances`);
- `DistinctStamps`: no two commits share a timestamp (`ExportsAreComplete`);
- `NeverBack`, or no chunked files: nothing is unstaged and no stash is popped (`CommitsStayRestorable`).

Some properties name exceptions of their own, each of which the code needs; histories in the models say exactly which
commits, files or events they are:

- `MovedStaysQueued`: commits that were queued while a command without `queue.lock` held a copy of the queue
  (`overwritten`), and parents of a merge that landed (`superseded`);
- `VerifiedRestoreIsWhole`: commits that landed on an object a running collection had selected, or without its file (`broken`);
- `CheckoutKeepsWork`: files written after the guard, or that the index was blind for;
- `CursorContract`: events deleted while an older one was there or open (`overtaken`), and those uncommitted as a cursor passed;
- `OnlyApprovedLands`: where no users are known, the reviewer may be the proposer;
- `LimitKept`: with Redis, a caller waits one second longer than told, and requests that pass because Redis failed
  are not among those limited;
- `RerunOnlyAfterLoss`: one more run for each result that did not reach the user.

| Module | Theorem | States |
|---|---|---|
| `RegistryStoreProofs` | `TypeCorrect` | `[]TypeOK` |
| | `TreeRowsStayClosed` | `[]TreeRowsClosed`, with any number of overlapping collections |
| | `SettledForGood` | `SettledStaysSettled`, with any number of overlapping collections |
| | `GraceKept`, `FreshRowsKept` | `[]GraceGuarantee`, `FreshRowNeverCollected` under `OneSweeper` |
| `RefSyncProofs` | `TypeCorrect` | `[]TypeOK`, including that a queue only names commits whose files are there |
| | `RefNeverRewinds` | `RefAdvances`, whatever the faults strike |
| | `QueueHoldsTheRest`, `RemoteCanBeFetched` | `[]NeverStranded`, `[]RemoteHistoryComplete` under `Calm` |
| | `LocalBranchAdvances` | `LocalTipAdvances` under `Alone`, from any start and with every fault |
| `ServiceProofs` | `OneDriver`, `AttemptsBounded` | `[]RowHasOneDriver`, `[]AttemptBudget` |
| | `FeedKeepsItsContract` | `[]CursorContract` |
| | `ApprovedOnly` | `[]OnlyApprovedLands` |
| | `BlindScoresHidden` | `[]BlindScoresStayHidden`, and the types |
| | `BudgetTypeCorrect`, `BudgetImplementsLedger` | `[]BudgetTypeOK`; `LedgerKept`: every behaviour of `Budget` is one of `Ledger` |
| | `MetricsWalkIsComplete`, `ImprovingRunsGoOn` | `[]WalkIsComplete`, `[]ImprovingIsNotStopped` |
| `ExecutionProofs` | `RowsAreBorneOut` | `[]RowIsBorneOut` |
| | `NoRerunWithoutLoss` | `[]RerunOnlyAfterLoss` |
| `WorkspaceProofs` | `ChunksWithinBounds` | `[]ChunkBounds` |
| | `TailsCutAlone` | `[]TailCutsAlone` |
| | `EntriesRestore` | `[]EntryRestores` |
| | `KeysAreKept` | `[]KeysKept` |
| | `VerifiedBackupsRestore` | `[]VerifiedRestoreIsWhole`, and the types |
| | `QueueKeptByDoctor` | `[]MovedStaysQueued`, and the types |
| | `CleanStaysTrue`, `CheckoutSparesWork` | `[]CleanIsTrue`, `CheckoutKeepsWork` |
| | `CommitsStayRestorable` | `[]CommitsRestorable` if `Split = {}` or under `NeverBack` |
| | `ExportsAreComplete` | `[]ArchiveIsClosed` under `DistinctStamps` |
| | `RestoresLand`, `TransferTypes` | `[]RestoreHasLanded`, also with equal timestamps, and the types |
| `TreeProofs` | `TreesAreKept`, `TreeTypes` | `[]RowsKeepTheTrees`, and the types |
| | `WalkFollowsTheRules` | `[]WalkIsTheRules` |
| `GuardProofs` | `ServingReplicasFindTheirSchema` | `[](ServesItsSchema /\ NoReplay)` |
| | `AuditChainTells` | `[]ChainTells`, and the types |
| | `CacheStaysRecent` | `[]CacheIsRecent` |
| | `LimitsKept` | `[]LimitKept` |
| | `AlarmsTellBursts` | `[]AlarmsAreBursts` |

### RegistryStore

`TreeRowsClosed` is not inductive.  A collection deletes the tree rows it did not
visit, and what it visits depends on two reads, of the trees and then of the
commits, between which pushes land.  `TreeInv` says why nothing is lost: every
tree row came with a commit that is still there (`NoOrphanTrees`), and each commit
whose trees were in the first read is found by the second, so the visit covers
everything that was read (`SnapshotCovered`).  A row that appeared after the read
is not a candidate.  Therefore no collection ever deletes a tree row: the code
that does so is for rows of stores older than the model's initial state.
`InsertsComplete` carries the closure over the gap between the lookups of
`build_merkle_tree` and the `COMMIT` of `push_commit`.

`StoreInv` adds that a collection deletes nothing it marked (`DeadNotAlive`), which
with `TreeInv` gives `SettledForGood`.  `GraceInv` adds the clock: the cutoff of a
running collection is at least a grace period ago, what it is about to delete is
older than that (`DeadRowsOld`), and each object of a commit that landed inside the
grace period is spared by every collection, because it is marked, will be marked,
or is too young in row and in file (`GracedSpared`).  `DeadRowsOld` fails when two
collections overlap: the second deletes by hash a row that the first collected and a
client has uploaded again since.  Hence the assumption.

### RefSync

`RefAdvances` depends on what the client sends: a compare-and-swap moves the ref
to a child of what it named only if the expected hash is a parent of the new
commit.  `SyncInv` says so of every request, wherever it is: the expected hash is
a parent of the commit, or the commit has no parents (`RootOrParent`).  `Requests`
states it for the requests whose client has timed out, `Sound` for the commit that
a process is finalising, and for the entries of a flush it follows from
`WellFormed`.  The theorem covers any number of processes in a clone and every
fault, merges included.

What is delivered follows another invariant, `DeliveryInv`.  Parents are older than their commit
(`Descending`); what a clone's branch reaches and its queue does not hold is reached from the registry's
ref (`BranchDelivers`); and `Delivers` says of a process at each step which histories it has already
brought there: those it was delivered, those of the two sides of a merge, that of the parent an
entry expects.  A swap that succeeds keeps it because it moves the ref to a child of what it was.
`Calm` is where the code needs it: a fault on a merge, a commit without parents that is pushed without a
comparison, or a second process that rewrites the queue break `Delivers` at `load`, `swap` and
`save`.  `LocalTipAdvances` needs `TipInv` only: what a pull or a merge has read as the tip is the tip.

What `Reach` computes is an induction over the graph, which the library's induction theorems cannot
give here.  It is replaced by the least counterexample: `LeastNat` of `OrderLemmas` gives the oldest
commit that breaks a claim, and its parents, which are older, do not.  The recursive functions of
`GearCutter`, `Staging`, `IgnoreRules` and `TreeRows` and `FlattenSeq` are treated in the same way: the shortest input for which a
function of the required kind does not exist, or the first step at which it breaks a claim.

### Budget

The step that matters is the commit: it writes the counters it read earlier plus its own
spend.  It is a step of `Ledger` only if the row has not changed since, which is
`LockedRowIsCurrent`: a transaction that holds the row lock has the row's current counters, and
no two hold it.  Every other step leaves counters and verdicts as they are, a stutter.

### CdcCutter

`ChunkBounds` needs a bound on the chunk that is still open, whatever the hash does.
`InReach` has it: up to the last position where a cut may fall, the open chunk is below the
cap, and from there on it and the tail together are within it, so the tail can
always be closed.  That a step keeps it is where `2 * MIN_CHUNK - 1 <= MAX_CHUNK` (of
`CutterAssumption`) is needed: at the last such position either the open chunk is long
enough to be cut, or what remains fits into it.

`TailCutsAlone` compares the finished cutter with another one, run on the rest of the file from a cut on.
`TailInv` follows both: from every start of a chunk, the open one included, a cutter run on the rest up to
the same byte has closed the same chunks, moved by that start, and stands at the same place with the same
hash (`CutsAlike`).  A step keeps this because whether a byte ends a chunk depends on the open chunk and
on what is left, not on the place in the file (`FeedLater`), and because a cut leaves nothing of what
came before in the hash.

### Staging

`StagingInv` says what each route has established so far.  A route that reads once (`Walking`, `CuttingOn`)
has stored parts that put together are what it has read, and this is a prefix of the file unless the owner
has written since, in which case the entry will not pass for current.  A route that reads twice
(`Copying`, `Copied`) has hashed the parts from the layers as they still are, and the objects copied are
those bytes: this is why `raced` has to be excluded, and only there.  Parts tile the file when the layers
follow each other (`FlattenTiles`), which the chunks always do (`ChunksTile`) and the layers of a
header need not.  The fallbacks start over with nothing read; a split that stored some layers only is why
the property asks for all of them.

### SigningKeys

`KeysKept` is not inductive: that a rotation does not replace an archived key depends on where it
files the private half, hence on what the two files hold at each step of a command (`FilesAtStep`,
`HalvesGrow`).  `FinishedInPlace` says where: a key whose generation ended has its public
half beside it, so it is filed under its own fingerprint, which no other key has.  For keys of killed
generations `WrittenInPlace` admits the slot `Unknown` as well, and `KillsPaid` counts: a private
half without its public one costs a kill, a used slot `Unknown` another, so with one kill
nothing in that slot is replaced.

### WebhookDelivery

`RowHasOneDriver` rests on who can see a row.  A first attempt owns its rows before they are
committed, once per event (`TaskRunsOnce`), so no worker can lock them; workers share rows
through the row lock only, which a session keeps until its commit.  For `AttemptBudget` the
invariant compares the counter of a row with the requests that were sent: the counter is never
more than one ahead of them, and behind them only by what restarts rolled back
(`AttemptsCounted`); a session posts only rows that are not settled (`BatchUnsettled`).

### Sandbox

A command learns of a job, and writes the row later, when other commands have acted.
`RowIsBorneOut` therefore needs that what is about to be told stays true (`ReportsBorneOut`): an exit
with 0 happened, and a docker container that stopped keeps its name, so no later submission
runs under it.  A command that waits is one of a local process, which stays until it exited
(`WaitsForProcess`).

### Improver

A gate of `promote` reads reviews, then critiques, then writes, each in a request of its own.
`GateSound` says of every command what its requests so far have established, and it survives the
others' requests because approvals and reviews are only added, a version's author never changes,
a review by its author passes only where users are not known, and a critique settles but does not reopen; new critiques come behind those that were read.
`ReviewedByOthers` and `ChangesApproved` carry the conclusion over to what is in use.

### EvalVault, RunTrail

`BlindScoresStayHidden` needs that a score row tells whether it was revealed (`RowsTell`), and that a
suite which an update has read is still one (`UpdatesFound`).  `WalkIsComplete` needs `WalkSound`:
what was linked when the walk began is in the pages so far or behind the last commit they
hold, in the order of stamps and ranks.  A push that flushed early and commits late lands
before the cursor, but was not linked when the walk began.

### EventFeed

`MissesExplained`, the part of the contract that says why an event was never handed out, survives
retention and late commits because of three facts: what was pruned and is not `overtaken` lies below all that
remains or may still commit (`PrunedBelow`; a row is one or the other, `Apart`), what is open below a cursor was skipped when the cursor passed it
(`OpenSkipped`), and the first query of a poll misses no row but those open at that time or behind
its page (`PollsSound`).

### CommandDaemon

`RunsPaid` keeps the account of a caller: at each place it has run its command at most as often as it lost
a result, on the way or in writing it out, one more once a daemon may have run it, and a command still in some daemon's
queue is paid in advance.  It needs that no caller is connected twice (`ConnectedOnce`), that a daemon at
work has its caller at the head of the queue, and that the spawn lock leaves an unborn daemon to
whoever holds it (`SpawnerAlone`).

### Backup, doctor

`VerifiedRestoreIsWhole` holds because the archive is made after the dump, and the registry keeps what
a commit needs that was whole as it landed: its objects have files that no running collection has selected,
and later ones spare them (`RegistryWhole`).  The dump may carry commits that were not (`broken`), which the property
excepts.  `CreateOnItsWay`, `ManifestWhole` and
`RestoreOnItsWay` carry this from the dump to the archive, the manifest and the restore. 

For the queue, `QueueSafe` says of a commit that is due (queued, not delivered, its file there and not excepted) that
it is in the queue and in every copy of it that a holder of `queue.lock` is going to write back, and that what a
removal takes was delivered or has no file; that there is one holder at most makes the copies current.  A commit
becomes due before its branch moves (`Committed`), so neither a kill nor a swept temporary file between
the writes leaves a moved branch unqueued.

### WorkTree

`WorkTreeInv` says of the index and of every copy of it that a process holds (`Trusty`): what an entry
names is stored, and an entry that is `fresh` and not `blind` names the bytes of the file.
Staging, stash records and the trees of commits name stored objects only (`Recorded`), so a
checkout, a pop or a revert writes what is there.  Who writes a file makes its entry stale in the index
and in all copies at once (`Stale`, `StaleMem`), since its stat differs from the one recorded:
this is why copies written back without the lock cannot make a changed file look clean, although
they can undo what others staged.

For a checkout, `Remembers` follows each path that the guard passed and nobody wrote since (`sure`): until the
checkout gets to it, what is on the disk is stored, or the file is not there (`Spared`).  A write takes the path out of
`sure`, and what is stored stays stored.

That what is stored is also what the commit names, is not in `WorkTreeInv`, as `client_unstage` shows.
`AlignedInv` has the missing half: an entry of a chunked path has the parts of the content it names, and other
paths have none.  Every command but unstage and pop keeps it, in the index, in the copies that
are written back, and in the trees.

### Transfer

An export pages by offset through a listing that grows in front of it, so a row that is not listed yet
could slip past the offset.  `ListingComplete` counts: such a row has more rows up to it than the
offset, and the count only grows.  Equal timestamps break the step from one page to the next,
hence `DistinctStamps`.

A restore skips what its resume file says was done, so `RestoreHasLanded` needs that this is true of
the registry the file was written for (`ResumeSound`), a file that belongs to another one being the
`stale` of section 4, and that what the command has gone past is there (`RestoreSound`).  The one
step a restore may leave out without having done it is the branch: a manifest without one restores none.
`BranchFollows` says that the registry then has none either.  A failed request may have taken effect
after all, which only adds to the registry.

### TreeRows

`TreeInv` says that the rows are exactly those of the trees pushed so far, and that a commit is told as a
mass rewrite if and only if its summary said so when it was pushed.  Later pushes add rows, so the proof
must show that they change no answer: a row names the directory it belongs to by all that lies below it,
hence the rows of one directory are the same whichever commit brought them, and what lies below a
directory of a directory lies below the first at the joined path (`UnderUnder`).  Level `n` of the walk is
then, for each root, its directories at depth `n`; every file is found at the level of its
directory, once, and below the longest path there is nothing.  Both summaries run over the same
resolved trees; the hash that stands for a missing path is nobody's, so their two ways to select the
changed paths select the same.

### IgnoreRules

`SegmentsFit` says that the matcher finds a match exactly when the line can be laid along the path,
`**` over any number of names and, at the end, over one at least; `LastDecides`, that the loop over
the lines says what the last matching one says.  `OneListing` is where the order of the operating
system drops out: a set of names has one sorted sequence.  `WalkInv` relates the two ends of the walk.
What was given is in order and before everything that is pending, the pending directories are in order,
and each file that the rules let through has been given or lies below a pending directory.
Nothing is pending at the end, so all such files, and only these, were given.

### SchemaBoot, AuditChain

`Coherent` says of what is committed and of what the migrating replica holds that the structure of every
revision up to the recorded one is there; `InStep`, that nothing beyond it is, unless an older build
stamped its head on a newer schema, after which the next newer build replays what is there and
fails (`NoReplay`).  For the chain, `Linked` says of what a tenant sees that each
row points to the one before it; `Chained` says so of the log, and of the log joined with what the
holder of the advisory lock has flushed (`FlushedLast`), which is what its next row is chained to.

### Access, RateLimit, AuthSpike

Each property of the identity cache is about ages, so `AccessInv` bounds them: the age of what a
resolution has read by the time it has been running (`ResolutionSound`), that of an entry by a TTL and a
resolution, less what is left of it (`EntrySound`).  `RateInv` gives every answer the window it
counted in: windows do not overlap, a count is the number of answers of its window, and a refusal has
a full one; what Redis told is one second off at most (`MemorySound`, `RedisSound`).  Any span as long as a window meets two of them at most,
and a caller that waits as told leaves its window.

`SpikeInv` says of a window in memory that it holds failures of its key since the last
alarm, and all recent ones unless the cap dropped it (`WindowHolds`): pruning and sweeping take only
what is not recent, because the newest failure of a window is the last of its times.  A count in
Redis is at most the failures since its key was deleted that are inside its time to live
(`CountersHold`), hence of one burst; it may be less, when an expiry splits a burst, which is why only
memory promises that none passes.

### Only model-checked

- `EveryPushLands`, `BranchesDelivered`, `EveryDeliverySettles` and `EveryCommandReturns` are liveness
  under fairness, which is out of the prover's reach.
- The types of `Improver`, `Sandbox`, `CommandDaemon`, `WebhookDelivery`, `EventFeed` and the other components
  for which the table above names no types are parts of their inductive invariants, and not theorems of
  their own.

## 6. Not modelled

- Tenancy: row-level security is the database's; isolated object directories
  (`AV_CAS_ISOLATION=isolated`) change where files lie, not in which order things happen.
- Tasks, blackboard, strategies, lessons, causal links, policy packs, plans, the recording of
  action logs, adapters: inserts and reads of rows that nothing else depends on.
- SAML, the token formats of OIDC, signatures and hashing: external, taken as injective and
  unforgeable where they appear.
- Of the rate limiter and the alarms of failed authentication, restarts and clock skew of replicas; the
  other anomaly detectors; of the signing keys, the bytes that are signed, verification, and key commands that
  overlap; of the walk, a tree that changes while it runs.
- The Windows transport of the daemon, the web interface, deployment, benchmarks and scripts.
- On the branch: several branches in one queue, tags, detached HEAD in a push, a kill inside
  the critical section of a merge.
- In the store: retention sweeps and downloads.
- In the SDK and the training plugins: everything but their add, commit and watch.

## 7. Plan

1. An abstract registry (a set of readable commits that only grows, and a branch that only
   advances) that `RegistryStore` and `RefSync` implement under the conditions of section 3.
2. The isolated mode of the store, policy packs.
