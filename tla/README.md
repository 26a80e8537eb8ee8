# AppCrane in TLA+

AppCrane is a self-hosted platform-as-a-service for one host: one Node.js
process that builds app images, runs their containers with the Docker CLI,
configures Caddy in front of them, and keeps its state in one SQLite file. This
directory models the parts of its server where several activities meet: deploys,
rollbacks and recoveries; builds and prunes; admission by memory; restores of a
managed database and its encryption; deploys triggered by pushes; the job worker of
AppStudio; the outgoing mail queue; the audit chain with retention beside it; and
the delivery of events to a SIEM.

How to run it, in this directory:

    tlc -workers 2 -config MCBuildGate.cfg MCBuildGate     # one model-checking run
    tlapm HostAdmissionProofs.tla                          # one module of proofs

## How the program runs, and what a step is

The server is one JavaScript event loop over a synchronous database driver
(better-sqlite3). Code between two `await`s runs to its end before anything else,
so every action of a model is one such stretch: its guard comes from the
conditions and early returns of that stretch, its primed variables from what it
writes to tables, files, Docker or memory. What runs beside it (another request,
a scheduler, the clock, Docker, the relay) is another action. Where several
awaits in a row change nothing that another activity reads or writes, they are
one step, and the module says so. An await of an import that is already loaded
settles before any other callback and is no step boundary.

Nothing in the process takes a mutex. What stands for one is a row in
`deployments` with status pending, building or deploying (the *in-flight guard*),
a `Map` or counter in memory, or a status column. The hazards of this code
are the awaits between looking at one of those and acting on it.

## Inventory

State, operations and what is hard in each part; the properties that make the
modelled ones correct are in *What is checked*. The column on the right names the
module of a part that is modelled.

| part | state it keeps | operations and interactions | hard | module |
|---|---|---|---|---|
| deploy pipeline (`services/deployer.js`, `routes/deploy.js`, `services/artifactDeploy.js`, tools in `mcpTools.js`) | `deployments` rows, `releases/` and its `current` symlink, the container | deploy, upload, rollback, promote, restart; called by routes, tools, pushes, recovery, rename, AppStudio, auto-patch | await between guard and insert; a failure after the old container is gone; trimming releases that are in use; crash in the middle | `Deployer` |
| container recovery (`services/containerRecovery.js`) | none of its own; rows and containers | a sweep that redeploys dead containers one after the other | rows read before several awaited recoveries; its own row left behind | `Deployer` |
| build gate (`services/buildGate.js`) | `builds`, `pruning`, `drained`, `queued` in memory | `withBuild` around every image build, `withPrune` around every cache prune | wake-ups, joining a prune that already began | `BuildGate` |
| outgoing mail (`services/emailQueue.js`) | `email_queue` rows | enqueue, a tick every 5 s, retries with backoff, dead letter, boot reset | overlapping ticks, crash after the relay accepted | `EmailQueue` |
| restore guard (`services/managedDbRestoreGuard.js`) | the lock map `active` | stop containers, work, start them; refuses and is refused by deploys; health checks and restarts look at it | two guards that must see each other across awaits | `RestoreGuard` |
| health checker (`services/healthChecker.js`) | failure counts | probe, restart the container at the threshold | lock read before the probe | `RestoreGuard` |
| memory admission (`services/memoryAdmission.js`, `services/dockerSnapshot.js`) | two caches, a read under way, reservations | measure, decide, reserve, start, release, invalidate | decide and reserve apart; caches refilled by old reads | `MemoryAdmission` |
| deploy on push (`services/deployTrigger.js`, `pushCoalescer.js`, `managedRepo.js`) | follow-up map, poll interval, `apps.last_managed_push_sha` | push, record, trigger, park behind a deploy, poll | pushes that overtake each other, restart, restore | `PushDeploys` |
| supply-chain check (`services/supplyChain.js`) | none | refuses a clone that is not the recorded or newest commit | the tip moves while a deploy runs | `PushDeploys` |
| AppStudio jobs (`services/appstudio/worker.js`, `routes/appstudio.js`, `routes/plan.js`) | `enhancement_requests` and `enhancement_jobs` rows, the loop's slots | plan, approve, code, build, merge, redo, recode, reject, retry; orphan recovery at boot | handlers that write what they were to write whatever happened meanwhile; another request's code makes plans stale; coding containers that outlive the server | `AppStudio` |
| audit chain (`services/auditChain.js`, `eventStore.js`, `eventRetention.js`) | chain entries, signed checkpoints, the events they seal | seal, sign, verify in batches, compact, prune | retention, sealing and compaction between the batches of a verification; windows that change between signatures | `AuditChain` |
| SIEM export (`services/siem/*.js`) | a cursor per sink, the delivery under way | read a batch, send, move the cursor, back off; edit, move the cursor, flush | a cursor moved under a batch, an answer that is lost, a crash around a send | `SiemDelivery` |
| encryption of the shared MariaDB (`services/managedDb.js`, `managedDbEncryption.js`) | three settings, the key file, the container's label and arguments, the tablespaces | switch on, off, unload the key; `ensureServer`, also called by deploys | settings read at several moments of one creation; tables created while the key is unloaded; crashes between the steps | `MariadbEncryption` |
| promote and the supply-chain check | as above | a promote pins the sandbox commit, the check compares it with the last push or the branch tip | a promote of a release that is no longer the tip is refused | – |
| CPU admission (`services/cpuAdmission.js`) | a cached sample | as memory admission, without reservations | stale sample | – |
| auto-patch (`services/autoPatch/*.js`) | run rows | patch, sandbox deploy, promote, revert | the same | – |
| coder sessions (`services/builder/*.js`, `routes/coder.js`) | session map, per-app queue, containers | acquire, release, idle stop | queue hand-over, timeouts | – |
| crew (`services/crew*.js`) | question rows | ask, answer, expire | an answer that races the expiry | – |
| app rename (`services/appRename.js`) | slug in tables, files | one transaction, then a redeploy per environment | unguarded deploys, partial failure | – |
| backups and restore drills (`services/backupScheduler.js`, `restoreDrills.js`) | run rows | schedule, run, record | crash in a drill | – |
| key rotation (`services/keyRotation/rotate.js`) | staged keys, rows | re-encrypt, swap, restart | crash between the stages | – |
| sign-in, MFA, trusted devices (`services/mfa.js`, `trustedDevices.js`) | sessions, challenges | enrol, verify, use once | replay of a code | – |
| OAuth (`services/oauthStore.js`) | codes, refresh tokens | issue, redeem, rotate | reuse of a rotated token | – |
| access rules and reviews | staged rules, campaigns | stage, apply, decide, expire | stale approvals | – |
| cron and job health (`services/cronScheduler.js`, `jobHealth.js`) | last-run rows | run, record, alert | overlap, missed runs | – |
| upload conversion (`services/uploadConversion.js`) | repository, app row | convert once | a push during it | – |
| proxy (`services/caddy.js`, `tcpIngress.js`, `portAllocator.js`) | Caddy file, ports | render, reload, reserve | two reservations of a port | – |
| HTTP routing, SCIM, SSO, tasks, surveys, feedback | tables | one statement per request | nothing the database does not settle | – |
| front end, CLI, packages, plugins, install scripts, examples | – | clients and shell | – | – |

## The modules

### `BuildGate`

`WithBuild`, `ResumeBuild` and `EndBuild` are the stretches of `withBuild`;
`WithPrune`, `Look`, `RunBody`, `PruneSettles` and `PruneFinally` those of
`withPrune`. `builds`, `pruning`, `drained` and `queued` are the four module-level
variables. A caller that comes with the key of a queued prune gets that prune's
promise; the prune may be joined until `queued.delete`. The commands a prune runs
are a body that settles. Fairness: a started build or prune goes on and ends,
because every Docker command it runs has a timeout; nobody has to start one.
Definitions that every module has (`Next`, `Spec`, `TypeOK`, ...) carry the prefix
`Gate` here, as they carry `Mariadb` in `MariadbEncryption`: a module of proofs extends
each of the two beside another component.

`HostLease` is what the gate promises and nothing of how: builds share a lease of the
Docker host, a prune has it alone, and whoever asked is let in if that is possible
again and again. `Stage` maps a call to where it is with its lease (a caller of a prune
it joined has none of its own), and `IsALease` says that every behaviour of the gate,
with its fairness, is one of the lease with its own.

### `Deployer`

One app in one environment: the table, the directory, the symlink, the
container, and every code path that changes one of them. Row ids and release
timestamps increase, so both are numbers, 0 for none; a directory is its timestamp
and an image is named by the release it was built from (the code names it by
commit, and rebuilds it when it is not there). `pc[i]` says where the `deployApp` call handed row `i` is suspended;
`req`, `rb`, `rs`, `sweep`, `unpack` do the same for the callers that await before
they insert a row. `Redeploy` stands for the callers that insert a row with no look at
what is in flight: `appRename.js:204`, the bulk redeploy at boot (`index.js:1928`),
AppStudio's deploy after a merge (`appstudio/worker.js:764`) and auto-patch
(`autoPatch/worker.js:394`); `PromoteRebuild` is another one. `ReleaseTimestamp`, `Pruned`, `FreshInflight`, `Reclaim` and
`Demoted` are the pure parts.

Assumptions and abstractions:
- `apps.source_type` does not change while the instance runs; conversion of an
  upload app is a part of its own.
- Database writes after the release is published do not throw, and an upload's
  directory stamp (taken from `Date.now` alone) is a new one.
- `RecoverList` joins the awaited `docker ps` with the read of live rows that
  follows it; `RecoverPlan` and `RecoverInsert` are separate steps also where the
  code has no await between them (rebuild mode), which only adds behaviours.
  Backoff and grace of recovery only delay it.
- Apps deployed from an image, screenshots and notices are left out.
- `Serial` is the regime in which a caller waits until nothing else runs on the
  environment. The code does not enforce it (see *storm*); it is the regime an
  operator working alone is in. Properties of that regime are marked in the module.
- AppStudio's sandbox build hands `deployApp` a directory outside `releases/`; it is
  not modelled (see *Not modelled*).

### `EmailQueue`

`table` is the `email_queue` table; `tick[t]` is one tick of the worker: the row it
sends, the rows of its batch that are left, and the attempts it read when it began.
`Select`, `NextRow`, `SendOk`, `SendFails`, `NoticeSent` and `EndTick` are its
stretches, `RelayAccepts` happens at the relay, `Restart` ends the process and
`BootReset` is what `startEmailWorker` does next. `setInterval` starts a tick
whether or not the last one is over, so `Ticks` is the number that may be under way
at once. `tries`, `accepted` and `lost` are history. Fairness: the interval keeps
firing, a send ends (the transport has timeouts), a backoff runs out.

`Outbox` is what a sender is promised: a mail waits until it is settled, once and for
all, as sent only if the relay took it. `IsAnOutbox` says that the queue, with one tick
at a time, implements it with its fairness: no tick, batch, retry or restart shows.

### `RestoreGuard`

`lock` is the entry of the app in `active`, `restore` the local state of
`runWithAppStopped`, `call` the deploys, restarts and health checks under way.
The restore takes the lock and then looks for a row in flight; `deployApp` has its row
and then looks at the lock. Deploys are reduced to that and to what they do to the
container; their rows are taken to be younger than `STALE_DEPLOY_SECONDS`.
`RestoreStop` joins the look at a container with its `docker stop`. `disturbed` is
history: which locked environments a restart or a health check has touched.
Fairness: a restore goes on, because what it runs has timeouts.

### `MemoryAdmission`

`refuse` mode (the default mode, `warn`, admits everything and only mails). A
measurement is a function from container names to sizes; `cached` and `snap` are
the two caches, `flight` and `shared` the shared read of `dockerSnapshot`, `holder`
the reservation tokens. An app start reserves in `startApp` and releases in its
`finally`; `POST /restart` is admitted before its stop and starts with
`admission: false`; a coder session reserves after its workspace is cloned.
`LoopIsFree` is the event loop: a cached measurement is decided on, and an admitted
`startApp` reserves, before any other callback; callers resumed by one answer
interleave. Docker answers every read (a failed measurement admits by design); the
capacity page's forced read and the restart of crew containers are left out, and
the read CPU admission shares is one of the `Readers`. There is no
fairness: only safety is checked.

### `PushDeploys`

`Push`, `RecordPush`, `ReadTip` and `PushTriggers` are a push and its handler, for a
repository the server keeps (`facade`: pushed by a coder; `tools`: by the MCP tools,
which record their commit again at the end) or for GitHub webhooks. `queue`, `timer`
and `ticking` are the coalescer. A deploy is what this code sees of it: its row, the
`apps` row it was given, the commit its clone took, the verdict of `verifyCommitSha`,
and its end. Pushes take the branch one after the other and their handlers record in
that order; the branch filter and the auto-deploy flags say "deploy"; only a deploy
started by hand gets stuck. `dropped` is history: a restart or a restore made a push
be forgotten. Fairness: handlers and deploys go on, the interval fires while it is
set, time passes, a restore ends.

### `AppStudio`

`status`, `planned` (a plan is stored), `auto`, `branch` are the columns of a request;
`job` is the table of jobs in order of id; `handler[i]` is the call of `runJob` under
way for row `i`, with the branch it took at its start. `Claim` is `tick` with `claimJob`
and the handler up to its first await; `PlanEnds`, `CodePushed`, `CodePushConflicts`,
`CodeChangesNothing`, `BuildEnds`, `PrOpens`, `PrMerges`, `PrDeploys` and `HandlerFails`
are the rest of each handler, which writes its outcome whatever the rows say by then, as
the code does. `Restart` is `recoverOrphanedJobs`: running rows are queued again, except
coding jobs whose container outlived the server. The routes are one action each;
`recode` is two, because it awaits GitHub before it queues the coding. A branch is
the number of the coding attempt it carries. `built`, `merged`, `consent`, `hasty` and
`rejected` are history. The agent, Docker and GitHub answer as they like. Fairness: the
worker's interval fires and handlers end (each has a timeout); nobody has to ask.

### `AuditChain`

Rows of `events` have ascending ids, a time and a state; `chain` is the set of ids with
an entry and `link` the entry whose hash an entry was computed from: a hash is what it
was computed over, and the comparison of hashes is the comparison of that. `signed`,
`seals` and `floor` are the checkpoints of kinds retention, seal and compaction.
`JobTick` is `runAuditChainTick` up to its verification, `JobVerifies` the compaction
and the first batch, `VerifyBatch` each further batch of either verification,
`ManualVerify` the route; `PruneBegins` and `PruneBatch` are `pruneEvents`. `Hands` is
somebody with the database file, which is what the chain is there to notice; entries
and checkpoints are left alone by it. A checkpoint and an alarm are events themselves
(`Appended`), so a verification feeds the table it verifies. There is no fairness: only
safety is checked.

### `SiemDelivery`

One sink. `flight` is the delivery under way (`state.inFlight`): the cursor, filter and
batches left it began with, and the rows on their way; `sink` is its row, which an
administrator edits and whose cursor is moved under the delivery. `Accepted` is the
compare-and-set of the cursor; `Fails` and `Restart` choose what had arrived: the first
chunks of a stream, all or nothing of an object. `owed`, `got` and `mayRepeat` are
history: what the destination is still to get, has got, and may get again. Fairness
(`MCSiemLiveness` only): ticks keep coming, a back-off runs out, and a destination that
is tried again and again accepts in the end.

### `MariadbEncryption`

The three settings, the key file, the container as it was created (`label`, `mount`,
`args`), and the data as the server holds it. `ens` is the `ensureServer` that has the
lock, with the mode and label it has read so far: `Prepares`, `LooksAtContainer`,
`Creates` and `Runs` read the settings anew, as the code does, and an operation may
change them in between. `SetOn`, `SetOff` and `UnloadBegins` to `AfterRead` are the two
operations of an administrator; `EnsureFails` is any failure of Docker or the server.
`Threads`, `Tables` and `Starts` are the database's own part (external): encryption threads, the
applications' tables, and what a server needs to start. The module has no constants:
TLC explores all of it. Fairness: the lock is first come, first served, and what began
goes on or fails (`waitReady` has a timeout).

## What is checked

All runs are exhaustive over their instance and pass. Deadlock is checked except for
`PushDeploys`, where pushes may simply be over; `Deployer`, `EmailQueue` and `AppStudio`
end in an explicit stutter. Each property has a mutant: a definition with a plausible
slip, beside the one it mutates, under which TLC finds the property violated.

| run | instance | what it shows |
|---|---|---|
| `gate` | 2 builds, 3 prune calls by 3 callers over 2 keys | builds and prunes never overlap; nobody joins a prune that began; the gate implements `HostLease`, so every caller is served. Two keys are the least at which prunes queue behind one another, three callers the least at which one joins a queued prune while another one runs |
| `deploy_serial` | git and upload apps; 4 rows, 3 releases, one kept; every operation except staleness and crash, one at a time | whatever the sequence of deploys, failures at each stage, reverts, rollbacks, promotes, redeploys, restarts, container exits and recoveries, a running container is the newest live release, `current` names that release, and its directory exists. Four rows allow deploy, deploy, rollback, recovery; three releases with one kept beside `current` are the least at which one is trimmed |
| `deploy_racing` | 2 rows, 2 releases, none kept; every operation except restart, overlapping freely, with crashes at every point | no cleanup removes the directory `current` names; every row in flight has a call behind it or one that threw outside its `try`; the in-flight guard lets a deploy through again and again. Restart writes neither rows nor files, which is all these properties read |
| `email` | 3 messages, batches of 2, 2 attempts, one tick at a time, 2 restarts | dead letter only after all attempts; a duplicate only if the relay's answer was lost; the queue implements `Outbox`, so what is settled stays so and every message settles. Three messages make a second batch |
| `restore` | production and sandbox, one deploy, one restart, one health check, crashes | a restore excludes deploys; a container that runs while its data is restored was not started by a deploy; everything stopped runs again or is reported; the lock is given back |
| `memory_serial` | 2 apps and a coder container, one start at a time, sizes 1 and 2, capacity 3 | the host is never overcommitted and the cached measurement never hides a running container, whatever was cached and exits in between |
| `memory_overlap` | 2 overlapping starts or restarts of one name beside a reader | no reservation outlives its start and no caller waits for a read that is over |
| `push` | 3 pushes, to a local repository or by webhook, one deploy by hand, stuck deploys, restores, restarts | push deploys never overlap; what is parked is polled; every commit is deployed, it or a later one, unless a restore or restart dropped a push. Three pushes let one replace another in the queue while a deploy runs |
| `appstudio` | 2 requests, new or planned before, 5 jobs, 2 asks, 1 restart, one plan at a time | a request shown in work has a job; one rejected while nothing worked on it stays closed; auto mode merges only a branch the sandbox ran; every queued job settles. Two requests let the code of one make the plan of the other stale; five jobs take one request from its plan to its merge |
| `audit` | 2 events, 2 days, windows of 1 and 2, batches of 2, 1 change of the setting, 1 row changed by hand | entries link down to the floor whatever was sealed and compacted; retention raises no alarm; a change by hand is reported or is one retention could have made. Two days and two windows are the least at which a window that was lengthened explains an old gap |
| `siem` | 3 events, batches of 2, one batch per tick, 1 edit, 1 move of the cursor | the cursor passes nothing owed; a batch repeats only after a failure, restart or move; events go in order. Three events make a full batch and one that waits |
| `mariadb` | everything: the module has no constants | enabled or loaded settings have a key; the key is not deleted while something is encrypted; the server ends as configured; a server without the plugin has nothing encrypted, except for an operation that is finding that out; operations end |

Bounds are constants named in each module and guards name them (`MaxRows`, `MaxJobs`,
`MaxSets`, ...); where a bound is reached the operation is simply no longer offered.

### Where code and comments part

These configurations state what a comment of the code says; each ends in a
counterexample of the code as it is.

| configuration | property | comment | what happens |
|---|---|---|---|
| `MCDeployerStorm` | `OneDeployAtATime` | `deployer.js:464`: the guard "Refuses a new deploy when one is already in flight for the same app+env" | `POST /deploy` passes the guard and awaits three checks before it inserts the row the next request would have seen; two deploys of one environment run at once |
| `MCDeployerFailedRollback` | `CurrentIsWhatServes` | `deployer.js:2562`: "the live `current` symlink still points at the last-good release" | a rollback swaps `current` before its deploy runs; the deploy fails its probe, the container goes back, the symlink does not |
| `MCDeployerRefusal` | `RefusalKeepsServing` | `docker.js:938`: a refused start leaves the old one serving | `deployApp` has stopped the old container before `startApp`'s admission refuses |
| `MCDeployerStaleSweep` | `RecoveryRunsLiveRelease` | `containerRecovery.js:16`: the target is "the newest LIVE row" | a sweep lists live rows once and re-runs a release that was replaced meanwhile |
| `MCDeployerReplay` | `RedeployReplaysCurrent` | `deployer.js:1675`: "from the release it is already running" | after a rollback, a redeploy of an upload app takes the newest bundle |
| `MCDeployerRecoveredRollback` | `RollbackGoesBack` | `deployer.js:883`: "skip the current live one" | recovery copies the live row, so the second newest row is the same release |
| `MCEmailQueueClaim` | `NeverSentAgain` | `emailQueue.js:6`: the worker "claims due rows" | two overlapping ticks hold one row, and one sends it after the other settled it |
| `MCRestoreGuardRestart` | `StoppedWhileRestoring` | `managedDbRestoreGuard.js:11`: "no deploy, rollback, promote, restart or second restore lands in between" | a restart that looked at the lock before the restore took it starts the container while the data is being restored. With `Checks = {h1}` and `Restarts = {}` a health check does the same |
| `MCMemoryRace` | `NoOvercommit` | `memoryAdmission.js:219`: "two starts racing on one stale measurement cannot both fit into the same space" | both decide on the answer they share before either reserves |
| `MCMemoryMonitor` | `NeverHidden` | `dockerSnapshot.js:10` | a reader that began before a start ends after it and caches a measurement without the new container. With no reader and `Kinds = {"deploy", "restart"}` a restart shows it too: nothing is reserved for it and no invalidation follows |
| `MCPushTools` | `PushIsDeployed` | `deployTrigger.js:228` | an older push tool writes its commit over a newer one's, and the newer push is refused |
| `MCPushRestart` | `QueuedPushIsDeployed` | `deployTrigger.js:24` | the queue is in memory, and a restart forgets a parked push. With `Ops = {"restore"}`: one whose turn comes during a restore is skipped and not parked again |
| `MCMariadbKey` | `KeyAlwaysOutlivesData` | `managedDbEncryption.js:65-67` | the process dies after it marked the key unloaded and before it looked at the tablespaces again; the next unload finds a key that is not loaded and deletes it |
| `MCMariadbLabel` | `LabelIsConfiguration` | `managedDb.js:541-543` | the label is read before the addresses are awaited and the arguments after; an operation changes the settings in between |
| `MCSiemExport` | `RetryOverwrites` | `s3Export.js:8-10`: a retry overwrites its object | an object that arrived without its answer is named for its last event; events recorded before the retry give the batch another name |

`MCSiemLiveness` passes: every event is delivered or dropped by the filter while the
sink stays enabled (`EventsAreDelivered`).

## What is proved

Every statement below holds for all values of the constants that satisfy the named
`ASSUME` of its module, for any number of processes and steps. TLAPS checks each
proof to its leaves; each invariant was first checked by TLC. Theorems named
`...Types` are type correctness; they are what the others lean on.

| theorem | what it says | the argument |
|---|---|---|
| `HostAdmissionProofs!GateExcludes`, `NoLostWakeUp` | no build runs beside a prune; a prune is parked only while a build runs | `NoBuildBesidePrune` speaks of calls and the code of a counter, so `GateInv` adds that `builds` counts the running builds, that `pruning` names the one running body, and that `drained` holds exactly the parked ones |
| `HostAdmissionProofs!GateIsALease` | every step of the gate is one of `HostLease` or a stutter | step simulation under `Stage`, with `GateInv` for the guards: a build is let in only when `pruning` is none |
| `HostAdmissionProofs!JoinsOnlyWhatWaits` | a call that asks for a prune is never given one that has begun | an action property, from `QueuedAreWaiting`: what is queued under a key is a body of that key that has not started. `queued.delete` comes in the stretch in which the body takes the gate, so no call sees the key of a body that runs |
| `DeployerProofs!CurrentIsNeverDeleted` | no step that leaves `current` alone removes the directory it names | step by step: trimming keeps it and a failing attempt spares it; it needs no invariant, so it holds in every regime |
| `DeployerProofs!DeployerTypes` | types of the deploy pipeline | by groups of variables: what a step does not assign keeps its type while rows and stamps grow |
| `DeployerProofs!RowsAreSettled` | a row in flight has a call that runs or threw before its `try` | `Settled` adds what each suspended call owes its row |
| `DeployerProofs!LiveReleaseStaysCurrent`, `TheLiveReleaseServes` | at rest `current` names the newest live release, its directory exists, and a running container was created from it | for `SerialRegime`: operations wait for each other, the server does not die, at least one old release is kept. `SInv` says who is alone under way (`Alone`), what it holds until it ends (`InHand`: its directory, the image a revert or a restart goes back to, the row a recovery listed) and what it leaves untouched until it publishes (`LiveInv`). A rollback or promote takes the live rows down before its call begins, so that what it breaks on the way is no live release |
| `EmailQueueProofs!NoEarlyDeadLetter` | no dead letter before `MAX_ATTEMPTS` deliveries, with any number of overlapping ticks | a tick writes back attempts it read long ago, so the count of the table is not inductive; the attempts recorded or read, with the deliveries under way, never exceed the deliveries begun |
| `EmailQueueProofs!NoNeedlessDuplicate`, `QueueIsAnOutbox` | a duplicate needs a lost answer; every step of the queue is one of `Outbox` or a stutter, so what is settled stays so | for one tick at a time (`OneTick`, assumed): the row under way is the only one in sending, the rows of the batch left are waiting, and what the relay took without an answer is on record |
| `AdminOperationsProofs!GuardTypes`, `RestoreExcludesDeploys` | a restore and an admitted deploy exclude each other | inductive with the types: the lock precedes the look for rows, the row precedes the look at the lock, so one of the two sees the other |
| `AdminOperationsProofs!DeploysNeverStartIt`, `StartsWhatItStopped` | what a restore stopped stays stopped, and is started or reported at its end, but for containers a restart or a health check touched | `Progress` says which environments have been visited in each phase; deploys cannot disturb it by exclusion |
| `HostAdmissionProofs!MemoryTypes`, `NoLeakedReservation`, `NoLostCaller` | types; a reservation belongs to a start of that name under way; a caller waits for a read under way | invariants of the tokens and of the reads |
| `HostAdmissionProofs!NothingHidden` | with one start at a time, no independent reader and no restart, the cached measurement never hides a container | `CoverInv` carries the cover through the reads under way and the second cache; the assumptions are those `MCMemoryMonitor` shows to be needed |
| `HostAdmissionProofs!CapacityIsKept` | where apps and coder sessions start one at a time, apps by deploys only, with nothing else measuring, the running containers never count more than the capacity | `RoomInv`: every measurement somebody holds (a listing under way, a cache, the view of a start) was within the capacity when it was made, and an admitted start has room beside everything but the container it replaces. Only exits happen between the decision and the start, so a stale measurement errs to the safe side, with `CoverInv`: it hides nothing. The sums are folds over finite sets; the lemmas about them (any member can be taken out of a sum, a sum is no less when its terms are no less) are proved without the library's induction theorems, by a smallest subset that would be a counterexample. `MCMemoryRace` and `MCMemoryMonitor` show what goes wrong without the two assumptions |
| `PushDeploysProofs!PushTypes`, `PushesTakeTurns`, `FollowUpIsPolled` | types; no two deploys of pushes in flight; a parked push is polled | the types need a budget: rows inserted for pushes, handlers still to come and the follow-up never exceed the pushes, so no row goes past the bound. That two do not overlap leans on time: a row in flight of a push cannot be stale, since only a hand-started one gets stuck, and an insert looked for rows in the same stretch |
| `SiemDeliveryProofs!CursorSkipsNothing`, `RepeatsHaveAReason`, `SentInOrder` | the cursor passes nothing owed; repeats only after a failure, restart or move; order | `WholeBatch`: a batch is everything in the store from the cursor it was read at to its last event, also after pruning; so passing its last event passes nothing else |
| `AppStudioProofs!StudioTypes` | types; at most one coding, build or merge job has a handler at a time | by groups of variables, with `HandlersHaveBranches`: who codes, builds or merges has a branch to write |
| `AppStudioProofs!RequestsAreWorkedOn` | a request shown as in work has a job that is queued, has a handler, or was left to a container that outlived the server | `WorkInv` names the job that keeps a request in work: a queued one, one whose handler is at its start, or a stranded one. A handler that leaves a request in work queues its next job in the stretch in which it ends, and a restart queues again whatever it takes the handler of |
| `AppStudioProofs!RejectsAreFinal` | a request rejected while nothing worked on it stays closed until somebody asks again | a handler writes its outcome whatever the request says by then, so the status alone is not inductive: `RejectInv` adds that no job of the request is queued, running or handled, and that no `recode` of it waits for GitHub |
| `AppStudioProofs!AutoMergesWhatWasBuilt` | what auto mode merges ran in the sandbox, for requests whose operators wait for what is under way and leave the merge to it | `MergeInv`: of such a request at most one job is on its way, its build and merge handlers carry the branch the request has, and a merge is on its way only for a branch that was built |
| `AdminOperationsProofs!EncryptionTypes`, `SettingsHaveTheirKey` | types; enabled needs loaded, and loaded needs a key | `OperationsFit`: at each stage of an operation, what it has already made of the settings |
| `AdminOperationsProofs!LastEnsureServes` | after an `ensureServer` that succeeded the server runs and its label says what the settings say | `ContainerFits` and `EnsureFits` relate what the container was created with to what the `ensureServer` under way has read; `ServerFits` says what is left when it has gone. Label and settings differ only while an operation has changed the settings and its own `ensureServer` is still to come; label and arguments only of a container created while they changed, which is what `MCMariadbLabel` shows |
| `AdminOperationsProofs!DeletedKeysAreUnused`, `NothingIsUnreadable` | a key is gone only when nothing is encrypted with it; a server without the plugin has nothing encrypted | `UnloadFits`: once an unload has found the Aria tables plain, nothing makes one encrypted, and a key that is not loaded is one nothing needs. `PluginFits`: a server that runs without the plugin, or an `ensureServer` about to make one, has nothing to read with it, except while an unload is finding that out. Both except an unload a crash cut short, which is what `MCMariadbKey` shows |
| `AuditChainProofs!AuditTypes`, `ChainStaysWhole` | types; the chain is linked from its head to its floor and holds every signed head above it | inductive together: sealing links what is above the head to the head, so it extends a whole chain to a whole one; compaction takes an entry for its new floor, and that entry is what the first one left was linked to |
| `AuditChainProofs!TamperingIsReported` | a sealed row changed by hand before a verification begins is in its report, or a signed window explains that it is gone | `Reported` follows each such row while batches are read: reported, explained, or still ahead of the verification with its entry. A batch takes the first rows ahead, so what it leaves is behind it and another batch comes (`BatchIsFirst`). An entry compacted meanwhile was of an explained row (`Dropped`), and what is explained stays so when a day goes by or another window is signed (`StillExplained`) |
| `AuditChainProofs!NoAlarmIsFalse` | a verification that no prune and no compaction runs into reports only rows touched by hand or removed before their window was signed | `Owed` are the rows gone, or about to go, for a signed window. Each is explained now and to the verification the job is about to begin (`Excused`), whatever the retention becomes. An undisturbed verification stands at an entry, its windows explain what is owed, and the signed heads it has not met are ahead of it with their entries (`Sound`); the head leaves no row behind without an entry (`CoveredBy`) |

Two modules of proofs serve two components each: `HostAdmissionProofs` extends
`BuildGate` and `MemoryAdmission`, `AdminOperationsProofs` extends `RestoreGuard` and
`MariadbEncryption`. The components share nothing; each theorem is about the
specification it names (`GateSpec`, `MariadbSpec`, or `Spec` of the other).

Every invariant and every action property a run checks is stated by one of these
theorems, so what TLC alone vouches for is temporal: `NeverWedged`, `LockIsReleased`,
`PushIsDeployed`, `JobsSettle`, `OperationsEnd`, and the fairness part of `IsALease` and
`IsAnOutbox`. They follow from weak and strong fairness, which speak of `ENABLED`; the
prover does not reason about that. The theorems about the steps of `HostLease` and
`Outbox` cover the safety part of the two refinements.

What was proved goes beyond its run in the values of the constants and not in what is
said, but for the regimes: the theorems on live releases assume `SerialRegime`, those on
`NothingHidden` and `CapacityIsKept` the constants named, those on the mail queue
`OneTick`. Each regime is the one its run has, and *Where code and comments part* says what
happens outside it.

## What is left

1. Proof: a bound for overlapping starts in place of `CapacityIsKept` (by how much they
   can exceed the capacity), and what the abstract `HostLease` and `Outbox` promise by
   themselves. The regimes of `CapacityIsKept` cannot be dropped: with a restart, or with
   a reader beside the starts, TLC finds `NoOvercommit` violated.
2. Compositions: AppStudio's and auto-patch's deploys with `Deployer`'s handling of
   what they hand over; promote against the supply-chain check; the restore guard with
   `MariadbEncryption`'s recreation of the server.
3. Components, in this order: coder sessions and their queue, key rotation, OAuth codes
   and refresh tokens, trusted devices, backups and restore drills, CPU admission, crew
   questions, cron, access rules, upload conversion, port allocation.

## Not modelled

Rendering and formatting, logs and screenshots, HTTP routing, request handlers
that are one SQL statement, schema migrations, the front end, the command line,
packages, plugins, install scripts and examples: they make up most of the lines of
the repository, and hold no state that two activities share. The database is not
modelled as a part: it is synchronous, and each statement is a step of the model
that uses it. A crash between two statements of one stretch is not modelled except for
the two system calls of the symlink swap (`MidSwap`) and the writes of `enable`
(`DiesInEnable`); nor are a host that loses power between a write and its sync, and two
server processes over one database.

AppStudio's sandbox build is modelled as a job (`BuildEnds`) and not as a deploy: it
hands `deployApp` a directory under `appstudio-jobs/` as `preExtractedDir`
(`appstudio/worker.js:594-622`), which becomes `current` and the row's release, and
then removes that directory with `cleanupWorkspace` (`appstudio/generator.js:85-91`).
`Deployer` knows release directories only; how a later start or rollback of the sandbox
gets on with the dangling symlink is not covered.
