---------------------------- MODULE PushDeploys ----------------------------
(***************************************************************************)
(* Deploy on push: services/deployTrigger.js and pushCoalescer.js, with    *)
(* the push's end in managedRepo.js and mcpTools.js and the freshness gate *)
(* of supplyChain.js, for one app in one environment marked for it.        *)
(* Commits take the branch one after the other and are numbered.  A push   *)
(* that meets a fresh deploy in flight is parked as the environment's one  *)
(* follow-up, which a poll of the deployments table runs later.            *)
(*                                                                         *)
(* Deploys are reduced to what this code sees of them: the row, the app    *)
(* row it was started with, the commit its clone took, whether that commit *)
(* was accepted, and the end.                                              *)
(***************************************************************************)
EXTENDS Naturals, FiniteSets

CONSTANTS MaxPushes,  \* commits that land on the branch
          MaxManual,  \* deploys started by hand
          Sources,    \* where the app may live, of {"facade", "tools", "github"}
          Ops         \* of {"stuck", "restore", "crash"}: what may also happen

ASSUME PushConstants ==
  /\ MaxPushes \in Nat /\ MaxManual \in Nat
  /\ Sources \subseteq {"facade", "tools", "github"}
  /\ Ops \subseteq {"stuck", "restore", "crash"}

Commits == 1..MaxPushes
\* A push inserts one row at most, itself or as the follow-up.
Ids == 1..(MaxPushes + MaxManual)

VARIABLES
  source,   \* "facade": local repository, pushed by the coder, ...
            \* "tools":  local repository, pushed by the MCP tools
            \* "github": webhook deliveries
  tip,      \* the newest commit of the branch
  recorded, \* apps.last_managed_push_sha, 0 when null
  hook,     \* the handler of a push: where it is and the tip it read
  n,        \* rows inserted in the deployments table
  st,       \* where a row's deploy is
  pushed,   \* rows inserted by triggerAutoDeploys
  snap,     \* apps.last_managed_push_sha as the deploy was given it
  took,     \* the branch tip a deploy's clone was made at, 0 before the clone
  stale,    \* rows started more than STALE_DEPLOY_SECONDS ago
  queue,    \* the follow-up: the row it waits behind and its push, or none
  timer,    \* the poll interval is set
  ticking,  \* the follow-up whose run() a poll awaits, or none
  restoring, \* a database restore holds the app's lock
  dropped   \* history: a push was skipped for a restore, or a restart dropped
            \* the handlers, follow-ups and deploys there were

deploys == <<n, st, pushed, snap, took, stale>>
branch == <<source, tip, recorded, hook>>
coalescer == <<queue, timer, ticking>>
around == <<restoring, dropped>>
vars == <<branch, deploys, coalescer, around>>

Local == source # "github"

\* A deploy clones, has its commit checked while it builds, and goes live or
\* fails.  "stuck": it threw where nothing settles the row.
InFlightStates == {"cloning", "checking", "building", "refused", "stuck"}

NoItem == [behind |-> 0, commit |-> 0]
Items == [behind : 0..(MaxPushes + MaxManual), commit : 0..MaxPushes]

\* Types, and what the table's columns say of one another.
TypeOK ==
  /\ source \in Sources
  /\ tip \in 0..MaxPushes
  /\ recorded \in 0..tip
  /\ hook \in [Commits -> [at : {"none", "landed", "recorded", "read", "done"}, tip : 0..tip]]
  /\ \A c \in Commits : hook[c].at # "none" <=> c <= tip
  /\ n \in 0..(MaxPushes + MaxManual)
  /\ st \in [Ids -> InFlightStates \cup {"none", "live", "failed"}]
  /\ \A i \in Ids : st[i] = "none" <=> i > n
  /\ pushed \in SUBSET (1..n)
  /\ snap \in [Ids -> 0..tip]
  /\ took \in [Ids -> 0..tip]
  /\ \A i \in Ids : st[i] \in {"none", "cloning", "stuck"} => took[i] = 0
  /\ stale \in SUBSET (1..n)
  /\ queue \in Items /\ queue.behind <= n /\ queue.commit <= tip
  /\ timer \in BOOLEAN
  /\ ticking \in Items /\ ticking.commit <= tip
  /\ restoring \in BOOLEAN
  /\ dropped \in BOOLEAN

Init ==
  /\ source \in Sources
  /\ tip = 0
  /\ recorded = 0
  /\ hook = [c \in Commits |-> [at |-> "none", tip |-> 0]]
  /\ n = 0
  /\ st = [i \in Ids |-> "none"]
  /\ pushed = {}
  /\ snap = [i \in Ids |-> 0]
  /\ took = [i \in Ids |-> 0]
  /\ stale = {}
  /\ queue = NoItem
  /\ timer = FALSE
  /\ ticking = NoItem
  /\ restoring = FALSE
  /\ dropped = FALSE

-----------------------------------------------------------------------------
(* The deployments table and the deploys *)

InFlight == {i \in Ids : st[i] \in InFlightStates}

\* Mutant: a row in flight counts however old it is.
Fresh_NeverStale(i) == i \in InFlight /\ \A j \in InFlight : j <= i

\* freshInflightDeploy: the newest row in flight, while it is young.
Fresh(i) ==
  /\ i \in InFlight /\ \A j \in InFlight : j <= i
  /\ i \notin stale

NoneFresh == \A i \in Ids : ~Fresh(i)

\* INSERT INTO deployments, and deployApp called with that row and an app row.
Insert(byPush, r) ==
  /\ n' = n + 1
  /\ st' = [st EXCEPT ![n + 1] = "cloning"]
  /\ pushed' = IF byPush THEN pushed \cup {n + 1} ELSE pushed
  /\ snap' = [snap EXCEPT ![n + 1] = r]
  /\ UNCHANGED <<took, stale>>

\* The clone takes the branch as it is now.
Clone(i) ==
  /\ st[i] = "cloning"
  /\ st' = [st EXCEPT ![i] = "checking"]
  /\ took' = [took EXCEPT ![i] = tip]
  /\ UNCHANGED <<branch, n, pushed, snap, stale, coalescer, around>>

\* verifyCommitSha: of a managed app, the clone is the last push recorded, if
\* one is; of any app, it is what the branch names now.
Accepted(i) ==
  /\ Local /\ snap[i] # 0 => snap[i] = took[i]
  /\ took[i] = tip

VerifyCommit(i) ==
  /\ st[i] = "checking"
  /\ st' = [st EXCEPT ![i] = IF Accepted(i) THEN "building" ELSE "refused"]
  /\ UNCHANGED <<branch, n, pushed, snap, took, stale, coalescer, around>>

\* Live, or failed at the container gate.
DeployEnds(i) ==
  /\ st[i] \in {"building", "refused"}
  /\ st' = [st EXCEPT ![i] = IF st[i] = "building" THEN "live" ELSE "failed"]
  /\ UNCHANGED <<branch, n, pushed, snap, took, stale, coalescer, around>>

\* deployApp throws before its try block: nothing settles the row.  Only of a
\* deploy started by hand, so that a push's own deploy is not what fails.
DeployIsStuck(i) ==
  /\ "stuck" \in Ops
  /\ st[i] = "cloning" /\ i \notin pushed
  /\ st' = [st EXCEPT ![i] = "stuck"]
  /\ UNCHANGED <<branch, n, pushed, snap, took, stale, coalescer, around>>

\* A stuck row grows old.  A running deploy is taken to end before that (its
\* Docker and git calls have timeouts), the ones older than the row included.
GrowsStale(i) ==
  /\ st[i] = "stuck" /\ i \notin stale
  /\ \A j \in InFlight : j <= i => st[j] = "stuck"
  /\ stale' = stale \cup {i}
  /\ UNCHANGED <<branch, n, st, pushed, snap, took, coalescer, around>>

\* POST /deploy inserts its row after awaits that follow its own guard, so a
\* push may have started a deploy meanwhile; its app row is the request's.
ManualDeploy ==
  /\ ~restoring
  /\ n - Cardinality(pushed) < MaxManual
  /\ \E r \in 0..recorded : Insert(FALSE, r)
  /\ UNCHANGED <<branch, coalescer, around>>

-----------------------------------------------------------------------------
(* triggerAutoDeploys.  Its awaits are imports of loaded modules, which      *)
(* settle before any other request runs: one step.                           *)

\* queueBehindInflight: parked behind a fresh deploy, in place of the
\* follow-up already there.
QueueBehind(c) == \E i \in Ids : Fresh(i) /\ queue' = [behind |-> i, commit |-> c]

\* Mutant: the trigger does not look for a deploy in flight.
Trigger_NoQueue(c) ==
  \/ restoring /\ dropped' = TRUE /\ UNCHANGED <<deploys, queue>>
  \/ ~restoring /\ Insert(TRUE, recorded) /\ UNCHANGED <<queue, dropped>>

\* Skipped while a restore runs, parked behind a fresh deploy, or deployed now.
Trigger(c) ==
  \/ restoring /\ dropped' = TRUE /\ UNCHANGED <<deploys, queue>>
  \/ ~restoring /\ QueueBehind(c) /\ UNCHANGED <<deploys, dropped>>
  \/ ~restoring /\ NoneFresh /\ Insert(TRUE, recorded) /\ UNCHANGED <<queue, dropped>>

\* git update-ref puts a commit on the branch, over whatever is there.
Push ==
  /\ tip < MaxPushes
  /\ tip' = tip + 1
  /\ hook' = [hook EXCEPT ![tip + 1].at = "landed"]
  /\ UNCHANGED <<source, recorded, deploys, coalescer, around>>

\* managedRepo.pushFilesToManagedRepo records the commit before its deploy.
\* Pushes take the branch in turn, several git processes apart, so their
\* handlers get here in that order.
RecordPush(c) ==
  /\ Local
  /\ hook[c].at = "landed" /\ \A d \in 1..(c - 1) : hook[d].at # "landed"
  /\ recorded' = c
  /\ hook' = [hook EXCEPT ![c].at = "recorded"]
  /\ UNCHANGED <<source, tip, deploys, coalescer, around>>

\* deployAfterLocalPush reads the tip with git ...
ReadTip(c) ==
  /\ hook[c].at = "recorded"
  /\ hook' = [hook EXCEPT ![c] = [at |-> "read", tip |-> tip]]
  /\ UNCHANGED <<source, tip, recorded, deploys, coalescer, around>>

Superseded(c) == Local /\ hook[c].tip # c

\* ... and leaves the deploy to a newer push, or triggers; a webhook triggers at
\* once.  A push tool records its own commit once more when all this returns.
PushTriggers(c) ==
  /\ hook[c].at = IF Local THEN "read" ELSE "landed"
  /\ \/ Superseded(c) /\ UNCHANGED <<deploys, queue, dropped>>
     \/ ~Superseded(c) /\ Trigger(c)
  /\ timer' = (timer \/ queue' # NoItem)
  /\ hook' = [hook EXCEPT ![c].at = "done"]
  /\ recorded' = IF source = "tools" THEN c ELSE recorded
  /\ UNCHANGED <<source, tip, ticking, restoring>>

-----------------------------------------------------------------------------
(* tickPushCoalescer *)

\* The poll finds the follow-up's deploy over, takes it and awaits its run().
TickTakes ==
  /\ timer /\ ticking = NoItem /\ queue # NoItem
  /\ ~Fresh(queue.behind)
  /\ ticking' = queue
  /\ queue' = NoItem
  /\ UNCHANGED <<branch, deploys, timer, around>>

\* Mutant: the poll stops after the follow-up it ran.
FollowUpRuns_StopsTimer ==
  /\ ticking # NoItem
  /\ Trigger(IF Local THEN tip ELSE ticking.commit)
  /\ timer' = FALSE
  /\ ticking' = NoItem
  /\ UNCHANGED <<branch, restoring>>

\* run() triggers again, for a local push with the tip as it is by then; the
\* interval is cleared when nothing is parked.
FollowUpRuns ==
  /\ ticking # NoItem
  /\ Trigger(IF Local THEN tip ELSE ticking.commit)
  /\ timer' = (queue' # NoItem)
  /\ ticking' = NoItem
  /\ UNCHANGED <<branch, restoring>>

-----------------------------------------------------------------------------
(* What happens around them *)

\* managedDbRestoreGuard.runWithAppStopped takes the lock only beside no fresh
\* deploy of the app.
RestoreBegins ==
  /\ "restore" \in Ops
  /\ ~restoring /\ NoneFresh
  /\ restoring' = TRUE
  /\ UNCHANGED <<branch, deploys, coalescer, dropped>>

RestoreEnds ==
  /\ restoring
  /\ restoring' = FALSE
  /\ UNCHANGED <<branch, deploys, coalescer, dropped>>

\* The process restarts: the boot sweep fails the rows in flight; the handlers
\* and everything kept in memory are gone.
Restart ==
  /\ "crash" \in Ops
  /\ InFlight # {}
  /\ st' = [i \in Ids |-> IF i \in InFlight THEN "failed" ELSE st[i]]
  /\ hook' = [c \in Commits |->
               IF hook[c].at = "none" THEN hook[c] ELSE [hook[c] EXCEPT !.at = "done"]]
  /\ queue' = NoItem
  /\ timer' = FALSE
  /\ ticking' = NoItem
  /\ restoring' = FALSE
  /\ dropped' = TRUE
  /\ UNCHANGED <<source, tip, recorded, n, pushed, snap, took, stale>>

Next ==
  \/ Push
  \/ \E c \in Commits : RecordPush(c) \/ ReadTip(c) \/ PushTriggers(c)
  \/ ManualDeploy
  \/ \E i \in Ids : Clone(i) \/ VerifyCommit(i) \/ DeployEnds(i)
  \/ \E i \in Ids : DeployIsStuck(i) \/ GrowsStale(i)
  \/ TickTakes
  \/ FollowUpRuns
  \/ RestoreBegins
  \/ RestoreEnds
  \/ Restart

\* Handlers and deploys that began go on, the poll fires while it is set, time
\* passes.  Nobody has to push, deploy, restore or restart.
Fairness ==
  /\ \A c \in Commits : WF_vars(RecordPush(c) \/ ReadTip(c) \/ PushTriggers(c))
  /\ \A i \in Ids : WF_vars(Clone(i) \/ VerifyCommit(i) \/ DeployEnds(i) \/ GrowsStale(i))
  /\ WF_vars(TickTakes)
  /\ WF_vars(FollowUpRuns)
  /\ WF_vars(RestoreEnds)

Spec == Init /\ [][Next]_vars /\ Fairness

-----------------------------------------------------------------------------
(* Properties *)

\* Pushes never overlap their own deploys: whatever pushes, polls and deploys by
\* hand do, at most one row inserted by triggerAutoDeploys is in flight
\* (deployTrigger.js:23-26).
OnePushDeployAtATime ==
  \A i, j \in pushed : i \in InFlight /\ j \in InFlight => i = j

\* A parked follow-up is never forgotten by the poll: while one is parked, or
\* one is being run and another may be parked behind it, the interval is set
\* (pushCoalescer.js ensureTimer and stopTimerIfIdle).
QueueIsPolled == queue # NoItem \/ ticking # NoItem => timer

\* A deploy whose commit was accepted has c, or a commit that took its place.
Ships(c) == \E i \in Ids : took[i] >= c /\ st[i] \in {"building", "live"}

\* Unless a restart or a restore drops pushes, every commit that lands is
\* deployed, it or a later tip of the branch: though its push may be superseded
\* or replaced in the queue, the deploy it started refused because a newer push
\* moved the branch under it, or the row it waits behind settled by nobody
\* (deployTrigger.js:230-239).
PushIsDeployed ==
  \A c \in Commits : tip >= c ~> Ships(c) \/ dropped

\* What deployTrigger.js and pushDeployView promise of a queued push: the branch
\* is deployed, that commit included, when the deploy it waits behind ends.
QueuedPushIsDeployed ==
  \A c \in Commits : queue.commit = c ~> Ships(c)
=============================================================================
