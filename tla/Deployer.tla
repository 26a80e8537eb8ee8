------------------------------ MODULE Deployer ------------------------------
(***************************************************************************)
(* services/deployer.js and the handlers that feed it, for one app in one  *)
(* environment: the deployments table, the releases/ directory with its    *)
(* `current' symlink, the Docker container, and every code path that       *)
(* changes one of them.                                                    *)
(*                                                                         *)
(* A step is the code between two awaits.  Deployment ids and release      *)
(* timestamps are both increasing, so both are numbers; 0 stands for       *)
(* "none".  A release directory is named by its timestamp and an image by  *)
(* the release it was built from.                                          *)
(***************************************************************************)
EXTENDS Naturals, FiniteSets, FiniteSetsExt

CONSTANTS MaxRows,   \* bound on rows inserted in the deployments table
          MaxDirs,   \* bound on release timestamps handed out
          Keep,      \* non-current releases pruneOldReleases keeps (code: 5)
          Reqs,      \* POST /deploy and appcrane_deploy handlers
          Sources,   \* where the app may come from: "git" (a clone per deploy),
                     \* "upload" (a bundle per deploy)
          Ops,       \* the operations and faults this instance exercises
          Serial     \* TRUE: only behaviours whose operations do not overlap
                     \* are explored (a bound for TLC)

AllOps == {"deploy", "rollback", "promote", "upload", "redeploy", "restart",
           "recover", "bare", "exit", "stale", "crash"}

ASSUME DeployerConstants ==
  /\ MaxRows \in Nat \ {0}
  /\ MaxDirs \in Nat \ {0}
  /\ Keep \in Nat
  /\ Sources \subseteq {"git", "upload"}
  /\ Ops \subseteq AllOps
  /\ Serial \in BOOLEAN

Ids == 1..MaxRows
Dirs == 1..MaxDirs

VARIABLES
  (* deployments table *)
  n,         \* rows inserted so far
  status,    \* deployments.status
  path,      \* deployments.release_path
  stale,     \* rows started more than STALE_DEPLOY_SECONDS ago
  (* disk and Docker *)
  stamp,     \* lastReleaseTimestamp
  dirs,      \* release directories on disk
  bundles,   \* the timestamps whose directory name says `upload'
  bare,      \* the releases with neither package.json nor deployhub.json
  current,   \* target of the `current' symlink
  source,    \* apps.source_type
  up,        \* state of the app's container
  image,     \* the image that container was created from, if there is one
  strays,    \* history, while calm and since the last deploy that succeeded:
             \* releases whose deploy failed and left its container or symlink
  (* suspended calls *)
  pc,        \* where the deployApp call of a row is suspended
  rel,       \* its releaseDir
  prev,      \* its prevImage
  req,       \* POST /deploy handlers
  rb,        \* target of a rollbackApp call awaiting admission
  rs,        \* POST /restart: where it is and the image it read
  sweep,     \* container recovery: where it is and the row it works on
  unpack,    \* the directory an uploaded bundle is being extracted into
  calm       \* history: no operation began, and the server did not die, while
             \* another operation was under way

rows  == <<n, status, path, stale>>
disk  == <<stamp, dirs, bundles, bare, current, source>>
cont  == <<up, image, strays>>
tasks == <<pc, rel, prev>>
calls == <<req, rb, rs, sweep, unpack, calm>>
vars  == <<rows, disk, cont, tasks, calls>>

Statuses == {"none", "pending", "deploying", "live", "rolled_back", "failed"}
TaskPcs == {"none", "admit", "fetch", "build", "capture", "stop", "inject",
            "start", "probe", "revert", "after", "refused", "failing", "settle",
            "thrown", "done"}

\* No variable names a release that has not been stamped yet.
TypeOK ==
  /\ n \in 0..MaxRows
  /\ status \in [Ids -> Statuses]
  /\ \A i \in Ids : status[i] = "none" <=> i > n
  /\ path \in [Ids -> 0..stamp]
  /\ stale \in SUBSET Ids
  /\ stamp \in 0..MaxDirs
  /\ dirs \in SUBSET (1..stamp)
  /\ bundles \in SUBSET (1..stamp)
  /\ bare \in SUBSET (1..stamp)
  /\ current \in 0..stamp
  /\ source \in Sources
  /\ up \in {"absent", "running", "exited"}
  /\ image \in 0..stamp
  /\ up = "absent" => image = 0
  /\ strays \in SUBSET (0..stamp)
  /\ pc \in [Ids -> TaskPcs]
  /\ \A i \in Ids : pc[i] # "none" => i <= n
  /\ rel \in [Ids -> 0..stamp]
  /\ prev \in [Ids -> 0..stamp]
  /\ req \in [Reqs -> {"idle", "checking"}]
  /\ rb \in 0..MaxRows
  /\ rs \in [at : {"idle", "inspected", "stopped"}, image : 0..stamp]
  /\ sweep \in [at : {"idle", "listed", "planned", "waiting"},
              row : 0..MaxRows, tree : 0..stamp]
  /\ sweep.at # "idle" => sweep.row # 0
  /\ unpack \in 0..stamp
  /\ calm \in BOOLEAN

Init ==
  /\ n = 0
  /\ status = [i \in Ids |-> "none"]
  /\ path = [i \in Ids |-> 0]
  /\ stale = {}
  /\ stamp = 0 /\ dirs = {} /\ bundles = {} /\ bare = {} /\ current = 0
  /\ source \in Sources
  /\ up = "absent" /\ image = 0 /\ strays = {}
  /\ pc = [i \in Ids |-> "none"]
  /\ rel = [i \in Ids |-> 0]
  /\ prev = [i \in Ids |-> 0]
  /\ req = [r \in Reqs |-> "idle"]
  /\ rb = 0
  /\ rs = [at |-> "idle", image |-> 0]
  /\ sweep = [at |-> "idle", row |-> 0, tree |-> 0]
  /\ unpack = 0
  /\ calm = TRUE

-----------------------------------------------------------------------------
(* What the handlers read *)

InFlight == {i \in Ids : status[i] \in {"pending", "deploying"}}
LiveRows == {i \in Ids : status[i] = "live"}
Restorable == {i \in Ids : status[i] \in {"live", "rolled_back"}}

\* Mutant: a row in flight blocks for ever, however old it is.
FreshInflight_NeverStale == InFlight # {}

\* The check of assertNoInflightDeploy and of its twin freshInflightDeploy.
FreshInflight == InFlight # {} /\ Max(InFlight) \notin stale

\* Its second half: rows in flight that did not block are marked failed.
Reclaim == [i \in Ids |-> IF i \in InFlight THEN "failed" ELSE status[i]]

Running == {i \in Ids : pc[i] \notin {"none", "thrown", "done"}}
Quiet ==
  /\ Running = {}
  /\ \A r \in Reqs : req[r] = "idle"
  /\ rb = 0 /\ rs.at = "idle" /\ sweep.at = "idle" /\ unpack = 0

\* A caller starts operation op.
MayStart(op) ==
  /\ op \in Ops
  /\ Serial => Quiet
  /\ calm' = (calm /\ Quiet)

\* Mutant: the newest Keep directories are kept, `current' among the others.
Pruned_ForgetsCurrent(D) ==
  {d \in D : Cardinality({e \in D : e > d}) < Keep}

\* pruneOldReleases: the newest Keep directories besides the current one.
Pruned(D) ==
  {d \in D : d = current \/ Cardinality({e \in D \ {current} : e > d}) < Keep}

\* releaseTimestamp: strictly increasing, so no directory is handed out twice.
ReleaseTimestamp == stamp < MaxDirs /\ stamp' = stamp + 1

\* The tree of a new release may hold neither manifest.
NewTree ==
  \/ bare' = bare
  \/ "bare" \in Ops /\ bare' = bare \cup {stamp + 1}

\* INSERT INTO deployments, and the deployApp call that is handed the row.
Insert(st, p, tree) ==
  /\ n < MaxRows
  /\ n' = n + 1
  /\ status' = [st EXCEPT ![n + 1] = "pending"]
  /\ path' = [path EXCEPT ![n + 1] = p]
  /\ pc' = [pc EXCEPT ![n + 1] = "admit"]
  /\ rel' = [rel EXCEPT ![n + 1] = tree]
  /\ UNCHANGED <<stale, prev>>

\* UPDATE ... SET status = 'rolled_back' WHERE status = 'live'.
Demoted == [i \in Ids |-> IF status[i] = "live" THEN "rolled_back" ELSE status[i]]

-----------------------------------------------------------------------------
(* POST /deploy/:env and appcrane_deploy *)

\* The in-flight guard; a fresh deploy in flight answers 409 and changes nothing.
DeployRequest(r) ==
  /\ MayStart("deploy")
  /\ req[r] = "idle"
  /\ ~FreshInflight
  /\ status' = Reclaim
  /\ req' = [req EXCEPT ![r] = "checking"]
  /\ UNCHANGED <<n, path, stale, disk, cont, tasks, rb, rs, sweep, unpack>>

\* After the awaited data-loss, release and memory checks: insert and deploy.
DeployInsert(r) ==
  /\ req[r] = "checking"
  /\ Insert(status, 0, 0)
  /\ req' = [req EXCEPT ![r] = "idle"]
  /\ UNCHANGED <<disk, cont, rb, rs, sweep, unpack, calm>>

\* One of those checks refuses; a memory refusal is recorded as a failed row.
DeployRefused(r) ==
  /\ req[r] = "checking"
  /\ req' = [req EXCEPT ![r] = "idle"]
  /\ \/ UNCHANGED rows
     \/ /\ n < MaxRows
        /\ n' = n + 1
        /\ status' = [status EXCEPT ![n + 1] = "failed"]
        /\ UNCHANGED <<path, stale>>
  /\ UNCHANGED <<disk, cont, tasks, rb, rs, sweep, unpack, calm>>

-----------------------------------------------------------------------------
(* rollbackApp *)

\* With no id, the second newest release that was ever live.
DefaultTarget == Max(Restorable \ {Max(Restorable)})

\* The target is chosen, then memory admission is awaited.
RollbackRequest ==
  /\ MayStart("rollback")
  /\ rb = 0
  /\ \E t \in Restorable : rb' = t
  /\ UNCHANGED <<rows, disk, cont, tasks, req, rs, sweep, unpack>>

\* The directory is checked, `current' is swapped, the row is inserted and the
\* live rows are demoted, all before deployApp runs.
RollbackCommit ==
  /\ rb # 0
  /\ path[rb] \in dirs
  /\ current' = path[rb]
  /\ Insert(Demoted, path[rb], path[rb])
  /\ rb' = 0
  /\ UNCHANGED <<stamp, dirs, bundles, bare, source, cont, req, rs, sweep, unpack, calm>>

\* Refused for memory, or NO_RELEASE_PATH / RELEASE_GONE.
RollbackRefused ==
  /\ rb # 0
  /\ rb' = 0
  /\ UNCHANGED <<rows, disk, cont, tasks, req, rs, sweep, unpack, calm>>

-----------------------------------------------------------------------------
(* promoteApp, uploads and the other callers of deployApp *)

\* Git apps: a fresh production build, no guard (promoteApp's rebuild branch).
PromoteRebuild ==
  /\ MayStart("promote")
  /\ source = "git"
  /\ Insert(status, 0, 0)
  /\ UNCHANGED <<disk, cont, req, rb, rs, sweep, unpack>>

\* A rename, the bulk redeploy at boot, AppStudio and auto-patch: no guard either,
\* whatever is in flight.
Redeploy ==
  /\ MayStart("redeploy")
  /\ Insert(status, 0, 0)
  /\ UNCHANGED <<disk, cont, req, rb, rs, sweep, unpack>>

\* Upload apps: the sandbox tree is copied, `current' swapped and the live rows
\* demoted before deployApp runs; a failing copy only leaves a failed row.
PromoteCopy ==
  /\ MayStart("promote")
  /\ source = "upload"
  /\ n < MaxRows
  /\ ReleaseTimestamp
  /\ dirs' = dirs \cup {stamp + 1}
  /\ n' = n + 1
  /\ \/ /\ current' = stamp + 1
        /\ status' = [Demoted EXCEPT ![n + 1] = "deploying"]
        /\ path' = [path EXCEPT ![n + 1] = stamp + 1]
        /\ rel' = [rel EXCEPT ![n + 1] = stamp + 1]
        /\ pc' = [pc EXCEPT ![n + 1] = "admit"]
     \/ /\ status' = [status EXCEPT ![n + 1] = "failed"]
        /\ UNCHANGED <<current, path, rel, pc>>
  /\ UNCHANGED <<stale, bundles, bare, source, cont, prev, req, rb, rs, sweep, unpack>>

\* deployArtifact: a new release directory, then the bundle is extracted.  It is
\* named by Date.now() alone; two uploads are taken never to share a millisecond.
UploadUnpack ==
  /\ MayStart("upload")
  /\ source = "upload" /\ unpack = 0
  /\ ReleaseTimestamp
  /\ dirs' = dirs \cup {stamp + 1}
  /\ bundles' = bundles \cup {stamp + 1}
  /\ NewTree
  /\ unpack' = stamp + 1
  /\ UNCHANGED <<rows, current, source, cont, tasks, req, rb, rs, sweep>>

\* Extracted: insert the row and deploy that directory.
UploadDeploy ==
  /\ unpack # 0
  /\ Insert(status, 0, unpack)
  /\ unpack' = 0
  /\ UNCHANGED <<disk, cont, req, rb, rs, sweep, calm>>

\* "Extract failed": no row, and the directory stays behind.
UploadFails ==
  /\ unpack # 0
  /\ unpack' = 0
  /\ UNCHANGED <<rows, disk, cont, tasks, req, rb, rs, sweep, calm>>

-----------------------------------------------------------------------------
(* deployApp, one action per stretch between awaits *)

Goto(i, next) == pc' = [pc EXCEPT ![i] = next]

\* The call is over and its local variables with it.
Return(i, how) ==
  /\ Goto(i, how)
  /\ rel' = [rel EXCEPT ![i] = 0]
  /\ prev' = [prev EXCEPT ![i] = 0]

\* What a step of deployApp may also do: throw into its catch block.
Throws(i, from) ==
  /\ pc[i] \in from
  /\ Goto(i, "failing")
  /\ UNCHANGED <<rows, disk, cont, rel, prev, calls>>

\* Directory set-up throws outside the try block: the row stays in flight.
PreambleThrows(i) ==
  /\ pc[i] = "admit"
  /\ Return(i, "thrown")
  /\ UNCHANGED <<rows, disk, cont, calls>>

\* Admitted: trim old releases, then use the directory the caller passed, ...
AdmitTree(i) ==
  /\ pc[i] = "admit" /\ rel[i] # 0
  /\ dirs' = Pruned(dirs)
  /\ Goto(i, "fetch")
  /\ UNCHANGED <<rows, stamp, bundles, bare, current, source, cont, rel, prev, calls>>

\* ... or clone into a new one, ...
AdmitClone(i) ==
  /\ pc[i] = "admit" /\ rel[i] = 0 /\ source = "git"
  /\ ReleaseTimestamp
  /\ dirs' = Pruned(dirs) \cup {stamp + 1}
  /\ NewTree
  /\ rel' = [rel EXCEPT ![i] = stamp + 1]
  /\ Goto(i, "fetch")
  /\ UNCHANGED <<rows, bundles, current, source, cont, prev, calls>>

\* ... or replay the newest upload; with none on disk the deploy fails.
AdmitReplay(i) ==
  /\ pc[i] = "admit" /\ rel[i] = 0 /\ source = "upload"
  /\ dirs' = Pruned(dirs)
  /\ LET uploads == Pruned(dirs) \cap bundles
     IN  \/ /\ uploads = {}
            /\ Goto(i, "failing")
            /\ UNCHANGED rel
         \/ /\ \E d \in uploads : /\ \A u \in uploads : u <= d
                                /\ rel' = [rel EXCEPT ![i] = d]
            /\ Goto(i, "fetch")
  /\ UNCHANGED <<rows, stamp, bundles, bare, current, source, cont, prev, calls>>

\* The release is in place and its manifest read: status = 'deploying'.
Fetch(i) ==
  /\ pc[i] = "fetch"
  /\ status' = [status EXCEPT ![i] = "deploying"]
  /\ Goto(i, "build")
  /\ UNCHANGED <<n, path, stale, disk, cont, rel, prev, calls>>

\* Image built; release check, supply-chain gate and pre-flight passed.
Build(i) ==
  /\ pc[i] = "build"
  /\ Goto(i, "capture")
  /\ UNCHANGED <<rows, disk, cont, rel, prev, calls>>

\* getContainerImage, for a later revert.
Capture(i) ==
  /\ pc[i] = "capture"
  /\ prev' = [prev EXCEPT ![i] = image]
  /\ Goto(i, "stop")
  /\ UNCHANGED <<rows, disk, cont, rel, calls>>

\* stopApp: `docker stop', then `docker rm -f'; it swallows the errors of both.
DockerStop ==
  \/ up' = "absent" /\ image' = 0
  \/ up' \in {up, "exited"} /\ up # "absent" /\ UNCHANGED image

\* runAppContainer throws: before its stop, after it, or in `docker run', which
\* may leave the container it created, or even started within its 60 seconds.
DockerRunFails(img) ==
  \/ DockerStop
  \/ up' \in {"running", "exited"} /\ image' = img

\* dockerStop of the version that serves.
StopOld(i) ==
  /\ pc[i] = "stop"
  /\ DockerStop
  /\ Goto(i, "inject")
  /\ UNCHANGED <<rows, disk, strays, rel, prev, calls>>

\* Environment, managed database and volumes are ready.
Inject(i) ==
  /\ pc[i] = "inject"
  /\ Goto(i, "start")
  /\ UNCHANGED <<rows, disk, cont, rel, prev, calls>>

\* dockerStart: whatever container has the name is replaced.
Start(i) ==
  /\ pc[i] = "start"
  /\ up' = "running"
  /\ image' = rel[i]
  /\ Goto(i, "probe")
  /\ UNCHANGED <<rows, disk, strays, rel, prev, calls>>

\* startApp refuses: memory or CPU admission, or a restore in progress.
StartRefused(i) ==
  /\ pc[i] = "start"
  /\ Goto(i, "refused")
  /\ UNCHANGED <<rows, disk, cont, rel, prev, calls>>

\* The deploy failed, and its container may be there all the same.
LeavesContainer(i) ==
  strays' = IF calm /\ image' = rel[i] THEN strays \cup {rel[i]} ELSE strays

\* The start fails: the catch block stops nothing.
StartFails(i) ==
  /\ pc[i] = "start"
  /\ DockerRunFails(rel[i])
  /\ LeavesContainer(i)
  /\ Goto(i, "failing")
  /\ UNCHANGED <<rows, disk, rel, prev, calls>>

\* Mutant: the row goes live without the symlink swap.
Publish_NoSwap(i) ==
  /\ status' = [status EXCEPT ![i] = "live"]
  /\ path' = [path EXCEPT ![i] = rel[i]]
  /\ Goto(i, "after")
  /\ UNCHANGED <<n, stale, disk, cont, rel, prev, calls>>

\* `current' resolves, and its tree holds package.json or deployhub.json.
Verified(d) == d \in dirs /\ d \notin bare

\* From the passed probe to the row, with no await: swap `current', verify what
\* it names, mark the row live (older live rows keep their status).  A release
\* that is not verified fails here, swapped in and with its container up.
Publish(i) ==
  /\ current' = rel[i]
  /\ \/ /\ Verified(rel[i])
        /\ status' = [status EXCEPT ![i] = "live"]
        /\ path' = [path EXCEPT ![i] = rel[i]]
        /\ strays' = {}
        /\ Goto(i, "after")
     \/ /\ ~Verified(rel[i])
        /\ strays' = IF calm THEN strays \cup {rel[i]} ELSE strays
        /\ Goto(i, "failing")
        /\ UNCHANGED <<status, path>>
  /\ UNCHANGED <<n, stale, stamp, dirs, bundles, bare, source, up, image, rel, prev, calls>>

\* The health probe of the port passed.
ProbePasses(i) ==
  /\ pc[i] = "probe"
  /\ up = "running"
  /\ Publish(i)

\* The probe failed or the container crashed at boot: dockerStop.
ProbeFails(i) ==
  /\ pc[i] = "probe"
  /\ DockerStop
  /\ LeavesContainer(i)
  /\ Goto(i, IF prev[i] = 0 THEN "failing" ELSE "revert")
  /\ UNCHANGED <<rows, disk, rel, prev, calls>>

\* Mutant: the revert starts the image of the failed release again.
Revert_SameImage(i) ==
  /\ pc[i] = "revert"
  /\ up' = "running"
  /\ image' = rel[i]
  /\ Goto(i, "failing")
  /\ UNCHANGED <<rows, disk, strays, rel, prev, calls>>

\* dockerStart(prevImage).catch(() => {}).
Revert(i) ==
  /\ pc[i] = "revert"
  /\ \/ up' = "running" /\ image' = prev[i]
     \/ DockerRunFails(prev[i])
  /\ Goto(i, "failing")
  /\ UNCHANGED <<rows, disk, strays, rel, prev, calls>>

\* Health endpoint, Caddy, asset probe, then the final trim.
After(i) ==
  /\ pc[i] = "after"
  /\ dirs' = Pruned(dirs)
  /\ Return(i, "done")
  /\ UNCHANGED <<rows, stamp, bundles, bare, current, source, cont, calls>>

\* The catch block: remove this attempt's directory unless `current' names it,
\* trim, then await the removal of the attempt's image ...
Fail(i) ==
  /\ pc[i] \in {"failing", "refused"}
  /\ dirs' = Pruned(IF rel[i] = current THEN dirs ELSE dirs \ {rel[i]})
  /\ Goto(i, "settle")
  /\ UNCHANGED <<rows, stamp, bundles, bare, current, source, cont, rel, prev, calls>>

\* ... and mark the row failed, whatever it says by now.
Settle(i) ==
  /\ pc[i] = "settle"
  /\ status' = [status EXCEPT ![i] = "failed"]
  /\ Return(i, "done")
  /\ UNCHANGED <<n, path, stale, disk, cont, calls>>

ThrowingPcs == {"admit", "fetch", "build", "inject"}

DeployStep(i) ==
  \/ PreambleThrows(i) \/ Throws(i, ThrowingPcs)
  \/ AdmitTree(i) \/ AdmitClone(i) \/ AdmitReplay(i)
  \/ Fetch(i) \/ Build(i) \/ Capture(i) \/ StopOld(i) \/ Inject(i)
  \/ Start(i) \/ StartRefused(i) \/ StartFails(i)
  \/ ProbePasses(i) \/ ProbeFails(i) \/ Revert(i) \/ After(i)
  \/ Fail(i) \/ Settle(i)

-----------------------------------------------------------------------------
(* POST /restart/:env *)

RestartInspect ==
  /\ MayStart("restart")
  /\ rs.at = "idle" /\ up # "absent"
  /\ rs' = [at |-> "inspected", image |-> image]
  /\ UNCHANGED <<rows, disk, cont, tasks, req, rb, sweep, unpack>>

\* Refused for memory, or the database block throws: nothing was stopped.
RestartRefused ==
  /\ rs.at = "inspected"
  /\ rs' = [at |-> "idle", image |-> 0]
  /\ UNCHANGED <<rows, disk, cont, tasks, req, rb, sweep, unpack, calm>>

RestartStop ==
  /\ rs.at = "inspected"
  /\ DockerStop
  /\ rs' = [rs EXCEPT !.at = "stopped"]
  /\ UNCHANGED <<rows, disk, strays, tasks, req, rb, sweep, unpack, calm>>

\* dockerStart of the image read at the start; the start itself may fail.
RestartStart ==
  /\ rs.at = "stopped"
  /\ \/ up' = "running" /\ image' = rs.image
     \/ DockerRunFails(rs.image)
  /\ rs' = [at |-> "idle", image |-> 0]
  /\ UNCHANGED <<rows, disk, strays, tasks, req, rb, sweep, unpack, calm>>

-----------------------------------------------------------------------------
(* services/containerRecovery.js: one sweep at a time, one recovery at a time *)

\* One `docker ps' and one read of the newest live row per env, for the whole
\* sweep; the envs found down are then recovered one after the other.
RecoverList ==
  /\ MayStart("recover")
  /\ sweep.at = "idle"
  /\ up # "running"
  /\ \E i \in LiveRows :
       /\ \A j \in LiveRows : j <= i
       /\ sweep' = [at |-> "listed", row |-> i, tree |-> 0]
  /\ UNCHANGED <<rows, disk, cont, tasks, req, rb, rs, unpack>>

\* This env's turn: the in-flight guard and restorePlan, then an await.
RecoverPlan ==
  /\ sweep.at = "listed"
  /\ ~FreshInflight
  /\ status' = Reclaim
  /\ LET onDisk == path[sweep.row] \in dirs
     IN  /\ onDisk \/ source = "git"
         /\ sweep' = [sweep EXCEPT !.at = "planned",
                        !.tree = IF onDisk THEN path[sweep.row] ELSE 0]
  /\ UNCHANGED <<n, path, stale, disk, cont, tasks, req, rb, rs, unpack, calm>>

\* A deploy is in flight, or the release is gone and there is no commit.
RecoverSkip ==
  /\ sweep.at = "listed"
  /\ FreshInflight \/ (path[sweep.row] \notin dirs /\ source = "upload")
  /\ status' = IF FreshInflight THEN status ELSE Reclaim
  /\ sweep' = [at |-> "idle", row |-> 0, tree |-> 0]
  /\ UNCHANGED <<n, path, stale, disk, cont, tasks, req, rb, rs, unpack, calm>>

\* The listed row is copied into a pending one and deployed.
RecoverInsert ==
  /\ sweep.at = "planned"
  /\ Insert(status, path[sweep.row], sweep.tree)
  /\ sweep' = [at |-> "waiting", row |-> n + 1, tree |-> 0]
  /\ UNCHANGED <<disk, cont, req, rb, rs, unpack, calm>>

\* deployApp settled; a row it left in flight is marked failed.
RecoverEnds ==
  /\ sweep.at = "waiting" /\ pc[sweep.row] \in {"thrown", "done"}
  /\ status' = [status EXCEPT ![sweep.row] =
                  IF pc[sweep.row] = "thrown" /\ @ \in {"pending", "deploying"}
                  THEN "failed" ELSE @]
  /\ pc' = [pc EXCEPT ![sweep.row] = "done"]
  /\ sweep' = [at |-> "idle", row |-> 0, tree |-> 0]
  /\ UNCHANGED <<n, path, stale, disk, cont, rel, prev, req, rb, rs, unpack, calm>>

-----------------------------------------------------------------------------
(* The environment *)

\* The app's process ends and Docker's on-failure:2 gives up, or it is removed.
ContainerGone ==
  /\ "exit" \in Ops
  /\ up = "running" /\ (Serial => Quiet)
  /\ \/ up' = "exited" /\ UNCHANGED image
     \/ up' = "absent" /\ image' = 0
  /\ UNCHANGED <<rows, disk, strays, tasks, calls>>

\* STALE_DEPLOY_SECONDS pass while row i is in flight, for older rows first.
GrowsStale(i) ==
  /\ "stale" \in Ops
  /\ i \in InFlight \ stale
  /\ \A j \in InFlight \ stale : i <= j
  /\ stale' = stale \cup {i}
  /\ UNCHANGED <<n, status, path, disk, cont, tasks, calls>>

\* Where `current' may point if the process dies inside a symlink swap: the
\* old link is removed and the new one made by two system calls.
MidSwap ==
  LET swapping == {rel[i] : i \in {j \in Ids : pc[j] = "probe" /\ up = "running"}}
                    \cup (IF rb # 0 /\ path[rb] \in dirs THEN {path[rb]} ELSE {})
  IN  {current} \cup swapping \cup (IF swapping # {} THEN {0} ELSE {})

\* Mutant: boot does not sweep the rows left in flight.
Crash_NoSweep ==
  /\ "crash" \in Ops /\ (Serial => Quiet)
  /\ current' \in MidSwap
  /\ pc' = [i \in Ids |-> IF pc[i] = "none" THEN "none" ELSE "done"]
  /\ rel' = [i \in Ids |-> 0] /\ prev' = [i \in Ids |-> 0]
  /\ req' = [r \in Reqs |-> "idle"]
  /\ rb' = 0
  /\ rs' = [at |-> "idle", image |-> 0]
  /\ sweep' = [at |-> "idle", row |-> 0, tree |-> 0]
  /\ unpack' = 0 /\ calm' = (calm /\ Quiet)
  /\ UNCHANGED <<rows, stamp, dirs, bundles, bare, source, cont>>

\* The server dies and boots: suspended calls are gone, rows left in flight are
\* marked failed, containers and files stay as they were.
Crash ==
  /\ "crash" \in Ops /\ (Serial => Quiet)
  /\ current' \in MidSwap
  /\ status' = Reclaim
  /\ pc' = [i \in Ids |-> IF pc[i] = "none" THEN "none" ELSE "done"]
  /\ rel' = [i \in Ids |-> 0] /\ prev' = [i \in Ids |-> 0]
  /\ req' = [r \in Reqs |-> "idle"]
  /\ rb' = 0
  /\ rs' = [at |-> "idle", image |-> 0]
  /\ sweep' = [at |-> "idle", row |-> 0, tree |-> 0]
  /\ unpack' = 0 /\ calm' = (calm /\ Quiet)
  /\ UNCHANGED <<n, path, stale, stamp, dirs, bundles, bare, source, cont>>

\* The bound on rows or timestamps is reached and nothing is left to do.
Exhausted == (n = MaxRows \/ stamp = MaxDirs) /\ UNCHANGED vars

Next ==
  \/ \E r \in Reqs : DeployRequest(r) \/ DeployInsert(r) \/ DeployRefused(r)
  \/ RollbackRequest \/ RollbackCommit \/ RollbackRefused
  \/ PromoteRebuild \/ PromoteCopy \/ Redeploy
  \/ UploadUnpack \/ UploadDeploy \/ UploadFails
  \/ \E i \in Ids : DeployStep(i) \/ GrowsStale(i)
  \/ RestartInspect \/ RestartRefused \/ RestartStop \/ RestartStart
  \/ RecoverList \/ RecoverPlan \/ RecoverSkip \/ RecoverInsert \/ RecoverEnds
  \/ ContainerGone \/ Crash
  \/ Exhausted

Spec == Init /\ [][Next]_vars

\* What the event loop and the clock owe: a suspended call goes on (every Docker
\* and git call has a timeout), and time passes.  Nobody has to call anything.
Fairness ==
  /\ \A i \in Ids : WF_vars(DeployStep(i)) /\ WF_vars(GrowsStale(i))
  /\ WF_vars(RecoverPlan) /\ WF_vars(RecoverSkip)
  /\ WF_vars(RecoverInsert) /\ WF_vars(RecoverEnds)

FairSpec == Spec /\ Fairness

-----------------------------------------------------------------------------
(* Properties of every regime *)

\* Whatever runs at the same time, no trim and no failing attempt removes the
\* directory `current' names ("which is NEVER deleted", pruneOldReleases).
CurrentSurvivesCleanup ==
  [][current' = current /\ current \in dirs => current \in dirs']_vars

\* A row in flight has a deployApp call that still runs, or one that threw
\* before its try block: boot and container recovery leave no row behind that
\* nothing will settle.
NoOrphanedRow == \A i \in InFlight : pc[i] # "done"

\* "A genuinely-stuck build can't wedge an app's deploys permanently": again
\* and again the in-flight guard lets a new deploy through.
NeverWedged == []<>~FreshInflight

-----------------------------------------------------------------------------
(* Properties while operations on the env do not overlap (calm) *)

\* At rest, a running container was created from the newest live release, over
\* any sequence of deploys, failures, reverts, rollbacks, restarts, recoveries;
\* unless a failed deploy since left its own: Docker did not remove it, or the
\* swapped-in release had no manifest, and nothing reverts that.
ServesTheLiveRelease ==
  calm /\ Quiet /\ up = "running" /\ LiveRows # {} =>
    image = path[Max(LiveRows)] \/ image \in strays

\* At rest, `current' names the newest live release and its directory exists:
\* the release a rollback, a restart or a recovery would need is on disk.  The
\* exception is a deploy that failed its verification after the swap.
LiveReleaseIsCurrent ==
  calm /\ Quiet /\ LiveRows # {} =>
    \/ current = path[Max(LiveRows)] /\ current \in dirs
    \/ current \in strays

-----------------------------------------------------------------------------
(* What comments of the code say, and the code does not do *)

\* The in-flight guard: one deploy per app and env at a time.
OneDeployAtATime == Cardinality(Running) <= 1

\* After a failed deploy `current' still points at the release that serves.
CurrentIsWhatServes ==
  Quiet /\ up = "running" /\ image \notin strays /\ (\A i \in Ids : pc[i] # "thrown")
    => current = image

\* A start refused for memory, CPU or a restore leaves the old version running.
RefusalKeepsServing ==
  \A i \in Ids : pc[i] = "refused" /\ prev[i] \notin {0} \cup strays => up = "running"

\* Container recovery re-runs the newest live release.
RecoveryRunsLiveRelease ==
  [][sweep.at = "planned" /\ sweep'.at = "waiting"
       => path'[sweep'.row] = path[Max(LiveRows)]]_vars

\* A redeploy of an upload app replays the release it is running.
RedeployReplaysCurrent ==
  [][\A i \in Ids :
       /\ source = "upload" /\ pc[i] = "admit" /\ pc'[i] = "fetch"
       /\ rel[i] = 0 /\ current # 0
       => rel'[i] = current]_vars

\* A rollback with no id goes back to another release than the live one.
RollbackGoesBack ==
  Quiet /\ LiveRows # {} /\ Cardinality(Restorable) > 1
    => path[DefaultTarget] # path[Max(LiveRows)]
=============================================================================
