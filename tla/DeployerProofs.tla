--------------------------- MODULE DeployerProofs ---------------------------
(***************************************************************************)
(* Proofs about Deployer for any number of rows, releases and requests,    *)
(* any operations and any interleaving of them: the types, that no trim    *)
(* and no failing attempt removes the directory `current' names, and that  *)
(* every row in flight still has a call that will settle it.  Then, as     *)
(* long as operations have not overlapped (calm), that the newest live     *)
(* release is the current one, is on disk, and is what the container runs, *)
(* but for what a deploy that failed left in its place (strays).           *)
(***************************************************************************)
EXTENDS Deployer, TLAPS, FiniteSetTheorems, WellFoundedInduction

-----------------------------------------------------------------------------
(* pruneOldReleases *)

\* A trim keeps the current release, and makes no directory.
LEMMA PrunedKeepsCurrent ==
  ASSUME NEW D
  PROVE  Pruned(D) \subseteq D /\ (current \in D => current \in Pruned(D))
BY DEF Pruned

-----------------------------------------------------------------------------
(* The current release stays on disk *)

\* The actions that leave every release directory alone.
LEMMA DirsUntouched ==
  ASSUME [Next]_vars, dirs' # dirs
  PROVE  \/ PromoteCopy \/ UploadUnpack
         \/ \E i \in Ids : AdmitTree(i) \/ AdmitClone(i) \/ AdmitReplay(i)
                             \/ After(i) \/ Fail(i)
<1> USE DEF disk
<1>1. ASSUME NEW r \in Reqs, DeployRequest(r) \/ DeployInsert(r) \/ DeployRefused(r)
      PROVE  FALSE
  BY <1>1 DEF DeployRequest, DeployInsert, DeployRefused
<1>2. ~(RollbackRequest \/ RollbackCommit \/ RollbackRefused \/ PromoteRebuild \/ Redeploy)
  BY DEF RollbackRequest, RollbackCommit, RollbackRefused, PromoteRebuild, Redeploy
<1>3. ~(UploadDeploy \/ UploadFails)
  BY DEF UploadDeploy, UploadFails
<1>4. ASSUME NEW i \in Ids,
             \/ PreambleThrows(i) \/ Throws(i, ThrowingPcs)
             \/ Fetch(i) \/ Build(i) \/ Capture(i) \/ StopOld(i) \/ Inject(i)
             \/ Start(i) \/ StartRefused(i) \/ StartFails(i)
             \/ ProbePasses(i) \/ ProbeFails(i) \/ Revert(i) \/ Settle(i) \/ GrowsStale(i)
      PROVE  FALSE
  BY <1>4 DEF PreambleThrows, Throws, Fetch, Build, Capture, StopOld, Inject, Start,
              StartRefused, StartFails, ProbePasses, Publish, ProbeFails, Revert, Settle,
              GrowsStale
<1>5. ~(RestartInspect \/ RestartRefused \/ RestartStop \/ RestartStart)
  BY DEF RestartInspect, RestartRefused, RestartStop, RestartStart
<1>6. ~(RecoverList \/ RecoverPlan \/ RecoverSkip \/ RecoverInsert \/ RecoverEnds)
  BY DEF RecoverList, RecoverPlan, RecoverSkip, RecoverInsert, RecoverEnds
<1>7. ~(ContainerGone \/ Crash \/ Exhausted \/ UNCHANGED vars)
  BY DEF ContainerGone, Crash, Exhausted, vars
<1> QED
  BY <1>1, <1>2, <1>3, <1>4, <1>5, <1>6, <1>7 DEF Next, DeployStep

\* Whatever runs, however it interleaves and wherever the server dies, a step
\* that leaves `current' alone leaves the directory it names on disk.
THEOREM CurrentIsNeverDeleted == Spec => CurrentSurvivesCleanup
<1>1. ASSUME [Next]_vars, current' = current, current \in dirs
      PROVE  current \in dirs'
  <2>1. CASE dirs' = dirs
    BY <1>1, <2>1
  <2>2. CASE PromoteCopy \/ UploadUnpack
    BY <1>1, <2>2 DEF PromoteCopy, UploadUnpack
  <2>3. CASE \E i \in Ids : AdmitTree(i) \/ AdmitClone(i) \/ AdmitReplay(i) \/ After(i)
    BY <1>1, <2>3, PrunedKeepsCurrent DEF AdmitTree, AdmitClone, AdmitReplay, After
  <2>4. CASE \E i \in Ids : Fail(i)
    <3>1. PICK i \in Ids : dirs' = Pruned(IF rel[i] = current THEN dirs ELSE dirs \ {rel[i]})
      BY <2>4 DEF Fail
    <3>2. current \in (IF rel[i] = current THEN dirs ELSE dirs \ {rel[i]})
      BY <1>1
    <3> QED
      BY <3>1, <3>2, PrunedKeepsCurrent
  <2> QED
    BY <1>1, <2>1, <2>2, <2>3, <2>4, DirsUntouched
<1>2. [Next]_vars => [current' = current /\ current \in dirs => current \in dirs']_vars
  BY <1>1
<1> QED
  BY <1>2, PTL DEF Spec, CurrentSurvivesCleanup

-----------------------------------------------------------------------------
(* Types, one group of variables at a time *)

RowTypes ==
  /\ n \in 0..MaxRows
  /\ status \in [Ids -> Statuses]
  /\ \A i \in Ids : status[i] = "none" <=> i > n
  /\ path \in [Ids -> 0..stamp]
  /\ stale \in SUBSET Ids

DiskTypes ==
  /\ stamp \in 0..MaxDirs
  /\ dirs \in SUBSET (1..stamp)
  /\ bundles \in SUBSET (1..stamp)
  /\ bare \in SUBSET (1..stamp)
  /\ current \in 0..stamp
  /\ source \in Sources

ContTypes ==
  /\ up \in {"absent", "running", "exited"}
  /\ image \in 0..stamp
  /\ up = "absent" => image = 0
  /\ strays \in SUBSET (0..stamp)

TaskTypes ==
  /\ pc \in [Ids -> TaskPcs]
  /\ \A i \in Ids : pc[i] # "none" => i <= n
  /\ rel \in [Ids -> 0..stamp]
  /\ prev \in [Ids -> 0..stamp]

CallTypes ==
  /\ req \in [Reqs -> {"idle", "checking"}]
  /\ rb \in 0..MaxRows
  /\ rs \in [at : {"idle", "inspected", "stopped"}, image : 0..stamp]
  /\ sweep \in [at : {"idle", "listed", "planned", "waiting"},
                row : 0..MaxRows, tree : 0..stamp]
  /\ sweep.at # "idle" => sweep.row # 0
  /\ unpack \in 0..stamp
  /\ calm \in BOOLEAN

\* TypeOK is the five groups of typings together.
LEMMA TypeGroups ==
  /\ TypeOK => RowTypes /\ DiskTypes /\ ContTypes /\ TaskTypes /\ CallTypes
  /\ RowTypes' /\ DiskTypes' /\ ContTypes' /\ TaskTypes' /\ CallTypes' => TypeOK'
BY DEF TypeOK, RowTypes, DiskTypes, ContTypes, TaskTypes, CallTypes

\* Stamps and rows only grow, so what is not assigned keeps its type.
Grows == stamp' \in 0..MaxDirs /\ stamp <= stamp'
MoreRows == n' \in 0..MaxRows /\ n <= n'

\* A group no step assigns stays typed while stamps and rows grow.
LEMMA KeptTypes ==
  ASSUME TypeOK, Grows
  PROVE  /\ UNCHANGED rows => RowTypes'
         /\ UNCHANGED cont => ContTypes'
         /\ MoreRows /\ UNCHANGED tasks => TaskTypes'
         /\ UNCHANGED calls => CallTypes'
<1>1. stamp \in 0..MaxDirs /\ 0..stamp \subseteq 0..stamp'
  BY DeployerConstants DEF TypeOK, Grows
<1>2. \A f \in [Ids -> 0..stamp] : f \in [Ids -> 0..stamp']
  BY <1>1
<1>3. UNCHANGED rows => RowTypes'
  BY <1>2 DEF TypeOK, RowTypes, rows
<1>4. UNCHANGED cont => ContTypes'
  BY <1>1 DEF TypeOK, ContTypes, cont
<1>5. MoreRows /\ UNCHANGED tasks => TaskTypes'
  <2>1. ASSUME MoreRows, NEW i \in Ids, pc[i] # "none"
        PROVE  i <= n'
    BY <2>1, DeployerConstants DEF TypeOK, MoreRows, Ids
  <2>2. UNCHANGED tasks => /\ pc' \in [Ids -> TaskPcs] /\ UNCHANGED pc
                           /\ rel' \in [Ids -> 0..stamp'] /\ prev' \in [Ids -> 0..stamp']
    BY <1>2 DEF TypeOK, tasks
  <2> QED
    BY <2>1, <2>2 DEF TaskTypes
<1>6. UNCHANGED calls => CallTypes'
  BY <1>1 DEF TypeOK, CallTypes, calls
<1> QED
  BY <1>3, <1>4, <1>5, <1>6

\* A row is inserted with a stamped path and a stamped tree.
LEMMA InsertTypes ==
  ASSUME TypeOK, UNCHANGED stamp,
         NEW st \in [Ids -> Statuses], \A i \in Ids : st[i] = "none" <=> i > n,
         NEW p \in 0..stamp, NEW tree \in 0..stamp, Insert(st, p, tree)
  PROVE  RowTypes' /\ TaskTypes' /\ n' \in Ids
<1>1. n + 1 \in Ids /\ n \in 0..MaxRows /\ n' = n + 1
  BY DeployerConstants DEF TypeOK, Insert, Ids
<1>2. status' \in [Ids -> Statuses] /\ path' \in [Ids -> 0..stamp]
  BY DEF TypeOK, Insert, Statuses
<1>3. \A i \in Ids : status'[i] = "none" <=> i > n'
  BY <1>1, DeployerConstants DEF Insert, Ids
<1>4. stale' \in SUBSET Ids
  BY DEF TypeOK, Insert
<1>5. /\ pc' \in [Ids -> TaskPcs] /\ rel' \in [Ids -> 0..stamp] /\ prev' \in [Ids -> 0..stamp]
      /\ \A i \in Ids : pc'[i] # "none" => i <= n'
  BY <1>1, DeployerConstants DEF TypeOK, Insert, TaskPcs, Ids
<1>6. n' \in 0..MaxRows
  BY <1>1, DeployerConstants DEF Ids
<1> QED
  BY <1>1, <1>2, <1>3, <1>4, <1>5, <1>6 DEF RowTypes, TaskTypes

\* Demoting and reclaiming rows changes no row that was never inserted.
LEMMA RewriteTypes ==
  ASSUME TypeOK, NEW st \in {status, Reclaim, Demoted}
  PROVE  st \in [Ids -> Statuses] /\ \A i \in Ids : st[i] = "none" <=> i > n
BY DEF TypeOK, Reclaim, Demoted, Statuses, InFlight

\* A step that inserts nothing keeps the number of rows.
LEMMA KeptRows ==
  TypeOK /\ (UNCHANGED n \/ UNCHANGED rows) => MoreRows
BY DeployerConstants DEF TypeOK, MoreRows, rows

\* One row's call moves on.
LEMMA GotoTypes ==
  ASSUME TypeOK, UNCHANGED stamp, NEW i \in Ids, NEW next \in TaskPcs, Goto(i, next)
  PROVE  i <= n /\ UNCHANGED <<n, rel, prev>> => TaskTypes'
BY DEF TypeOK, TaskTypes, Goto

\* A call that returns clears its locals.
LEMMA ReturnTypes ==
  ASSUME TypeOK, UNCHANGED stamp, NEW i \in Ids, NEW how \in TaskPcs, Return(i, how)
  PROVE  i <= n /\ UNCHANGED n => TaskTypes'
<1>1. 0 \in 0..stamp
  BY DEF TypeOK
<1> QED
  BY <1>1 DEF TypeOK, TaskTypes, Return, Goto

\* A step that leaves the disk alone keeps its types and its stamps.
LEMMA KeptDisk ==
  ASSUME TypeOK, UNCHANGED disk
  PROVE  DiskTypes' /\ Grows /\ UNCHANGED stamp
BY DeployerConstants DEF TypeOK, DiskTypes, Grows, disk

\* The history of overlaps is a Boolean.
LEMMA CalmTypes ==
  ASSUME NEW op, MayStart(op)
  PROVE  calm' \in BOOLEAN
<1>1. (calm /\ Quiet) \in BOOLEAN
  OBVIOUS
<1> QED
  BY <1>1, Zenon DEF MayStart

\* A step that makes one release keeps the stamps growing.
LEMMA NewTreeTypes ==
  ASSUME TypeOK, ReleaseTimestamp, NewTree
  PROVE  bare' \in SUBSET (1..stamp')
<1>1. bare \in SUBSET (1..stamp)
  BY DEF TypeOK
<1>3. stamp \in Nat /\ stamp' = stamp + 1
  BY DeployerConstants DEF TypeOK, ReleaseTimestamp
<1>2. bare' = bare \/ bare' = bare \cup {stamp + 1}
  BY DEF NewTree
<1>4. ASSUME NEW d \in bare'
      PROVE  d \in 1..stamp'
  <2>1. d \in 1..stamp \/ d = stamp + 1
    BY <1>1, <1>2, <1>4
  <2> QED
    BY <1>3, <2>1
<1> QED
  BY <1>4

\* Handlers of POST /deploy, rollbackApp, promoteApp and uploads.
LEMMA CallerTypes ==
  ASSUME TypeOK,
         \/ \E r \in Reqs : DeployRequest(r) \/ DeployInsert(r) \/ DeployRefused(r)
         \/ RollbackRequest \/ RollbackCommit \/ RollbackRefused
         \/ PromoteRebuild \/ PromoteCopy \/ Redeploy
         \/ UploadUnpack \/ UploadDeploy \/ UploadFails
  PROVE  TypeOK'
<1>0. 0 \in 0..stamp /\ stamp \in Nat
  BY DeployerConstants DEF TypeOK
<1>1. ASSUME NEW r \in Reqs, DeployRequest(r)
      PROVE  TypeOK'
  <2>1. RowTypes'
    BY <1>1, RewriteTypes DEF DeployRequest, TypeOK, RowTypes, disk
  <2>2. CallTypes'
    <3>1. calm' \in BOOLEAN
      BY <1>1, CalmTypes DEF DeployRequest
    <3> QED
      BY <1>1, <3>1 DEF DeployRequest, TypeOK, CallTypes, disk
  <2> QED
    BY <1>1, <2>1, <2>2, KeptDisk, KeptTypes, KeptRows, TypeGroups DEF DeployRequest
<1>2. ASSUME NEW r \in Reqs, DeployInsert(r)
      PROVE  TypeOK'
  <2>1. RowTypes' /\ TaskTypes'
    BY <1>0, <1>2, KeptDisk, InsertTypes, RewriteTypes DEF DeployInsert
  <2>2. CallTypes'
    BY <1>2 DEF DeployInsert, TypeOK, CallTypes, disk
  <2> QED
    BY <1>2, <2>1, <2>2, KeptDisk, KeptTypes, TypeGroups DEF DeployInsert
<1>3. ASSUME NEW r \in Reqs, DeployRefused(r)
      PROVE  TypeOK'
  <2>1. CASE UNCHANGED rows
    <3>1. CallTypes'
      BY <1>3 DEF DeployRefused, TypeOK, CallTypes, disk
    <3> QED
      BY <1>3, <2>1, <3>1, KeptDisk, KeptRows, KeptTypes, TypeGroups DEF DeployRefused
  <2>2. CASE /\ n < MaxRows /\ n' = n + 1
             /\ status' = [status EXCEPT ![n + 1] = "failed"]
             /\ UNCHANGED <<path, stale>>
    <3>1. RowTypes'
      <4>1. UNCHANGED stamp
        BY <1>3, KeptDisk DEF DeployRefused
      <4>2. RowTypes /\ "failed" \in Statuses
        BY TypeGroups DEF Statuses
      <4> QED
        BY <2>2, <4>1, <4>2, DeployerConstants DEF RowTypes, Ids
    <3>2. CallTypes'
      BY <1>3 DEF DeployRefused, TypeOK, CallTypes, disk
    <3>3. MoreRows
      BY <2>2, DeployerConstants DEF TypeOK, MoreRows
    <3> QED
      BY <1>3, <3>1, <3>2, <3>3, KeptDisk, KeptTypes, TypeGroups DEF DeployRefused
  <2> QED
    BY <1>3, <2>1, <2>2 DEF DeployRefused
<1>4. CASE RollbackRequest \/ RollbackRefused
  <2>1. CallTypes'
    <3>1. rb' \in 0..MaxRows /\ UNCHANGED <<stamp, req, rs, sweep, unpack>>
      BY <1>4, KeptDisk, DeployerConstants
         DEF RollbackRequest, RollbackRefused, Restorable, Ids
    <3>2. calm' \in BOOLEAN
      BY <1>4, CalmTypes DEF RollbackRequest, RollbackRefused, TypeOK
    <3> QED
      BY <3>1, <3>2, TypeGroups DEF CallTypes
  <2> QED
    BY <1>4, <2>1, KeptDisk, KeptRows, KeptTypes, TypeGroups DEF RollbackRequest, RollbackRefused
<1>5. CASE RollbackCommit
  <2>1. rb \in Ids /\ path[rb] \in 0..stamp
    BY <1>5, DeployerConstants DEF RollbackCommit, TypeOK, Ids
  <2>2. DiskTypes' /\ Grows /\ UNCHANGED stamp
    BY <1>5, <2>1, DeployerConstants DEF RollbackCommit, TypeOK, DiskTypes, Grows
  <2>3. RowTypes' /\ TaskTypes'
    BY <1>5, <2>1, <2>2, InsertTypes, RewriteTypes DEF RollbackCommit
  <2>4. CallTypes'
    <3>1. rb' \in 0..MaxRows /\ UNCHANGED <<stamp, req, rs, sweep, unpack, calm>>
      BY <1>5, DeployerConstants DEF RollbackCommit
    <3> QED
      BY <3>1, TypeGroups DEF CallTypes
  <2> QED
    BY <1>5, <2>2, <2>3, <2>4, KeptTypes, TypeGroups DEF RollbackCommit
<1>6. CASE PromoteRebuild \/ Redeploy
  <2>1. RowTypes' /\ TaskTypes'
    BY <1>0, <1>6, KeptDisk, InsertTypes, RewriteTypes DEF PromoteRebuild, Redeploy
  <2>2. CallTypes'
    <3>1. calm' \in BOOLEAN
      BY <1>6, CalmTypes DEF PromoteRebuild, Redeploy
    <3> QED
      BY <1>6, <3>1, KeptDisk DEF PromoteRebuild, Redeploy, TypeOK, CallTypes
  <2> QED
    BY <1>6, <2>1, <2>2, KeptDisk, KeptTypes, TypeGroups DEF PromoteRebuild, Redeploy
<1>7. CASE PromoteCopy
  <2>1. /\ stamp' = stamp + 1 /\ stamp' \in 0..MaxDirs /\ Grows
        /\ n + 1 \in Ids /\ n' = n + 1
    BY <1>7, DeployerConstants DEF PromoteCopy, ReleaseTimestamp, TypeOK, Grows, Ids
  <2>2. DiskTypes'
    BY <1>7, <2>1 DEF PromoteCopy, TypeOK, DiskTypes
  <2>3. \A f \in [Ids -> 0..stamp] :
          f \in [Ids -> 0..stamp'] /\ [f EXCEPT ![n + 1] = stamp + 1] \in [Ids -> 0..stamp']
    BY <1>0, <2>1
  <2>4. RowTypes'
    <3>1. path' \in [Ids -> 0..stamp']
      BY <1>7, <2>3 DEF PromoteCopy, TypeOK
    <3>2. status' \in [Ids -> Statuses] /\ \A i \in Ids : status'[i] = "none" <=> i > n'
      <4>1. PICK st \in {status, Demoted}, w \in {"deploying", "failed"} :
              status' = [st EXCEPT ![n + 1] = w]
        BY <1>7 DEF PromoteCopy
      <4>2. st \in [Ids -> Statuses] /\ \A i \in Ids : st[i] = "none" <=> i > n
        BY RewriteTypes
      <4>3. w \in Statuses /\ w # "none" /\ n \in 0..MaxRows
        BY DEF Statuses, TypeOK
      <4> QED
        BY <2>1, <4>1, <4>2, <4>3, DeployerConstants DEF Ids
    <3>3. n' \in 0..MaxRows /\ stale' \in SUBSET Ids
      BY <1>7, <2>1, DeployerConstants DEF PromoteCopy, TypeOK, Ids
    <3> QED
      BY <3>1, <3>2, <3>3 DEF RowTypes
  <2>5. TaskTypes'
    <3>1. rel' \in [Ids -> 0..stamp'] /\ prev' \in [Ids -> 0..stamp']
      BY <1>7, <2>3 DEF PromoteCopy, TypeOK
    <3>2. pc' = pc \/ pc' = [pc EXCEPT ![n + 1] = "admit"]
      BY <1>7 DEF PromoteCopy
    <3>3. pc' \in [Ids -> TaskPcs] /\ \A i \in Ids : pc'[i] # "none" => i <= n'
      <4>1. TaskTypes /\ "admit" \in TaskPcs /\ n \in 0..MaxRows
        BY TypeGroups DEF TaskPcs, RowTypes
      <4>2. pc' \in [Ids -> TaskPcs]
        BY <2>1, <3>2, <4>1 DEF TaskTypes
      <4>3. ASSUME NEW j \in Ids, pc'[j] # "none"
            PROVE  j = n + 1 \/ j <= n
        BY <2>1, <3>2, <4>1, <4>3 DEF TaskTypes
      <4> QED
        BY <2>1, <4>1, <4>2, <4>3, DeployerConstants DEF Ids
    <3> QED
      BY <3>1, <3>3 DEF TaskTypes
  <2>6. CallTypes'
    <3>1. calm' \in BOOLEAN
      BY <1>7, CalmTypes DEF PromoteCopy
    <3> QED
      BY <1>7, <2>1, <3>1 DEF PromoteCopy, TypeOK, CallTypes
  <2> QED
    BY <1>7, <2>1, <2>2, <2>4, <2>5, <2>6, KeptTypes, TypeGroups DEF PromoteCopy
<1>8. CASE UploadUnpack
  <2>1. stamp' = stamp + 1 /\ stamp' \in 0..MaxDirs /\ Grows
    BY <1>8, DeployerConstants DEF UploadUnpack, ReleaseTimestamp, TypeOK, Grows
  <2>2. DiskTypes'
    BY <1>8, <2>1, NewTreeTypes DEF UploadUnpack, TypeOK, DiskTypes
  <2>3. CallTypes'
    <3>1. calm' \in BOOLEAN
      BY <1>8, CalmTypes DEF UploadUnpack
    <3> QED
      BY <1>8, <2>1, <3>1 DEF UploadUnpack, TypeOK, CallTypes
  <2> QED
    BY <1>8, <2>1, <2>2, <2>3, KeptRows, KeptTypes, TypeGroups DEF UploadUnpack
<1>9. CASE UploadDeploy
  <2>1. unpack \in 0..stamp
    BY DEF TypeOK
  <2>2. RowTypes' /\ TaskTypes'
    BY <1>0, <1>9, <2>1, KeptDisk, InsertTypes, RewriteTypes DEF UploadDeploy
  <2>3. CallTypes'
    BY <1>0, <1>9, KeptDisk DEF UploadDeploy, TypeOK, CallTypes
  <2> QED
    BY <1>9, <2>2, <2>3, KeptDisk, KeptTypes, TypeGroups DEF UploadDeploy
<1>10. CASE UploadFails
  <2>1. CallTypes'
    BY <1>0, <1>10, KeptDisk DEF UploadFails, TypeOK, CallTypes
  <2> QED
    BY <1>10, <2>1, KeptDisk, KeptRows, KeptTypes, TypeGroups DEF UploadFails
<1> QED
  BY <1>1, <1>2, <1>3, <1>4, <1>5, <1>6, <1>7, <1>8, <1>9, <1>10

\* The stretches of deployApp that change only where the call is suspended.
LEMMA MoveTypes ==
  ASSUME TypeOK, NEW i \in Ids,
         \/ PreambleThrows(i) \/ Throws(i, ThrowingPcs) \/ Build(i) \/ Inject(i)
         \/ StartRefused(i)
  PROVE  TypeOK'
<1>1. {"thrown", "failing", "capture", "start", "refused"} \subseteq TaskPcs
  BY DEF TaskPcs
<1>2. UNCHANGED disk
  BY DEF PreambleThrows, Throws, Build, Inject, StartRefused
<1>3. UNCHANGED stamp /\ DiskTypes' /\ Grows
  BY <1>2, KeptDisk
<1>4. TaskTypes'
  <2>1. i <= n
    BY DEF TypeOK, PreambleThrows, Throws, ThrowingPcs, Build, Inject, StartRefused
  <2>2. UNCHANGED n
    BY DEF PreambleThrows, Throws, Build, Inject, StartRefused, rows
  <2> QED
    BY <1>1, <1>3, <2>1, <2>2, GotoTypes, ReturnTypes DEF PreambleThrows, Throws, Build, Inject, StartRefused
<1>5. UNCHANGED <<rows, cont, calls>>
  BY DEF PreambleThrows, Throws, Build, Inject, StartRefused
<1> QED
  BY <1>3, <1>4, <1>5, KeptTypes, TypeGroups

\* Admission: the trim makes no directory, a clone makes one with a new stamp.
LEMMA AdmitTypes ==
  ASSUME TypeOK, NEW i \in Ids, AdmitTree(i) \/ AdmitClone(i) \/ AdmitReplay(i)
  PROVE  TypeOK'
<1>0. {"fetch", "failing"} \subseteq TaskPcs
  BY DEF TaskPcs
<1>1. /\ DiskTypes /\ TaskTypes /\ i <= n /\ UNCHANGED n
      /\ stamp \in 0..MaxDirs /\ Pruned(dirs) \in SUBSET (1..stamp)
  BY TypeGroups, PrunedKeepsCurrent
     DEF DiskTypes, TaskTypes, AdmitTree, AdmitClone, AdmitReplay, rows
<1>2. CASE AdmitTree(i)
  <2>1. DiskTypes' /\ Grows /\ UNCHANGED stamp
    BY <1>1, <1>2, DeployerConstants DEF AdmitTree, DiskTypes, Grows
  <2> QED
    BY <1>0, <1>1, <1>2, <2>1, GotoTypes, KeptTypes, TypeGroups DEF AdmitTree
<1>3. CASE AdmitClone(i)
  <2>1. stamp' = stamp + 1 /\ stamp' \in 0..MaxDirs /\ Grows /\ stamp \in Nat
    BY <1>1, <1>3, DeployerConstants DEF AdmitClone, ReleaseTimestamp, DiskTypes, Grows
  <2>2. DiskTypes'
    BY <1>1, <1>3, <2>1, NewTreeTypes DEF AdmitClone, DiskTypes
  <2>3. TaskTypes'
    <3>1. \A f \in [Ids -> 0..stamp] :
            f \in [Ids -> 0..stamp'] /\ [f EXCEPT ![i] = stamp + 1] \in [Ids -> 0..stamp']
      BY <2>1
    <3> QED
      BY <1>0, <1>1, <1>3, <3>1 DEF AdmitClone, TaskTypes, Goto, rows
  <2> QED
    BY <1>3, <2>1, <2>2, <2>3, KeptTypes, TypeGroups DEF AdmitClone
<1>4. CASE AdmitReplay(i)
  <2>1. DiskTypes' /\ Grows /\ UNCHANGED stamp
    BY <1>1, <1>4, DeployerConstants DEF AdmitReplay, DiskTypes, Grows
  <2>2. Pruned(dirs) \cap bundles \subseteq 0..stamp
    BY <1>1, DeployerConstants DEF DiskTypes
  <2>3. /\ rel' = rel \/ \E d \in 0..stamp : rel' = [rel EXCEPT ![i] = d]
        /\ Goto(i, "fetch") \/ Goto(i, "failing")
        /\ UNCHANGED prev
    BY <1>4, <2>2 DEF AdmitReplay
  <2>4. TaskTypes'
    BY <1>0, <1>1, <2>1, <2>3 DEF TaskTypes, Goto
  <2> QED
    BY <1>4, <2>1, <2>4, KeptTypes, TypeGroups DEF AdmitReplay
<1> QED
  BY <1>2, <1>3, <1>4

\* From the fetch to the last status update.
LEMMA ReleaseTypes ==
  ASSUME TypeOK, NEW i \in Ids,
         \/ Fetch(i) \/ Capture(i) \/ StopOld(i) \/ Start(i) \/ StartFails(i)
         \/ ProbePasses(i) \/ ProbeFails(i) \/ Revert(i) \/ After(i) \/ Fail(i)
         \/ Settle(i) \/ GrowsStale(i)
  PROVE  TypeOK'
<1>0. /\ {"build", "stop", "inject", "probe", "failing", "revert", "after", "settle",
          "done"} \subseteq TaskPcs
      /\ {"deploying", "live", "failed"} \subseteq Statuses \ {"none"}
  BY DEF TaskPcs, Statuses
<1>1. RowTypes /\ DiskTypes /\ ContTypes /\ TaskTypes /\ stamp \in 0..MaxDirs /\ 0 \in 0..stamp
  BY TypeGroups, DeployerConstants DEF DiskTypes
<1>2. rel[i] \in 0..stamp /\ prev[i] \in 0..stamp
  BY <1>1 DEF TaskTypes
<1>3. ASSUME NEW w \in Statuses \ {"none"}, i <= n,
             status' = [status EXCEPT ![i] = w], UNCHANGED <<n, stamp, stale>>,
             path' = path \/ path' = [path EXCEPT ![i] = rel[i]]
      PROVE  RowTypes'
  BY <1>1, <1>2, <1>3, DeployerConstants DEF RowTypes, Ids
<1>4. ASSUME i <= n, UNCHANGED <<n, stamp>>, NEW w \in TaskPcs,
             Goto(i, w), rel' = rel,
             prev' = prev \/ \E x \in 0..stamp : prev' = [prev EXCEPT ![i] = x]
      PROVE  TaskTypes'
  BY <1>1, <1>4 DEF TaskTypes, Goto
<1>5. CASE Fetch(i) \/ Settle(i)
  <2>1. i <= n /\ UNCHANGED disk
    BY <1>1, <1>5 DEF Fetch, Settle, TaskTypes
  <2>2. UNCHANGED stamp
    BY <2>1, KeptDisk
  <2>3. RowTypes'
    BY <1>0, <1>3, <1>5, <2>1, <2>2 DEF Fetch, Settle
  <2>4. TaskTypes'
    BY <1>0, <1>4, <1>5, <2>1, <2>2, ReturnTypes DEF Fetch, Settle
  <2> QED
    BY <1>5, <2>1, <2>3, <2>4, KeptDisk, KeptTypes, TypeGroups DEF Fetch, Settle
<1>6. CASE Capture(i)
  <2>1. i <= n /\ UNCHANGED <<n, stamp>>
    BY <1>1, <1>6, KeptDisk DEF Capture, TaskTypes, rows
  <2>2. TaskTypes'
    BY <1>0, <1>1, <1>4, <1>6, <2>1 DEF Capture, ContTypes
  <2> QED
    BY <1>6, <2>2, KeptDisk, KeptTypes, TypeGroups DEF Capture
<1>7. CASE StopOld(i) \/ Start(i) \/ StartFails(i) \/ ProbeFails(i) \/ Revert(i)
  <2>1. i <= n /\ UNCHANGED <<n, stamp>> /\ UNCHANGED <<rows, disk, calls, rel, prev>>
    BY <1>1, <1>7, KeptDisk
       DEF StopOld, Start, StartFails, ProbeFails, Revert, TaskTypes, rows
  <2>2. \E w \in TaskPcs : Goto(i, w)
    BY <1>0, <1>7 DEF StopOld, Start, StartFails, ProbeFails, Revert
  <2>3. TaskTypes'
    BY <1>4, <2>1, <2>2
  <2>4. ContTypes'
    <3>1. /\ up' \in {"absent", "running", "exited"} /\ image' \in {0, image, rel[i], prev[i]}
          /\ up' = "absent" => image' = 0
      BY <1>1, <1>7
         DEF StopOld, Start, StartFails, ProbeFails, Revert, ContTypes, DockerStop, DockerRunFails
    <3>2. strays' \in {strays, strays \cup {rel[i]}}
      BY <1>7 DEF StopOld, Start, StartFails, ProbeFails, Revert, LeavesContainer
    <3> QED
      BY <1>1, <1>2, <2>1, <3>1, <3>2 DEF ContTypes
  <2> QED
    BY <2>1, <2>3, <2>4, KeptDisk, KeptTypes, TypeGroups
<1>8. CASE ProbePasses(i)
  <2>1. /\ i <= n
        /\ UNCHANGED <<n, stale, stamp, dirs, bundles, bare, source, up, image, rel, prev, calls>>
        /\ current' = rel[i]
    BY <1>1, <1>8 DEF ProbePasses, Publish, TaskTypes
  <2>2. DiskTypes' /\ Grows
    BY <1>1, <1>2, <2>1, DeployerConstants DEF DiskTypes, Grows
  <2>3. RowTypes'
    <3>1. CASE Verified(rel[i])
      BY <1>0, <1>3, <1>8, <2>1, <3>1 DEF ProbePasses, Publish
    <3>2. CASE ~Verified(rel[i])
      BY <1>1, <1>8, <2>1, <3>2 DEF ProbePasses, Publish, RowTypes
    <3> QED
      BY <3>1, <3>2
  <2>4. Goto(i, "after") \/ Goto(i, "failing")
    BY <1>8 DEF ProbePasses, Publish
  <2>5. TaskTypes'
    BY <1>0, <1>4, <2>1, <2>4
  <2>6. ContTypes'
    <3>1. strays' \in {{}, strays, strays \cup {rel[i]}}
      BY <1>8 DEF ProbePasses, Publish
    <3> QED
      BY <1>1, <1>2, <2>1, <3>1 DEF ContTypes
  <2> QED
    BY <2>1, <2>2, <2>3, <2>5, <2>6, KeptTypes, TypeGroups
<1>9. CASE After(i) \/ Fail(i)
  <2>1. /\ i <= n /\ UNCHANGED <<n, stamp, bundles, bare, current, source>>
        /\ UNCHANGED <<rows, cont, calls>>
    BY <1>1, <1>9 DEF After, Fail, TaskTypes, rows
  <2>2. dirs' \in SUBSET (1..stamp)
    <3>1. PICK D \in SUBSET dirs : dirs' = Pruned(D)
      BY <1>9 DEF After, Fail
    <3> QED
      BY <1>1, <3>1, PrunedKeepsCurrent DEF DiskTypes
  <2>3. DiskTypes' /\ Grows
    BY <1>1, <2>1, <2>2, DeployerConstants DEF DiskTypes, Grows
  <2>4. TaskTypes'
    BY <1>0, <1>4, <1>9, <2>1, ReturnTypes DEF After, Fail
  <2> QED
    BY <2>1, <2>3, <2>4, KeptTypes, TypeGroups
<1>10. CASE GrowsStale(i)
  <2>1. RowTypes'
    BY <1>1, <1>10, KeptDisk DEF GrowsStale, RowTypes
  <2> QED
    BY <1>10, <2>1, KeptDisk, KeptRows, KeptTypes, TypeGroups DEF GrowsStale
<1> QED
  BY <1>5, <1>6, <1>7, <1>8, <1>9, <1>10

\* POST /restart, container recovery, the environment.
LEMMA OtherTypes ==
  ASSUME TypeOK,
         \/ RestartInspect \/ RestartRefused \/ RestartStop \/ RestartStart
         \/ RecoverList \/ RecoverPlan \/ RecoverSkip \/ RecoverInsert \/ RecoverEnds
         \/ ContainerGone \/ Crash \/ Exhausted \/ UNCHANGED vars
  PROVE  TypeOK'
<1>1. RowTypes /\ DiskTypes /\ ContTypes /\ TaskTypes /\ CallTypes
  BY TypeGroups
<1>2. stamp \in 0..MaxDirs /\ 0 \in 0..stamp /\ 0 \in 0..MaxRows /\ n \in 0..MaxRows
  BY <1>1, DeployerConstants DEF DiskTypes, RowTypes
<1>3. CASE RestartInspect \/ RestartRefused \/ RestartStop \/ RestartStart
  <2>1. /\ UNCHANGED <<rows, disk, tasks, req, rb, sweep, unpack>>
        /\ \E a \in {"idle", "inspected", "stopped"}, m \in {0, image, rs.image} :
             rs' = [at |-> a, image |-> m]
    BY <1>1, <1>3
       DEF RestartInspect, RestartRefused, RestartStop, RestartStart, CallTypes
  <2>2. /\ up' \in {"absent", "running", "exited"} /\ image' \in {0, image, rs.image}
        /\ up' = "absent" => image' = 0
        /\ UNCHANGED strays
    BY <1>1, <1>3
       DEF RestartInspect, RestartRefused, RestartStop, RestartStart, ContTypes, cont,
           DockerStop, DockerRunFails
  <2>5. calm' \in BOOLEAN
    BY <1>1, <1>3, CalmTypes
       DEF RestartInspect, RestartRefused, RestartStop, RestartStart, CallTypes
  <2>3. CallTypes'
    BY <1>1, <1>2, <2>1, <2>5, KeptDisk DEF CallTypes, ContTypes
  <2>4. ContTypes'
    BY <1>1, <1>2, <2>1, <2>2, KeptDisk DEF CallTypes, ContTypes
  <2> QED
    BY <2>1, <2>3, <2>4, KeptDisk, KeptRows, KeptTypes, TypeGroups
<1>4. ASSUME UNCHANGED <<disk, cont, req, rb, rs, unpack>>, RowTypes', TaskTypes',
             NEW a \in {"idle", "listed", "planned", "waiting"}, NEW i \in 0..MaxRows,
             NEW t \in 0..stamp, sweep' = [at |-> a, row |-> i, tree |-> t],
             a # "idle" => i # 0, calm' \in BOOLEAN
      PROVE  TypeOK'
  <2>1. CallTypes'
    BY <1>1, <1>4, KeptDisk DEF CallTypes
  <2> QED
    BY <1>4, <2>1, KeptDisk, KeptTypes, TypeGroups
<1>5. ASSUME UNCHANGED <<n, path, stale, disk>>, NEW st \in {status, Reclaim, Demoted},
             status' = st
      PROVE  RowTypes'
  BY <1>1, <1>5, RewriteTypes, KeptDisk DEF RowTypes
<1>6. CASE RecoverList
  <2>1. PICK i \in Ids : sweep' = [at |-> "listed", row |-> i, tree |-> 0]
    BY <1>6 DEF RecoverList, LiveRows
  <2>2. RowTypes' /\ TaskTypes'
    BY <1>6, KeptDisk, KeptRows, KeptTypes DEF RecoverList
  <2>3. calm' \in BOOLEAN
    BY <1>6, CalmTypes DEF RecoverList
  <2> QED
    BY <1>2, <1>4, <1>6, <2>1, <2>2, <2>3, DeployerConstants DEF RecoverList, Ids
<1>7. CASE RecoverPlan \/ RecoverSkip
  <2>1. /\ UNCHANGED <<n, path, stale, disk, cont, tasks, req, rb, rs, unpack, calm>>
        /\ status' \in {status, Reclaim} /\ sweep.at = "listed" /\ calm' \in BOOLEAN
    BY <1>1, <1>7 DEF RecoverPlan, RecoverSkip, CallTypes
  <2>2. RowTypes' /\ TaskTypes'
    BY <1>5, <2>1, KeptDisk, KeptRows, KeptTypes
  <2>3. sweep.row \in Ids
    BY <1>1, <2>1, DeployerConstants DEF CallTypes, Ids
  <2>4. path[sweep.row] \in 0..stamp
    BY <1>1, <2>3 DEF RowTypes
  <2>5. CASE RecoverPlan
    <3>1. PICK t \in 0..stamp : t = IF path[sweep.row] \in dirs THEN path[sweep.row] ELSE 0
      BY <1>2, <2>4
    <3>2. sweep' = [sweep EXCEPT !.at = "planned", !.tree = t]
      BY <2>5, <3>1 DEF RecoverPlan
    <3>3. sweep' = [at |-> "planned", row |-> sweep.row, tree |-> t]
      <4>1. sweep \in [at : {"idle", "listed", "planned", "waiting"},
                       row : 0..MaxRows, tree : 0..stamp]
        BY <1>1 DEF CallTypes
      <4> QED
        BY <3>2, <4>1
    <3>4. sweep.row \in 0..MaxRows /\ sweep.row # 0
      BY <2>3, DeployerConstants DEF Ids
    <3> QED
      BY <1>4, <2>1, <2>2, <3>3, <3>4
  <2>6. CASE RecoverSkip
    <3>1. sweep' = [at |-> "idle", row |-> 0, tree |-> 0]
      BY <2>6 DEF RecoverSkip
    <3> QED
      BY <1>2, <1>4, <2>1, <2>2, <3>1
  <2> QED
    BY <1>7, <2>5, <2>6
<1>8. CASE RecoverInsert
  <2>1. sweep.row \in Ids /\ sweep.tree \in 0..stamp
    BY <1>1, <1>8, DeployerConstants DEF RecoverInsert, CallTypes, Ids
  <2>2. path[sweep.row] \in 0..stamp
    BY <1>1, <2>1 DEF RowTypes
  <2>3. RowTypes' /\ TaskTypes' /\ n' \in Ids /\ n' = n + 1
    BY <1>8, <2>1, <2>2, KeptDisk, InsertTypes, RewriteTypes DEF RecoverInsert, Insert
  <2> QED
    BY <1>1, <1>2, <1>4, <1>8, <2>3, DeployerConstants DEF RecoverInsert, Ids, CallTypes
<1>9. CASE RecoverEnds
  <2>1. sweep.row \in Ids /\ pc[sweep.row] # "none" /\ UNCHANGED stamp
    BY <1>1, <1>9, KeptDisk, DeployerConstants DEF RecoverEnds, CallTypes, Ids
  <2>2. sweep.row <= n
    BY <1>1, <2>1 DEF TaskTypes
  <2>3. \E w \in {"failed", status[sweep.row]} :
          status' = [status EXCEPT ![sweep.row] = w]
    BY <1>9 DEF RecoverEnds
  <2>4. RowTypes'
    BY <1>1, <1>9, <2>1, <2>2, <2>3, DeployerConstants
       DEF RecoverEnds, RowTypes, Statuses, Ids
  <2>5. TaskTypes'
    BY <1>1, <1>9, <2>1, <2>2 DEF RecoverEnds, TaskTypes, TaskPcs
  <2> QED
    BY <1>1, <1>2, <1>4, <1>9, <2>4, <2>5 DEF RecoverEnds, CallTypes
<1>10. CASE ContainerGone
  <2>1. ContTypes'
    BY <1>1, <1>2, <1>10, KeptDisk DEF ContainerGone, ContTypes
  <2> QED
    BY <1>10, <2>1, KeptDisk, KeptRows, KeptTypes, TypeGroups DEF ContainerGone
<1>11. CASE Crash
  <2>1. /\ UNCHANGED <<n, path, stale, stamp, dirs, bundles, bare, cont>> /\ status' = Reclaim
        /\ calm' \in BOOLEAN
    BY <1>11 DEF Crash
  <2>2. MidSwap \subseteq 0..stamp
    <3>1. \A i \in Ids : rel[i] \in 0..stamp /\ path[i] \in 0..stamp
      BY <1>1 DEF RowTypes, TaskTypes
    <3>2. rb # 0 => rb \in Ids
      BY <1>1, DeployerConstants DEF CallTypes, Ids
    <3> QED
      BY <1>1, <1>2, <3>1, <3>2 DEF MidSwap, DiskTypes
  <2>3. DiskTypes' /\ Grows
    BY <1>1, <1>11, <2>1, <2>2, DeployerConstants DEF Crash, DiskTypes, Grows
  <2>4. RowTypes'
    BY <1>1, <2>1, RewriteTypes DEF RowTypes
  <2>5. TaskTypes'
    BY <1>1, <1>2, <1>11, <2>1 DEF Crash, TaskTypes, TaskPcs
  <2>6. CallTypes'
    BY <1>2, <1>11, <2>1 DEF Crash, CallTypes
  <2> QED
    BY <2>1, <2>3, <2>4, <2>5, <2>6, KeptTypes, TypeGroups
<1>12. CASE Exhausted \/ UNCHANGED vars
  BY <1>12, KeptDisk, KeptRows, KeptTypes, TypeGroups DEF Exhausted, vars
<1> QED
  BY <1>3, <1>6, <1>7, <1>8, <1>9, <1>10, <1>11, <1>12

\* An empty table, an empty disk and idle callers are typed.
LEMMA TypeInit == Init => TypeOK
BY DeployerConstants DEF Init, TypeOK, Statuses, TaskPcs, Ids

\* Every step keeps the types.
LEMMA TypeStep ==
  TypeOK /\ [Next]_vars => TypeOK'
BY CallerTypes, MoveTypes, AdmitTypes, ReleaseTypes, OtherTypes DEF Next, DeployStep

\* In every interleaving of any number of calls, rows and releases: no variable
\* names a release that has not been stamped, and no call has a row not inserted.
THEOREM DeployerTypes == Spec => []TypeOK
BY TypeInit, TypeStep, PTL DEF Spec

-----------------------------------------------------------------------------
(* Rows in flight *)

\* A call that has nothing more to write about its row has settled it.  With
\* `after' this is inductive: the final trim returns without another look.
Settled ==
  \A i \in Ids : pc[i] \in {"after", "done"} => status[i] \notin {"pending", "deploying"}

\* The rewrites of the whole table put no row in flight.
LEMMA RewriteSettles ==
  ASSUME TypeOK, NEW st \in {status, Reclaim, Demoted}, NEW i \in Ids,
         st[i] \in {"pending", "deploying"}
  PROVE  st[i] = status[i]
BY DEF TypeOK, Reclaim, Demoted, InFlight

\* An inserted row has a call that has just begun; the others keep theirs.
LEMMA InsertSettles ==
  ASSUME TypeOK, Settled, NEW st \in {status, Demoted}, NEW p, NEW tree, Insert(st, p, tree)
  PROVE  Settled'
<1>1. status \in [Ids -> Statuses] /\ pc \in [Ids -> TaskPcs]
  BY DEF TypeOK
<1>2. st \in [Ids -> Statuses]
  BY RewriteTypes
<1>3. ASSUME NEW i \in Ids, pc'[i] \in {"after", "done"}
      PROVE  status'[i] \notin {"pending", "deploying"}
  <2>1. i # n + 1 /\ pc'[i] = pc[i] /\ status'[i] = st[i]
    BY <1>1, <1>2, <1>3 DEF Insert
  <2> QED
    BY <1>3, <2>1, RewriteSettles DEF Settled
<1> QED
  BY <1>3 DEF Settled

\* Every step leaves the rows of finished calls settled.
LEMMA SettledStep ==
  ASSUME TypeOK, Settled, [Next]_vars
  PROVE  Settled'
<1>1. status \in [Ids -> Statuses] /\ pc \in [Ids -> TaskPcs]
  BY DEF TypeOK
<1>2. ASSUME status' \in {status, Reclaim, Demoted}, UNCHANGED pc
      PROVE  Settled'
  BY <1>2, RewriteSettles DEF Settled
<1>3. ASSUME NEW i \in Ids, NEW w, Goto(i, w), status' = status,
             w \in {"after", "done"} => status[i] \notin {"pending", "deploying"}
      PROVE  Settled'
  BY <1>1, <1>3 DEF Goto, Settled
<1>4. ASSUME NEW i \in Ids, NEW w, NEW v, Goto(i, w), status' = [status EXCEPT ![i] = v],
             w \in {"after", "done"} => v \notin {"pending", "deploying"}
      PROVE  Settled'
  BY <1>1, <1>4 DEF Goto, Settled
<1>5. CASE \E r \in Reqs : DeployRequest(r) \/ DeployInsert(r) \/ DeployRefused(r)
  <2>1. ASSUME NEW r \in Reqs, DeployRequest(r)
        PROVE  Settled'
    BY <1>2, <2>1 DEF DeployRequest, tasks
  <2>2. ASSUME NEW r \in Reqs, DeployInsert(r)
        PROVE  Settled'
    BY <2>2, InsertSettles DEF DeployInsert
  <2>3. ASSUME NEW r \in Reqs, DeployRefused(r)
        PROVE  Settled'
    BY <1>1, <2>3 DEF DeployRefused, rows, tasks, Settled
  <2> QED
    BY <1>5, <2>1, <2>2, <2>3
<1>6. CASE RollbackCommit \/ PromoteRebuild \/ Redeploy \/ UploadDeploy \/ RecoverInsert
  BY <1>6, InsertSettles DEF RollbackCommit, PromoteRebuild, Redeploy, UploadDeploy, RecoverInsert
<1>7. CASE PromoteCopy
  <2>1. \A i \in Ids : Demoted[i] \in {"pending", "deploying"} => Demoted[i] = status[i]
    BY RewriteSettles
  <2>2. Demoted \in [Ids -> Statuses]
    BY RewriteTypes
  <2> QED
    BY <1>1, <1>7, <2>1, <2>2 DEF PromoteCopy, Settled
<1>8. CASE \/ RollbackRequest \/ RollbackRefused \/ UploadUnpack \/ UploadFails
           \/ RestartInspect \/ RestartRefused \/ RestartStop \/ RestartStart
           \/ RecoverList \/ RecoverPlan \/ RecoverSkip \/ ContainerGone
           \/ Exhausted \/ UNCHANGED vars
  BY <1>2, <1>8
     DEF RollbackRequest, RollbackRefused, UploadUnpack, UploadFails, RestartInspect,
         RestartRefused, RestartStop, RestartStart, RecoverList, RecoverPlan, RecoverSkip,
         ContainerGone, Exhausted, vars, rows, tasks
<1>9. ASSUME NEW i \in Ids, DeployStep(i)
      PROVE  Settled'
  <2>1. CASE \/ PreambleThrows(i) \/ Throws(i, ThrowingPcs)
             \/ AdmitTree(i) \/ AdmitClone(i) \/ AdmitReplay(i)
             \/ Build(i) \/ Capture(i) \/ StopOld(i) \/ Inject(i)
             \/ Start(i) \/ StartRefused(i) \/ StartFails(i)
             \/ ProbeFails(i) \/ Revert(i) \/ Fail(i)
    BY <1>3, <2>1
       DEF PreambleThrows, Throws, AdmitTree, AdmitClone, AdmitReplay, Build, Capture,
           StopOld, Inject, Start, StartRefused, StartFails, ProbeFails, Revert, Fail,
           Return, rows
  <2>2. CASE Fetch(i) \/ Settle(i)
    BY <1>4, <2>2 DEF Fetch, Settle, Return
  <2>3. CASE ProbePasses(i)
    BY <1>3, <1>4, <2>3 DEF ProbePasses, Publish
  <2>4. CASE After(i)
    BY <1>3, <2>4 DEF After, Return, Settled, rows
  <2> QED
    BY <1>9, <2>1, <2>2, <2>3, <2>4 DEF DeployStep
<1>10. CASE \E i \in Ids : GrowsStale(i)
  BY <1>2, <1>10 DEF GrowsStale, tasks
<1>11. CASE RecoverEnds
  <2>1. sweep.row \in Ids
    BY <1>11, DeployerConstants DEF RecoverEnds, TypeOK, Ids
  <2> DEFINE v == IF /\ pc[sweep.row] = "thrown"
                     /\ status[sweep.row] \in {"pending", "deploying"}
                    THEN "failed" ELSE status[sweep.row]
  <2>2. status' = [status EXCEPT ![sweep.row] = v] /\ v \notin {"pending", "deploying"}
    <3>1. status' = [status EXCEPT ![sweep.row] = v]
      BY <1>11 DEF RecoverEnds
    <3>2. v \notin {"pending", "deploying"}
      BY <1>11, <2>1 DEF RecoverEnds, Settled
    <3> QED
      BY <3>1, <3>2
  <2> HIDE DEF v
  <2> QED
    BY <1>1, <1>11, <2>1, <2>2 DEF RecoverEnds, Settled
<1>12. CASE Crash
  BY <1>1, <1>12 DEF Crash, Reclaim, InFlight, Settled
<1> QED
  BY <1>5, <1>6, <1>7, <1>8, <1>9, <1>10, <1>11, <1>12 DEF Next

\* Whatever interleaves and wherever the server dies, a row in flight has a call
\* that will settle it or that threw before its try block.
THEOREM RowsAreSettled == Spec => []NoOrphanedRow
<1>1. Init => TypeOK /\ Settled
  BY TypeInit DEF Init, Settled
<1>2. TypeOK /\ Settled /\ [Next]_vars => TypeOK' /\ Settled'
  BY TypeStep, SettledStep
<1>3. Settled => NoOrphanedRow
  BY DEF Settled, NoOrphanedRow, InFlight
<1> QED
  BY <1>1, <1>2, <1>3, PTL DEF Spec

-----------------------------------------------------------------------------
(* Operations that do not overlap *)

\* The newest live release.
Newest(i) == i \in LiveRows /\ \A j \in LiveRows : j <= i

\* A release that may serve: the newest live one, or one a failed deploy left.
Owed(x) == x \in strays \/ \A l \in Ids : Newest(l) => x = path[l]

\* At most one operation is under way, and a running call has the newest row.
Alone ==
  /\ \A i \in Running : i = n
  /\ Running # {} => /\ \A r \in Reqs : req[r] = "idle"
                     /\ rb = 0 /\ unpack = 0 /\ rs.at = "idle" /\ sweep.at \in {"idle", "waiting"}
  /\ \A r \in Reqs : req[r] # "idle" =>
       /\ \A s \in Reqs : req[s] # "idle" => s = r
       /\ rb = 0 /\ unpack = 0 /\ rs.at = "idle" /\ sweep.at = "idle"
  /\ rb # 0 => unpack = 0 /\ rs.at = "idle" /\ sweep.at = "idle"
  /\ unpack # 0 => rs.at = "idle" /\ sweep.at = "idle"
  /\ rs.at # "idle" => sweep.at = "idle"

\* What the running call holds: while it probes, the container is its own, and
\* the image it would go back to is one that may serve.
NewRow(i) ==
  /\ pc[i] # "after" => status[i] # "live"
  /\ pc[i] = "probe" /\ up # "absent" => image = rel[i]
  /\ pc[i] \in {"stop", "inject", "start", "probe"} /\ prev[i] # 0 => Owed(prev[i])
  /\ pc[i] = "revert" => Owed(prev[i])

\* ... and a restart between its steps: the image it will start.
InHand ==
  /\ \A i \in Running : NewRow(i)
  /\ rs.at # "idle" => Owed(rs.image)

\* The newest live release is the current one and on disk, unless a failed deploy
\* swapped its own in; and what the container was made from may serve, but while
\* a new version is being probed.
LiveInv ==
  /\ \A l \in Ids : Newest(l) => \/ current = path[l] /\ current \in dirs
                                 \/ current \in strays
  /\ up # "absent" /\ (\A i \in Running : pc[i] # "probe") => Owed(image)

SInv == TypeOK /\ Alone /\ InHand /\ LiveInv

\* The live rows and their releases are left as they are, and so is what failed
\* deploys left.
Kept ==
  /\ LiveRows' = LiveRows /\ \A l \in LiveRows : path'[l] = path[l]
  /\ strays \subseteq strays'

LEMMA SameNewest ==
  ASSUME Kept, NEW l
  PROVE  /\ Newest(l)' <=> Newest(l)
         /\ Newest(l) => path'[l] = path[l]
BY DEF Kept, Newest

\* What may serve before a step may serve after it.
LEMMA OwedStays ==
  ASSUME Kept, NEW x, Owed(x)
  PROVE  x \in strays' \/ \A l \in Ids : Newest(l)' => x = path'[l]
BY SameNewest DEF Kept, Owed

LEMMA LiveKept ==
  ASSUME LiveInv, Kept, UNCHANGED current, current \in dirs => current \in dirs',
         up' # "absent" /\ (\A i \in Running' : pc'[i] # "probe")
           => Owed(image') \/ image' \in strays'
  PROVE  LiveInv'
<1>1. ASSUME NEW l \in Ids, Newest(l)'
      PROVE  (current' = path'[l] /\ current' \in dirs') \/ current' \in strays'
  <2>1. Newest(l) /\ path'[l] = path[l]  BY <1>1, SameNewest
  <2>2. strays \subseteq strays'  BY DEF Kept
  <2>3. QED  BY <2>1, <2>2 DEF LiveInv
<1>2. ASSUME up' # "absent", \A i \in Running' : pc'[i] # "probe"
      PROVE  image' \in strays' \/ \A l \in Ids : Newest(l)' => image' = path'[l]
  BY <1>2, OwedStays
<1>3. QED  BY <1>1, <1>2 DEF LiveInv, Owed

LEMMA NoneLive ==
  ASSUME LiveRows' = {}
  PROVE  LiveInv' /\ \A l \in Ids : ~Newest(l)'
BY DEF LiveInv, Newest, Owed

\* Rows: what an insert, a reclaim and a demotion do to the live ones.
LEMMA InsertKeeps ==
  ASSUME TypeOK, NEW p, NEW tree, Insert(status, p, tree), UNCHANGED strays
  PROVE  Kept
<1>1. n + 1 \in Ids /\ n \in Nat /\ status[n + 1] = "none"
  BY DeployerConstants DEF Insert, TypeOK, Ids
<1>2. /\ status' = [status EXCEPT ![n + 1] = "pending"]
      /\ path' = [path EXCEPT ![n + 1] = p]
      /\ status \in [Ids -> Statuses] /\ path \in [Ids -> 0..stamp]
  BY DEF Insert, TypeOK
<1>3. LiveRows' = LiveRows  BY <1>1, <1>2 DEF LiveRows
<1>4. \A l \in LiveRows : l # n + 1 /\ l \in Ids  BY <1>1 DEF LiveRows
<1>5. \A l \in LiveRows : path'[l] = path[l]  BY <1>2, <1>4
<1>6. QED  BY <1>3, <1>5 DEF Kept

LEMMA InsertDemotes ==
  ASSUME TypeOK, NEW p, NEW tree, Insert(Demoted, p, tree)
  PROVE  LiveRows' = {}
<1>1. status' = [Demoted EXCEPT ![n + 1] = "pending"] /\ DOMAIN Demoted = Ids
  BY DEF Insert, Demoted
<1>2. \A i \in Ids : Demoted[i] # "live"  BY DEF Demoted
<1>3. QED  BY <1>1, <1>2 DEF LiveRows

LEMMA ReclaimKeeps ==
  ASSUME TypeOK, status' \in {status, Reclaim}, UNCHANGED <<path, strays>>
  PROVE  Kept
<1>1. \A i \in Ids : Reclaim[i] = "live" <=> status[i] = "live"
  BY DEF Reclaim, InFlight, TypeOK
<1>2. QED  BY <1>1 DEF Kept, LiveRows

\* The running call is alone.
LEMMA Lone ==
  ASSUME SInv, NEW i \in Ids, pc[i] \notin {"none", "thrown", "done"}
  PROVE  /\ i = n /\ Running = {i} /\ NewRow(i)
         /\ \A r \in Reqs : req[r] = "idle"
         /\ rb = 0 /\ unpack = 0 /\ rs.at = "idle" /\ sweep.at \in {"idle", "waiting"}
<1>1. i \in Running  BY DEF Running
<1>2. QED  BY <1>1 DEF SInv, Alone, InHand

\* A step of that call: what is left to show is what it holds after it.
LEMMA CallStep ==
  ASSUME SInv, NEW i \in Ids, pc[i] \notin {"none", "thrown", "done"}, NEW x,
         pc' = [pc EXCEPT ![i] = x], UNCHANGED <<n, calls>>,
         x \notin {"none", "thrown", "done"} => NewRow(i)'
  PROVE  /\ Alone' /\ InHand' /\ pc'[i] = x
         /\ Running' = IF x \in {"none", "thrown", "done"} THEN {} ELSE {i}
<1>1. /\ i = n /\ Running = {i}
      /\ \A r \in Reqs : req[r] = "idle"
      /\ rb = 0 /\ unpack = 0 /\ rs.at = "idle" /\ sweep.at \in {"idle", "waiting"}
  BY Lone
<1>2. UNCHANGED <<n, req, rb, rs, sweep, unpack>>  BY DEF calls
<1>3. pc'[i] = x /\ \A j \in Ids : j # i => pc'[j] = pc[j]  BY DEF SInv, TypeOK
<1>4. Running' = IF x \in {"none", "thrown", "done"} THEN {} ELSE {i}
  BY <1>1, <1>3 DEF Running
<1>5. \A j \in Running' : j = i /\ x \notin {"none", "thrown", "done"}  BY <1>4
<1>6. Alone'  BY <1>1, <1>2, <1>5 DEF Alone
<1>7. InHand'  BY <1>1, <1>2, <1>5 DEF InHand
<1>8. QED  BY <1>3, <1>4, <1>6, <1>7

\* An operation that leaves the history calm began when nothing was under way.
LEMMA AtRest ==
  ASSUME NEW op, MayStart(op), calm'
  PROVE  /\ calm /\ Running = {} /\ \A r \in Reqs : req[r] = "idle"
         /\ rb = 0 /\ rs.at = "idle" /\ sweep.at = "idle" /\ unpack = 0
BY DEF MayStart, Quiet

\* An inserted row has the call that runs now.
LEMMA CallBegins ==
  ASSUME TypeOK, Running = {}, NEW st, NEW p, NEW tree, Insert(st, p, tree)
  PROVE  /\ Running' = {n + 1} /\ n' = n + 1 /\ n + 1 \in Ids /\ pc'[n + 1] = "admit"
         /\ DOMAIN st = Ids => status'[n + 1] = "pending"
<1>1. n + 1 \in Ids  BY DeployerConstants DEF Insert, TypeOK, Ids
<1>2. /\ n' = n + 1 /\ pc' = [pc EXCEPT ![n + 1] = "admit"]
      /\ status' = [st EXCEPT ![n + 1] = "pending"]
  BY DEF Insert
<1>3. pc'[n + 1] = "admit" /\ \A j \in Ids : j # n + 1 => pc'[j] = pc[j]
  BY <1>1, <1>2 DEF TypeOK
<1>4. Running' = {n + 1}  BY <1>1, <1>3 DEF Running
<1>5. QED  BY <1>1, <1>2, <1>3, <1>4 DEF TypeOK

\* Steps of the call that touch neither the rows nor the disk.
LEMMA QuietCallStep ==
  ASSUME SInv, TypeOK', NEW i \in Ids, pc[i] \notin {"none", "thrown", "done"},
         NEW x, pc' = [pc EXCEPT ![i] = x], x # "after",
         LiveRows' = LiveRows, UNCHANGED <<n, path, dirs, current, rel, prev, calls>>,
         strays \subseteq strays',
         UNCHANGED status \/ status'[i] # "live",
         x \notin {"none", "thrown", "done"} =>
           /\ x # "admit"
           /\ x \in {"stop", "inject", "start", "probe"} => pc[i] \in {"stop", "inject", "start", "probe"}
           /\ x = "revert" => pc[i] = "probe" /\ prev[i] # 0
           /\ x = "probe" => image' = rel[i],
         \/ x = "probe"
         \/ up' = "absent"
         \/ image' \in strays'
         \/ pc[i] # "probe" /\ up # "absent" /\ image' = image
         \/ pc[i] = "revert" /\ image' = prev[i],
         pc[i] # "after"
  PROVE  SInv'
<1>1. i = n /\ Running = {i} /\ NewRow(i)  BY Lone
<1>2. Kept  BY DEF Kept
<1>3. pc'[i] = x /\ status[i] # "live" /\ status'[i] # "live"
  BY <1>1 DEF SInv, TypeOK, NewRow
<1>4. ASSUME x \notin {"none", "thrown", "done"} PROVE NewRow(i)'
  <2>1. ASSUME (x \in {"stop", "inject", "start", "probe"} /\ prev[i] # 0) \/ x = "revert"
        PROVE  prev'[i] \in strays' \/ \A l \in Ids : Newest(l)' => prev'[i] = path'[l]
    <3>1. Owed(prev[i])  BY <1>1, <1>4, <2>1 DEF NewRow
    <3>2. QED  BY <1>2, <3>1, OwedStays
  <2>2. QED  BY <1>3, <1>4, <2>1 DEF NewRow, Owed
<1>5. Alone' /\ InHand' /\ Running' = IF x \in {"none", "thrown", "done"} THEN {} ELSE {i}
  BY <1>4, CallStep
<1>6. LiveInv'
  <2>1. ASSUME up' # "absent", \A j \in Running' : pc'[j] # "probe"
        PROVE  Owed(image') \/ image' \in strays'
    <3>1. x # "probe"  BY <1>3, <1>5, <2>1
    <3>2. CASE pc[i] # "probe" /\ up # "absent" /\ image' = image
      <4>1. Owed(image)  BY <1>1, <3>2 DEF SInv, LiveInv
      <4>2. QED  BY <3>2, <4>1
    <3>3. CASE pc[i] = "revert" /\ image' = prev[i]
      <4>1. Owed(prev[i])  BY <1>1, <3>3 DEF NewRow
      <4>2. QED  BY <3>3, <4>1
    <3>4. QED  BY <2>1, <3>1, <3>2, <3>3
  <2>2. LiveInv /\ UNCHANGED current /\ (current \in dirs => current \in dirs')  BY DEF SInv
  <2>3. QED  BY <1>2, <2>1, <2>2, LiveKept
<1>7. QED  BY <1>5, <1>6 DEF SInv

\* A step that marks nothing live keeps the live rows.
LEMMA Unpublished ==
  ASSUME TypeOK, NEW i \in Ids, status[i] # "live", NEW x, x # "live",
         status' = [status EXCEPT ![i] = x]
  PROVE  LiveRows' = LiveRows /\ status'[i] # "live"
BY DEF TypeOK, LiveRows

LEMMA MovesSerially ==
  ASSUME SInv, calm, TypeOK', NEW i \in Ids,
         \/ Throws(i, ThrowingPcs) \/ Fetch(i) \/ Build(i)
         \/ StopOld(i) \/ Inject(i) \/ Start(i) \/ StartRefused(i) \/ StartFails(i)
         \/ ProbeFails(i) \/ Revert(i)
  PROVE  SInv'
<1> USE DEF rows, disk, cont, tasks, Goto
<1>1. TypeOK /\ (status' = status => LiveRows' = LiveRows)  BY DEF SInv, LiveRows
<1>0. UNCHANGED up /\ UNCHANGED image /\ pc[i] # "probe"
        => up' = "absent" \/ (pc[i] # "probe" /\ up # "absent" /\ image' = image)
  OBVIOUS
<1>2. CASE Throws(i, ThrowingPcs)
  BY <1>0, <1>1, <1>2, QuietCallStep DEF Throws, ThrowingPcs
<1>3. CASE Fetch(i)
  <2>1. pc[i] = "fetch" /\ status' = [status EXCEPT ![i] = "deploying"]  BY <1>3 DEF Fetch
  <2>2. status[i] # "live"  BY <2>1, Lone DEF NewRow
  <2>3. LiveRows' = LiveRows /\ status'[i] # "live"  BY <1>1, <2>1, <2>2, Unpublished
  <2>4. QED  BY <1>0, <1>3, <2>1, <2>3, QuietCallStep DEF Fetch
<1>4. CASE Build(i)
  BY <1>0, <1>1, <1>4, QuietCallStep DEF Build
<1>5. CASE StopOld(i)
  BY <1>1, <1>5, QuietCallStep DEF StopOld, DockerStop
<1>6. CASE Inject(i)
  BY <1>0, <1>1, <1>6, QuietCallStep DEF Inject
<1>7. CASE Start(i)
  BY <1>1, <1>7, QuietCallStep DEF Start
<1>8. CASE StartRefused(i)
  BY <1>0, <1>1, <1>8, QuietCallStep DEF StartRefused
<1>9. CASE StartFails(i)
  <2>1. /\ image' = rel[i] => image' \in strays'
        /\ strays \subseteq strays'
    BY <1>9 DEF StartFails, LeavesContainer
  <2>2. up' = "absent" \/ image' \in strays' \/ (up # "absent" /\ image' = image)
    BY <1>9, <2>1 DEF StartFails, DockerRunFails, DockerStop
  <2>3. QED  BY <1>1, <1>9, <2>1, <2>2, QuietCallStep DEF StartFails
<1>10. CASE ProbeFails(i)
  <2>1. pc[i] = "probe" /\ (up # "absent" => image = rel[i])
    BY <1>10, Lone DEF ProbeFails, NewRow
  <2>2. /\ image' = rel[i] => image' \in strays'
        /\ strays \subseteq strays'
    BY <1>10 DEF ProbeFails, LeavesContainer
  <2>3. up' = "absent" \/ image' \in strays'
    BY <1>10, <2>1, <2>2 DEF ProbeFails, DockerStop
  <2>4. CASE prev[i] = 0  BY <1>1, <1>10, <2>2, <2>3, <2>4, QuietCallStep DEF ProbeFails
  <2>5. CASE prev[i] # 0  BY <1>1, <1>10, <2>2, <2>3, <2>5, QuietCallStep DEF ProbeFails
  <2>6. QED  BY <2>4, <2>5
<1>11. CASE Revert(i)
  <2>1. \/ up' = "absent"
        \/ up # "absent" /\ image' = image
        \/ image' = prev[i]
    BY <1>11 DEF Revert, DockerRunFails, DockerStop
  <2>2. QED  BY <1>1, <1>11, <2>1, QuietCallStep DEF Revert
<1>12. QED
  BY <1>2, <1>3, <1>4, <1>5, <1>6, <1>7, <1>8, <1>9, <1>10, <1>11

\* The image to go back to is the one the container was made from.
LEMMA CapturesSerially ==
  ASSUME SInv, TypeOK', NEW i \in Ids, Capture(i)
  PROVE  SInv'
<1>1. /\ pc[i] = "capture" /\ pc' = [pc EXCEPT ![i] = "stop"]
      /\ prev' = [prev EXCEPT ![i] = image]
      /\ UNCHANGED <<n, status, path, dirs, current, up, image, strays, rel, calls>>
  BY DEF Capture, Goto, rows, disk, cont
<1>2. i = n /\ Running = {i} /\ NewRow(i) /\ TypeOK  BY <1>1, Lone DEF SInv
<1>3. Kept  BY <1>1 DEF Kept, LiveRows
<1>4. pc'[i] = "stop" /\ prev'[i] = image
  BY <1>1, <1>2 DEF TypeOK
<1>5. up # "absent" => Owed(image)
  BY <1>1, <1>2 DEF SInv, LiveInv
<1>6. image # 0 => up # "absent"  BY <1>2 DEF TypeOK
<1>7. NewRow(i)'
  <2>1. image # 0 => prev'[i] \in strays' \/ \A l \in Ids : Newest(l)' => prev'[i] = path'[l]
    BY <1>3, <1>4, <1>5, <1>6, OwedStays
  <2>2. status'[i] # "live"  BY <1>1, <1>2 DEF NewRow
  <2>3. QED  BY <1>4, <2>1, <2>2 DEF NewRow, Owed
<1>8. Alone' /\ InHand'  BY <1>1, <1>7, CallStep
<1>9. LiveInv'
  BY <1>1, <1>3, <1>5, LiveKept DEF SInv
<1>10. QED  BY <1>8, <1>9 DEF SInv

\* Publishing makes the row the newest live one and its release current; a release
\* that is not verified is left swapped in, and in its container.
LEMMA PublishesSerially ==
  ASSUME SInv, calm, TypeOK', NEW i \in Ids, ProbePasses(i)
  PROVE  SInv'
<1>1. pc[i] = "probe" /\ up = "running" /\ TypeOK  BY DEF ProbePasses, SInv
<1>2. i = n /\ Running = {i} /\ NewRow(i)  BY <1>1, Lone
<1>3. image = rel[i]  BY <1>1, <1>2 DEF NewRow
<1>a. CASE Verified(rel[i])
  <2>1. rel[i] \in dirs  BY <1>a DEF Verified
  <2>2. /\ current' = rel[i] /\ status' = [status EXCEPT ![i] = "live"]
        /\ path' = [path EXCEPT ![i] = rel[i]] /\ pc' = [pc EXCEPT ![i] = "after"]
        /\ UNCHANGED <<n, dirs, up, image, rel, prev, calls>>
    BY <1>a DEF ProbePasses, Publish, Goto
  <2>3. /\ pc'[i] = "after" /\ status'[i] = "live" /\ path'[i] = rel[i]
        /\ \A j \in Ids : status'[j] = "live" => j <= i
    <3>1. status'[i] = "live" /\ path'[i] = rel[i] /\ pc'[i] = "after"  BY <1>1, <2>2 DEF TypeOK
    <3>2. \A j \in Ids : status[j] = "live" => j <= n
      <4>1. \A j \in Ids : j \in Nat /\ n \in Nat  BY DeployerConstants, <1>1 DEF Ids, TypeOK
      <4>2. QED  BY <1>1, <4>1 DEF TypeOK
    <3>3. \A j \in Ids : j # i => status'[j] = status[j]  BY <1>1, <2>2 DEF TypeOK
    <3>4. i <= i  BY DeployerConstants DEF Ids
    <3>5. QED  BY <1>2, <3>1, <3>2, <3>3, <3>4
  <2>4. NewRow(i)'  BY <2>3 DEF NewRow
  <2>5. Alone' /\ InHand'  BY <1>1, <2>2, <2>4, CallStep
  <2>6. \A l \in Ids : Newest(l)' => l = i
    <3> SUFFICES ASSUME NEW l \in Ids, Newest(l)' PROVE l = i  OBVIOUS
    <3>1. status'[l] = "live" /\ i <= l  BY <2>3 DEF Newest, LiveRows
    <3>2. l <= i  BY <2>3, <3>1
    <3>3. l \in Nat /\ i \in Nat  BY DeployerConstants DEF Ids
    <3>4. QED  BY <3>1, <3>2, <3>3
  <2>7. LiveInv'  BY <1>3, <2>1, <2>2, <2>3, <2>6 DEF LiveInv, Owed
  <2>8. QED  BY <2>5, <2>7 DEF SInv
<1>b. CASE ~Verified(rel[i])
  <2>1. /\ current' = rel[i] /\ pc' = [pc EXCEPT ![i] = "failing"]
        /\ strays' = strays \cup {rel[i]}
        /\ UNCHANGED <<n, status, path, dirs, up, image, rel, prev, calls>>
    BY <1>b DEF ProbePasses, Publish, Goto
  <2>2. pc'[i] = "failing" /\ status'[i] # "live"  BY <1>1, <1>2, <2>1 DEF TypeOK, NewRow
  <2>3. NewRow(i)'  BY <2>2 DEF NewRow
  <2>4. Alone' /\ InHand'  BY <1>1, <2>1, <2>3, CallStep
  <2>5. LiveInv'  BY <1>3, <2>1 DEF LiveInv, Owed
  <2>6. QED  BY <2>4, <2>5 DEF SInv
<1>c. QED  BY <1>a, <1>b

\* Admission trims, but never the current release.
LEMMA AdmitsSerially ==
  ASSUME SInv, TypeOK', NEW i \in Ids,
         AdmitTree(i) \/ AdmitClone(i) \/ AdmitReplay(i)
  PROVE  SInv'
<1>1. /\ pc[i] = "admit"
      /\ UNCHANGED <<n, status, path, current, up, image, strays, prev, calls>>
      /\ \E x \in {"fetch", "failing"} : pc' = [pc EXCEPT ![i] = x]
  BY DEF AdmitTree, AdmitClone, AdmitReplay, Goto, rows, cont
<1>2. PICK x \in {"fetch", "failing"} : pc' = [pc EXCEPT ![i] = x]  BY <1>1
<1>3. i = n /\ Running = {i} /\ NewRow(i) /\ TypeOK  BY <1>1, Lone DEF SInv
<1>4. pc'[i] = x  BY <1>2, <1>3 DEF TypeOK
<1>5. current \in dirs => current \in dirs'
  BY PrunedKeepsCurrent DEF AdmitTree, AdmitClone, AdmitReplay
<1>6. NewRow(i)'
  <2>1. status'[i] # "live"  BY <1>1, <1>3 DEF NewRow
  <2>2. QED  BY <1>4, <2>1 DEF NewRow
<1>7. Alone' /\ InHand' /\ Running' = {i}  BY <1>1, <1>2, <1>6, CallStep
<1>8. Kept  BY <1>1 DEF Kept, LiveRows
<1>9. up # "absent" => Owed(image)
  BY <1>1, <1>3 DEF SInv, LiveInv
<1>10. LiveInv'  BY <1>1, <1>5, <1>8, <1>9, LiveKept DEF SInv
<1>11. QED  BY <1>7, <1>10 DEF SInv

\* A call that ends, or fails, leaves the current release on disk.
LEMMA EndsSerially ==
  ASSUME SInv, TypeOK', NEW i \in Ids,
         PreambleThrows(i) \/ After(i) \/ Fail(i) \/ Settle(i)
  PROVE  SInv'
<1>1. /\ pc[i] \in {"admit", "after", "failing", "refused", "settle"}
      /\ UNCHANGED <<n, path, current, up, image, strays, calls>>
      /\ \E x \in {"thrown", "done", "settle"} : pc' = [pc EXCEPT ![i] = x]
  BY DEF PreambleThrows, After, Fail, Settle, Return, Goto, rows, cont, disk
<1>2. PICK x \in {"thrown", "done", "settle"} : pc' = [pc EXCEPT ![i] = x]  BY <1>1
<1>3. i = n /\ Running = {i} /\ NewRow(i) /\ TypeOK  BY <1>1, Lone DEF SInv
<1>4. pc'[i] = x  BY <1>2, <1>3 DEF TypeOK
<1>5. current \in dirs => current \in dirs'
  <2>1. current \in dirs => current \in (IF rel[i] = current THEN dirs ELSE dirs \ {rel[i]})
    OBVIOUS
  <2>2. CASE PreambleThrows(i) \/ Settle(i)  BY <2>2 DEF PreambleThrows, Settle, disk
  <2>3. CASE After(i)  BY <2>3, PrunedKeepsCurrent DEF After
  <2>4. CASE Fail(i)  BY <2>1, <2>4, PrunedKeepsCurrent DEF Fail
  <2>5. QED  BY <2>2, <2>3, <2>4
<1>6. LiveRows' = LiveRows /\ (x = "settle" => status'[i] # "live")
  <2>1. CASE Settle(i)
    <3>1. status[i] # "live" /\ status' = [status EXCEPT ![i] = "failed"]
      BY <1>3, <2>1 DEF Settle, NewRow
    <3>2. QED  BY <1>3, <3>1, Unpublished
  <2>2. CASE PreambleThrows(i) \/ After(i) \/ Fail(i)
    <3>1. UNCHANGED status  BY <2>2 DEF PreambleThrows, After, Fail, rows
    <3>2. x = "settle" => pc[i] # "after"
      <4>1. CASE After(i)
        <5>1. pc' = [pc EXCEPT ![i] = "done"]  BY <4>1 DEF After, Return, Goto
        <5>2. QED  BY <1>3, <1>4, <5>1 DEF TypeOK
      <4>2. CASE PreambleThrows(i) \/ Fail(i)  BY <4>2 DEF PreambleThrows, Fail
      <4>3. QED  BY <2>2, <4>1, <4>2
    <3>3. QED  BY <1>3, <3>1, <3>2 DEF NewRow, LiveRows
  <2>3. QED  BY <2>1, <2>2
<1>7. x = "settle" => NewRow(i)'  BY <1>4, <1>6 DEF NewRow
<1>8. Alone' /\ InHand'  BY <1>1, <1>2, <1>7, CallStep
<1>9. Kept  BY <1>1, <1>6 DEF Kept
<1>10. up # "absent" => Owed(image)
  BY <1>1, <1>3 DEF SInv, LiveInv
<1>11. LiveInv'  BY <1>1, <1>5, <1>9, <1>10, LiveKept DEF SInv
<1>12. QED  BY <1>8, <1>11 DEF SInv

\* Nobody runs, and a step leaves the live release where it is.
LEMMA LiveStays ==
  ASSUME SInv, Running = {}, Kept, UNCHANGED current, current \in dirs => current \in dirs',
         UNCHANGED pc \/ Running' = {},
         up' # "absent" => up # "absent" /\ image' = image
  PROVE  Running' = {} /\ LiveInv'
<1>1. Running' = {}  BY DEF Running
<1>2. up' # "absent" => Owed(image')
  <2>1. up # "absent" => Owed(image)  BY DEF SInv, LiveInv
  <2>2. QED  BY <2>1
<1>3. QED  BY <1>1, <1>2, LiveKept DEF SInv

\* A row is inserted and its call begins: the only one.
LEMMA Inserted ==
  ASSUME SInv, TypeOK', Running = {}, NEW p, NEW tree, Insert(status, p, tree),
         UNCHANGED <<disk, cont>>,
         \A r \in Reqs : req'[r] = "idle",
         rb' = 0, unpack' = 0, rs'.at = "idle", sweep'.at \in {"idle", "waiting"}
  PROVE  SInv'
<1>1. PICK i \in Ids : i = n + 1
  BY DeployerConstants DEF Insert, SInv, TypeOK, Ids
<1>2. /\ Running' = {i} /\ n' = i /\ pc'[i] = "admit" /\ status'[i] = "pending"
  <2>1. TypeOK /\ DOMAIN status = Ids  BY DEF SInv, TypeOK
  <2>2. QED  BY <1>1, <2>1, CallBegins
<1>3. UNCHANGED <<dirs, current, up, image, strays>>  BY DEF disk, cont
<1>4. NewRow(i)'  BY <1>2 DEF NewRow
<1>5. Alone' /\ InHand'  BY <1>2, <1>4 DEF Alone, InHand
<1>6. Kept  BY <1>3, InsertKeeps DEF SInv
<1>7. up # "absent" => Owed(image)  BY DEF SInv, LiveInv
<1>8. LiveInv'  BY <1>3, <1>6, <1>7, LiveKept DEF SInv
<1>9. QED  BY <1>5, <1>8 DEF SInv

\* ... or it takes the place of the live ones from the start.
LEMMA Replaced ==
  ASSUME TypeOK', NEW i \in Ids, Running' = {i}, i = n', pc'[i] = "admit", LiveRows' = {},
         \A r \in Reqs : req'[r] = "idle",
         rb' = 0, unpack' = 0, rs'.at = "idle", sweep'.at = "idle"
  PROVE  SInv'
<1>1. LiveInv' /\ status'[i] # "live"  BY NoneLive DEF LiveRows
<1>2. NewRow(i)'  BY <1>1 DEF NewRow
<1>3. Alone' /\ InHand'  BY <1>2 DEF Alone, InHand
<1>4. QED  BY <1>1, <1>3 DEF SInv

LEMMA DeploysSerially ==
  ASSUME SInv, calm', TypeOK', NEW r \in Reqs,
         DeployRequest(r) \/ DeployInsert(r) \/ DeployRefused(r)
  PROVE  SInv'
<1>0. TypeOK  BY DEF SInv
<1>1. CASE DeployRequest(r)
  <2>1. /\ Running = {} /\ \A q \in Reqs : req[q] = "idle"
        /\ rb = 0 /\ rs.at = "idle" /\ sweep.at = "idle" /\ unpack = 0
    BY <1>1, AtRest DEF DeployRequest
  <2>2. /\ status' = Reclaim /\ req' = [req EXCEPT ![r] = "checking"]
        /\ UNCHANGED <<n, path, pc, dirs, current, up, image, strays, rb, rs, sweep, unpack>>
    BY <1>1 DEF DeployRequest, disk, cont, tasks
  <2>3. Kept  BY <1>0, <2>2, ReclaimKeeps
  <2>4. Running' = {} /\ LiveInv'  BY <2>1, <2>2, <2>3, LiveStays
  <2>5. \A q \in Reqs : req'[q] # "idle" => q = r  BY <1>0, <2>1, <2>2 DEF TypeOK
  <2>6. Alone' /\ InHand'  BY <2>1, <2>2, <2>4, <2>5 DEF Alone, InHand
  <2>7. QED  BY <2>4, <2>6 DEF SInv
<1>2. ASSUME req[r] = "checking"
      PROVE  /\ Running = {} /\ \A q \in Reqs : q # r => req[q] = "idle"
             /\ rb = 0 /\ rs.at = "idle" /\ sweep.at = "idle" /\ unpack = 0
  BY <1>2 DEF SInv, Alone
<1>3. CASE DeployInsert(r)
  <2>1. /\ req[r] = "checking" /\ Insert(status, 0, 0) /\ req' = [req EXCEPT ![r] = "idle"]
        /\ UNCHANGED <<disk, cont, rb, rs, sweep, unpack>>
    BY <1>3 DEF DeployInsert
  <2>2. \A q \in Reqs : req'[q] = "idle"  BY <1>0, <1>2, <2>1 DEF TypeOK
  <2>3. QED  BY <1>2, <2>1, <2>2, Inserted
<1>4. CASE DeployRefused(r)
  <2>1. /\ req[r] = "checking" /\ req' = [req EXCEPT ![r] = "idle"]
        /\ UNCHANGED <<path, pc, dirs, current, up, image, strays, rb, rs, sweep, unpack>>
    BY <1>4 DEF DeployRefused, disk, cont, tasks, rows
  <2>2. \/ UNCHANGED <<n, status>>
        \/ n < MaxRows /\ status' = [status EXCEPT ![n + 1] = "failed"]
    BY <1>4 DEF DeployRefused, rows
  <2>3. LiveRows' = LiveRows
    <3>1. n < MaxRows => n + 1 \in Ids /\ status[n + 1] = "none"
      BY <1>0, DeployerConstants DEF TypeOK, Ids
    <3>2. QED  BY <1>0, <2>2, <3>1, Unpublished DEF LiveRows
  <2>4. Running' = {} /\ LiveInv'  BY <1>2, <2>1, <2>3, LiveStays DEF Kept
  <2>5. \A q \in Reqs : req'[q] = "idle"  BY <1>0, <1>2, <2>1 DEF TypeOK
  <2>6. Alone' /\ InHand'  BY <1>2, <2>1, <2>4, <2>5 DEF Alone, InHand
  <2>7. QED  BY <2>4, <2>6 DEF SInv
<1>5. QED  BY <1>1, <1>3, <1>4

LEMMA RollsBackSerially ==
  ASSUME SInv, calm', TypeOK', RollbackRequest \/ RollbackCommit \/ RollbackRefused
  PROVE  SInv'
<1>0. TypeOK  BY DEF SInv
<1>1. CASE RollbackRequest
  <2>1. /\ Running = {} /\ \A q \in Reqs : req[q] = "idle"
        /\ rs.at = "idle" /\ sweep.at = "idle" /\ unpack = 0
    BY <1>1, AtRest DEF RollbackRequest
  <2>2. UNCHANGED <<n, status, path, pc, dirs, current, up, image, strays, req, rs, sweep, unpack>>
    BY <1>1 DEF RollbackRequest, rows, disk, cont, tasks
  <2>3. Running' = {} /\ LiveInv'  BY <2>1, <2>2, LiveStays DEF Kept, LiveRows
  <2>4. Alone' /\ InHand'  BY <2>1, <2>2, <2>3 DEF Alone, InHand
  <2>5. QED  BY <2>3, <2>4 DEF SInv
<1>2. ASSUME rb # 0
      PROVE  /\ Running = {} /\ \A q \in Reqs : req[q] = "idle"
             /\ rs.at = "idle" /\ sweep.at = "idle" /\ unpack = 0
  BY <1>2 DEF SInv, Alone
<1>3. CASE RollbackCommit
  <2>1. /\ rb # 0 /\ Insert(Demoted, path[rb], path[rb]) /\ rb' = 0
        /\ UNCHANGED <<req, rs, sweep, unpack>>
    BY <1>3 DEF RollbackCommit
  <2>2. Running' = {n + 1} /\ n' = n + 1 /\ n + 1 \in Ids /\ pc'[n + 1] = "admit"
    BY <1>0, <1>2, <2>1, CallBegins
  <2>3. LiveRows' = {}  BY <1>0, <2>1, InsertDemotes
  <2>4. QED  BY <1>2, <2>1, <2>2, <2>3, Replaced
<1>4. CASE RollbackRefused
  <2>1. /\ rb # 0 /\ rb' = 0
        /\ UNCHANGED <<n, status, path, pc, dirs, current, up, image, strays,
                       req, rs, sweep, unpack>>
    BY <1>4 DEF RollbackRefused, rows, disk, cont, tasks
  <2>2. Running' = {} /\ LiveInv'  BY <1>2, <2>1, LiveStays DEF Kept, LiveRows
  <2>3. Alone' /\ InHand'  BY <1>2, <2>1, <2>2 DEF Alone, InHand
  <2>4. QED  BY <2>2, <2>3 DEF SInv
<1>5. QED  BY <1>1, <1>3, <1>4

LEMMA PromotesSerially ==
  ASSUME SInv, calm', TypeOK', PromoteRebuild \/ PromoteCopy \/ Redeploy
  PROVE  SInv'
<1>0. /\ TypeOK /\ Running = {} /\ \A q \in Reqs : req[q] = "idle"
      /\ rb = 0 /\ rs.at = "idle" /\ sweep.at = "idle" /\ unpack = 0
  BY AtRest DEF PromoteRebuild, PromoteCopy, Redeploy, SInv
<1>1. CASE PromoteRebuild \/ Redeploy
  <2>1. Insert(status, 0, 0) /\ UNCHANGED <<disk, cont, req, rb, rs, sweep, unpack>>
    BY <1>1 DEF PromoteRebuild, Redeploy
  <2>2. QED  BY <1>0, <2>1, Inserted
<1>2. CASE PromoteCopy
  <2>1. /\ n < MaxRows /\ n' = n + 1 /\ dirs' = dirs \cup {stamp + 1}
        /\ UNCHANGED <<up, image, strays, req, rb, rs, sweep, unpack>>
    BY <1>2 DEF PromoteCopy, cont
  <2>2. PICK i \in Ids : i = n + 1
    BY <1>0, <2>1, DeployerConstants DEF TypeOK, Ids
  <2>3. CASE current' = stamp + 1
    <3>1. \/ /\ status' = [Demoted EXCEPT ![i] = "deploying"]
             /\ pc' = [pc EXCEPT ![i] = "admit"]
          \/ UNCHANGED current
      BY <1>2, <2>2 DEF PromoteCopy
    <3>2. current' # current  BY <1>0, <2>3, DeployerConstants DEF TypeOK
    <3>3. pc'[i] = "admit" /\ \A j \in Ids : j # i => pc'[j] = pc[j]
      BY <1>0, <3>1, <3>2 DEF TypeOK
    <3>4. Running' = {i}  BY <1>0, <3>3 DEF Running
    <3>5. (\A j \in Ids : Demoted[j] # "live") /\ DOMAIN Demoted = Ids  BY DEF Demoted
    <3>6. LiveRows' = {}  BY <3>1, <3>2, <3>5 DEF LiveRows
    <3>7. QED  BY <1>0, <2>1, <2>2, <3>3, <3>4, <3>6, Replaced
  <2>4. CASE current' # stamp + 1
    <3>1. status' = [status EXCEPT ![i] = "failed"] /\ UNCHANGED <<current, path, pc>>
      BY <1>2, <2>2, <2>4 DEF PromoteCopy
    <3>2. status[i] = "none"  BY <1>0, <2>2, DeployerConstants DEF TypeOK, Ids
    <3>3. Kept  BY <1>0, <2>1, <3>1, <3>2, Unpublished DEF Kept
    <3>4. Running' = {} /\ LiveInv'  BY <1>0, <2>1, <3>1, <3>3, LiveStays
    <3>5. Alone' /\ InHand'  BY <1>0, <2>1, <3>4 DEF Alone, InHand
    <3>6. QED  BY <3>4, <3>5 DEF SInv
  <2>5. QED  BY <2>3, <2>4
<1>3. QED  BY <1>1, <1>2

LEMMA UploadsSerially ==
  ASSUME SInv, calm', TypeOK', UploadUnpack \/ UploadDeploy \/ UploadFails
  PROVE  SInv'
<1>0. TypeOK  BY DEF SInv
<1>1. CASE UploadUnpack
  <2>1. /\ Running = {} /\ \A q \in Reqs : req[q] = "idle"
        /\ rb = 0 /\ rs.at = "idle" /\ sweep.at = "idle"
    BY <1>1, AtRest DEF UploadUnpack
  <2>2. /\ dirs' = dirs \cup {stamp + 1}
        /\ UNCHANGED <<n, status, path, pc, current, up, image, strays, req, rb, rs, sweep>>
    BY <1>1 DEF UploadUnpack, rows, cont, tasks
  <2>3. Running' = {} /\ LiveInv'  BY <2>1, <2>2, LiveStays DEF Kept, LiveRows
  <2>4. Alone' /\ InHand'  BY <2>1, <2>2, <2>3 DEF Alone, InHand
  <2>5. QED  BY <2>3, <2>4 DEF SInv
<1>2. ASSUME unpack # 0
      PROVE  /\ Running = {} /\ \A q \in Reqs : req[q] = "idle"
             /\ rb = 0 /\ rs.at = "idle" /\ sweep.at = "idle"
  BY <1>2 DEF SInv, Alone
<1>3. CASE UploadDeploy
  <2>1. /\ unpack # 0 /\ Insert(status, 0, unpack) /\ unpack' = 0
        /\ UNCHANGED <<disk, cont, req, rb, rs, sweep>>
    BY <1>3 DEF UploadDeploy
  <2>2. QED  BY <1>2, <2>1, Inserted
<1>4. CASE UploadFails
  <2>1. /\ unpack # 0 /\ unpack' = 0
        /\ UNCHANGED <<n, status, path, pc, dirs, current, up, image, strays, req, rb, rs, sweep>>
    BY <1>4 DEF UploadFails, rows, disk, cont, tasks
  <2>2. Running' = {} /\ LiveInv'  BY <1>2, <2>1, LiveStays DEF Kept, LiveRows
  <2>3. Alone' /\ InHand'  BY <1>2, <2>1, <2>2 DEF Alone, InHand
  <2>4. QED  BY <2>2, <2>3 DEF SInv
<1>5. QED  BY <1>1, <1>3, <1>4

LEMMA RestartsSerially ==
  ASSUME SInv, calm', TypeOK',
         RestartInspect \/ RestartRefused \/ RestartStop \/ RestartStart
  PROVE  SInv'
<1>0. /\ TypeOK /\ Running = {} /\ \A q \in Reqs : req[q] = "idle"
      /\ rb = 0 /\ sweep.at = "idle" /\ unpack = 0
  <2>1. CASE RestartInspect  BY <2>1, AtRest DEF RestartInspect, SInv
  <2>2. CASE rs.at # "idle"  BY <2>2 DEF SInv, Alone
  <2>3. QED  BY <2>1, <2>2 DEF RestartRefused, RestartStop, RestartStart
<1>1. UNCHANGED <<n, status, path, pc, dirs, current, strays, req, rb, sweep, unpack>>
  BY DEF RestartInspect, RestartRefused, RestartStop, RestartStart, rows, disk, cont, tasks
<1>2. Kept /\ Running' = {}  BY <1>0, <1>1 DEF Kept, LiveRows, Running
<1>3. up # "absent" => Owed(image)
  BY <1>0 DEF SInv, LiveInv
<1>4. rs.at # "idle" => Owed(rs.image)
  BY DEF SInv, InHand
<1>5. rs'.at # "idle" => Owed(rs'.image)
  <2>1. CASE RestartInspect
    <3>1. up # "absent" /\ rs' = [at |-> "inspected", image |-> image]
      BY <2>1 DEF RestartInspect
    <3>2. rs'.image = image  BY <3>1
    <3>3. QED  BY <1>3, <3>1, <3>2
  <2>2. CASE RestartStop
    <3>1. rs.at # "idle" /\ rs' = [rs EXCEPT !.at = "stopped"]  BY <2>2 DEF RestartStop
    <3>2. rs'.image = rs.image  BY <1>0, <3>1 DEF TypeOK
    <3>3. QED  BY <1>4, <3>1, <3>2
  <2>3. CASE RestartRefused \/ RestartStart
    <3>1. rs' = [at |-> "idle", image |-> 0]  BY <2>3 DEF RestartRefused, RestartStart
    <3>2. rs'.at = "idle"  BY <3>1
    <3>3. QED  BY <3>2
  <2>4. QED  BY <2>1, <2>2, <2>3
<1>6. up' # "absent" => Owed(image')
  <2>1. CASE RestartInspect \/ RestartRefused
    <3>1. UNCHANGED <<up, image>>  BY <2>1 DEF RestartInspect, RestartRefused, cont
    <3>2. QED  BY <1>3, <3>1
  <2>2. CASE RestartStop \/ RestartStart
    <3>1. \/ up' = "absent"
          \/ up # "absent" /\ image' = image
          \/ rs.at # "idle" /\ image' = rs.image
      BY <2>2 DEF RestartStop, RestartStart, DockerRunFails, DockerStop
    <3>2. QED  BY <1>3, <1>4, <3>1
  <2>3. QED  BY <2>1, <2>2
<1>7. LiveInv'  BY <1>1, <1>2, <1>6, LiveKept DEF SInv
<1>8. rs'.at # "idle" =>
        rs'.image \in strays' \/ \A l \in Ids : Newest(l)' => rs'.image = path'[l]
  BY <1>2, <1>5, OwedStays
<1>9. InHand'  BY <1>2, <1>8 DEF InHand, Owed
<1>10. Alone'  BY <1>0, <1>1, <1>2 DEF Alone
<1>11. QED  BY <1>7, <1>9, <1>10 DEF SInv

LEMMA RecoversSerially ==
  ASSUME SInv, calm', TypeOK',
         RecoverList \/ RecoverPlan \/ RecoverSkip \/ RecoverInsert
  PROVE  SInv'
<1>0. /\ TypeOK /\ Running = {} /\ \A q \in Reqs : req[q] = "idle"
      /\ rb = 0 /\ rs.at = "idle" /\ unpack = 0
  <2>1. CASE RecoverList  BY <2>1, AtRest DEF RecoverList, SInv
  <2>2. CASE sweep.at \in {"listed", "planned"}  BY <2>2 DEF SInv, Alone
  <2>3. QED  BY <2>1, <2>2 DEF RecoverPlan, RecoverSkip, RecoverInsert
<1>1. CASE RecoverInsert
  <2>1. /\ Insert(status, path[sweep.row], sweep.tree) /\ sweep'.at = "waiting"
        /\ UNCHANGED <<disk, cont, req, rb, rs, unpack>>
    BY <1>1 DEF RecoverInsert
  <2>2. QED  BY <1>0, <2>1, Inserted
<1>2. CASE RecoverList \/ RecoverPlan \/ RecoverSkip
  <2>1. /\ UNCHANGED <<n, path, pc, dirs, current, up, image, strays, req, rb, rs, unpack>>
        /\ status' \in {status, Reclaim}
    BY <1>2 DEF RecoverList, RecoverPlan, RecoverSkip, rows, disk, cont, tasks
  <2>2. Kept  BY <1>0, <2>1, ReclaimKeeps
  <2>3. Running' = {} /\ LiveInv'  BY <1>0, <2>1, <2>2, LiveStays
  <2>4. Alone' /\ InHand'  BY <1>0, <2>1, <2>3 DEF Alone, InHand
  <2>5. QED  BY <2>3, <2>4 DEF SInv
<1>3. QED  BY <1>1, <1>2

\* What the running call and a restart hold, they hold after a step that changes
\* neither them nor what may serve.
LEMMA HandKept ==
  ASSUME SInv, Kept, UNCHANGED <<rel, prev, rs>>, Running' = Running,
         \A i \in Running : UNCHANGED <<status[i], pc[i]>>,
         up' # "absent" => up # "absent" /\ image' = image
  PROVE  InHand'
<1>1. ASSUME NEW i \in Running PROVE NewRow(i)'
  <2>1. NewRow(i) /\ i \in Ids  BY DEF SInv, InHand, Running
  <2>2. status'[i] = status[i] /\ pc'[i] = pc[i]  OBVIOUS
  <2>3. Owed(prev[i]) => prev'[i] \in strays' \/ \A l \in Ids : Newest(l)' => prev'[i] = path'[l]
    BY OwedStays
  <2>4. QED  BY <2>1, <2>2, <2>3 DEF NewRow, Owed
<1>2. rs'.at # "idle" =>
        rs'.image \in strays' \/ \A l \in Ids : Newest(l)' => rs'.image = path'[l]
  <2>1. rs.at # "idle" => Owed(rs.image)  BY DEF SInv, InHand
  <2>2. QED  BY <2>1, OwedStays
<1>3. QED  BY <1>1, <1>2 DEF InHand, Owed

\* The recovery that waited for its call settles the row; the clock moves; the
\* container exits or is gone, whatever is under way.
LEMMA SettlesSerially ==
  ASSUME SInv, TypeOK', RecoverEnds \/ ContainerGone \/ \E i \in Ids : GrowsStale(i)
  PROVE  SInv'
<1>0. TypeOK  BY DEF SInv
<1>1. CASE RecoverEnds
  <2>1. PICK k \in Ids : k = sweep.row /\ pc[k] \in {"thrown", "done"}
    BY <1>0, <1>1, DeployerConstants DEF RecoverEnds, TypeOK, Ids
  <2>2. /\ pc' = [pc EXCEPT ![k] = "done"] /\ sweep'.at = "idle"
        /\ UNCHANGED <<n, path, dirs, current, up, image, strays, rel, prev, req, rb, rs, unpack>>
    BY <1>1, <2>1 DEF RecoverEnds, disk, cont
  <2> DEFINE v == IF pc[k] = "thrown" /\ status[k] \in {"pending", "deploying"}
                    THEN "failed" ELSE status[k]
  <2>3. /\ \A j \in Ids : j # k => status'[j] = status[j]
        /\ status'[k] = status[k] \/ (status[k] \in {"pending", "deploying"} /\ status'[k] = "failed")
    <3>1. status' = [status EXCEPT ![k] = v]  BY <1>1, <2>1 DEF RecoverEnds
    <3>2. v = status[k] \/ (status[k] \in {"pending", "deploying"} /\ v = "failed")  OBVIOUS
    <3> HIDE DEF v
    <3>3. status \in [Ids -> Statuses]  BY <1>0 DEF TypeOK
    <3>4. status'[k] = v /\ \A j \in Ids : j # k => status'[j] = status[j]  BY <3>1, <3>3
    <3>5. QED  BY <3>2, <3>4
  <2>4. (\A j \in Ids : j # k => pc'[j] = pc[j]) /\ pc'[k] = "done"  BY <1>0, <2>2 DEF TypeOK
  <2>5. Running' = Running /\ k \notin Running  BY <2>1, <2>4 DEF Running
  <2>6. Kept  BY <2>2, <2>3 DEF Kept, LiveRows
  <2>7. \A i \in Running : i # k /\ i \in Ids  BY <2>5 DEF Running
  <2>8. \A i \in Running : UNCHANGED <<status[i], pc[i]>>  BY <2>3, <2>4, <2>7
  <2>9. InHand'  BY <2>2, <2>5, <2>6, <2>8, HandKept
  <2>10. Alone'  BY <2>2, <2>5 DEF SInv, Alone
  <2>11. up' # "absent" /\ (\A i \in Running' : pc'[i] # "probe") => Owed(image')
    <3>1. up # "absent" /\ (\A i \in Running : pc[i] # "probe") => Owed(image)
      BY DEF SInv, LiveInv
    <3>2. QED  BY <2>2, <2>5, <2>8, <3>1
  <2>12. LiveInv'  BY <2>2, <2>6, <2>11, LiveKept DEF SInv
  <2>13. QED  BY <2>9, <2>10, <2>12 DEF SInv
<1>2. CASE ContainerGone \/ \E i \in Ids : GrowsStale(i)
  <2>1. /\ UNCHANGED <<n, status, path, disk, strays, tasks, calls>>
        /\ up' # "absent" => up # "absent" /\ image' = image
    BY <1>2 DEF ContainerGone, GrowsStale, rows, cont
  <2>2. UNCHANGED <<n, status, path, pc, rel, prev, dirs, current, req, rb, rs, sweep, unpack>>
    BY <2>1 DEF disk, tasks, calls
  <2>3. Running' = Running /\ Kept  BY <2>1, <2>2 DEF Running, Kept, LiveRows
  <2>4. Alone'  BY <2>2, <2>3 DEF SInv, Alone
  <2>5. InHand'  BY <2>1, <2>2, <2>3, HandKept
  <2>6. up' # "absent" /\ (\A i \in Running' : pc'[i] # "probe") => Owed(image')
    <3>1. up # "absent" /\ (\A i \in Running : pc[i] # "probe") => Owed(image)
      BY DEF SInv, LiveInv
    <3>2. QED  BY <2>1, <2>2, <2>3, <3>1
  <2>7. LiveInv'  BY <2>2, <2>3, <2>6, LiveKept DEF SInv
  <2>8. QED  BY <2>4, <2>5, <2>7 DEF SInv
<1>3. QED  BY <1>1, <1>2

\* A server that dies when nothing is under way leaves the symlink alone.
LEMMA CrashesAtRest ==
  ASSUME SInv, calm', TypeOK', Crash
  PROVE  SInv'
<1>0. TypeOK  BY DEF SInv
<1>1. Quiet  BY DEF Crash
<1>2. /\ Running = {} /\ \A q \in Reqs : req[q] = "idle"
      /\ rb = 0 /\ rs.at = "idle" /\ sweep.at = "idle" /\ unpack = 0
  BY <1>1 DEF Quiet
<1>3. /\ status' = Reclaim
      /\ pc' = [i \in Ids |-> IF pc[i] = "none" THEN "none" ELSE "done"]
      /\ req' = [r \in Reqs |-> "idle"] /\ rb' = 0 /\ rs'.at = "idle" /\ sweep'.at = "idle"
      /\ unpack' = 0 /\ current' \in MidSwap
      /\ UNCHANGED <<n, path, dirs, up, image, strays>>
  BY DEF Crash, cont
<1>4. Kept  BY <1>0, <1>3, ReclaimKeeps
<1>5. Running' = {}  BY <1>3 DEF Running
<1>6. current' = current
  <2>1. {j \in Ids : pc[j] = "probe" /\ up = "running"} = {}  BY <1>2 DEF Running
  <2>2. QED  BY <1>2, <1>3, <2>1 DEF MidSwap
<1>7. LiveInv'  BY <1>2, <1>3, <1>4, <1>5, <1>6, LiveStays
<1>8. Alone' /\ InHand'  BY <1>3, <1>5 DEF Alone, InHand
<1>9. QED  BY <1>7, <1>8 DEF SInv

\* Every step that leaves the history calm.
LEMMA SerialStep ==
  ASSUME SInv, calm, calm', [Next]_vars
  PROVE  SInv'
<1>1. TypeOK'  BY TypeStep DEF SInv
<1>2. CASE \E r \in Reqs : DeployRequest(r) \/ DeployInsert(r) \/ DeployRefused(r)
  BY <1>1, <1>2, DeploysSerially
<1>3. CASE RollbackRequest \/ RollbackCommit \/ RollbackRefused
  BY <1>1, <1>3, RollsBackSerially
<1>4. CASE PromoteRebuild \/ PromoteCopy \/ Redeploy
  BY <1>1, <1>4, PromotesSerially
<1>5. CASE UploadUnpack \/ UploadDeploy \/ UploadFails
  BY <1>1, <1>5, UploadsSerially
<1>6. ASSUME NEW i \in Ids, DeployStep(i)
      PROVE  SInv'
  <2>1. CASE \/ Throws(i, ThrowingPcs) \/ Fetch(i) \/ Build(i)
             \/ StopOld(i) \/ Inject(i) \/ Start(i) \/ StartRefused(i) \/ StartFails(i)
             \/ ProbeFails(i) \/ Revert(i)
    BY <1>1, <2>1, MovesSerially
  <2>2. CASE Capture(i)  BY <1>1, <2>2, CapturesSerially
  <2>3. CASE ProbePasses(i)  BY <1>1, <2>3, PublishesSerially
  <2>4. CASE AdmitTree(i) \/ AdmitClone(i) \/ AdmitReplay(i)
    BY <1>1, <2>4, AdmitsSerially
  <2>5. CASE PreambleThrows(i) \/ After(i) \/ Fail(i) \/ Settle(i)
    BY <1>1, <2>5, EndsSerially
  <2>6. QED  BY <1>6, <2>1, <2>2, <2>3, <2>4, <2>5 DEF DeployStep
<1>7. CASE RecoverEnds \/ ContainerGone \/ \E i \in Ids : GrowsStale(i)
  BY <1>1, <1>7, SettlesSerially
<1>8. CASE RestartInspect \/ RestartRefused \/ RestartStop \/ RestartStart
  BY <1>1, <1>8, RestartsSerially
<1>9. CASE RecoverList \/ RecoverPlan \/ RecoverSkip \/ RecoverInsert
  BY <1>1, <1>9, RecoversSerially
<1>10. CASE Crash  BY <1>1, <1>10, CrashesAtRest
<1>11. CASE UNCHANGED vars
  <2>1. UNCHANGED <<rows, disk, cont, tasks, calls>>  BY <1>11 DEF vars
  <2>2. (\A l : Newest(l)' <=> Newest(l)) /\ Running' = Running
    BY <2>1 DEF Newest, LiveRows, Running, rows, tasks
  <2>3. \A i : NewRow(i)' <=> NewRow(i)
    BY <2>1, <2>2 DEF NewRow, Owed, rows, disk, cont, tasks
  <2>4. Alone'  BY <2>1, <2>2 DEF SInv, Alone, rows, calls
  <2>5. InHand'  BY <2>1, <2>2, <2>3 DEF SInv, InHand, Owed, rows, disk, cont, calls
  <2>6. LiveInv'  BY <2>1, <2>2 DEF SInv, LiveInv, Owed, rows, disk, cont, tasks
  <2>7. QED  BY <1>1, <2>4, <2>5, <2>6 DEF SInv
<1>12. QED
  BY <1>2, <1>3, <1>4, <1>5, <1>6, <1>7, <1>8, <1>9, <1>10, <1>11 DEF Next, Exhausted

\* An overlap is never forgotten.
LEMMA CalmOnce ==
  ASSUME [Next]_vars, calm'
  PROVE  calm
<1> USE DEF calls
<1>1. CASE \E r \in Reqs : DeployRequest(r) \/ DeployInsert(r) \/ DeployRefused(r)
  BY <1>1, AtRest DEF DeployRequest, DeployInsert, DeployRefused
<1>2. CASE \/ RollbackRequest \/ RollbackCommit \/ RollbackRefused
           \/ PromoteRebuild \/ PromoteCopy \/ Redeploy
  BY <1>2, AtRest
     DEF RollbackRequest, RollbackCommit, RollbackRefused, PromoteRebuild, PromoteCopy, Redeploy
<1>3. CASE UploadUnpack \/ UploadDeploy \/ UploadFails
  BY <1>3, AtRest DEF UploadUnpack, UploadDeploy, UploadFails
<1>4. ASSUME NEW i \in Ids, DeployStep(i)
      PROVE  calm
  BY <1>4
     DEF DeployStep, PreambleThrows, Throws, AdmitTree, AdmitClone, AdmitReplay, Fetch, Build,
         Capture, StopOld, Inject, Start, StartRefused, StartFails, ProbePasses, Publish,
         ProbeFails, Revert, After, Fail, Settle
<1>5. CASE \/ RestartInspect \/ RestartRefused \/ RestartStop \/ RestartStart
           \/ RecoverList \/ RecoverPlan \/ RecoverSkip \/ RecoverInsert \/ RecoverEnds
  BY <1>5, AtRest
     DEF RestartInspect, RestartRefused, RestartStop, RestartStart, RecoverList, RecoverPlan,
         RecoverSkip, RecoverInsert, RecoverEnds
<1>6. CASE ContainerGone \/ Crash \/ (\E i \in Ids : GrowsStale(i)) \/ UNCHANGED vars
  BY <1>6 DEF ContainerGone, Crash, GrowsStale, vars
<1>7. QED  BY <1>1, <1>2, <1>3, <1>4, <1>5, <1>6 DEF Next, Exhausted

LEMMA SerialInit ==
  ASSUME Init
  PROVE  SInv
<1>1. TypeOK  BY TypeInit
<1>2. Running = {} /\ LiveRows = {}  BY DEF Init, Running, LiveRows
<1>3. QED  BY <1>1, <1>2 DEF Init, SInv, Alone, InHand, LiveInv, Newest, Owed

\* The inductive invariant: as long as no operation began while another was under
\* way, the calls and the live release are as above.
CInv == TypeOK /\ (calm => SInv)

LEMMA CalmInvariant == Spec => []CInv
<1>1. Init => CInv
  BY SerialInit, TypeInit DEF CInv
<1>2. CInv /\ [Next]_vars => CInv'
  BY TypeStep, SerialStep, CalmOnce DEF CInv
<1> QED
  BY <1>1, <1>2, PTL DEF Spec

\* What Max picks is the newest live release.
LEMMA MaxIsNewest ==
  ASSUME LiveRows # {}
  PROVE  Newest(Max(LiveRows)) /\ Max(LiveRows) \in Ids
<1> DEFINE above(i) == {j \in LiveRows : j > i}
           T == {above(i) : i \in LiveRows}
           R == StrictSubsetOrdering(LiveRows)
<1>0. \A k \in LiveRows : k \in Nat /\ k \in Ids  BY DeployerConstants DEF LiveRows, Ids
<1>1. IsFiniteSet(LiveRows)
  <2>1. IsFiniteSet(Ids)  BY DeployerConstants, FS_Interval DEF Ids
  <2>2. LiveRows \subseteq Ids  BY DEF LiveRows
  <2>3. QED  BY <2>1, <2>2, FS_Subset
<1>2. \A i \in LiveRows : above(i) \in FiniteSubsetsOf(LiveRows)
  <2> SUFFICES ASSUME NEW i \in LiveRows PROVE above(i) \in FiniteSubsetsOf(LiveRows)  OBVIOUS
  <2>1. above(i) \in SUBSET LiveRows  OBVIOUS
  <2>2. IsFiniteSet(above(i))  BY <1>1, <2>1, FS_Subset
  <2>3. QED  BY <2>1, <2>2 DEF FiniteSubsetsOf
<1>3. T \subseteq FiniteSubsetsOf(LiveRows) /\ T # {}  BY <1>2
<1>4. PICK x \in T : \A y \in T : ~(<<y, x>> \in R)
  <2> HIDE DEF T, R
  <2>1. IsWellFoundedOn(R, FiniteSubsetsOf(LiveRows))
    BY FS_StrictSubsetOrderingWellFounded DEF R
  <2>2. QED  BY <1>3, <2>1, WFMin
<1>5. PICK m \in LiveRows : x = above(m)  BY <1>4
<1>6. \A j \in LiveRows : m >= j
  <2> SUFFICES ASSUME NEW j \in LiveRows, ~(m >= j) PROVE FALSE  OBVIOUS
  <2>1. m < j  BY <1>0
  <2>2. j \in above(m) /\ j \notin above(j)  BY <1>0, <2>1
  <2>3. \A k \in above(j) : k \in above(m)  BY <1>0, <2>1
  <2>4. <<above(j), above(m)>> \in R  BY <2>2, <2>3 DEF StrictSubsetOrdering
  <2>5. QED  BY <1>4, <1>5, <2>4
<1>7. Max(LiveRows) \in LiveRows /\ \A j \in LiveRows : Max(LiveRows) >= j
  BY <1>6 DEF Max
<1>8. Max(LiveRows) \in Nat /\ \A j \in LiveRows : j <= Max(LiveRows)  BY <1>0, <1>7
<1>9. QED  BY <1>0, <1>7, <1>8 DEF Newest

\* At rest `current' names the newest live release and its directory is on disk,
\* over any number of operations in any order that have not overlapped; or a
\* deploy that failed its verification left `current' on its own release.
THEOREM LiveReleaseStaysCurrent == Spec => []LiveReleaseIsCurrent
<1>1. CInv => LiveReleaseIsCurrent
  BY MaxIsNewest DEF CInv, SInv, LiveInv, LiveReleaseIsCurrent
<1> QED
  BY <1>1, CalmInvariant, PTL

\* ... and the container that runs was made from it, whatever failed, was reverted,
\* rolled back, restarted or recovered on the way; or from a release that a failed
\* deploy left behind.
THEOREM TheLiveReleaseServes == Spec => []ServesTheLiveRelease
<1>1. CInv => ServesTheLiveRelease
  BY MaxIsNewest DEF CInv, SInv, LiveInv, Owed, ServesTheLiveRelease, Quiet
<1> QED
  BY <1>1, CalmInvariant, PTL
=============================================================================
