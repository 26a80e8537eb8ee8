------------------------ MODULE AdminOperationsProofs ------------------------
(***************************************************************************)
(* Proofs about two long operations of an administrator, while deploys go  *)
(* on: the restore of an application (RestoreGuard) and the encryption of  *)
(* the databases at rest (MariadbEncryption).  The two share nothing.      *)
(*                                                                         *)
(* The restore, for any environments and any number of calls.  The         *)
(* inductive invariant is TypeOK with DeploysExcluded: the lock is taken   *)
(* before the in-flight check and a deploy's row is inserted before its    *)
(* look at the lock, so one of the two always sees the other.  So what a   *)
(* restore has stopped stays stopped until it starts it, but for the       *)
(* restarts and health checks that looked at the lock before it.           *)
(*                                                                         *)
(* Encryption: EncryptionInv adds to the types what the settings, the      *)
(* container, the ensureServer and the operation under way know of one     *)
(* another.  A key that is not loaded is one that nothing needs, and a     *)
(* server without the plugin is one that has nothing to read with it.      *)
(***************************************************************************)
EXTENDS RestoreGuard, MariadbEncryption, TLAPS

Pcs == {"idle", "asserted", "checking"} \cup DeployPcs

\* The types, in the form the steps use.
CallType == [at : Pcs, env : Envs \cup {NONE}]

\* Move changes where one call is suspended, and nothing else of any call.
LEMMA MoveOnly ==
  ASSUME call \in [Calls -> CallType], NEW c \in Calls, NEW where \in Pcs, Move(c, where)
  PROVE  /\ call' \in [Calls -> CallType]
         /\ call'[c].at = where /\ call'[c].env = call[c].env
         /\ \A o \in Calls \ {c} : call'[o] = call[o]
<1>1. call' = [call EXCEPT ![c] = [call[c] EXCEPT !.at = where]]
  BY DEF Move
<1>2. call[c] \in CallType
  OBVIOUS
<1>3. /\ [call[c] EXCEPT !.at = where] \in CallType
      /\ [call[c] EXCEPT !.at = where].at = where
      /\ [call[c] EXCEPT !.at = where].env = call[c].env
  BY <1>2 DEF CallType
<1> QED
  BY <1>1, <1>3

\* Leave makes one call idle and touches no other.
LEMMA LeaveOnly ==
  ASSUME call \in [Calls -> CallType], NEW c \in Calls, Leave(c)
  PROVE  /\ call' \in [Calls -> CallType]
         /\ call'[c] = NoCall
         /\ \A o \in Calls \ {c} : call'[o] = call[o]
<1>1. NoCall \in CallType
  BY DEF NoCall, CallType, Pcs
<1> QED
  BY <1>1 DEF Leave

\* Beginning a call: idle before, with an environment after.
LEMMA BeginOnly ==
  ASSUME call \in [Calls -> CallType], NEW c \in Calls, NEW where \in Pcs, NEW e \in Envs,
         call' = [call EXCEPT ![c] = [at |-> where, env |-> e]]
  PROVE  /\ call' \in [Calls -> CallType]
         /\ call'[c].at = where /\ call'[c].env = e
         /\ \A o \in Calls \ {c} : call'[o] = call[o]
<1>1. [at |-> where, env |-> e] \in CallType
  BY DEF CallType
<1> QED
  BY <1>1

-----------------------------------------------------------------------------
(* What a step of a call does, stated once for all of its actions *)

\* A call ends, moves on or begins; a deploy that gets past its admission, or
\* goes on from there, keeps its environment.
CallStep(c) ==
  /\ call' \in [Calls -> CallType]
  /\ \A o \in Calls \ {c} : call'[o] = call[o]
  /\ call'[c].at = "idle" <=> call'[c].env = NONE

\* A deploy's step, seen from the lock: it was past admission before, in the
\* same environment, or it sees that its environment is not locked.
Admitted(c) ==
  call'[c].at \in PastAdmission =>
    /\ call'[c].env = call[c].env
    /\ call[c].at \in PastAdmission \/ ~RestoreInProgress(call[c].env)

\* A deploy's step touches its own call only, and admits it beside no restore.
LEMMA DeployCallStep ==
  ASSUME TypeOK, NEW d \in Deploys, DeployStep(d)
  PROVE  CallStep(d) /\ Admitted(d) /\ UNCHANGED <<lock, restore>>
<1> USE DEF CallStep, Admitted, RestoreInProgress
<1>1. d \in Calls /\ call \in [Calls -> CallType] /\ NONE \notin Envs
  BY GuardConstants DEF TypeOK, Calls, CallType, Pcs
<1>2. call[d].at = "idle" <=> call[d].env = NONE
  BY <1>1 DEF TypeOK
<1>3. ASSUME NEW w \in DeployPcs, Move(d, w), call[d].at # "idle",
             w \in PastAdmission =>
               call[d].at \in PastAdmission \/ call[d].env \notin lock
      PROVE  CallStep(d) /\ Admitted(d)
  <2>1. w \in Pcs /\ w # "idle"
    BY DEF Pcs, DeployPcs
  <2> QED
    BY <1>1, <1>2, <1>3, <2>1, MoveOnly
<1>4. ASSUME Leave(d)
      PROVE  CallStep(d) /\ Admitted(d)
  BY <1>1, <1>4, LeaveOnly DEF NoCall, PastAdmission, DeployPcs
<1>5. CASE DeployInsert(d)
  <2>1. PICK e \in Envs : call' = [call EXCEPT ![d] = [at |-> "inserted", env |-> e]]
    BY <1>5 DEF DeployInsert
  <2>2. "inserted" \in Pcs /\ "inserted" \notin PastAdmission
    BY DEF Pcs, DeployPcs, PastAdmission
  <2> QED
    BY <1>1, <1>5, <2>1, <2>2, BeginOnly DEF DeployInsert
<1>6. CASE DeployAdmit(d)
  <2>1. "building" \in DeployPcs
    BY DEF DeployPcs
  <2> QED
    BY <1>3, <1>4, <1>6, <2>1 DEF DeployAdmit
<1>7. CASE DeployFails(d)
  BY <1>4, <1>7 DEF DeployFails
<1>8. CASE DeployStop(d)
  <2>1. "stopped" \in DeployPcs /\ "building" \in PastAdmission
    BY DEF DeployPcs, PastAdmission
  <2> QED
    BY <1>3, <1>8, <2>1 DEF DeployStop
<1>9. CASE DeployStart(d)
  <2>1. {"starting", "restoring"} \subseteq DeployPcs
        /\ {"stopped", "reverting"} \subseteq PastAdmission
    BY DEF DeployPcs, PastAdmission
  <2> QED
    BY <1>3, <1>4, <1>9, <2>1 DEF DeployStart
<1>10. CASE DeployRun(d)
  <2>1. "probing" \in DeployPcs /\ {"starting", "restoring"} \subseteq PastAdmission
    BY DEF DeployPcs, PastAdmission
  <2> QED
    BY <1>3, <1>4, <1>10, <2>1 DEF DeployRun
<1>11. CASE DeployProbed(d)
  <2>1. "reverting" \in DeployPcs /\ "probing" \in PastAdmission
    BY DEF DeployPcs, PastAdmission
  <2> QED
    BY <1>3, <1>4, <1>11, <2>1 DEF DeployProbed
<1> QED
  BY <1>5, <1>6, <1>7, <1>8, <1>9, <1>10, <1>11
     DEF DeployStep, DeployInsert, DeployAdmit, DeployFails, DeployStop, DeployStart,
         DeployRun, DeployProbed

\* A restart's step touches its own call only.
LEMMA RestartCallStep ==
  ASSUME TypeOK, NEW r \in Restarts, RestartStep(r)
  PROVE  CallStep(r) /\ UNCHANGED <<lock, restore>>
<1> USE DEF CallStep
<1>1. r \in Calls /\ call \in [Calls -> CallType] /\ NONE \notin Envs
  BY GuardConstants DEF TypeOK, Calls, CallType, Pcs
<1>2. call[r].at = "idle" <=> call[r].env = NONE
  BY <1>1 DEF TypeOK
<1>3. {"asserted", "stopped", "starting"} \subseteq Pcs
  BY DEF Pcs, DeployPcs
<1>4. ASSUME Leave(r)
      PROVE  CallStep(r)
  BY <1>1, <1>4, LeaveOnly DEF NoCall
<1>5. CASE RestartBegin(r)
  <2>1. PICK e \in Envs : call' = [call EXCEPT ![r] = [at |-> "asserted", env |-> e]]
    BY <1>5 DEF RestartBegin
  <2> QED
    BY <1>1, <1>3, <1>5, <2>1, BeginOnly DEF RestartBegin
<1>6. CASE RestartStop(r)
  BY <1>1, <1>2, <1>3, <1>4, <1>6, MoveOnly DEF RestartStop
<1>7. CASE RestartStart(r)
  BY <1>1, <1>2, <1>3, <1>4, <1>7, MoveOnly DEF RestartStart
<1>8. CASE RestartRun(r)
  BY <1>4, <1>8 DEF RestartRun
<1> QED
  BY <1>5, <1>6, <1>7, <1>8 DEF RestartStep

\* A health check's step touches its own call only.
LEMMA CheckCallStep ==
  ASSUME TypeOK, NEW h \in Checks, CheckStep(h)
  PROVE  CallStep(h) /\ UNCHANGED <<lock, restore>>
<1> USE DEF CallStep
<1>1. h \in Calls /\ call \in [Calls -> CallType] /\ NONE \notin Envs
  BY GuardConstants DEF TypeOK, Calls, CallType, Pcs
<1>2. "checking" \in Pcs
  BY DEF Pcs
<1>3. ASSUME Leave(h)
      PROVE  CallStep(h)
  BY <1>1, <1>3, LeaveOnly DEF NoCall
<1>4. CASE CheckBegin(h)
  <2>1. PICK e \in Envs : call' = [call EXCEPT ![h] = [at |-> "checking", env |-> e]]
    BY <1>4 DEF CheckBegin
  <2> QED
    BY <1>1, <1>2, <1>4, <2>1, BeginOnly DEF CheckBegin
<1>5. CASE CheckEnds(h)
  BY <1>3, <1>5 DEF CheckEnds
<1>6. CASE CheckRestarts(h)
  BY <1>3, <1>6 DEF CheckRestarts
<1> QED
  BY <1>4, <1>5, <1>6 DEF CheckStep

\* The containers stay in their type whatever runs.
LEMMA UpStep ==
  ASSUME TypeOK, [Next]_vars
  PROVE  up' \in [Envs -> {"running", "exited", "absent"}]
<1> USE DEF TypeOK
<1>1. CASE RestoreLock \/ RestoreStep
  BY <1>1 DEF RestoreLock, RestoreStep, RestoreCheck, RestoreWork, RestoreWorkEnds,
              RestoreEnd, RestoreStop, RestoreStart
<1>2. CASE \E d \in Deploys : DeployStep(d)
  BY <1>2 DEF DeployStep, DeployInsert, DeployAdmit, DeployFails, DeployStop,
              DeployStart, DeployRun, DeployProbed
<1>3. CASE \E r \in Restarts : RestartStep(r)
  BY <1>3 DEF RestartStep, RestartBegin, RestartStop, RestartStart, RestartRun
<1>4. CASE \E h \in Checks : CheckStep(h)
  BY <1>4 DEF CheckStep, CheckBegin, CheckEnds, CheckRestarts
<1>5. CASE Crash \/ UNCHANGED vars
  BY <1>5 DEF Crash, vars
<1> QED
  BY <1>1, <1>2, <1>3, <1>4, <1>5 DEF Next

\* Only environments that are locked count as disturbed.
LEMMA DisturbedStep ==
  ASSUME TypeOK, [Next]_vars
  PROVE  disturbed' \subseteq lock'
<1> USE DEF TypeOK
<1>1. CASE RestoreLock \/ RestoreStep
  BY <1>1 DEF RestoreLock, RestoreStep, RestoreCheck, RestoreWork, RestoreWorkEnds,
              RestoreEnd, RestoreStop, RestoreStart
<1>2. CASE \E d \in Deploys : DeployStep(d)
  BY <1>2 DEF DeployStep, DeployInsert, DeployAdmit, DeployFails, DeployStop,
              DeployStart, DeployRun, DeployProbed
<1>3. CASE \E r \in Restarts : RestartStep(r)
  BY <1>3 DEF RestartStep, RestartBegin, RestartStop, RestartStart, RestartRun, Disturbs
<1>4. CASE \E h \in Checks : CheckStep(h)
  BY <1>4 DEF CheckStep, CheckBegin, CheckEnds, CheckRestarts, Disturbs
<1>5. CASE Crash \/ UNCHANGED vars
  BY <1>5 DEF Crash, vars
<1> QED
  BY <1>1, <1>2, <1>3, <1>4, <1>5 DEF Next

-----------------------------------------------------------------------------
(* The type invariant *)

RestoreType ==
  [at : {"idle", "checking", "stopping", "work", "starting"},
   todo : SUBSET Envs, stopped : SUBSET Envs, startFailures : SUBSET Envs,
   keepRunning : BOOLEAN]

\* What TypeOK says of the restore and its lock.
LockType ==
  /\ lock \in SUBSET Envs
  /\ restore \in RestoreType
  /\ lock = {} <=> restore.at = "idle"
  /\ restore.todo \cup restore.stopped \subseteq lock

\* A restore's step keeps the types of the lock and of the restore.
LEMMA RestoreTypes ==
  ASSUME LockType, RestoreLock \/ RestoreStep \/ Crash
  PROVE  LockType'
<1> USE DEF LockType, RestoreType
<1>1. NoRestore \in RestoreType /\ NoRestore.at = "idle"
      /\ NoRestore.todo = {} /\ NoRestore.stopped = {}
  BY DEF NoRestore
<1>2. CASE RestoreLock
  <2>1. PICK E \in (SUBSET Envs) \ {{}}, keep \in BOOLEAN :
          /\ lock' = E
          /\ restore' = [at |-> "checking", todo |-> E, stopped |-> {},
                         startFailures |-> {}, keepRunning |-> keep]
    BY <1>2 DEF RestoreLock
  <2> QED
    BY <2>1
<1>3. CASE RestoreCheck
  BY <1>1, <1>3 DEF RestoreCheck
<1>4. CASE RestoreWork
  BY <1>4 DEF RestoreWork
<1>5. CASE RestoreWorkEnds
  BY <1>5 DEF RestoreWorkEnds
<1>6. CASE RestoreEnd \/ Crash
  BY <1>1, <1>6 DEF RestoreEnd, Crash
<1>7. ASSUME NEW e \in Envs, RestoreStop(e)
      PROVE  LockType'
  <2>1. /\ restore.at = "stopping" /\ e \in restore.todo /\ lock' = lock
        /\ restore'.at \in {"stopping", "starting"}
        /\ restore'.todo \in {restore.todo \ {e}, restore.stopped}
        /\ restore'.stopped \in {restore.stopped, restore.stopped \cup {e}}
    BY <1>7 DEF RestoreStop
  <2>2. /\ restore.todo \ {e} \in SUBSET Envs /\ restore.stopped \in SUBSET Envs
        /\ restore.stopped \cup {e} \in SUBSET Envs
    OBVIOUS
  <2>3. restore' \in RestoreType
    BY <1>7, <2>2 DEF RestoreStop
  <2> QED
    BY <2>1, <2>3
<1>8. ASSUME NEW e \in Envs, RestoreStart(e)
      PROVE  LockType'
  <2>1. /\ restore.at = "starting" /\ lock' = lock
        /\ restore'.at = "starting"
        /\ restore'.todo = restore.todo \ {e}
        /\ restore'.stopped = restore.stopped
    BY <1>8 DEF RestoreStart
  <2>2. /\ restore.todo \ {e} \in SUBSET Envs
        /\ restore.startFailures \cup {e} \in SUBSET Envs
    OBVIOUS
  <2>3. restore' \in RestoreType
    BY <1>8, <2>2 DEF RestoreStart
  <2> QED
    BY <2>1, <2>3
<1> QED
  BY <1>2, <1>3, <1>4, <1>5, <1>6, <1>7, <1>8 DEF RestoreStep

\* Idle calls and no lock are typed.
LEMMA TypeInit == Init => TypeOK
BY GuardConstants DEF Init, TypeOK, NoRestore, NoCall

\* Every step keeps the types.
LEMMA TypeStep ==
  ASSUME TypeOK, [Next]_vars
  PROVE  TypeOK'
<1>1. LockType
  BY DEF TypeOK, LockType, RestoreType
<1>2. call \in [Calls -> CallType] /\ \A c \in Calls : call[c].at = "idle" <=> call[c].env = NONE
  BY DEF TypeOK, CallType, Pcs
<1>3. SUFFICES /\ LockType'
               /\ call' \in [Calls -> CallType]
               /\ \A c \in Calls : call'[c].at = "idle" <=> call'[c].env = NONE
  BY UpStep, DisturbedStep DEF TypeOK, LockType, RestoreType, CallType, Pcs
<1>4. ASSUME NEW c \in Calls, CallStep(c), UNCHANGED <<lock, restore>>
      PROVE  /\ LockType'
             /\ call' \in [Calls -> CallType]
             /\ \A o \in Calls : call'[o].at = "idle" <=> call'[o].env = NONE
  BY <1>1, <1>2, <1>4 DEF CallStep, LockType
<1>5. CASE RestoreLock \/ RestoreStep
  <2>1. UNCHANGED call
    BY <1>5 DEF RestoreLock, RestoreStep, RestoreCheck, RestoreWork, RestoreWorkEnds,
                RestoreEnd, RestoreStop, RestoreStart
  <2> QED
    BY <1>1, <1>2, <1>5, <2>1, RestoreTypes
<1>6. CASE Crash
  <2>1. call' = [c \in Calls |-> NoCall] /\ NoCall \in CallType
        /\ NoCall.at = "idle" /\ NoCall.env = NONE
    BY <1>6 DEF Crash, NoCall, CallType, Pcs
  <2> QED
    BY <1>1, <1>6, <2>1, RestoreTypes
<1>7. CASE \E d \in Deploys : DeployStep(d)
  BY <1>4, <1>7, DeployCallStep DEF Calls
<1>8. CASE \E r \in Restarts : RestartStep(r)
  BY <1>4, <1>8, RestartCallStep DEF Calls
<1>9. CASE \E h \in Checks : CheckStep(h)
  BY <1>4, <1>9, CheckCallStep DEF Calls
<1>10. CASE UNCHANGED vars
  BY <1>1, <1>2, <1>10 DEF vars, LockType
<1> QED
  BY <1>5, <1>6, <1>7, <1>8, <1>9, <1>10 DEF Next

\* The lock and the restore agree, and every call that is not idle has an
\* environment, in every state of every run.
THEOREM GuardTypes == Spec => []TypeOK
<1>1. TypeOK /\ [Next]_vars => TypeOK'
  BY TypeStep
<1> QED
  BY TypeInit, <1>1, PTL DEF Spec

-----------------------------------------------------------------------------
(* A restore and a deploy exclude each other *)

\* At first nothing is deployed or restored.
LEMMA ExcludedInit == Init => DeploysExcluded
BY DEF Init, NoRestore, DeploysExcluded, Locked

\* Every step keeps deploys and restores apart.
LEMMA ExcludedStep ==
  ASSUME TypeOK, DeploysExcluded, [Next]_vars
  PROVE  DeploysExcluded'
<1> USE DEF DeploysExcluded, Locked
<1>1. \A d \in Deploys : d \in Calls
  BY DEF Calls
<1>2. ASSUME NEW c \in Calls, CallStep(c), c \in Deploys => Admitted(c),
             UNCHANGED <<lock, restore>>
      PROVE  DeploysExcluded'
  BY <1>1, <1>2 DEF CallStep, Admitted, RestoreInProgress
<1>3. CASE RestoreLock \/ RestoreEnd \/ Crash
  BY <1>3 DEF RestoreLock, RestoreEnd, Crash, NoRestore
<1>4. CASE RestoreCheck
  \* Every deploy past its admission still has its row: none is in a locked one.
  <2>1. PastAdmission \subseteq DeployPcs
    BY DEF PastAdmission
  <2> QED
    BY <1>4, <2>1 DEF RestoreCheck, InFlight, NoRestore
<1>5. CASE RestoreWork \/ RestoreWorkEnds \/ \E e \in Envs : RestoreStop(e) \/ RestoreStart(e)
  <2>1. UNCHANGED <<lock, call>> /\ restore.at \in {"stopping", "work", "starting"}
    BY <1>5 DEF RestoreWork, RestoreWorkEnds, RestoreStop, RestoreStart
  <2> QED
    BY <2>1
<1>6. CASE \E d \in Deploys : DeployStep(d)
  BY <1>1, <1>2, <1>6, DeployCallStep
<1>7. CASE \E r \in Restarts : RestartStep(r)
  BY <1>2, <1>7, RestartCallStep, GuardConstants DEF Calls
<1>8. CASE \E h \in Checks : CheckStep(h)
  BY <1>2, <1>8, CheckCallStep, GuardConstants DEF Calls
<1>9. CASE UNCHANGED vars
  BY <1>9 DEF vars
<1> QED
  BY <1>3, <1>4, <1>5, <1>6, <1>7, <1>8, <1>9 DEF Next, RestoreStep

\* However deploys, restarts, health checks and restores interleave, a restore
\* never works beside a deploy of its environments that passed its admission.
THEOREM RestoreExcludesDeploys == Spec => []DeploysExcluded
<1>1. TypeOK /\ DeploysExcluded /\ [Next]_vars => TypeOK' /\ DeploysExcluded'
  BY TypeStep, ExcludedStep
<1> QED
  BY TypeInit, ExcludedInit, <1>1, PTL DEF Spec

-----------------------------------------------------------------------------
(* What a restore stopped stays stopped, but for restarts and health checks *)

\* What has been visited is stopped, and what has been started runs again,
\* unless a restart or a health check has been there.
Progress ==
  /\ restore.at = "checking" => restore.todo = lock
  /\ restore.at = "stopping" => ~restore.keepRunning
  /\ restore.at = "work" /\ ~restore.keepRunning => restore.todo = {}
  /\ restore.at \in {"stopping", "work"} /\ ~restore.keepRunning =>
       \A e \in lock \ restore.todo : up[e] # "running" \/ e \in disturbed
  /\ restore.at = "starting" =>
       \A e \in restore.stopped \ restore.todo :
         up[e] = "running" \/ e \in restore.startFailures \/ e \in disturbed

\* A deploy touches the container of its own environment, past its admission.
LEMMA DeployTouches ==
  ASSUME TypeOK, NEW d \in Deploys, DeployStep(d)
  PROVE  UNCHANGED disturbed /\ \A e \in Envs : up'[e] # up[e] => call[d].env = e /\ call[d].at \in PastAdmission
<1> USE DEF PastAdmission, DeployPcs, TypeOK
<1>1. CASE DeployStop(d)
  BY <1>1 DEF DeployStop
<1>2. CASE DeployRun(d)
  BY <1>2 DEF DeployRun
<1>3. CASE DeployProbed(d)
  BY <1>3 DEF DeployProbed
<1> QED
  BY <1>1, <1>2, <1>3 DEF DeployStep, DeployInsert, DeployAdmit, DeployFails, DeployStart

\* A restart or a health check disturbs the locked container it touches.
LEMMA OthersDisturb ==
  ASSUME TypeOK, NEW c \in Restarts \cup Checks, RestartStep(c) \/ CheckStep(c)
  PROVE  /\ disturbed \subseteq disturbed'
         /\ \A e \in lock : up'[e] # up[e] => e \in disturbed'
<1> USE DEF TypeOK, Disturbs
<1>1. CASE RestartStop(c)
  BY <1>1 DEF RestartStop
<1>2. CASE RestartRun(c)
  BY <1>2 DEF RestartRun
<1>3. CASE CheckRestarts(c)
  BY <1>3 DEF CheckRestarts
<1> QED
  BY <1>1, <1>2, <1>3
     DEF RestartStep, RestartBegin, RestartStart, CheckStep, CheckBegin, CheckEnds

\* Every step keeps what is stopped known to the restore that stopped it.
LEMMA ProgressStep ==
  ASSUME TypeOK, DeploysExcluded, Progress, [Next]_vars
  PROVE  Progress'
<1>0. LockType /\ up \in [Envs -> {"running", "exited", "absent"}]
  BY DEF TypeOK, LockType, RestoreType
<1> USE DEF Progress
<1>1. CASE RestoreLock
  BY <1>1 DEF RestoreLock
<1>2. CASE RestoreCheck
  BY <1>0, <1>2 DEF RestoreCheck, NoRestore, LockType, RestoreType
<1>3. CASE RestoreWork
  BY <1>0, <1>3 DEF RestoreWork, LockType, RestoreType
<1>4. CASE RestoreWorkEnds
  BY <1>0, <1>4 DEF RestoreWorkEnds, LockType, RestoreType
<1>5. CASE RestoreEnd \/ Crash
  BY <1>5 DEF RestoreEnd, Crash, NoRestore
<1>6. ASSUME NEW e \in Envs, RestoreStop(e)
      PROVE  Progress'
  BY <1>0, <1>6 DEF RestoreStop, LockType, RestoreType
<1>7. ASSUME NEW e \in Envs, RestoreStart(e)
      PROVE  Progress'
  <2>1. /\ restore.at = "starting" /\ restore'.at = "starting"
        /\ restore'.stopped = restore.stopped
        /\ restore'.todo = restore.todo \ {e} /\ UNCHANGED disturbed
    BY <1>0, <1>7 DEF RestoreStart, LockType, RestoreType
  <2>2. CASE /\ up' = [up EXCEPT ![e] = "running"]
             /\ restore' = [restore EXCEPT !.todo = @ \ {e}]
    <3>1. /\ restore'.startFailures = restore.startFailures
          /\ up'[e] = "running" /\ \A x \in Envs \ {e} : up'[x] = up[x]
      BY <1>0, <2>2 DEF LockType, RestoreType
    <3> QED
      BY <1>0, <2>1, <3>1 DEF LockType, RestoreType
  <2>3. CASE /\ restore' = [restore EXCEPT !.todo = @ \ {e},
                                           !.startFailures = @ \cup {e}]
             /\ UNCHANGED up
    <3>1. restore'.startFailures = restore.startFailures \cup {e}
      BY <1>0, <2>3 DEF LockType, RestoreType
    <3> QED
      BY <1>0, <2>1, <2>3, <3>1 DEF LockType, RestoreType
  <2> QED
    BY <1>7, <2>2, <2>3 DEF RestoreStart
<1>8. ASSUME NEW d \in Deploys, DeployStep(d)
      PROVE  Progress'
  <2>1. UNCHANGED <<lock, restore>>
    BY <1>8, DeployCallStep
  <2>2. UNCHANGED disturbed /\ (Locked => \A e \in lock : up'[e] = up[e])
    BY <1>0, <1>8, DeployTouches DEF DeploysExcluded, LockType
  <2> QED
    BY <1>0, <2>1, <2>2 DEF Locked, LockType, RestoreType
<1>9. ASSUME NEW c \in Restarts \cup Checks, RestartStep(c) \/ CheckStep(c),
             UNCHANGED <<lock, restore>>
      PROVE  Progress'
  <2>1. /\ disturbed \subseteq disturbed'
        /\ \A e \in lock : up'[e] = up[e] \/ e \in disturbed'
    BY <1>9, OthersDisturb
  <2>2. restore.stopped \subseteq lock
    BY <1>0 DEF LockType
  <2> QED
    BY <1>9, <2>1, <2>2
<1>10. CASE \E r \in Restarts : RestartStep(r)
  BY <1>9, <1>10, RestartCallStep
<1>11. CASE \E h \in Checks : CheckStep(h)
  BY <1>9, <1>11, CheckCallStep
<1>12. CASE UNCHANGED vars
  BY <1>12 DEF vars
<1> QED
  BY <1>1, <1>2, <1>3, <1>4, <1>5, <1>6, <1>7, <1>8, <1>10, <1>11, <1>12
     DEF Next, RestoreStep

\* However many deploys, restarts and health checks run, a container that runs
\* while its data is restored was not started by a deploy.
THEOREM DeploysNeverStartIt == Spec => []DeploysLeaveItStopped
<1> DEFINE I == TypeOK /\ DeploysExcluded /\ Progress
<1>1. Init => I
  BY TypeInit, ExcludedInit DEF Init, Progress, NoRestore
<1>2. I /\ [Next]_vars => I'
  BY TypeStep, ExcludedStep, ProgressStep
<1>3. I => DeploysLeaveItStopped
  BY DEF Progress, DeploysLeaveItStopped
<1> QED
  BY <1>1, <1>2, <1>3, PTL DEF Spec

\* Every restore also ends with all it stopped running again, reported, or
\* taken down by a restart.
THEOREM StartsWhatItStopped == Spec => NothingLeftStopped
<1> DEFINE I == TypeOK /\ DeploysExcluded /\ Progress
<1>1. Init => I
  BY TypeInit, ExcludedInit DEF Init, Progress, NoRestore
<1>2. I /\ [Next]_vars => I'
  BY TypeStep, ExcludedStep, ProgressStep
<1> DEFINE Ends == restore.at = "starting" /\ restore.todo = {} /\ restore'.at = "idle"
           Fine == \A e \in restore.stopped :
                     up'[e] = "running" \/ e \in restore.startFailures \/ e \in disturbed
<1>3. I /\ [Next]_vars => [Ends => Fine]_vars
  <2> SUFFICES ASSUME I, [Next]_vars, Ends
               PROVE  Fine
    OBVIOUS
  <2>1. CASE UNCHANGED up
    BY <2>1 DEF Progress
  <2>2. CASE up' # up
    <3>1. /\ \A d \in Deploys : ~DeployStep(d)
          /\ \A r \in Restarts : ~RestartStep(r)
          /\ \A h \in Checks : ~CheckStep(h)
      BY DeployCallStep, RestartCallStep, CheckCallStep
    <3>2. ~(RestoreLock \/ RestoreCheck \/ RestoreWork \/ RestoreWorkEnds \/ RestoreEnd \/ Crash)
      BY <2>2 DEF RestoreLock, RestoreCheck, RestoreWork, RestoreWorkEnds, RestoreEnd, Crash
    <3>3. \A e \in Envs : ~RestoreStop(e) /\ ~RestoreStart(e)
      BY DEF RestoreStop, RestoreStart
    <3> QED
      BY <2>2, <3>1, <3>2, <3>3 DEF Next, RestoreStep, vars
  <2> QED
    BY <2>1, <2>2
<1> QED
  BY <1>1, <1>2, <1>3, PTL DEF Spec, NothingLeftStopped

-----------------------------------------------------------------------------
(* The encryption of the databases *)

\* Stages in which no operation waits for its ensureServer.
Settled == {"idle", "live", "scan", "rebuild", "after"}

\* Stages of an ensureServer that has read the settings.
Decided == {"facts", "create", "run", "ready"}

\* The settings, and what an operation made of them.
OperationsFit ==
  /\ enabled => loaded
  /\ loaded => key
  /\ admin.at \in {"set", "live", "scan", "rebuild", "back"} => loaded
  /\ admin.at \in {"live", "scan", "rebuild", "back"} => ~enabled
  /\ admin.at \in {"unload", "after"} => ~loaded /\ key

\* The container and what it was created with.
ContainerFits ==
  /\ cont.mount <=> cont.label # "none"
  /\ cont.up => cont.args = "none" \/ cont.mount
  /\ raced \/ (cont.args = cont.label /\ (cont.told => cont.label = "decrypt"))
  /\ cont.args = "none" => cont.label = "none"
  /\ cont.made /\ ~cont.up => failed \/ ens.at = "ready"
  /\ ~row => cont = NoCont /\ ens = NoEnsure /\ ~Encrypted

\* An ensureServer and the container it found or made.
EnsureFits ==
  /\ ens.at \in {"create", "run"} => cont = NoCont
  /\ ens.at = "ready" => cont.made /\ cont.label = ens.label
  /\ ens.at = "facts" => ens.mode = ens.label
  /\ ens.at = "ready" /\ ~raced => ens.mode = ens.label
  /\ ens.at \in Decided /\ (admin.at \in Settled \/ ens.by = "admin") => ens.label = Mode
  /\ ens.at = "run" /\ ens.label # "none" => loaded

\* From its look at the Aria tables on, nothing undoes what an unload found; and a key
\* that is not loaded is a key that nothing needs.
UnloadFits ==
  /\ admin.at \in {"scan", "rebuild", "unload", "after"} => cont.args # "encrypt"
  /\ admin.at \in {"unload", "after"} => ~aria
  /\ ~loaded /\ ~cut /\ admin.at # "unload" =>
       cont.label = "none" /\ (ens.at \in Decided => ens.label = "none")
  /\ ~loaded /\ ~cut /\ admin.at \notin {"unload", "after"} => ~Encrypted

\* What runs, or is about to run, without the plugin has nothing to read with it.
PluginFits ==
  ~cut /\ admin.at \notin {"unload", "after", "back"} =>
    /\ cont.up /\ cont.args = "none" /\ ~failed => ~Encrypted
    /\ ens.at \in Decided /\ ens.label = "none" => ~Encrypted /\ cont.label = "none"

\* Between ensureServers the container of the last one serves.
ServerFits ==
  admin.at \in Settled /\ ens = NoEnsure /\ row /\ ~failed => cont.up /\ cont.label = Mode

\* The types of the three records.
Containers == [made : BOOLEAN, label : Modes, mount : BOOLEAN, args : Modes,
               up : BOOLEAN, told : BOOLEAN]
Operations == [at : Stages, delete : BOOLEAN]
Ensures == [by : {"none", "deploy", "admin"}, at : {"off", "begun"} \cup Decided,
            mode : Modes, label : Modes, ours : BOOLEAN]

\* An operation that goes on to stage s.
LEMMA OperationIsTyped ==
  ASSUME NEW o \in Operations, NEW s \in Stages
  PROVE  /\ [o EXCEPT !.at = s] \in Operations
         /\ [o EXCEPT !.at = s].at = s /\ [o EXCEPT !.at = s].delete = o.delete
BY DEF Operations

\* What there is when nothing goes on.
LEMMA ConstantsAreTyped ==
  /\ NoOp \in Operations /\ NoOp.at = "idle" /\ NoOp.delete = FALSE
  /\ NoEnsure \in Ensures /\ NoEnsure.by = "none" /\ NoEnsure.at = "off"
  /\ NoCont \in Containers /\ NoCont.made = FALSE /\ NoCont.up = FALSE /\ NoCont.mount = FALSE
  /\ NoCont.label = "none" /\ NoCont.args = "none"
BY DEF NoOp, NoEnsure, NoCont, Operations, Ensures, Containers, Stages, Decided, Modes

LEMMA NothingIsTold == ~NoCont.told
BY DEF NoCont

TypesFit ==
  /\ enabled \in BOOLEAN /\ loaded \in BOOLEAN /\ key \in BOOLEAN /\ keyFile \in BOOLEAN
  /\ row \in BOOLEAN
  /\ cont \in Containers
  /\ cont.made \/ cont = NoCont
  /\ spaces \in {"plain", "part", "encrypted"} /\ forced \in BOOLEAN /\ aria \in BOOLEAN
  /\ admin \in Operations
  /\ ens \in Ensures
  /\ ens.by = "none" <=> ens.at = "off"
  /\ ens.by = "admin" => admin.at \in {"set", "unload", "back"}
  /\ failed \in BOOLEAN /\ raced \in BOOLEAN /\ cut \in BOOLEAN

\* The types, written with the names of the records.
LEMMA TypesFitTypes == TypesFit => MariadbTypeOK
BY DEF TypesFit, MariadbTypeOK, Containers, Operations, Ensures, Decided

EncryptionInv ==
  /\ TypesFit
  /\ OperationsFit /\ ContainerFits /\ EnsureFits /\ UnloadFits /\ PluginFits /\ ServerFits

\* The encryption threads work on a server that has the plugin.
LEMMA ThreadsKeep ==
  ASSUME EncryptionInv, Threads
  PROVE  EncryptionInv'
<1>0. /\ cont.up /\ cont.args # "none" /\ spaces' \in {"plain", "part", "encrypted"}
      /\ UNCHANGED <<settings, row, cont, forced, aria, admin, ens, failed, raced, cut>>
  BY DEF Threads, EncryptionInv, TypesFit
<1>1. TypesFit'  BY <1>0 DEF EncryptionInv, TypesFit, settings
<1>2. OperationsFit'  BY <1>0 DEF EncryptionInv, OperationsFit, settings
<1>3. ContainerFits'  BY <1>0, ConstantsAreTyped DEF EncryptionInv, ContainerFits
<1>4. EnsureFits'  BY <1>0 DEF EncryptionInv, EnsureFits, Mode, settings
<1>5. UnloadFits'  BY <1>0 DEF EncryptionInv, ContainerFits, UnloadFits, settings
<1>6. PluginFits'  BY <1>0 DEF EncryptionInv, ContainerFits, PluginFits
<1>7. ServerFits'  BY <1>0 DEF EncryptionInv, ServerFits, Mode, settings
<1> QED  BY <1>1, <1>2, <1>3, <1>4, <1>5, <1>6, <1>7 DEF EncryptionInv

\* So do the applications.
LEMMA TablesKeep ==
  ASSUME EncryptionInv, Tables
  PROVE  EncryptionInv'
<1>0. /\ cont.up /\ cont.args # "none" /\ forced' \in BOOLEAN /\ aria' \in BOOLEAN
      /\ aria' = aria \/ (aria' = TRUE /\ cont.args = "encrypt")
      /\ UNCHANGED <<settings, row, cont, spaces, admin, ens, failed, raced, cut>>
  BY Zenon DEF Tables, EncryptionInv, TypesFit
<1>1. TypesFit'  BY <1>0 DEF EncryptionInv, TypesFit, settings
<1>2. OperationsFit'  BY <1>0 DEF EncryptionInv, OperationsFit, settings
<1>3. ContainerFits'  BY <1>0, ConstantsAreTyped DEF EncryptionInv, ContainerFits
<1>4. EnsureFits'  BY <1>0 DEF EncryptionInv, EnsureFits, Mode, settings
<1>5. UnloadFits'  BY <1>0 DEF EncryptionInv, ContainerFits, UnloadFits, settings
<1>6. PluginFits'  BY <1>0 DEF EncryptionInv, ContainerFits, PluginFits
<1>7. ServerFits'  BY <1>0 DEF EncryptionInv, ServerFits, Mode, settings
<1> QED  BY <1>1, <1>2, <1>3, <1>4, <1>5, <1>6, <1>7 DEF EncryptionInv

\* A container that stops leaves no server.
LEMMA StopsKeep ==
  ASSUME EncryptionInv, Stops
  PROVE  EncryptionInv'
<1>0. /\ cont' \in Containers /\ ~cont'.up /\ cont.up /\ failed' = TRUE
      /\ cont'.made = cont.made /\ cont'.label = cont.label
      /\ cont'.args = cont.args /\ cont'.mount = cont.mount /\ cont'.told = cont.told
      /\ UNCHANGED <<settings, row, data, admin, ens, raced, cut>>
  BY DEF Stops, EncryptionInv, TypesFit, Containers
<1>1. TypesFit'  BY <1>0, ConstantsAreTyped DEF EncryptionInv, TypesFit, settings, data
<1>2. OperationsFit'  BY <1>0 DEF EncryptionInv, OperationsFit, settings
<1>3. ContainerFits'  BY <1>0, ConstantsAreTyped DEF EncryptionInv, ContainerFits
<1>4. EnsureFits'  BY <1>0, ConstantsAreTyped DEF EncryptionInv, EnsureFits, Mode, settings
<1>5. UnloadFits'  BY <1>0 DEF EncryptionInv, UnloadFits, Encrypted, settings, data
<1>6. PluginFits'  BY <1>0 DEF EncryptionInv, PluginFits, Encrypted, data
<1>7. ServerFits'  BY <1>0 DEF EncryptionInv, ServerFits
<1> QED  BY <1>1, <1>2, <1>3, <1>4, <1>5, <1>6, <1>7 DEF EncryptionInv

\* An ensureServer has only the lock yet.
LEMMA EnsureBeginsKeeps ==
  ASSUME EncryptionInv, \E who \in {"deploy", "admin"} : EnsureBegins(who)
  PROVE  EncryptionInv'
<1>0. /\ ens = NoEnsure /\ ens' \in Ensures /\ ens'.by \in {"deploy", "admin"} /\ ens'.at = "begun"
      /\ ens'.by = "admin" => admin.at \in {"set", "unload", "back"}
      /\ row' = TRUE /\ ens' # NoEnsure
      /\ UNCHANGED <<settings, cont, data, admin, failed, raced, cut>>
  BY ConstantsAreTyped DEF EnsureBegins, Ensures
<1>1. TypesFit'  BY <1>0 DEF EncryptionInv, TypesFit, settings, data
<1>2. OperationsFit'  BY <1>0 DEF EncryptionInv, OperationsFit, settings
<1>3. ContainerFits'  BY <1>0, ConstantsAreTyped DEF EncryptionInv, ContainerFits
<1>4. EnsureFits'  BY <1>0 DEF EncryptionInv, EnsureFits, Decided
<1>5. UnloadFits'  BY <1>0 DEF EncryptionInv, UnloadFits, Encrypted, Decided, settings, data
<1>6. PluginFits'  BY <1>0 DEF EncryptionInv, PluginFits, Encrypted, Decided, data
<1>7. ServerFits'  BY <1>0 DEF EncryptionInv, ServerFits
<1> QED  BY <1>1, <1>2, <1>3, <1>4, <1>5, <1>6, <1>7 DEF EncryptionInv

\* It reads the settings.
LEMMA PreparesKeeps ==
  ASSUME EncryptionInv, Prepares
  PROVE  EncryptionInv'
<1>0. /\ ens.at = "begun" /\ ens' \in Ensures /\ ens'.by = ens.by /\ ens'.at = "facts"
      /\ ens'.label = Mode /\ ens'.mode = Mode /\ keyFile' \in BOOLEAN /\ ens' # NoEnsure
      /\ UNCHANGED <<enabled, loaded, key, row, cont, data, admin, failed, raced, cut>>
  BY ConstantsAreTyped DEF Prepares, Ensures, EncryptionInv, TypesFit, Mode, Modes, Decided
<1>1. TypesFit'  BY <1>0 DEF EncryptionInv, TypesFit, data
<1>2. OperationsFit'  BY <1>0 DEF EncryptionInv, OperationsFit
<1>3. ContainerFits'  BY <1>0, ConstantsAreTyped DEF EncryptionInv, ContainerFits
<1>4. EnsureFits'  BY <1>0 DEF EncryptionInv, EnsureFits, Mode
<1>5. UnloadFits'  BY <1>0 DEF EncryptionInv, UnloadFits, Mode, Encrypted, data
<1>6. PluginFits'  BY <1>0 DEF EncryptionInv, UnloadFits, PluginFits, Mode, Encrypted, data
<1>7. ServerFits'  BY <1>0 DEF EncryptionInv, ServerFits
<1> QED  BY <1>1, <1>2, <1>3, <1>4, <1>5, <1>6, <1>7 DEF EncryptionInv

\* It adopts the container, or removes it.
LEMMA LooksAtContainerKeeps ==
  ASSUME EncryptionInv, LooksAtContainer
  PROVE  EncryptionInv'
<1>0. /\ ens.at = "facts" /\ ens' \in Ensures /\ ens'.by = ens.by /\ ens'.label = ens.label
      /\ ens'.mode = ens.mode /\ cont' \in Containers /\ ens' # NoEnsure
      /\ \/ /\ cont.made /\ cont'.made /\ cont.label = ens.label /\ cont'.label = cont.label
            /\ cont'.args = cont.args /\ cont'.mount = cont.mount /\ ens'.at = "ready"
            /\ cont.up => cont'.up
            /\ cont'.told => cont.told
            /\ cont'.up /\ ~cont.up => cont.args = "none" \/ cont.mount
         \/ cont' = NoCont /\ ens'.at = "create"
      /\ UNCHANGED <<settings, row, data, admin, failed, raced, cut>>
  <2> DEFINE starts == Starts(cont.args, cont.mount)
  <2>1. starts \in BOOLEAN /\ (starts => cont.args = "none" \/ cont.mount)  BY DEF Starts, EncryptionInv, TypesFit
  <2>2. ens \in Ensures /\ cont \in Containers  BY DEF EncryptionInv, TypesFit
  <2>3. ens.at = "facts" /\ UNCHANGED <<settings, row, data, admin, failed, raced, cut>>
    BY DEF LooksAtContainer
  <2>4. CASE /\ Adopts
             /\ cont' = IF cont.up THEN cont ELSE [cont EXCEPT !.up = starts, !.told = FALSE]
             /\ ens' = [ens EXCEPT !.at = "ready", !.ours = TRUE]
    <3>1. ens' \in Ensures /\ ens'.by = ens.by /\ ens'.label = ens.label /\ ens'.at = "ready"
          /\ ens'.mode = ens.mode
      BY <2>2, <2>4 DEF Ensures, Decided
    <3>2. cont.made /\ cont.label = ens.label  BY <2>4 DEF Adopts
    <3> HIDE DEF starts
    <3>3. /\ cont' \in Containers /\ cont'.made = cont.made /\ cont'.label = cont.label
          /\ cont'.args = cont.args /\ cont'.mount = cont.mount
          /\ (cont.up => cont'.up) /\ (cont'.up /\ ~cont.up => starts)
          /\ (cont'.told => cont.told)
      BY <2>1, <2>2, <2>4 DEF Containers
    <3> QED  BY <2>1, <2>3, <3>1, <3>2, <3>3, ConstantsAreTyped
  <2>5. CASE cont' = NoCont /\ ens' = [ens EXCEPT !.at = "create", !.ours = cont.made]
    <3>0. cont.made \in BOOLEAN  BY <2>2 DEF Containers
    <3>1. ens' \in Ensures /\ ens'.by = ens.by /\ ens'.label = ens.label /\ ens'.at = "create"
          /\ ens'.mode = ens.mode
      BY <2>2, <2>5, <3>0 DEF Ensures, Decided
    <3> QED  BY <2>5, <2>3, <3>1, ConstantsAreTyped
  <2> QED  BY <2>4, <2>5, <2>3 DEF LooksAtContainer
<1>1. TypesFit'  BY <1>0 DEF EncryptionInv, TypesFit, settings, data
<1>2. OperationsFit'  BY <1>0 DEF EncryptionInv, OperationsFit, settings
<1>3. ContainerFits'  BY <1>0, ConstantsAreTyped, NothingIsTold DEF EncryptionInv, ContainerFits
<1>4. EnsureFits'  BY <1>0 DEF EncryptionInv, EnsureFits, Mode, Decided, settings
<1>5. UnloadFits'
  BY <1>0, ConstantsAreTyped DEF EncryptionInv, UnloadFits, Encrypted, Decided, settings, data
<1>6. PluginFits'
  BY <1>0, ConstantsAreTyped DEF EncryptionInv, ContainerFits, PluginFits, Encrypted, Decided, data
<1>7. ServerFits'  BY <1>0 DEF EncryptionInv, ServerFits
<1> QED  BY <1>1, <1>2, <1>3, <1>4, <1>5, <1>6, <1>7 DEF EncryptionInv

\* It reads them again for the label ...
LEMMA CreatesKeeps ==
  ASSUME EncryptionInv, Creates
  PROVE  EncryptionInv'
<1>0. /\ ens.at = "create" /\ ens' \in Ensures /\ ens'.by = ens.by /\ ens'.at = "run"
      /\ ens'.label = Mode /\ ens' # NoEnsure
      /\ UNCHANGED <<settings, row, cont, data, admin, failed, raced, cut>>
  BY ConstantsAreTyped DEF Creates, Ensures, EncryptionInv, TypesFit, Mode, Modes, Decided
<1>1. TypesFit'  BY <1>0 DEF EncryptionInv, TypesFit, settings, data
<1>2. OperationsFit'  BY <1>0 DEF EncryptionInv, OperationsFit, settings
<1>3. ContainerFits'  BY <1>0, ConstantsAreTyped DEF EncryptionInv, ContainerFits
<1>4. EnsureFits'  BY <1>0 DEF EncryptionInv, EnsureFits, Mode, settings
<1>5. UnloadFits'  BY <1>0 DEF EncryptionInv, UnloadFits, Mode, Encrypted, settings, data
<1>6. PluginFits'  BY <1>0 DEF EncryptionInv, UnloadFits, PluginFits, Mode, Encrypted, data
<1>7. ServerFits'  BY <1>0 DEF EncryptionInv, ServerFits
<1> QED  BY <1>1, <1>2, <1>3, <1>4, <1>5, <1>6, <1>7 DEF EncryptionInv

\* ... and once more for the arguments.
LEMMA RunsKeeps ==
  ASSUME EncryptionInv, Runs
  PROVE  EncryptionInv'
<1>0. /\ ens.at = "run" /\ ens' \in Ensures /\ ens'.by = ens.by /\ ens'.at = "ready"
      /\ ens'.label = ens.label /\ ens' # NoEnsure
      /\ cont' \in Containers /\ cont'.made /\ cont'.label = ens.label /\ cont'.args = Mode
      /\ cont'.mount <=> ens.label # "none"
      /\ cont'.up => cont'.args = "none" \/ cont'.mount
      /\ ens'.mode = ens.mode /\ ~cont'.told
      /\ raced' = ~(ens.mode = Mode /\ ens.label = Mode) /\ raced' \in BOOLEAN
      /\ UNCHANGED <<settings, row, data, admin, failed, cut>>
  <2> DEFINE starts == Starts(Mode, ens.label # "none")
  <2>1. starts \in BOOLEAN /\ (starts => Mode = "none" \/ ens.label # "none") /\ Mode \in Modes
    BY DEF Starts, EncryptionInv, TypesFit, Mode, Modes
  <2>2. ens \in Ensures /\ raced \in BOOLEAN  BY DEF EncryptionInv, TypesFit
  <2>3. /\ ens.at = "run" /\ ens' = [ens EXCEPT !.at = "ready"]
        /\ cont' = [made |-> TRUE, label |-> ens.label, mount |-> ens.label # "none",
                    args |-> Mode, up |-> starts, told |-> FALSE]
        /\ raced' = ~(ens.mode = Mode /\ ens.label = Mode)
        /\ UNCHANGED <<settings, row, data, admin, failed, cut>>
    BY DEF Runs
  <2>4. ens' \in Ensures /\ ens'.by = ens.by /\ ens'.label = ens.label /\ ens'.at = "ready"
        /\ ens'.mode = ens.mode
    BY <2>2, <2>3 DEF Ensures, Decided
  <2> HIDE DEF starts
  <2>5. /\ cont' \in Containers /\ cont'.made /\ cont'.label = ens.label /\ cont'.args = Mode
        /\ cont'.mount = (ens.label # "none") /\ cont'.up = starts /\ ~cont'.told
    BY <2>1, <2>2, <2>3 DEF Containers, Ensures
  <2> QED  BY <2>1, <2>2, <2>3, <2>4, <2>5, ConstantsAreTyped
<1>1. TypesFit'  BY <1>0 DEF EncryptionInv, TypesFit, settings, data
<1>2. OperationsFit'  BY <1>0 DEF EncryptionInv, OperationsFit, settings
<1>3. ContainerFits'
  BY <1>0, ConstantsAreTyped DEF EncryptionInv, TypesFit, ContainerFits, EnsureFits, Mode
<1>4. EnsureFits'  BY <1>0 DEF EncryptionInv, EnsureFits, Mode, Decided, settings
<1>5. UnloadFits'
  BY <1>0 DEF EncryptionInv, OperationsFit, UnloadFits, Mode, Encrypted, Decided, settings, data
<1>6. PluginFits'  BY <1>0 DEF EncryptionInv, EnsureFits, PluginFits, Mode, Encrypted, Decided, data
<1>7. ServerFits'  BY <1>0 DEF EncryptionInv, ServerFits
<1> QED  BY <1>1, <1>2, <1>3, <1>4, <1>5, <1>6, <1>7 DEF EncryptionInv

\* The statement changes one thing of the container.
LEMMA TellsKeeps ==
  ASSUME EncryptionInv, Tells, cont.up
  PROVE  /\ cont' \in Containers /\ cont'.up /\ cont'.made = cont.made /\ cont.made
         /\ cont'.label = cont.label /\ cont'.args = cont.args /\ cont'.mount = cont.mount
         /\ cont'.told => cont.told \/ ens.mode = "decrypt"
<1> DEFINE t == cont.told \/ (ens.mode = "decrypt" /\ ens.ours)
<1>1. cont \in Containers /\ ens \in Ensures /\ cont.made  BY ConstantsAreTyped DEF EncryptionInv, TypesFit
<1>2. t \in BOOLEAN /\ (t => cont.told \/ ens.mode = "decrypt")  BY <1>1 DEF Containers, Ensures
<1>3. cont' = [cont EXCEPT !.told = t]  BY DEF Tells
<1> HIDE DEF t
<1> QED  BY <1>1, <1>2, <1>3 DEF Containers

\* The server answers.
LEMMA ReadyKeeps ==
  ASSUME EncryptionInv, Ready
  PROVE  EncryptionInv'
<1>0. /\ ens.at = "ready" /\ ens' = NoEnsure /\ failed' = FALSE
      /\ cont' \in Containers /\ cont.up /\ cont'.up /\ cont'.made = cont.made
      /\ cont'.label = cont.label /\ cont'.args = cont.args /\ cont'.mount = cont.mount
      /\ cont'.told => cont.told \/ ens.mode = "decrypt"
      /\ admin' \in Operations
      /\ \/ ens.by # "admin" /\ UNCHANGED <<loaded, admin>>
         \/ ens.by = "admin" /\ admin.at = "unload" /\ admin'.at = "after" /\ loaded' = FALSE
         \/ ens.by = "admin" /\ admin.at # "unload" /\ admin' = NoOp /\ loaded' = loaded
      /\ UNCHANGED <<enabled, key, keyFile, row, data, raced, cut>>
  <2>1. cont.up /\ Tells  BY DEF Ready
  <2>2. admin \in Operations  BY DEF EncryptionInv, TypesFit
  <2> QED  BY <2>1, <2>2, TellsKeeps, ConstantsAreTyped DEF Ready, Returns, Operations, Stages
<1>1. TypesFit'  BY <1>0, ConstantsAreTyped DEF EncryptionInv, TypesFit, settings, data
<1>2. OperationsFit'  BY <1>0, ConstantsAreTyped DEF EncryptionInv, OperationsFit
<1>3. ContainerFits'
  BY <1>0, ConstantsAreTyped DEF EncryptionInv, ContainerFits, EnsureFits, Encrypted, data
<1>4. EnsureFits'  BY <1>0, ConstantsAreTyped DEF EncryptionInv, EnsureFits, Decided
<1>5. UnloadFits'
  BY <1>0, ConstantsAreTyped DEF EncryptionInv, TypesFit, OperationsFit, EnsureFits, UnloadFits, Mode,
      Encrypted, Decided, data
<1>6. PluginFits'
  BY <1>0, ConstantsAreTyped DEF EncryptionInv, TypesFit, OperationsFit, ContainerFits, EnsureFits,
      PluginFits, Mode, Encrypted, Decided, data
<1>7. ServerFits'  BY <1>0 DEF EncryptionInv, OperationsFit, EnsureFits, ServerFits, Mode, Decided
<1> QED  BY <1>1, <1>2, <1>3, <1>4, <1>5, <1>6, <1>7 DEF EncryptionInv

\* It does not.
LEMMA EnsureFailsKeeps ==
  ASSUME EncryptionInv, EnsureFails
  PROVE  EncryptionInv'
<1>0. /\ ens.at # "off" /\ ens' = NoEnsure /\ failed' = TRUE /\ admin' \in Operations
      /\ cont' \in Containers /\ cont'.up = cont.up /\ cont'.made = cont.made
      /\ cont'.label = cont.label /\ cont'.args = cont.args /\ cont'.mount = cont.mount
      /\ cont' = cont \/ (ens.at = "ready" /\ cont.made /\ (cont'.told => cont.told \/ ens.mode = "decrypt"))
      /\ \/ ens.by # "admin" /\ UNCHANGED <<loaded, admin>>
         \/ ens.by = "admin" /\ admin.at = "unload" /\ admin'.at = "back" /\ loaded' = TRUE
         \/ ens.by = "admin" /\ admin.at # "unload" /\ admin' = NoOp /\ loaded' = loaded
      /\ UNCHANGED <<enabled, key, keyFile, row, data, raced, cut>>
  <2>1. admin \in Operations /\ cont \in Containers  BY DEF EncryptionInv, TypesFit
  <2>2. /\ cont' \in Containers /\ cont'.up = cont.up /\ cont'.made = cont.made
        /\ cont'.label = cont.label /\ cont'.args = cont.args /\ cont'.mount = cont.mount
        /\ cont' = cont \/ (ens.at = "ready" /\ cont.made /\ (cont'.told => cont.told \/ ens.mode = "decrypt"))
    <3>1. CASE cont' = cont  BY <2>1, <3>1
    <3>2. CASE ens.at = "ready" /\ cont.up /\ Tells
      BY <2>1, <3>2, TellsKeeps DEF Containers
    <3> QED  BY <3>1, <3>2 DEF EnsureFails
  <2> QED  BY <2>1, <2>2, ConstantsAreTyped DEF EnsureFails, Returns, Operations, Stages
<1>1. TypesFit'
  <2>1. (cont.made \/ cont = NoCont)'  BY <1>0, Zenon DEF EncryptionInv, TypesFit
  <2>2. /\ cont' \in Containers /\ ens' \in Ensures /\ admin' \in Operations
    BY <1>0, ConstantsAreTyped
  <2>3. /\ enabled' \in BOOLEAN /\ loaded' \in BOOLEAN /\ key' \in BOOLEAN /\ keyFile' \in BOOLEAN
        /\ row' \in BOOLEAN /\ failed' \in BOOLEAN /\ raced' \in BOOLEAN /\ cut' \in BOOLEAN
        /\ spaces' \in {"plain", "part", "encrypted"} /\ forced' \in BOOLEAN /\ aria' \in BOOLEAN
    BY <1>0 DEF EncryptionInv, TypesFit, data
  <2>4. (ens.by = "none" <=> ens.at = "off")' /\ (ens.by = "admin" => admin.at \in {"set", "unload", "back"})'
    BY <1>0, ConstantsAreTyped
  <2> QED  BY <2>1, <2>2, <2>3, <2>4 DEF TypesFit
<1>2. OperationsFit'  BY <1>0, ConstantsAreTyped DEF EncryptionInv, OperationsFit
<1>3. ContainerFits'
  BY <1>0, ConstantsAreTyped DEF EncryptionInv, ContainerFits, EnsureFits, Encrypted, data
<1>4. EnsureFits'  BY <1>0, ConstantsAreTyped DEF EncryptionInv, EnsureFits, Decided
<1>5. UnloadFits'
  BY <1>0, ConstantsAreTyped DEF EncryptionInv, TypesFit, UnloadFits, Encrypted, Decided, data
<1>6. PluginFits'  BY <1>0, ConstantsAreTyped DEF EncryptionInv, PluginFits, Decided
<1>7. ServerFits'  BY <1>0 DEF EncryptionInv, ServerFits
<1> QED  BY <1>1, <1>2, <1>3, <1>4, <1>5, <1>6, <1>7 DEF EncryptionInv

\* Encryption is switched on.
LEMMA SetOnKeeps ==
  ASSUME EncryptionInv, SetOn
  PROVE  EncryptionInv'
<1>0. /\ admin = NoOp /\ key' = TRUE /\ loaded' = TRUE /\ enabled' = TRUE /\ admin' \in Operations
      /\ \/ admin'.at = "set" /\ row
         \/ admin' = admin /\ (Mode = "encrypt" \/ ~row)
      /\ UNCHANGED <<keyFile, row, cont, data, ens, failed, raced, cut>>
  <2>1. /\ admin = NoOp /\ Enable(3) /\ WaitsForServer(Mode # "encrypt")
        /\ UNCHANGED <<keyFile, row, cont, data, ens, failed, raced, cut>>
    BY DEF SetOn
  <2>2. key' = TRUE /\ loaded' = TRUE /\ enabled' = TRUE
    <3>1. 3 >= 2  OBVIOUS
    <3> QED  BY <2>1, <3>1, Zenon DEF Enable
  <2>3. [at |-> "set", delete |-> FALSE] \in Operations  BY DEF Operations, Stages
  <2>4. row \in BOOLEAN  BY DEF EncryptionInv, TypesFit
  <2> QED  BY <2>1, <2>2, <2>3, <2>4, ConstantsAreTyped DEF WaitsForServer
<1>1. TypesFit'  BY <1>0 DEF EncryptionInv, TypesFit, data
<1>2. OperationsFit'  BY <1>0, ConstantsAreTyped DEF EncryptionInv, OperationsFit
<1>3. ContainerFits'  BY <1>0 DEF EncryptionInv, ContainerFits, Encrypted, data
<1>4. EnsureFits'
  BY <1>0, ConstantsAreTyped DEF EncryptionInv, TypesFit, ContainerFits, EnsureFits, Mode, Settled,
      Decided
<1>5. UnloadFits'  BY <1>0 DEF EncryptionInv, UnloadFits, data
<1>6. PluginFits'  BY <1>0, ConstantsAreTyped DEF EncryptionInv, PluginFits, Encrypted, data
<1>7. ServerFits'  BY <1>0 DEF EncryptionInv, ServerFits, Mode, Settled
<1> QED  BY <1>1, <1>2, <1>3, <1>4, <1>5, <1>6, <1>7 DEF EncryptionInv

\* Encryption is switched off.
LEMMA SetOffKeeps ==
  ASSUME EncryptionInv, SetOff
  PROVE  EncryptionInv'
<1>0. /\ admin = NoOp /\ enabled' = FALSE /\ loaded' = (loaded /\ row) /\ loaded' \in BOOLEAN
      /\ admin' \in Operations
      /\ \/ admin'.at = "set" /\ row /\ Mode = "encrypt"
         \/ admin' = admin /\ (Mode # "encrypt" \/ ~row)
      /\ UNCHANGED <<key, keyFile, row, cont, data, ens, failed, raced, cut>>
  BY ConstantsAreTyped DEF SetOff, WaitsForServer, EncryptionInv, TypesFit, Operations, Stages
<1>1. TypesFit'
  <2>1. /\ cont' \in Containers /\ (cont.made \/ cont = NoCont)' /\ ens' \in Ensures
        /\ admin' \in Operations
    BY <1>0 DEF EncryptionInv, TypesFit
  <2>2. /\ enabled' \in BOOLEAN /\ loaded' \in BOOLEAN /\ key' \in BOOLEAN /\ keyFile' \in BOOLEAN
        /\ row' \in BOOLEAN /\ failed' \in BOOLEAN /\ raced' \in BOOLEAN /\ cut' \in BOOLEAN
        /\ spaces' \in {"plain", "part", "encrypted"} /\ forced' \in BOOLEAN /\ aria' \in BOOLEAN
    BY <1>0, Zenon DEF EncryptionInv, TypesFit, data
  <2>3. (ens.by = "none" <=> ens.at = "off")' /\ (ens.by = "admin" => admin.at \in {"set", "unload", "back"})'
    BY <1>0, ConstantsAreTyped DEF EncryptionInv, TypesFit
  <2> QED  BY <2>1, <2>2, <2>3 DEF TypesFit
<1>2. OperationsFit'  BY <1>0, ConstantsAreTyped DEF EncryptionInv, TypesFit, OperationsFit, Mode
<1>3. ContainerFits'  BY <1>0 DEF EncryptionInv, ContainerFits, Encrypted, data
<1>4. EnsureFits'
  BY <1>0, ConstantsAreTyped DEF EncryptionInv, TypesFit, ContainerFits, EnsureFits, Mode, Settled,
      Decided
<1>5. UnloadFits'
  BY <1>0, ConstantsAreTyped DEF EncryptionInv, TypesFit, ContainerFits, UnloadFits, Encrypted,
      Decided, data
<1>6. PluginFits'  BY <1>0 DEF EncryptionInv, OperationsFit, PluginFits, Mode, Encrypted, data
<1>7. ServerFits'  BY <1>0 DEF EncryptionInv, TypesFit, ServerFits, Mode, Settled
<1> QED  BY <1>1, <1>2, <1>3, <1>4, <1>5, <1>6, <1>7 DEF EncryptionInv

\* A key that is not loaded may be deleted at once.
LEMMA UnloadBeginsKeeps ==
  ASSUME EncryptionInv, \E delete \in BOOLEAN : UnloadBegins(delete)
  PROVE  EncryptionInv'
<1>0. /\ admin = NoOp /\ ~enabled /\ admin' \in Operations
      /\ key' \in BOOLEAN /\ keyFile' \in BOOLEAN
      /\ \/ loaded /\ admin'.at = "live" /\ UNCHANGED <<key, keyFile>>
         \/ ~loaded /\ admin' = admin
      /\ UNCHANGED <<enabled, loaded, row, cont, data, ens, failed, raced, cut>>
  BY ConstantsAreTyped DEF UnloadBegins, Deletes, EncryptionInv, TypesFit, Operations, Stages
<1>1. TypesFit'  BY <1>0, ConstantsAreTyped DEF EncryptionInv, TypesFit, data
<1>2. OperationsFit'  BY <1>0, ConstantsAreTyped DEF EncryptionInv, OperationsFit
<1>3. ContainerFits'  BY <1>0 DEF EncryptionInv, ContainerFits, Encrypted, data
<1>4. EnsureFits'  BY <1>0, ConstantsAreTyped DEF EncryptionInv, EnsureFits, Mode, Settled
<1>5. UnloadFits'  BY <1>0 DEF EncryptionInv, UnloadFits, Encrypted, data
<1>6. PluginFits'  BY <1>0, ConstantsAreTyped DEF EncryptionInv, PluginFits, Encrypted, data
<1>7. ServerFits'  BY <1>0, ConstantsAreTyped DEF EncryptionInv, ServerFits, Mode, Settled
<1> QED  BY <1>1, <1>2, <1>3, <1>4, <1>5, <1>6, <1>7 DEF EncryptionInv

\* The running server is asked.
LEMMA LiveReadKeeps ==
  ASSUME EncryptionInv, LiveRead
  PROVE  EncryptionInv'
<1>0. /\ admin.at = "live" /\ admin' \in Operations
      /\ (admin'.at = "scan" /\ cont.args = "decrypt") \/ admin' = NoOp
      /\ UNCHANGED <<settings, row, cont, data, ens, failed, raced, cut>>
  BY ConstantsAreTyped DEF LiveRead, Refused, EncryptionInv, TypesFit, Operations, Stages
<1>1. TypesFit'  BY <1>0 DEF EncryptionInv, TypesFit, settings, data
<1>2. OperationsFit'  BY <1>0, ConstantsAreTyped DEF EncryptionInv, OperationsFit, settings
<1>3. ContainerFits'  BY <1>0 DEF EncryptionInv, ContainerFits, Encrypted, data
<1>4. EnsureFits'  BY <1>0 DEF EncryptionInv, EnsureFits, Mode, Settled, settings
<1>5. UnloadFits'  BY <1>0, ConstantsAreTyped DEF EncryptionInv, UnloadFits, Encrypted, settings, data
<1>6. PluginFits'  BY <1>0 DEF EncryptionInv, PluginFits, Encrypted, data
<1>7. ServerFits'  BY <1>0 DEF EncryptionInv, ServerFits, Mode, Settled, settings
<1> QED  BY <1>1, <1>2, <1>3, <1>4, <1>5, <1>6, <1>7 DEF EncryptionInv

\* The Aria tables are looked at, and rebuilt.
LEMMA ScanKeeps ==
  ASSUME EncryptionInv, Scan \/ Rebuild
  PROVE  EncryptionInv'
<1>0. /\ admin.at \in {"scan", "rebuild"} /\ admin' \in Operations
      /\ aria' \in BOOLEAN /\ loaded' \in BOOLEAN
      /\ \/ admin' = NoOp /\ loaded' = loaded /\ aria' = aria
         \/ admin'.at = "rebuild" /\ loaded' = loaded /\ aria' = aria
         \/ admin'.at = "unload" /\ ~aria' /\ loaded' = FALSE /\ cont.up
      /\ UNCHANGED <<enabled, key, keyFile, row, cont, spaces, forced, ens, failed, raced, cut>>
  <2>1. /\ admin \in Operations /\ aria \in BOOLEAN /\ loaded \in BOOLEAN
        /\ {"rebuild", "unload"} \subseteq Stages
    BY DEF EncryptionInv, TypesFit, Stages
  <2>2. /\ [admin EXCEPT !.at = "rebuild"] \in Operations
        /\ [admin EXCEPT !.at = "rebuild"].at = "rebuild"
        /\ [admin EXCEPT !.at = "unload"] \in Operations
        /\ [admin EXCEPT !.at = "unload"].at = "unload"
    BY <2>1, OperationIsTyped
  <2>3. CASE Scan /\ Refused
    BY <2>1, <2>3, ConstantsAreTyped DEF Scan, Refused, settings, data
  <2>5. CASE Scan /\ ~Refused /\ aria
    BY <2>1, <2>2, <2>5 DEF Scan, settings, data
  <2>6. CASE Scan /\ ~Refused /\ ~aria
    <3>1. admin.at = "scan" /\ cont.up /\ Unloads /\ data' = data  BY <2>6 DEF Scan
    <3>2. aria' = aria /\ spaces' = spaces /\ forced' = forced  BY <3>1 DEF data
    <3>3. ~aria'  BY <2>6, <3>2
    <3> QED  BY <2>1, <2>2, <3>1, <3>2, <3>3 DEF Unloads
  <2>4. CASE Rebuild
    BY <2>1, <2>2, <2>4, ConstantsAreTyped DEF Rebuild, Unloads, Refused, settings, data
  <2> QED  BY <2>3, <2>4, <2>5, <2>6
<1>1. TypesFit'  BY <1>0 DEF EncryptionInv, TypesFit
<1>2. OperationsFit'  BY <1>0, ConstantsAreTyped DEF EncryptionInv, OperationsFit
<1>3. ContainerFits'  BY <1>0 DEF EncryptionInv, ContainerFits, Encrypted
<1>4. EnsureFits'  BY <1>0, ConstantsAreTyped DEF EncryptionInv, TypesFit, EnsureFits, Mode, Settled
<1>5. UnloadFits'  BY <1>0, ConstantsAreTyped DEF EncryptionInv, UnloadFits, Encrypted
<1>6. PluginFits'  BY <1>0 DEF EncryptionInv, PluginFits, Encrypted
<1>7. ServerFits'  BY <1>0 DEF EncryptionInv, ServerFits, Mode, Settled
<1> QED  BY <1>1, <1>2, <1>3, <1>4, <1>5, <1>6, <1>7 DEF EncryptionInv

\* The tablespaces are read once more.
LEMMA AfterReadKeeps ==
  ASSUME EncryptionInv, AfterRead
  PROVE  EncryptionInv'
<1>0. /\ admin.at = "after" /\ admin' \in Operations /\ key' \in BOOLEAN /\ keyFile' \in BOOLEAN
      /\ ~enabled /\ ~loaded /\ key /\ loaded' \in BOOLEAN
      /\ \/ admin' = NoOp /\ ~loaded' /\ spaces = "plain" /\ ~forced
         \/ admin'.at = "back" /\ loaded' = TRUE /\ key' = key
      /\ UNCHANGED <<enabled, row, cont, data, ens, failed, raced, cut>>
  <2>1. /\ admin \in Operations /\ "back" \in Stages /\ key \in BOOLEAN /\ keyFile \in BOOLEAN
        /\ loaded \in BOOLEAN
    BY DEF EncryptionInv, TypesFit, Stages
  <2>2. /\ [admin EXCEPT !.at = "back"] \in Operations
        /\ [admin EXCEPT !.at = "back"].at = "back"
    BY <2>1, OperationIsTyped
  <2>3. Deletes(admin.delete) => key' \in BOOLEAN /\ keyFile' \in BOOLEAN  BY DEF Deletes
  <2>4. admin.at = "after" /\ ~enabled /\ ~loaded /\ key
    BY DEF AfterRead, EncryptionInv, OperationsFit
  <2> QED  BY <2>1, <2>2, <2>3, <2>4, ConstantsAreTyped DEF AfterRead, ReadsAgain, Plain
<1>1. TypesFit'  BY <1>0 DEF EncryptionInv, TypesFit, data
<1>2. OperationsFit'  BY <1>0, ConstantsAreTyped DEF EncryptionInv, OperationsFit
<1>3. ContainerFits'  BY <1>0 DEF EncryptionInv, ContainerFits, Encrypted, data
<1>4. EnsureFits'
  BY <1>0, ConstantsAreTyped DEF EncryptionInv, TypesFit, EnsureFits, UnloadFits, Mode, Settled
<1>5. UnloadFits'
  BY <1>0, ConstantsAreTyped DEF EncryptionInv, TypesFit, UnloadFits, Encrypted, data
<1>6. PluginFits'
  BY <1>0, ConstantsAreTyped DEF EncryptionInv, UnloadFits, PluginFits, Encrypted, data
<1>7. ServerFits'
  BY <1>0, ConstantsAreTyped DEF EncryptionInv, ServerFits, Mode, Settled
<1> QED  BY <1>1, <1>2, <1>3, <1>4, <1>5, <1>6, <1>7 DEF EncryptionInv

\* The process dies, and boots.
LEMMA RebootsKeeps ==
  ASSUME EncryptionInv, Restart \/ \E writes \in 1..2 : DiesInEnable(writes)
  PROVE  EncryptionInv'
<1>0. /\ admin' = NoOp /\ ens' = NoEnsure /\ keyFile' \in BOOLEAN
      /\ ~failed' => ~failed /\ ens = NoEnsure /\ admin = NoOp /\ loaded' = loaded
      /\ cut' = (cut \/ admin.at \in {"unload", "after"})
      /\ failed' \in BOOLEAN /\ cut' \in BOOLEAN
      /\ enabled' = enabled /\ key' \in BOOLEAN /\ loaded' \in BOOLEAN
      /\ \/ UNCHANGED <<loaded, key>>
         \/ admin = NoOp /\ key' = TRUE /\ (loaded' = loaded \/ loaded' = TRUE)
      /\ UNCHANGED <<row, cont, data, raced>>
  <2>1. /\ enabled \in BOOLEAN /\ loaded \in BOOLEAN /\ key \in BOOLEAN /\ keyFile \in BOOLEAN
        /\ failed \in BOOLEAN /\ cut \in BOOLEAN
    BY DEF EncryptionInv, TypesFit
  <2>2. CASE Restart  BY <2>1, <2>2 DEF Restart, Reboots
  <2>3. CASE \E writes \in 1..2 : DiesInEnable(writes)
    <3>1. /\ admin = NoOp /\ key' = TRUE /\ enabled' = enabled
          /\ loaded' = loaded \/ loaded' = TRUE
          /\ Reboots
      <4>1. PICK writes \in 1..2 : DiesInEnable(writes)  BY <2>3
      <4>2. CASE writes = 1  BY <2>1, <4>1, <4>2 DEF DiesInEnable, Enable
      <4>3. CASE writes = 2
        <5>1. 2 >= 2 /\ 2 # 3  OBVIOUS
        <5>2. key' = TRUE /\ loaded' = TRUE /\ enabled' = (enabled \/ FALSE)
          BY <4>1, <4>3, <5>1, Zenon DEF DiesInEnable, Enable
        <5> QED  BY <2>1, <4>1, <5>2 DEF DiesInEnable
      <4>4. writes = 1 \/ writes = 2  OBVIOUS
      <4> QED  BY <4>2, <4>3, <4>4
    <3>2. loaded' \in BOOLEAN  BY <2>1, <3>1
    <3> QED  BY <2>1, <3>1, <3>2 DEF Reboots
  <2> QED  BY <2>2, <2>3
<1>1. TypesFit'  BY <1>0, ConstantsAreTyped DEF EncryptionInv, TypesFit, data
<1>2. OperationsFit'  BY <1>0, ConstantsAreTyped DEF EncryptionInv, OperationsFit
<1>3. ContainerFits'  BY <1>0 DEF EncryptionInv, ContainerFits, Encrypted, data
<1>4. EnsureFits'  BY <1>0, ConstantsAreTyped DEF EncryptionInv, EnsureFits, Decided
<1>5. UnloadFits'
  BY <1>0, ConstantsAreTyped DEF EncryptionInv, TypesFit, UnloadFits, Encrypted, Decided, data
<1>6. PluginFits'
  BY <1>0, ConstantsAreTyped DEF EncryptionInv, TypesFit, PluginFits, Encrypted, Decided, data
<1>7. ServerFits'  BY <1>0 DEF EncryptionInv, ServerFits, Mode
<1> QED  BY <1>1, <1>2, <1>3, <1>4, <1>5, <1>6, <1>7 DEF EncryptionInv

LEMMA EncryptionStep == EncryptionInv /\ [MariadbNext]_mariadbVars => EncryptionInv'
<1> SUFFICES ASSUME EncryptionInv, [MariadbNext]_mariadbVars PROVE EncryptionInv'  OBVIOUS
<1>1. CASE UNCHANGED mariadbVars
  BY <1>1 DEF EncryptionInv, TypesFit, OperationsFit, ContainerFits, EnsureFits, UnloadFits,
      PluginFits, ServerFits, Mode, Encrypted, mariadbVars, settings, data
<1>2. CASE MariadbNext
  BY <1>2, ThreadsKeep, TablesKeep, StopsKeep, EnsureBeginsKeeps, PreparesKeeps,
     LooksAtContainerKeeps, CreatesKeeps, RunsKeeps, ReadyKeeps, EnsureFailsKeeps, SetOnKeeps,
     SetOffKeeps, UnloadBeginsKeeps, LiveReadKeeps, ScanKeeps, AfterReadKeeps, RebootsKeeps
     DEF MariadbNext
<1> QED  BY <1>1, <1>2

\* services/managedDb.js and services/managedDbEncryption.js: settings, container,
\* ensureServer and operation fit together after any deploys, crashes and failures.
THEOREM EncryptionInvariant == MariadbSpec => []EncryptionInv
<1>1. MariadbInit => EncryptionInv
  BY ConstantsAreTyped, NothingIsTold DEF MariadbInit, EncryptionInv, TypesFit, OperationsFit, ContainerFits,
      EnsureFits, UnloadFits, PluginFits, ServerFits, Encrypted, Decided
<1> QED  BY <1>1, EncryptionStep, PTL DEF MariadbSpec

\* The settings, the container and the two calls keep their types.
THEOREM EncryptionTypes == MariadbSpec => []MariadbTypeOK
<1>1. EncryptionInv => MariadbTypeOK  BY TypesFitTypes DEF EncryptionInv
<1> QED  BY <1>1, EncryptionInvariant, PTL

\* services/managedDbEncryption.js: settings that ask for the plugin have a key, also when
\* the process dies between two writes of a set or a key is deleted.
THEOREM SettingsHaveTheirKey == MariadbSpec => []LoadedHasKey
<1>1. EncryptionInv => LoadedHasKey  BY DEF EncryptionInv, OperationsFit, LoadedHasKey
<1> QED  BY <1>1, EncryptionInvariant, PTL

\* services/managedDb.js, unloadMariadbEncryptionKey: unless a crash cuts an unload short, a
\* key is gone only when nothing is encrypted with it.
THEOREM DeletedKeysAreUnused == MariadbSpec => []KeyOutlivesData
<1>1. EncryptionInv => KeyOutlivesData
  BY DEF EncryptionInv, OperationsFit, UnloadFits, KeyOutlivesData
<1> QED  BY <1>1, EncryptionInvariant, PTL

\* services/managedDb.js, ensureServer: whoever ensured the server last leaves the one that
\* the settings want, unless they changed while its container was being created.
THEOREM LastEnsureServes == MariadbSpec => []ServesAsConfigured
<1>1. EncryptionInv => ServesAsConfigured
  BY ConstantsAreTyped DEF EncryptionInv, ContainerFits, ServerFits, ServesAsConfigured, Settled
<1> QED  BY <1>1, EncryptionInvariant, PTL

\* services/managedDb.js, unloadRefusal and the second read: a server without the plugin has
\* nothing encrypted, but for an unload that is about to find that out.
THEOREM NothingIsUnreadable == MariadbSpec => []NeverBlind
<1>1. EncryptionInv => NeverBlind  BY DEF EncryptionInv, PluginFits, NeverBlind
<1> QED  BY <1>1, EncryptionInvariant, PTL
=============================================================================
