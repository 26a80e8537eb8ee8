---------------------------- MODULE RestoreGuard ----------------------------
(***************************************************************************)
(* services/managedDbRestoreGuard.js and everything that may start an app  *)
(* container beside it, for one app: a restore stops the containers that   *)
(* use the data, holds an in-memory lock, works, and starts them again.    *)
(* The others look at the lock and at the deployments table, each before   *)
(* some await of its own.                                                  *)
(*                                                                         *)
(* A deploy call is in flight from its INSERT to its last status update,   *)
(* and is taken to be younger than STALE_DEPLOY_SECONDS.                   *)
(***************************************************************************)
EXTENDS Naturals, FiniteSets

CONSTANTS Envs,      \* the app's environments
          Deploys,   \* deployApp calls (deploy, rollback, promote, recovery)
          Restarts,  \* POST /restart calls
          Checks,    \* runs of the health checker
          NONE       \* no environment

Calls == Deploys \cup Restarts \cup Checks

ASSUME GuardConstants ==
  /\ NONE \notin Envs
  /\ Deploys \cap Restarts = {} /\ Deploys \cap Checks = {} /\ Restarts \cap Checks = {}

VARIABLES lock,     \* the environments of the entry in `active', {} for none
          restore,  \* the restore: where it is, the environments left to visit,
                    \* those it stopped, those that did not start again
          up,       \* state of each environment's container
          call,     \* where each call is suspended, and for which environment
          disturbed \* history: locked environments whose container a restart or a
                    \* health check stopped or started since the lock was taken

vars == <<lock, restore, up, call, disturbed>>

NoRestore ==
  [at |-> "idle", todo |-> {}, stopped |-> {}, startFailures |-> {}, keepRunning |-> FALSE]
NoCall == [at |-> "idle", env |-> NONE]

DeployPcs == {"inserted", "building", "stopped", "starting", "probing",
              "reverting", "restoring"}

TypeOK ==
  /\ lock \in SUBSET Envs
  /\ restore \in [at : {"idle", "checking", "stopping", "work", "starting"},
                  todo : SUBSET Envs, stopped : SUBSET Envs,
                  startFailures : SUBSET Envs, keepRunning : BOOLEAN]
  /\ lock = {} <=> restore.at = "idle"
  /\ restore.todo \cup restore.stopped \subseteq lock
  /\ up \in [Envs -> {"running", "exited", "absent"}]
  /\ call \in [Calls -> [at : {"idle", "asserted", "checking"} \cup DeployPcs,
                         env : Envs \cup {NONE}]]
  /\ \A c \in Calls : call[c].at = "idle" <=> call[c].env = NONE
  /\ disturbed \subseteq lock

Init ==
  /\ lock = {}
  /\ restore = NoRestore
  /\ up \in [Envs -> {"running", "absent"}]
  /\ call = [c \in Calls |-> NoCall]
  /\ disturbed = {}

-----------------------------------------------------------------------------
(* What the guards read *)

\* restoreInProgress, assertNoRestoreInProgress.
RestoreInProgress(e) == e \in lock

\* Mutant: only builds count as in flight, not the row just inserted.
InFlight_BuildsOnly(e) ==
  \E d \in Deploys : call[d].env = e /\ call[d].at \in {"building", "probing"}

\* assertNoInflightDeploy: a pending, building or deploying row of e.
InFlight(e) == \E d \in Deploys : call[d].env = e /\ call[d].at \in DeployPcs

Move(c, where) == call' = [call EXCEPT ![c].at = where]
Leave(c) == call' = [call EXCEPT ![c] = NoCall]
Disturbs(c) == disturbed' = disturbed \cup ({call[c].env} \cap lock)

-----------------------------------------------------------------------------
(* runWithAppStopped *)

\* active.set; a second restore of the app is refused.
RestoreLock ==
  /\ lock = {}
  /\ \E E \in (SUBSET Envs) \ {{}}, keep \in BOOLEAN :
       /\ lock' = E
       /\ restore' = [at |-> "checking", todo |-> E, stopped |-> {}, startFailures |-> {},
                      keepRunning |-> keep]
  /\ disturbed' = {}
  /\ UNCHANGED <<up, call>>

\* A deploy in flight for one of the environments refuses the restore.
RestoreCheck ==
  /\ restore.at = "checking"
  /\ \/ /\ \E e \in lock : InFlight(e)
        /\ lock' = {}
        /\ restore' = NoRestore
        /\ disturbed' = {}
     \/ /\ \A e \in lock : ~InFlight(e)
        /\ restore' = [restore EXCEPT !.at = IF restore.keepRunning THEN "work" ELSE "stopping"]
        /\ UNCHANGED <<lock, disturbed>>
  /\ UNCHANGED <<up, call>>

\* Mutant: a stop that fails leaves without starting what was stopped before it.
RestoreStop_FailsOut(e) ==
  /\ restore.at = "stopping" /\ e \in restore.todo /\ up[e] = "running"
  /\ \/ /\ up' = [up EXCEPT ![e] = "exited"]
        /\ restore' = [restore EXCEPT !.todo = @ \ {e}, !.stopped = @ \cup {e}]
     \/ /\ restore' = [restore EXCEPT !.at = "starting", !.todo = {}]
        /\ UNCHANGED up
  /\ UNCHANGED <<lock, call, disturbed>>

\* One environment: stopped, not running and left alone, or the stop fails and
\* the restore goes straight to starting what it stopped.
RestoreStop(e) ==
  /\ restore.at = "stopping" /\ e \in restore.todo
  /\ \/ /\ up[e] = "running"
        /\ up' = [up EXCEPT ![e] = "exited"]
        /\ restore' = [restore EXCEPT !.todo = @ \ {e}, !.stopped = @ \cup {e}]
     \/ /\ up[e] # "running"
        /\ restore' = [restore EXCEPT !.todo = @ \ {e}]
        /\ UNCHANGED up
     \/ /\ up[e] = "running"
        /\ restore' = [restore EXCEPT !.at = "starting", !.todo = restore.stopped]
        /\ UNCHANGED up
  /\ UNCHANGED <<lock, call, disturbed>>

RestoreWork ==
  /\ restore.at = "stopping" /\ restore.todo = {}
  /\ restore' = [restore EXCEPT !.at = "work"]
  /\ UNCHANGED <<lock, up, call, disturbed>>

\* Mutant: the finally block is entered only when something was stopped.
RestoreWorkEnds_IfStopped ==
  /\ restore.at = "work" /\ restore.stopped # {}
  /\ restore' = [restore EXCEPT !.at = "starting", !.todo = restore.stopped]
  /\ UNCHANGED <<lock, up, call, disturbed>>

\* work() resolved or threw.
RestoreWorkEnds ==
  /\ restore.at = "work"
  /\ restore' = [restore EXCEPT !.at = "starting", !.todo = restore.stopped]
  /\ UNCHANGED <<lock, up, call, disturbed>>

\* docker restart of a container the restore stopped; a failure is mailed.
RestoreStart(e) ==
  /\ restore.at = "starting" /\ e \in restore.todo
  /\ \/ /\ up[e] # "absent"
        /\ up' = [up EXCEPT ![e] = "running"]
        /\ restore' = [restore EXCEPT !.todo = @ \ {e}]
     \/ /\ restore' = [restore EXCEPT !.todo = @ \ {e}, !.startFailures = @ \cup {e}]
        /\ UNCHANGED up
  /\ UNCHANGED <<lock, call, disturbed>>

\* active.delete.
RestoreEnd ==
  /\ restore.at = "starting" /\ restore.todo = {}
  /\ lock' = {}
  /\ restore' = NoRestore
  /\ disturbed' = {}
  /\ UNCHANGED <<up, call>>

RestoreStep ==
  \/ RestoreCheck \/ RestoreWork \/ RestoreWorkEnds \/ RestoreEnd
  \/ \E e \in Envs : RestoreStop(e) \/ RestoreStart(e)

-----------------------------------------------------------------------------
(* deployApp, reached from every deploy, rollback, promote and recovery *)

\* The row is inserted.  Some callers looked at the lock before this, all of
\* them before an await, so what they saw proves nothing any more.
DeployInsert(d) ==
  /\ call[d].at = "idle"
  /\ \E e \in Envs : call' = [call EXCEPT ![d] = [at |-> "inserted", env |-> e]]
  /\ UNCHANGED <<lock, restore, up, disturbed>>

\* Mutant: deployApp does not look at the lock.
DeployAdmit_NoAssert(d) ==
  /\ call[d].at = "inserted"
  /\ Move(d, "building")
  /\ UNCHANGED <<lock, restore, up, disturbed>>

\* deployApp's own assertNoRestoreInProgress, before the build.
DeployAdmit(d) ==
  /\ call[d].at = "inserted"
  /\ IF RestoreInProgress(call[d].env) THEN Leave(d) ELSE Move(d, "building")
  /\ UNCHANGED <<lock, restore, up, disturbed>>

\* A failure before the old container is touched.
DeployFails(d) ==
  /\ call[d].at \in {"inserted", "building"}
  /\ Leave(d)
  /\ UNCHANGED <<lock, restore, up, disturbed>>

\* Built: dockerStop.
DeployStop(d) ==
  /\ call[d].at = "building"
  /\ up' = [up EXCEPT ![call[d].env] = "absent"]
  /\ Move(d, "stopped")
  /\ UNCHANGED <<lock, restore, disturbed>>

\* startApp: assertNoRestoreInProgress, then admission and network are awaited.
DeployStart(d) ==
  /\ call[d].at \in {"stopped", "reverting"}
  /\ IF RestoreInProgress(call[d].env)
       THEN Leave(d)
       ELSE Move(d, IF call[d].at = "stopped" THEN "starting" ELSE "restoring")
  /\ UNCHANGED <<lock, restore, up, disturbed>>

\* docker run; after a revert the call is over.
DeployRun(d) ==
  /\ call[d].at \in {"starting", "restoring"}
  /\ \/ /\ up' = [up EXCEPT ![call[d].env] = "running"]
        /\ IF call[d].at = "starting" THEN Move(d, "probing") ELSE Leave(d)
     \/ /\ up' = [up EXCEPT ![call[d].env] = "absent"]
        /\ Leave(d)
  /\ UNCHANGED <<lock, restore, disturbed>>

\* The probe passed, or it failed and the previous image is started.
DeployProbed(d) ==
  /\ call[d].at = "probing"
  /\ \/ Leave(d) /\ UNCHANGED up
     \/ /\ up' = [up EXCEPT ![call[d].env] = "absent"]
        /\ Move(d, "reverting") \/ Leave(d)
  /\ UNCHANGED <<lock, restore, disturbed>>

DeployStep(d) ==
  \/ DeployInsert(d) \/ DeployAdmit(d) \/ DeployFails(d) \/ DeployStop(d)
  \/ DeployStart(d) \/ DeployRun(d) \/ DeployProbed(d)

-----------------------------------------------------------------------------
(* POST /restart/:env: two looks at the lock, and no deployments row *)

RestartBegin(r) ==
  /\ call[r].at = "idle"
  /\ \E e \in Envs :
       /\ ~RestoreInProgress(e) /\ up[e] # "absent"
       /\ call' = [call EXCEPT ![r] = [at |-> "asserted", env |-> e]]
  /\ UNCHANGED <<lock, restore, up, disturbed>>

\* The environment is rebuilt and the start admitted, both awaited; a refusal
\* leaves the container alone.  Then it is stopped and removed.
RestartStop(r) ==
  /\ call[r].at = "asserted"
  /\ \/ up' = [up EXCEPT ![call[r].env] = "absent"] /\ Move(r, "stopped") /\ Disturbs(r)
     \/ Leave(r) /\ UNCHANGED <<up, disturbed>>
  /\ UNCHANGED <<lock, restore>>

\* startApp looks again, then awaits admission and network ...
RestartStart(r) ==
  /\ call[r].at = "stopped"
  /\ IF RestoreInProgress(call[r].env) THEN Leave(r) ELSE Move(r, "starting")
  /\ UNCHANGED <<lock, restore, up, disturbed>>

\* ... and runs the container.
RestartRun(r) ==
  /\ call[r].at = "starting"
  /\ \/ up' = [up EXCEPT ![call[r].env] = "running"]
     \/ up' = [up EXCEPT ![call[r].env] = "absent"]
  /\ Leave(r) /\ Disturbs(r)
  /\ UNCHANGED <<lock, restore>>

RestartStep(r) == RestartBegin(r) \/ RestartStop(r) \/ RestartStart(r) \/ RestartRun(r)

-----------------------------------------------------------------------------
(* healthChecker.runCheck *)

\* Skipped while a restore is in progress; then the probe is awaited.
CheckBegin(h) ==
  /\ call[h].at = "idle"
  /\ \E e \in Envs :
       /\ ~RestoreInProgress(e)
       /\ call' = [call EXCEPT ![h] = [at |-> "checking", env |-> e]]
  /\ UNCHANGED <<lock, restore, up, disturbed>>

\* Healthy, below the threshold, or no container to restart.
CheckEnds(h) ==
  /\ call[h].at = "checking"
  /\ Leave(h)
  /\ UNCHANGED <<lock, restore, up, disturbed>>

\* The failure that reaches fail_threshold: docker restart.
CheckRestarts(h) ==
  /\ call[h].at = "checking"
  /\ up[call[h].env] # "absent"
  /\ up' = [up EXCEPT ![call[h].env] = "running"]
  /\ Leave(h) /\ Disturbs(h)
  /\ UNCHANGED <<lock, restore>>

CheckStep(h) == CheckBegin(h) \/ CheckEnds(h) \/ CheckRestarts(h)

-----------------------------------------------------------------------------
\* The process ends, and the lock, the restore and every call end with it.
Crash ==
  /\ lock' = {}
  /\ restore' = NoRestore
  /\ call' = [c \in Calls |-> NoCall]
  /\ disturbed' = {}
  /\ UNCHANGED up

Next ==
  \/ RestoreLock \/ RestoreStep
  \/ \E d \in Deploys : DeployStep(d)
  \/ \E r \in Restarts : RestartStep(r)
  \/ \E h \in Checks : CheckStep(h)
  \/ Crash

Spec == Init /\ [][Next]_vars

\* docker stop, docker restart and the restore's commands run under timeouts.
Fairness == WF_vars(RestoreStep)

FairSpec == Spec /\ Fairness

-----------------------------------------------------------------------------
(* Properties *)

Locked == restore.at \in {"stopping", "work", "starting"}
PastAdmission == DeployPcs \ {"inserted"}

\* While a restore stops, works or starts, no deploy call of its environments
\* is past its own look at the lock: "no deploy, rollback, promote, restart or
\* second restore lands in between".  Either the deploy's row is seen by the
\* restore or the restore's lock is seen by the deploy.
DeploysExcluded ==
  Locked => \A d \in Deploys : call[d].at \in PastAdmission => call[d].env \notin lock

\* The restore works on the data of stopped containers only: "no deploy,
\* rollback, promote, restart or second restore lands in between".
StoppedWhileRestoring ==
  restore.at = "work" /\ ~restore.keepRunning => \A e \in lock : up[e] # "running"

\* A deploy never starts what a restore stopped: a container that runs while
\* its data is restored was started by a restart or a health check that looked
\* at the lock before it was taken.
DeploysLeaveItStopped ==
  restore.at = "work" /\ ~restore.keepRunning =>
    \A e \in lock : up[e] = "running" => e \in disturbed

\* A restore that ends has every container it stopped running again, or has
\* mailed that it did not start: also when a later stop failed, and whatever
\* deploys do.  Only a restart beside it may have taken the container down.
NothingLeftStopped ==
  [][restore.at = "starting" /\ restore.todo = {} /\ restore'.at = "idle" =>
       \A e \in restore.stopped :
         up'[e] = "running" \/ e \in restore.startFailures \/ e \in disturbed]_vars

\* The lock is released whatever the restore runs into, so the app can be
\* deployed and restarted again.
LockIsReleased == lock # {} ~> lock = {}
=============================================================================
