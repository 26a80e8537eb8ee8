------------------------------ MODULE AppStudio ------------------------------
(***************************************************************************)
(* services/appstudio/worker.js and the routes that feed it, for one app   *)
(* whose repository is on GitHub: requests are planned, coded on a branch, *)
(* built in the sandbox, merged and deployed by jobs of a table, which one *)
(* worker claims in order of id.                                           *)
(*                                                                         *)
(* A job's handler runs without a pause up to its first await, so claiming *)
(* a job and that prefix are one step; the agent, Docker and GitHub answer *)
(* as they like.  Branches are numbered by the coding attempt they carry.  *)
(*                                                                         *)
(* Left out: deleting a request or a job; apps with a local repository,    *)
(* which stop after the analysis; the branch name the poller of pull       *)
(* requests fills in when there is none.                                   *)
(***************************************************************************)
EXTENDS Naturals, FiniteSets

CONSTANTS Reqs,          \* enhancement requests of the app
          MaxJobs,       \* bound on rows of enhancement_jobs
          MaxPlans,      \* MAX_PLAN_PARALLEL (code: 3)
          MaxAsks,       \* bound on what operators ask for
          MaxCrashes     \* bound on restarts

ASSUME StudioConstants ==
  /\ IsFiniteSet(Reqs) /\ Reqs \subseteq Nat /\ Reqs # {}
  /\ MaxJobs \in Nat /\ MaxAsks \in Nat /\ MaxCrashes \in Nat
  /\ MaxPlans \in Nat \ {0}

Ids == 1..MaxJobs

VARIABLES status,    \* enhancement_requests.status
          planned,   \* requests with an ai_plan_json
          auto,      \* requests with mode = 'auto'
          branch,    \* enhancement_requests.branch_name, 0 when null
          n,         \* rows of enhancement_jobs
          job,       \* each row: request, phase and status
          handler,   \* handler of a job in this process: where it is, its branch, and
                     \* for a build the mode its request had
          recoding,  \* requests whose recode awaits GitHub
          asks,      \* asks so far
          crashes,   \* restarts so far
          built,     \* history: branches deployed to the sandbox for a request
          merged,    \* history: branches merged for a request
          consent,   \* history: requests an operator asked to merge
          hasty,     \* history: requests an operator asked about while work was open
          rejected   \* history: requests rejected while nothing worked on them

request == <<status, planned, auto, branch>>
bounds == <<asks, crashes>>
history == <<built, merged, consent, hasty, rejected>>
vars == <<request, n, job, handler, recoding, bounds, history>>

PlanPhases == {"plan", "revise_plan"}
CodePhases == {"code", "build", "open_pr"}

\* Statuses that say a job works, or will work, on the request.
InWork == {"planning", "plan_approved", "coding", "pushing", "building"}

\* Statuses an administrator can write with no job; nothing reads 'planning', so the
\* one written by hand is told apart.
ByHand == {"new", "selected", "planning (by hand)", "in_progress", "done", "no_changes_needed"}

Statuses == InWork \cup ByHand \cup {"pending_user_review_plan", "sandbox_ready", "pr_open",
                                      "merged", "auto_failed"}

Rows == [req : Reqs, phase : PlanPhases \cup CodePhases,
         st : {"none", "queued", "running", "done", "failed"}]
Handlers == [at : {"none", "started", "opened", "merged"}, branch : 0..MaxJobs, auto : BOOLEAN]
NoHandler == [at |-> "none", branch |-> 0, auto |-> FALSE]

TypeOK ==
  /\ status \in [Reqs -> Statuses]
  /\ planned \in SUBSET Reqs /\ auto \in SUBSET Reqs
  /\ branch \in [Reqs -> 0..MaxJobs]
  /\ n \in 0..MaxJobs
  /\ job \in [Ids -> Rows]
  /\ \A i \in Ids : job[i].st = "none" <=> i > n
  /\ handler \in [Ids -> Handlers]
  /\ \A i \in Ids : handler[i].at # "none" => job[i].st \in {"running", "failed"}
  /\ \A i, j \in {k \in Ids : handler[k].at # "none" /\ job[k].phase \in CodePhases} : i = j
  /\ recoding \in SUBSET Reqs
  /\ asks \in 0..MaxAsks /\ crashes \in 0..MaxCrashes
  /\ built \in [Reqs -> SUBSET (1..MaxJobs)]
  /\ merged \in [Reqs -> SUBSET (1..MaxJobs)]
  /\ consent \in SUBSET Reqs /\ hasty \in SUBSET Reqs /\ rejected \in SUBSET Reqs

\* Some requests are new, the others were planned before.
Init ==
  /\ planned \in SUBSET Reqs /\ auto = planned
  /\ status = [e \in Reqs |-> IF e \in planned THEN "pending_user_review_plan" ELSE "new"]
  /\ branch = [e \in Reqs |-> 0]
  /\ n = 0
  /\ job = [i \in Ids |-> [req |-> CHOOSE e \in Reqs : TRUE, phase |-> "plan", st |-> "none"]]
  /\ handler = [i \in Ids |-> NoHandler]
  /\ recoding = {}
  /\ asks = 0 /\ crashes = 0
  /\ built = [e \in Reqs |-> {}]
  /\ merged = [e \in Reqs |-> {}]
  /\ consent = {} /\ hasty = {} /\ rejected = {}

-----------------------------------------------------------------------------
(* The table of jobs *)

\* Bound: rows that can still be inserted.
Room(k) == n + k <= MaxJobs

Active(i) == handler[i].at # "none"
Open(e) == {i \in Ids : job[i].req = e /\ job[i].st \in {"queued", "running"}}
Working(e) == {i \in Ids : job[i].req = e /\ Active(i)}

Row(e, phase) == [req |-> e, phase |-> phase, st |-> "queued"]

\* INSERT INTO enhancement_jobs, over a table that may have changed already.
Insert(jobs, e, phase) ==
  /\ Room(1)
  /\ n' = n + 1
  /\ job' = [jobs EXCEPT ![n + 1] = Row(e, phase)]

\* finishJob: whatever the row says by now.
Finished(i, st) == [job EXCEPT ![i].st = st]

\* runJob's finally.
Leave(i) == handler' = [handler EXCEPT ![i] = NoHandler]

SetStatus(e, s) == status' = [status EXCEPT ![e] = s]

\* runJob's catch: the job is failed, and so is the request.
JobFails(i) ==
  /\ job' = Finished(i, "failed")
  /\ SetStatus(job[i].req, "auto_failed")
  /\ Leave(i)
  /\ UNCHANGED <<planned, auto, branch, n, recoding, bounds, history>>

\* The branch of a coding job: one more than the coding jobs before it.
Attempt(i) ==
  1 + Cardinality({j \in 1..(i - 1) : job[j].req = job[i].req /\ job[j].phase = "code"})

-----------------------------------------------------------------------------
(* The worker *)

\* Mutant: the flag of the one coding job is cleared too early.
Free_Unlimited(phases) == phases # PlanPhases \/ \A i \in Ids : Active(i) => job[i].phase \notin PlanPhases

\* Room for one more handler: MAX_PLAN_PARALLEL plans, one job of any other phase.
Free(phases) ==
  IF phases = PlanPhases
  THEN Cardinality({i \in Ids : Active(i) /\ job[i].phase \in PlanPhases}) < MaxPlans
  ELSE \A i \in Ids : Active(i) => job[i].phase \notin CodePhases

\* claimJob: the queued job of these phases with the lowest id.
Claimable(i, phases) ==
  /\ job[i].st = "queued" /\ job[i].phase \in phases
  /\ \A j \in 1..(i - 1) : job[j].st = "queued" => job[j].phase \notin phases

\* What a handler needs of its request when it starts.
Ready(i) ==
  \/ job[i].phase \in PlanPhases
  \/ job[i].phase = "code" /\ job[i].req \in planned
  \/ job[i].phase \in {"build", "open_pr"} /\ branch[job[i].req] # 0

\* tick claims a job and its handler runs up to its first await.
Claim(i, phases) ==
  /\ Free(phases) /\ Claimable(i, phases)
  /\ LET e == job[i].req
         b == IF job[i].phase = "code" THEN Attempt(i) ELSE branch[e]
     IN  \/ /\ Ready(i)
            /\ job' = [job EXCEPT ![i].st = "running"]
            /\ handler' = [handler EXCEPT ![i] = [at |-> "started", branch |-> b,
                                                auto |-> job[i].phase = "build" /\ e \in auto]]
            /\ CASE job[i].phase = "code" -> SetStatus(e, "coding")
                 [] job[i].phase = "build" -> SetStatus(e, "building")
                 [] OTHER -> UNCHANGED status
            /\ UNCHANGED <<planned, auto, branch, n, recoding, bounds, history>>
         \/ ~Ready(i) /\ JobFails(i)

At(i, phases, at) == job[i].phase \in phases /\ handler[i].at = at

\* handlePlan: the planner answered.
PlanEnds(i) ==
  /\ At(i, PlanPhases, "started")
  /\ SetStatus(job[i].req, "pending_user_review_plan")
  /\ planned' = planned \cup {job[i].req}
  /\ job' = Finished(i, "done")
  /\ Leave(i)
  /\ UNCHANGED <<auto, branch, n, recoding, bounds, history>>

\* handleCode: the agent changed nothing.
CodeChangesNothing(i) ==
  /\ At(i, {"code"}, "started")
  /\ SetStatus(job[i].req, "no_changes_needed")
  /\ job' = Finished(i, "done")
  /\ Leave(i)
  /\ UNCHANGED <<planned, auto, branch, n, recoding, bounds, history>>

\* Mutant: a push conflict drops the plan and queues nothing.
CodePushConflicts_NoReplan(i) ==
  /\ At(i, {"code"}, "started")
  /\ SetStatus(job[i].req, "planning")
  /\ planned' = planned \ {job[i].req}
  /\ job' = Finished(i, "done")
  /\ Leave(i)
  /\ UNCHANGED <<auto, branch, n, recoding, bounds, history>>

\* handleCode: the branch has diverged, so the request is planned again.
CodePushConflicts(i) ==
  /\ At(i, {"code"}, "started")
  /\ SetStatus(job[i].req, "planning")
  /\ planned' = planned \ {job[i].req}
  /\ Insert(Finished(i, "done"), job[i].req, "revise_plan")
  /\ Leave(i)
  /\ UNCHANGED <<auto, branch, recoding, bounds, history>>

\* Requests whose plan the code just pushed makes stale.
StalePlans(e) == {r \in Reqs \ {e} : status[r] = "pending_user_review_plan"}

\* handleCode: the branch is pushed; its build is queued, and the stale plans of
\* the app are dropped and queued again.
CodePushed(i) ==
  /\ At(i, {"code"}, "started")
  /\ LET e == job[i].req
         stale == StalePlans(e)
         nth(r) == n + 1 + Cardinality({s \in stale : s <= r})
     IN  /\ Room(1 + Cardinality(stale))
         /\ status' = [r \in Reqs |-> IF r = e THEN "pushing"
                                      ELSE IF r \in stale THEN "planning" ELSE status[r]]
         /\ planned' = planned \ stale
         /\ branch' = [branch EXCEPT ![e] = handler[i].branch]
         /\ n' = n + 1 + Cardinality(stale)
         /\ job' = [j \in Ids |->
                     IF j = i THEN [job[i] EXCEPT !.st = "done"]
                     ELSE IF j = n + 1 THEN Row(e, "build")
                     ELSE IF \E r \in stale : j = nth(r)
                          THEN Row(CHOOSE r \in stale : j = nth(r), "plan")
                          ELSE job[j]]
  /\ Leave(i)
  /\ UNCHANGED <<auto, recoding, bounds, history>>

\* handleBuild: the sandbox runs the branch; in auto mode the merge is queued.
BuildEnds(i) ==
  /\ At(i, {"build"}, "started")
  /\ LET e == job[i].req
     IN  /\ SetStatus(e, "sandbox_ready")
         /\ built' = [built EXCEPT ![e] = @ \cup {handler[i].branch}]
         /\ \/ handler[i].auto /\ Insert(Finished(i, "done"), e, "open_pr")
            \/ ~handler[i].auto /\ job' = Finished(i, "done") /\ UNCHANGED n
  /\ Leave(i)
  /\ UNCHANGED <<planned, auto, branch, recoding, bounds, merged, consent, hasty, rejected>>

\* handleOpenPr: the pull request is there ...
PrOpens(i) ==
  /\ At(i, {"open_pr"}, "started")
  /\ SetStatus(job[i].req, "pr_open")
  /\ handler' = [handler EXCEPT ![i].at = "opened"]
  /\ UNCHANGED <<planned, auto, branch, n, job, recoding, bounds, history>>

\* ... and merged ...
PrMerges(i) ==
  /\ At(i, {"open_pr"}, "opened")
  /\ SetStatus(job[i].req, "merged")
  /\ handler' = [handler EXCEPT ![i].at = "merged"]
  /\ merged' = [merged EXCEPT ![job[i].req] = @ \cup {handler[i].branch}]
  /\ UNCHANGED <<planned, auto, branch, n, job, recoding, bounds, built, consent, hasty, rejected>>

\* ... and production deployed; a deploy that fails is only logged.
PrDeploys(i) ==
  /\ At(i, {"open_pr"}, "merged")
  /\ job' = Finished(i, "done")
  /\ Leave(i)
  /\ UNCHANGED <<request, n, recoding, bounds, history>>

\* Mutant: a sandbox deploy that fails is only logged, as the one after the merge.
HandlerFails_OnlyLogged(i) ==
  \/ handler[i].at = "started" /\ job[i].phase # "build" /\ JobFails(i)
  \/ /\ At(i, {"build"}, "started")
     /\ SetStatus(job[i].req, "sandbox_ready")
     /\ Insert(Finished(i, "done"), job[i].req, "open_pr")
     /\ Leave(i)
     /\ UNCHANGED <<planned, auto, branch, recoding, bounds, history>>

\* The planner, the agent, the build, GitHub or a timeout threw.
HandlerFails(i) ==
  /\ handler[i].at \in {"started", "opened"}
  /\ JobFails(i)

\* Statuses recoverOrphanedJobs gives the request of a job it queues again.
PhaseStatus(phase) ==
  CASE phase \in PlanPhases -> "planning"
    [] phase = "code" -> "plan_approved"
    [] phase = "build" -> "pushing"
    [] phase = "open_pr" -> "sandbox_ready"

\* Mutant: only jobs of the container's phase are looked at.
Orphans_OnlyCode(alive) ==
  {i \in Ids : job[i].st = "running" /\ job[i].phase = "code" /\ i \notin alive}

\* Running rows whose studio container is gone.
Orphans(alive) == {i \in Ids : job[i].st = "running" /\ i \notin alive}

\* Only coding jobs have a container; it may survive the server, and end later.
MayBeAlive == {i \in Ids : job[i].st = "running" /\ job[i].phase = "code"}

\* The server dies and boots: recoverOrphanedJobs, in the order of the ids.  A
\* code handler may have recorded its branch and not yet queued its build.
Restart ==
  /\ crashes < MaxCrashes
  /\ crashes' = crashes + 1
  /\ \E alive \in SUBSET MayBeAlive :
       LET orphans == Orphans(alive)
           last(e) == CHOOSE i \in orphans :
                        /\ job[i].req = e
                        /\ \A j \in orphans : job[j].req = e => j <= i
       IN  /\ job' = [i \in Ids |-> IF i \in orphans THEN [job[i] EXCEPT !.st = "queued"]
                                    ELSE job[i]]
           /\ status' = [e \in Reqs |->
                          IF \E i \in orphans : job[i].req = e
                          THEN PhaseStatus(job[last(e)].phase) ELSE status[e]]
           /\ \/ UNCHANGED branch
              \/ \E i \in orphans :
                   /\ At(i, {"code"}, "started")
                   /\ branch' = [branch EXCEPT ![job[i].req] = handler[i].branch]
  /\ handler' = [i \in Ids |-> NoHandler]
  /\ recoding' = {}
  /\ UNCHANGED <<planned, auto, n, asks, history>>

-----------------------------------------------------------------------------
(* routes/appstudio.js, routes/plan.js and routes/enhancements.js *)

\* An operator asks for something about e.
Ask(e) ==
  /\ asks < MaxAsks
  /\ asks' = asks + 1
  /\ hasty' = IF Open(e) = {} /\ Working(e) = {} /\ e \notin recoding
             THEN hasty ELSE hasty \cup {e}
  /\ rejected' = rejected \ {e}
  /\ UNCHANGED <<handler, crashes, built, merged>>

\* POST plan.
Plan(e) ==
  /\ Ask(e)
  /\ auto' = auto \cup {e}
  /\ SetStatus(e, "planning")
  /\ Insert(job, e, "plan")
  /\ UNCHANGED <<planned, branch, recoding, consent>>

\* POST approve-plan, and POST build of routes/plan.js by an admin.
ApprovePlan(e) ==
  /\ Ask(e)
  /\ e \in planned
  /\ SetStatus(e, "plan_approved")
  /\ Insert(job, e, "code")
  /\ UNCHANGED <<planned, auto, branch, recoding, consent>>

\* POST plan-feedback, and POST feedback of routes/plan.js.
PlanFeedback(e) ==
  /\ Ask(e)
  /\ SetStatus(e, "planning")
  /\ Insert(job, e, "revise_plan")
  /\ UNCHANGED <<planned, auto, branch, recoding, consent>>

\* POST redo, with or without reset_branch.
Redo(e) ==
  /\ Ask(e)
  /\ SetStatus(e, "planning")
  /\ planned' = planned \ {e}
  /\ \/ UNCHANGED branch
     \/ branch' = [branch EXCEPT ![e] = 0]
  /\ Insert(job, e, "plan")
  /\ UNCHANGED <<auto, recoding, consent>>

\* POST recode looks for a plan and awaits the removal of the old branch ...
RecodeBegins(e) ==
  /\ Ask(e)
  /\ e \in planned /\ e \notin recoding
  /\ recoding' = recoding \cup {e}
  /\ UNCHANGED <<request, n, job, consent>>

\* ... and then queues the coding, whatever happened to the request meanwhile.
RecodeEnds(e) ==
  /\ e \in recoding
  /\ recoding' = recoding \ {e}
  /\ SetStatus(e, "plan_approved")
  /\ branch' = [branch EXCEPT ![e] = 0]
  /\ Insert(job, e, "code")
  /\ UNCHANGED <<planned, auto, handler, bounds, history>>

\* POST approve-sandbox: a missing branch name is taken to be the first attempt's.
ApproveSandbox(e) ==
  /\ Ask(e)
  /\ branch' = [branch EXCEPT ![e] = IF @ = 0 THEN 1 ELSE @]
  /\ Insert(job, e, "open_pr")
  /\ consent' = consent \cup {e}
  /\ UNCHANGED <<status, planned, auto, recoding>>

\* POST mark-done.
MarkDone(e) ==
  /\ Ask(e)
  /\ SetStatus(e, "done")
  /\ UNCHANGED <<planned, auto, branch, n, job, recoding, consent>>

\* POST set-status, and the buckets of routes/enhancements.js.
SetByHand(e) ==
  /\ Ask(e)
  /\ \E s \in ByHand : SetStatus(e, s)
  /\ UNCHANGED <<planned, auto, branch, n, job, recoding, consent>>

\* Mutant: only the queued jobs are failed.
Stopped_QueuedOnly(e) == {i \in Open(e) : job[i].st = "queued"}

\* Jobs that a reject fails.
Stopped(e) == Open(e)

\* POST reject: "stop all processing".
Reject(e) ==
  /\ asks < MaxAsks
  /\ asks' = asks + 1
  /\ SetStatus(e, "done")
  /\ job' = [i \in Ids |-> IF i \in Stopped(e) THEN [job[i] EXCEPT !.st = "failed"] ELSE job[i]]
  /\ rejected' = IF Working(e) = {} /\ e \notin recoding THEN rejected \cup {e} ELSE rejected
  /\ UNCHANGED <<planned, auto, branch, n, handler, recoding, crashes, built, merged, consent, hasty>>

\* POST jobs/:jobId/retry.
Retry(i) ==
  LET e == job[i].req
  IN  /\ job[i].st = "failed"
      /\ Ask(e)
      /\ Insert(job, e, job[i].phase)
      /\ SetStatus(e, IF status[e] = "auto_failed" THEN "plan_approved" ELSE status[e])
      /\ consent' = IF job[i].phase = "open_pr" THEN consent \cup {e} ELSE consent
      /\ UNCHANGED <<planned, auto, branch, recoding>>

-----------------------------------------------------------------------------
HandlerStep(i) ==
  \/ PlanEnds(i) \/ CodeChangesNothing(i) \/ CodePushConflicts(i) \/ CodePushed(i)
  \/ BuildEnds(i) \/ PrOpens(i) \/ PrMerges(i) \/ PrDeploys(i) \/ HandlerFails(i)

Asked(e) ==
  \/ Plan(e) \/ ApprovePlan(e) \/ PlanFeedback(e) \/ Redo(e)
  \/ RecodeBegins(e) \/ RecodeEnds(e) \/ ApproveSandbox(e) \/ MarkDone(e)
  \/ SetByHand(e) \/ Reject(e)

\* The worker has nothing to do.
AtRest ==
  /\ \A i \in Ids : job[i].st # "queued" /\ ~Active(i)
  /\ UNCHANGED vars

Next ==
  \/ \E i \in Ids : HandlerStep(i) \/ Retry(i)
  \/ \E i \in Ids : Claim(i, PlanPhases) \/ Claim(i, CodePhases)
  \/ \E e \in Reqs : Asked(e)
  \/ Restart
  \/ AtRest

Spec == Init /\ [][Next]_vars

\* The worker ticks; agents, builds of branches and calls to GitHub end (timeouts), and
\* so, though it has none, does the docker build of the studio's own image.
Fairness ==
  /\ \A i \in Ids : WF_vars(HandlerStep(i))
  /\ \A i \in Ids : WF_vars(Claim(i, PlanPhases)) /\ WF_vars(Claim(i, CodePhases))

FairSpec == Spec /\ Fairness

-----------------------------------------------------------------------------
(* Properties *)

\* A coding job left to the container that survived its server.
Stranded(i) == job[i].st = "running" /\ job[i].phase = "code" /\ ~Active(i)

\* A request shown as in work is worked on: a job of it is queued or has a
\* handler, through failures, push conflicts, plans made stale by another
\* request's code, rejects, double asks and restarts (only a coding job whose
\* container outlived the server has nobody, and 'planning' written by hand promises
\* nothing).
InWorkIsWorkedOn ==
  \A e \in Reqs : status[e] \in InWork =>
    \/ Working(e) # {}
    \/ \E i \in Open(e) : job[i].st = "queued" \/ Stranded(i)

\* A request rejected while nothing worked on it stays closed until an operator
\* asks for it again: no other request's code, no late job and no restart takes
\* it up (routes/appstudio.js:325 "stop all processing").
RejectIsFinal ==
  \A e \in rejected : status[e] = "done" /\ Open(e) = {} /\ Working(e) = {}

\* The branch that auto mode merges is one the sandbox ran: whatever was pushed
\* again, planned again or retried since, as long as operators wait for the
\* request's jobs and did not ask for the merge themselves.
MergedWasBuilt ==
  \A e \in Reqs \ (consent \cup hasty) : merged[e] \subseteq built[e]

\* A claimed job settles unless its container outlives the server, and every
\* queued one is claimed, whatever is queued before it.
JobsSettle ==
  \A i \in Ids :
    job[i].st = "queued" ~> job[i].st \in {"done", "failed"} \/ Stranded(i)
=============================================================================
