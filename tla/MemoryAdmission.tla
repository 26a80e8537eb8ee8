-------------------------- MODULE MemoryAdmission --------------------------
(***************************************************************************)
(* services/memoryAdmission.js in `refuse' mode, with the two caches it    *)
(* reads through (its own and the one of services/dockerSnapshot.js) and   *)
(* the calls that start containers: startApp, a restart that was admitted  *)
(* before its stop, and a coder session.                                   *)
(*                                                                         *)
(* A measurement is a function from container names to what the running    *)
(* container of that name counts, 0 when none runs.  Docker answers every  *)
(* read: a failed measurement admits the start by design.                  *)
(***************************************************************************)
EXTENDS Naturals, FiniteSets, Functions

CONSTANTS Apps,      \* names of app containers
          Coders,    \* names of coder containers
          Starters,  \* calls that start a container
          Readers,   \* hostResources, metricsSampler, the capacity page
          Sizes,     \* what a new container may count
          Capacity,  \* capacityBytes: the host's memory less the reserve
          NoOne, NoRows

Names == Apps \cup Coders
Actors == Starters \cup Readers
Rows == [Names -> Sizes \cup {0}]

ASSUME MemoryConstants ==
  /\ IsFiniteSet(Names)
  /\ Sizes \subseteq Nat \ {0}
  /\ Capacity \in Nat
  /\ Apps \cap Coders = {} /\ Starters \cap Readers = {}
  /\ NoOne \notin Actors
  /\ NoRows \notin Rows

VARIABLES
  running,  \* Docker: what each running container counts
  cached,   \* memoryAdmission's measurement of at most CACHE_MS ago, or NoRows
  snap,     \* dockerSnapshot's rows of at most SNAPSHOT_TTL_MS ago, or NoRows
  flight,   \* reads of Docker under way, by the actor that began them
  shared,   \* whose read later callers may join (sharedRead's `flight')
  holder,   \* reservations: whose token holds memory against a name
  at,       \* where an actor is suspended
  on,       \* the read it waits for
  view,     \* the measurement it got
  job,      \* kind, name and size of the start it works on
  lateReads, lateViews, lateCached, lateSnap,
            \* history: the reads, measurements in hand and caches that were asked of
            \* Docker before some start ended and survived its end
  alone     \* history: every start was decided on with no other one under way, on a
            \* measurement that was not late

late == <<lateReads, lateViews, lateCached, lateSnap>>
vars == <<running, cached, snap, flight, shared, holder, at, on, view, job, late, alone>>

Ats == {"idle", "waiting", "measured", "hit", "admitted", "starting", "stopped",
        "ran"}
Reads == [st : {"none", "asked", "listed"}, rows : Rows \cup {NoRows},
          current : BOOLEAN]
NoFlight == [st |-> "none", rows |-> NoRows, current |-> FALSE]
Jobs == [kind : {"deploy", "restart", "coder"}, name : Names, size : Sizes]
NoJob == [kind |-> "none", name |-> NoOne, size |-> 0]

TypeOK ==
  /\ running \in Rows
  /\ cached \in Rows \cup {NoRows}
  /\ snap \in Rows \cup {NoRows}
  /\ flight \in [Actors -> Reads]
  /\ shared \in Actors \cup {NoOne}
  /\ holder \in [Names -> Starters \cup {NoOne}]
  /\ at \in [Actors -> Ats]
  /\ on \in [Actors -> Actors \cup {NoOne}]
  /\ view \in [Actors -> Rows \cup {NoRows}]
  /\ job \in [Actors -> Jobs \cup {NoJob}]
  /\ lateReads \subseteq Actors /\ lateViews \subseteq Actors
  /\ lateCached \in BOOLEAN /\ lateSnap \in BOOLEAN /\ alone \in BOOLEAN
  /\ \A p \in Starters : at[p] # "idle" => job[p] \in Jobs
  /\ \A p \in Actors : flight[p].st = "listed" => flight[p].rows \in Rows
  /\ \A p \in Actors : at[p] \in {"measured", "hit"} => view[p] \in Rows
  /\ \A p \in Actors : at[p] = "waiting" => on[p] \in Actors

Init ==
  /\ running = [m \in Names |-> 0]
  /\ cached = NoRows /\ snap = NoRows
  /\ flight = [p \in Actors |-> NoFlight]
  /\ shared = NoOne
  /\ holder = [m \in Names |-> NoOne]
  /\ at = [p \in Actors |-> "idle"]
  /\ on = [p \in Actors |-> NoOne]
  /\ view = [p \in Actors |-> NoRows]
  /\ job = [p \in Actors |-> NoJob]
  /\ lateReads = {} /\ lateViews = {} /\ lateCached = FALSE /\ lateSnap = FALSE
  /\ alone = TRUE

\* The call is over and its local variables with it.
Finish(p) ==
  /\ at' = [at EXCEPT ![p] = "idle"]
  /\ on' = [on EXCEPT ![p] = NoOne]
  /\ view' = [view EXCEPT ![p] = NoRows]
  /\ job' = [job EXCEPT ![p] = NoJob]

\* The event loop takes the next callback only when no promise is left to run:
\* a cached measurement is decided on, and an admitted startApp reserves, before
\* any request, Docker answer or timer.  Calls resumed by one answer interleave.
LoopIsFree ==
  \A p \in Actors :
    /\ at[p] # "hit"
    /\ ~(at[p] = "admitted" /\ job[p].kind = "deploy")

-----------------------------------------------------------------------------
(* Measuring *)

\* A read is under way that began after the last invalidation.
Joinable == shared # NoOne /\ flight[shared].current

\* sharedRead.get: the cached rows, the read under way, or a new read.
RunningContainers(p) ==
  \/ /\ snap # NoRows
     /\ view' = [view EXCEPT ![p] = snap]
     /\ at' = [at EXCEPT ![p] = "measured"]
     /\ lateViews' = IF lateSnap THEN lateViews \cup {p} ELSE lateViews
     /\ UNCHANGED <<flight, shared, on, lateReads>>
  \/ /\ snap = NoRows
     /\ Joinable
     /\ on' = [on EXCEPT ![p] = shared]
     /\ at' = [at EXCEPT ![p] = "waiting"]
     /\ UNCHANGED <<flight, shared, view, lateReads, lateViews>>
  \/ /\ snap = NoRows
     /\ ~Joinable
     /\ flight' = [flight EXCEPT ![p] =
                      [st |-> "asked", rows |-> NoRows, current |-> TRUE]]
     /\ shared' = p
     /\ on' = [on EXCEPT ![p] = p]
     /\ at' = [at EXCEPT ![p] = "waiting"]
     /\ lateReads' = lateReads \ {p}
     /\ UNCHANGED <<view, lateViews>>

\* Actor q waits for the read that p began.
WaitsFor(q, p) == at[q] = "waiting" /\ on[q] = p

\* docker ps and docker inspect, on Docker's side.
DockerLists(p) ==
  /\ flight[p].st = "asked"
  /\ flight' = [flight EXCEPT ![p].st = "listed", ![p].rows = running]
  /\ UNCHANGED <<running, cached, snap, shared, holder, at, on, view, job, late, alone>>

\* Mutant: only the caller that began the read goes on with it.
ReadReturns_OnlyCaller(p) ==
  /\ LoopIsFree
  /\ flight[p].st = "listed"
  /\ snap' = IF flight[p].current THEN flight[p].rows ELSE snap
  /\ view' = [view EXCEPT ![p] = flight[p].rows]
  /\ at' = [at EXCEPT ![p] = "measured"]
  /\ flight' = [flight EXCEPT ![p] = NoFlight]
  /\ shared' = IF shared = p THEN NoOne ELSE shared
  /\ lateSnap' = IF flight[p].current THEN p \in lateReads ELSE lateSnap
  /\ lateViews' = {q \in Actors : IF q = p THEN p \in lateReads ELSE q \in lateViews}
  /\ lateReads' = lateReads \ {p}
  /\ UNCHANGED <<running, cached, holder, on, job, lateCached, alone>>

\* The answer reaches the server: cached unless invalidated meanwhile, and
\* every caller that shares the read goes on with it.
ReadReturns(p) ==
  /\ LoopIsFree
  /\ flight[p].st = "listed"
  /\ snap' = IF flight[p].current THEN flight[p].rows ELSE snap
  /\ view' = [q \in Actors |-> IF WaitsFor(q, p) THEN flight[p].rows ELSE view[q]]
  /\ at' = [q \in Actors |-> IF WaitsFor(q, p) THEN "measured" ELSE at[q]]
  /\ flight' = [flight EXCEPT ![p] = NoFlight]
  /\ shared' = IF shared = p THEN NoOne ELSE shared
  /\ lateSnap' = IF flight[p].current THEN p \in lateReads ELSE lateSnap
  /\ lateViews' = {q \in Actors : IF WaitsFor(q, p) THEN p \in lateReads ELSE q \in lateViews}
  /\ lateReads' = lateReads \ {p}
  /\ UNCHANGED <<running, cached, holder, on, job, lateCached, alone>>

\* measureMemory caches what it measured, whatever was invalidated meanwhile.
Cache(p) ==
  /\ cached' = IF at[p] = "measured" THEN view[p] ELSE cached
  /\ lateCached' = IF at[p] = "measured" THEN p \in lateViews ELSE lateCached

\* Mutant: the start of a container leaves the measurements as they are.
Invalidate_Nothing == UNCHANGED <<cached, snap, flight>>

\* invalidateMemoryMeasurement.
Invalidate ==
  /\ cached' = NoRows
  /\ snap' = NoRows
  /\ flight' = [p \in Actors |-> [flight[p] EXCEPT !.current = FALSE]]

\* History: a start has ended, with or without an invalidation.
StartEnds(invalidates) ==
  /\ lateReads' = {q \in Actors : flight[q].st # "none"}
  /\ lateViews' = {q \in Actors : at[q] = "measured"}
  /\ lateCached' = (~invalidates /\ cached # NoRows)
  /\ lateSnap' = (~invalidates /\ snap # NoRows)
  /\ UNCHANGED alone

-----------------------------------------------------------------------------
(* Admission *)

\* What is reserved against name m.
Held(m) == IF holder[m] = NoOne THEN 0 ELSE job[holder[m]].size

\* The containers as p sees them: a reservation counts in place of the row it covers.
Counts(p) == [m \in Names |-> IF holder[m] = NoOne THEN view[p][m] ELSE Held(m)]

\* What p's start takes the place of.
Replaced(p) == IF holder[job[p].name] = NoOne THEN view[p][job[p].name] ELSE 0

\* Mutant: the committed total is compared before the new start is added.
Allowed_BeforeStart(p) ==
  SumFunctionOnSet(Counts(p), Names) <= Capacity \/ job[p].size <= Replaced(p)

\* decide: a start that raises nothing is always allowed.
Allowed(p) ==
  \/ SumFunctionOnSet(Counts(p), Names \ {job[p].name}) + job[p].size <= Capacity
  \/ job[p].size <= Replaced(p)

\* A caller wants name m started at size s: it measures, or reads the cache.
Request(p, k, m, s) ==
  /\ LoopIsFree
  /\ at[p] = "idle"
  /\ job' = [job EXCEPT ![p] = [kind |-> k, name |-> m, size |-> s]]
  /\ \/ /\ cached # NoRows
        /\ view' = [view EXCEPT ![p] = cached]
        /\ at' = [at EXCEPT ![p] = "hit"]
        /\ lateViews' = IF lateCached THEN lateViews \cup {p} ELSE lateViews
        /\ UNCHANGED <<flight, shared, on, lateReads>>
     \/ /\ cached = NoRows
        /\ RunningContainers(p)
  /\ UNCHANGED <<running, cached, snap, holder, lateCached, lateSnap, alone>>

\* A start was admitted and is not over.
UnderWay(p) == at[p] \in {"admitted", "starting", "stopped", "ran"}

\* Measured, docker stats included where a row needs it, admitMemory resumes:
\* admitted, or refused with an AppError.
Decide(p) ==
  /\ at[p] \in {"measured", "hit"}
  /\ Cache(p)
  /\ \/ /\ Allowed(p)
        /\ at' = [at EXCEPT ![p] = "admitted"]
        /\ on' = [on EXCEPT ![p] = NoOne]
        /\ view' = [view EXCEPT ![p] = NoRows]
        /\ alone' = (alone /\ p \notin lateViews /\ \A q \in Starters : ~UnderWay(q))
        /\ UNCHANGED job
     \/ ~Allowed(p) /\ Finish(p) /\ UNCHANGED alone
  /\ lateViews' = lateViews \ {p}
  /\ UNCHANGED <<running, snap, flight, shared, holder, lateReads, lateSnap>>

-----------------------------------------------------------------------------
(* startApp *)

\* Back in startApp: reserveMemory.
Reserve(p) ==
  /\ at[p] = "admitted" /\ job[p].kind = "deploy"
  /\ holder' = [holder EXCEPT ![job[p].name] = p]
  /\ at' = [at EXCEPT ![p] = "starting"]
  /\ UNCHANGED <<running, cached, snap, flight, shared, on, view, job, late, alone>>

\* runAppContainer stops the old container ...
StopOld(p) ==
  /\ at[p] = "starting"
  /\ running' = [running EXCEPT ![job[p].name] = 0]
  /\ at' = [at EXCEPT ![p] = "stopped"]
  /\ UNCHANGED <<cached, snap, flight, shared, holder, on, view, job, late, alone>>

\* ... and runs the new one, ...
RunContainer(p) ==
  /\ at[p] = "stopped" /\ job[p].kind = "deploy"
  /\ running[job[p].name] = 0
  /\ running' = [running EXCEPT ![job[p].name] = job[p].size]
  /\ at' = [at EXCEPT ![p] = "ran"]
  /\ UNCHANGED <<cached, snap, flight, shared, holder, on, view, job, late, alone>>

\* ... or throws, before the stop or after it.
RunFails(p) ==
  /\ at[p] \in {"starting", "stopped"} /\ job[p].kind = "deploy"
  /\ at' = [at EXCEPT ![p] = "ran"]
  /\ UNCHANGED <<running, cached, snap, flight, shared, holder, on, view, job, late, alone>>

\* Mutant: a caller goes on without giving its reservation back.
Release_Keeps(p) ==
  /\ LoopIsFree
  /\ at[p] = "ran"
  /\ Invalidate /\ StartEnds(TRUE)
  /\ Finish(p)
  /\ UNCHANGED <<running, shared, holder>>

\* The finally block: drop the reservation if it is still this call's.
Release(p) ==
  /\ LoopIsFree
  /\ at[p] = "ran"
  /\ holder' = IF holder[job[p].name] = p
                 THEN [holder EXCEPT ![job[p].name] = NoOne] ELSE holder
  /\ Invalidate /\ StartEnds(TRUE)
  /\ Finish(p)
  /\ UNCHANGED <<running, shared>>

-----------------------------------------------------------------------------
(* The other callers *)

\* POST /restart: admitted, then dockerStop ...
RestartStop(p) ==
  /\ at[p] = "admitted" /\ job[p].kind = "restart"
  /\ running' = [running EXCEPT ![job[p].name] = 0]
  /\ at' = [at EXCEPT ![p] = "stopped"]
  /\ UNCHANGED <<cached, snap, flight, shared, holder, on, view, job, late, alone>>

\* ... and dockerStart with admission: false: nothing is reserved or released.
RestartStart(p) ==
  /\ LoopIsFree
  /\ at[p] = "stopped" /\ job[p].kind = "restart"
  /\ \E c \in {0, job[p].size} : running' = [running EXCEPT ![job[p].name] = c]
  /\ StartEnds(FALSE)
  /\ Finish(p)
  /\ UNCHANGED <<cached, snap, flight, shared, holder>>

\* A coder session, its workspace cloned since it was admitted: reserve, run and
\* release with no await between them.
CoderStart(p) ==
  /\ LoopIsFree
  /\ at[p] = "admitted" /\ job[p].kind = "coder"
  /\ \E c \in {0, job[p].size} : running' = [running EXCEPT ![job[p].name] = c]
  /\ holder' = [holder EXCEPT ![job[p].name] = NoOne]
  /\ Invalidate /\ StartEnds(TRUE)
  /\ Finish(p)
  /\ UNCHANGED shared

\* A background job or the capacity page measures.
Read(p) ==
  /\ LoopIsFree
  /\ at[p] = "idle" /\ cached = NoRows
  /\ RunningContainers(p)
  /\ UNCHANGED <<running, cached, snap, holder, job, lateCached, lateSnap, alone>>

\* Only measureMemory writes the second cache.
ReadDone(p) ==
  /\ at[p] = "measured"
  /\ Cache(p) \/ UNCHANGED <<cached, lateCached>>
  /\ Finish(p)
  /\ lateViews' = lateViews \ {p}
  /\ UNCHANGED <<running, snap, flight, shared, holder, lateReads, lateSnap, alone>>

\* A container ends by itself or is stopped; nothing is invalidated.
Exit(m) ==
  /\ running[m] # 0
  /\ running' = [running EXCEPT ![m] = 0]
  /\ UNCHANGED <<cached, snap, flight, shared, holder, at, on, view, job, late, alone>>

\* CACHE_MS or SNAPSHOT_TTL_MS pass.
Expire ==
  /\ \/ cached # NoRows /\ cached' = NoRows /\ UNCHANGED snap
     \/ snap # NoRows /\ snap' = NoRows /\ UNCHANGED cached
  /\ UNCHANGED <<running, flight, shared, holder, at, on, view, job, late, alone>>

StarterStep(p) ==
  \/ \E s \in Sizes : \/ \E m \in Apps, k \in {"deploy", "restart"} : Request(p, k, m, s)
                      \/ \E m \in Coders : Request(p, "coder", m, s)
  \/ Decide(p)
  \/ Reserve(p) \/ StopOld(p) \/ RunContainer(p) \/ RunFails(p) \/ Release(p)
  \/ RestartStop(p) \/ RestartStart(p) \/ CoderStart(p)

Next ==
  \/ \E p \in Actors : DockerLists(p) \/ ReadReturns(p)
  \/ \E p \in Starters : StarterStep(p)
  \/ \E p \in Readers : Read(p) \/ ReadDone(p)
  \/ \E m \in Names : Exit(m)
  \/ Expire

Spec == Init /\ [][Next]_vars

-----------------------------------------------------------------------------
(* Properties *)

InStart(p) == at[p] \in {"starting", "stopped", "ran"} /\ job[p].kind = "deploy"

\* In refuse mode the running containers count more than the capacity only after a start
\* that was decided on while another one was under way, or on a measurement asked of
\* Docker before the last one had ended: nothing else overcommits the host, whatever was
\* cached, exits, restarts, fails or is measured beside it.
NoOvercommit == alone => SumFunctionOnSet(running, Names) <= Capacity

\* ... which the comment on reservations says without the first restriction.
NeverOvercommitted == SumFunctionOnSet(running, Names) <= Capacity

\* A running container is in the measurement later starts are decided on, at no
\* less than it counts, or its start is not over; unless a caller cached what it had
\* asked for before that start ended, or a restart, which invalidates nothing, ended.
NeverHidden ==
  cached # NoRows /\ ~lateCached =>
    \A m \in Names : \/ running[m] <= cached[m]
                    \/ \E p \in Starters : at[p] = "ran" /\ job[p].name = m

\* ... which the comment on the snapshot says without that restriction.
AlwaysMeasured ==
  cached # NoRows =>
    \A m \in Names : running[m] <= cached[m] \/ holder[m] # NoOne

\* No reservation outlives the start it was made for: a name left reserved
\* would count its old size for ever and hide the container that runs.
ReservationHasAStart ==
  \A m \in Names :
    holder[m] # NoOne => InStart(holder[m]) /\ job[holder[m]].name = m

\* A caller that joined a read is waiting for one that is still under way: none
\* is left behind by an answer, an invalidation or a newer read.
WaitersAreServed ==
  \A p \in Actors : at[p] = "waiting" => flight[on[p]].st # "none"

=============================================================================
