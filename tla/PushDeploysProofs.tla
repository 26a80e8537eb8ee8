------------------------- MODULE PushDeploysProofs -------------------------
(***************************************************************************)
(* For every number of pushes, deploys by hand, restores and restarts: a   *)
(* push never overlaps the deploy of another, and the follow-up that is    *)
(* parked is polled.  Types alone already need an argument, for the table  *)
(* has to have room: a push inserts one row at most, by itself or through  *)
(* the follow-up it left, however often that is parked again.              *)
(***************************************************************************)
EXTENDS PushDeploys, TLAPS, FiniteSetTheorems, WellFoundedInduction

\* Pushes whose handler has not triggered yet.
Pending == {c \in Commits : hook[c].at \in {"landed", "recorded", "read"}}

One(item) == IF item = NoItem THEN 0 ELSE 1

\* Every row inserted for a push is paid for by a commit of the branch.
Budget ==
  /\ Cardinality(pushed) + Cardinality(Pending) + One(queue) + One(ticking) <= tip
  /\ n <= Cardinality(pushed) + MaxManual

HookTypes ==
  /\ tip \in 0..MaxPushes
  /\ recorded \in 0..tip
  /\ hook \in [Commits -> [at : {"none", "landed", "recorded", "read", "done"}, tip : 0..tip]]
  /\ \A c \in Commits : hook[c].at # "none" <=> c <= tip

RowTypes ==
  /\ n \in 0..(MaxPushes + MaxManual)
  /\ st \in [Ids -> InFlightStates \cup {"none", "live", "failed"}]
  /\ \A i \in Ids : st[i] = "none" <=> i > n
  /\ pushed \in SUBSET (1..n)
  /\ snap \in [Ids -> 0..tip]
  /\ took \in [Ids -> 0..tip]
  /\ \A i \in Ids : st[i] \in {"none", "cloning", "stuck"} => took[i] = 0
  /\ stale \in SUBSET (1..n)

QueueTypes ==
  /\ queue \in Items /\ queue.behind <= n /\ queue.commit <= tip
  /\ timer \in BOOLEAN
  /\ ticking \in Items /\ ticking.commit <= tip

AroundTypes ==
  /\ source \in Sources
  /\ restoring \in BOOLEAN
  /\ dropped \in BOOLEAN

\* A stale row in flight is stuck, and so is every older one in flight; the
\* deploy of a push is never stuck, so never behind a stale row.
StaleIsStuck ==
  \A i \in Ids : i \in InFlight /\ i \in stale =>
    \A j \in Ids : j \in InFlight /\ j <= i => st[j] = "stuck"

PushNotStuck == \A i \in Ids : i \in pushed => st[i] # "stuck"

Rows == RowTypes /\ StaleIsStuck /\ PushNotStuck /\ OnePushDeployAtATime

Inv == HookTypes /\ Rows /\ QueueTypes /\ AroundTypes /\ Budget

LEMMA Groups == TypeOK <=> HookTypes /\ RowTypes /\ QueueTypes /\ AroundTypes
BY DEF TypeOK, HookTypes, RowTypes, QueueTypes, AroundTypes

LEMMA Bounds ==
  /\ MaxPushes \in Nat /\ MaxManual \in Nat
  /\ Ids = 1..(MaxPushes + MaxManual)
BY PushConstants DEF Ids

-----------------------------------------------------------------------------
(* Counting *)

\* Of finitely many rows one is the newest.
LEMMA Newest ==
  ASSUME NEW S \in SUBSET Ids, S # {}
  PROVE  \E m \in S : \A j \in S : j <= m
<1> DEFINE above(i) == {j \in S : j > i}
           T == {above(i) : i \in S}
           R == StrictSubsetOrdering(S)
<1>1. IsFiniteSet(S)
  <2>1. IsFiniteSet(Ids)  BY Bounds, FS_Interval
  <2>2. QED  BY <2>1, FS_Subset
<1>2. \A i \in S : above(i) \in FiniteSubsetsOf(S)
  <2> SUFFICES ASSUME NEW i \in S PROVE above(i) \in FiniteSubsetsOf(S)  OBVIOUS
  <2>1. above(i) \in SUBSET S  OBVIOUS
  <2>2. IsFiniteSet(above(i))  BY <1>1, <2>1, FS_Subset
  <2>3. QED  BY <2>1, <2>2 DEF FiniteSubsetsOf
<1>3. T \subseteq FiniteSubsetsOf(S) /\ T # {}  BY <1>2
<1>4. PICK x \in T : \A y \in T : ~(<<y, x>> \in R)
  <2> HIDE DEF T, R
  <2>1. IsWellFoundedOn(StrictSubsetOrdering(S), FiniteSubsetsOf(S))
    BY FS_StrictSubsetOrderingWellFounded
  <2>2. IsWellFoundedOn(R, FiniteSubsetsOf(S))  BY <2>1 DEF R
  <2>3. QED  BY <1>3, <2>2, WFMin
<1>5. PICK m \in S : x = above(m)  BY <1>4
<1>6. \A j \in S : j <= m
  <2> SUFFICES ASSUME NEW j \in S, ~(j <= m) PROVE FALSE  OBVIOUS
  <2>1. \A k \in S : k \in Nat  BY Bounds
  <2>2. m < j  BY <2>1
  <2>3. j \in above(m) /\ j \notin above(j)  BY <2>1, <2>2
  <2>4. \A k \in above(j) : k \in above(m)  BY <2>1, <2>2
  <2>5. <<above(j), above(m)>> \in R  BY <2>3, <2>4 DEF StrictSubsetOrdering
  <2>6. QED  BY <1>4, <1>5, <2>5
<1>7. QED  BY <1>6

\* Rows and handlers are finitely many.
LEMMA Finite ==
  ASSUME RowTypes
  PROVE  /\ IsFiniteSet(pushed) /\ Cardinality(pushed) \in Nat
         /\ IsFiniteSet(Pending) /\ Cardinality(Pending) \in Nat
<1>1. IsFiniteSet(1..n)  BY Bounds, FS_Interval DEF RowTypes
<1>2. IsFiniteSet(pushed) /\ Cardinality(pushed) \in Nat
  BY <1>1, FS_Subset, FS_CardinalityType DEF RowTypes
<1>3. IsFiniteSet(Commits)  BY Bounds, FS_Interval DEF Commits
<1>4. Pending \in SUBSET Commits  BY DEF Pending
<1>5. QED  BY <1>2, <1>3, <1>4, FS_Subset, FS_CardinalityType

\* Where no row is fresh, no deploy of a push is in flight.
LEMMA NoneOfAPush ==
  ASSUME Rows, NoneFresh
  PROVE  \A i \in pushed : i \notin InFlight
<1> SUFFICES ASSUME NEW i \in pushed, i \in InFlight PROVE FALSE  OBVIOUS
<1>1. InFlight \in SUBSET Ids  BY DEF InFlight
<1>2. PICK m \in InFlight : \A j \in InFlight : j <= m  BY <1>1, Newest
<1>3. m \in stale  BY <1>1, <1>2 DEF NoneFresh, Fresh
<1>4. st[i] = "stuck"  BY <1>1, <1>2, <1>3 DEF Rows, StaleIsStuck
<1>5. QED  BY <1>1, <1>4 DEF Rows, PushNotStuck

\* One handler that triggered is one less that has to.
LEMMA HandlerTriggers ==
  ASSUME HookTypes, RowTypes, NEW c \in Commits, c \in Pending,
         hook' = [hook EXCEPT ![c].at = "done"]
  PROVE  Cardinality(Pending') = Cardinality(Pending) - 1
<1>1. Pending' = Pending \ {c}  BY DEF HookTypes, Pending
<1>2. QED  BY <1>1, Finite, FS_RemoveElement

\* A handler that only moves on still has to trigger.
LEMMA HandlersWait ==
  ASSUME \A c \in Commits : (c \in Pending)' <=> c \in Pending
  PROVE  Pending' = Pending
BY DEF Pending

-----------------------------------------------------------------------------
(* The rows *)

\* A row inserted where there is room, for a push only beside none of another.
LEMMA RowInserted ==
  ASSUME Rows, HookTypes, NEW r \in 0..tip, NEW byPush \in BOOLEAN, Insert(byPush, r),
         tip' = tip, n < MaxPushes + MaxManual,
         byPush => \A i \in pushed : i \notin InFlight
  PROVE  Rows'
<1> USE Bounds DEF Rows
<1>1. /\ n \in Nat /\ n + 1 \in Ids
      /\ st' = [st EXCEPT ![n + 1] = "cloning"] /\ st' \in [Ids -> InFlightStates \cup {"none", "live", "failed"}]
      /\ n' = n + 1
      /\ pushed' \in SUBSET (1..n') /\ stale' = stale /\ took' = took
      /\ pushed \subseteq pushed' /\ pushed' \subseteq pushed \cup {n + 1}
      /\ ~byPush => pushed' = pushed
  BY DEF Insert, RowTypes, InFlightStates
<1>2. st[n + 1] = "none" /\ n + 1 \notin stale /\ n + 1 \notin pushed  BY <1>1 DEF RowTypes
<1>3. \A i \in Ids : i # n + 1 => st'[i] = st[i]  BY <1>1 DEF RowTypes
<1>4. st'[n + 1] = "cloning"  BY <1>1 DEF RowTypes
<1>5. RowTypes'
  <2>1. snap' \in [Ids -> 0..tip]  BY <1>1 DEF Insert, RowTypes
  <2>2. \A i \in Ids : st'[i] = "none" <=> i > n + 1  BY <1>1, <1>2, <1>3, <1>4 DEF RowTypes
  <2>3. \A i \in Ids : st'[i] \in {"none", "cloning", "stuck"} => took[i] = 0
    BY <1>1, <1>2, <1>3 DEF RowTypes
  <2>4. stale \in SUBSET (1..(n + 1))  BY <1>1 DEF RowTypes
  <2>5. QED  BY <1>1, <2>1, <2>2, <2>3, <2>4 DEF RowTypes
<1>6. InFlight' = InFlight \cup {n + 1}  BY <1>1, <1>3, <1>4 DEF InFlight, InFlightStates
<1>7. StaleIsStuck'
  <2> SUFFICES ASSUME NEW i \in Ids, i \in InFlight', i \in stale',
                      NEW j \in Ids, j \in InFlight', j <= i
               PROVE  st'[j] = "stuck"
    BY DEF StaleIsStuck
  <2>1. i # n + 1 /\ i <= n  BY <1>1, <1>2 DEF RowTypes
  <2>2. j # n + 1  BY <1>1, <2>1
  <2>3. QED  BY <1>1, <1>3, <1>6, <2>1, <2>2 DEF StaleIsStuck
<1>8. PushNotStuck'  BY <1>1, <1>3, <1>4 DEF PushNotStuck
<1>9. OnePushDeployAtATime'
  <2>1. CASE byPush  BY <1>1, <1>6, <2>1 DEF OnePushDeployAtATime
  <2>2. CASE ~byPush  BY <1>1, <1>2, <1>6, <2>2 DEF OnePushDeployAtATime
  <2>3. QED  BY <2>1, <2>2
<1>10. QED  BY <1>5, <1>7, <1>8, <1>9

\* A deploy that goes on, ends, gets stuck or grows old.
LEMMA RowMoves ==
  ASSUME Rows, HookTypes, NEW i \in Ids,
         Clone(i) \/ VerifyCommit(i) \/ DeployEnds(i) \/ DeployIsStuck(i) \/ GrowsStale(i)
  PROVE  Rows' /\ n' = n /\ pushed' = pushed
<1> USE Bounds DEF Rows
<1>0. /\ n' = n /\ pushed' = pushed /\ snap' = snap /\ tip' = tip
      /\ st[i] \in InFlightStates /\ i <= n
  BY DEF Clone, VerifyCommit, DeployEnds, DeployIsStuck, GrowsStale, InFlightStates, RowTypes, branch
<1>1. CASE GrowsStale(i)
  <2>1. st' = st /\ took' = took /\ stale' = stale \cup {i} /\ st[i] = "stuck"
    BY <1>1 DEF GrowsStale
  <2>2. InFlight' = InFlight  BY <2>1 DEF InFlight
  <2>3. \A j \in Ids : j \in InFlight /\ j <= i => st[j] = "stuck"  BY <1>1 DEF GrowsStale
  <2>4. i \in 1..n  BY <1>0 DEF RowTypes
  <2>5. RowTypes'  BY <1>0, <2>1, <2>4 DEF RowTypes
  <2>6. StaleIsStuck'  BY <2>1, <2>2, <2>3 DEF StaleIsStuck
  <2>7. QED  BY <1>0, <2>1, <2>2, <2>5, <2>6 DEF PushNotStuck, OnePushDeployAtATime
<1>2. CASE ~GrowsStale(i)
  <2>1. PICK s \in {"checking", "building", "refused", "live", "failed", "stuck"} :
          /\ st' = [st EXCEPT ![i] = s]
          /\ s = "stuck" => i \notin pushed
    BY <1>2 DEF Clone, VerifyCommit, DeployEnds, DeployIsStuck
  <2>2. stale' = stale
    BY <1>2 DEF Clone, VerifyCommit, DeployEnds, DeployIsStuck
  <2>3. took' \in [Ids -> 0..tip] /\ \A j \in Ids : j # i => took'[j] = took[j]
    BY <1>2 DEF Clone, VerifyCommit, DeployEnds, DeployIsStuck, RowTypes, HookTypes
  <2>4. s = "stuck" => took'[i] = 0
    BY <1>2, <2>1 DEF Clone, VerifyCommit, DeployEnds, DeployIsStuck, RowTypes, InFlightStates
  <2>5. st'[i] = s /\ \A j \in Ids : j # i => st'[j] = st[j]  BY <2>1 DEF RowTypes
  <2>6. RowTypes'
    <3>1. st' \in [Ids -> InFlightStates \cup {"none", "live", "failed"}]
      BY <2>1 DEF RowTypes, InFlightStates
    <3>2. \A j \in Ids : st'[j] = "none" <=> j > n
      BY <1>0, <2>1, <2>5 DEF RowTypes
    <3>3. \A j \in Ids : st'[j] \in {"none", "cloning", "stuck"} => took'[j] = 0
      BY <2>1, <2>3, <2>4, <2>5 DEF RowTypes
    <3>4. QED  BY <1>0, <2>2, <2>3, <3>1, <3>2, <3>3 DEF RowTypes
  <2>7. \A j \in Ids : j \in InFlight' => j \in InFlight
    BY <1>0, <2>5 DEF InFlight
  <2>8. StaleIsStuck'
    <3> SUFFICES ASSUME NEW k \in Ids, k \in InFlight', k \in stale',
                        NEW j \in Ids, j \in InFlight', j <= k
                 PROVE  st'[j] = "stuck"
      BY DEF StaleIsStuck
    <3>1. st[j] = "stuck"  BY <2>2, <2>7 DEF StaleIsStuck
    <3>2. st[i] # "stuck"
      BY <1>2 DEF Clone, VerifyCommit, DeployEnds, DeployIsStuck
    <3>3. QED  BY <2>5, <3>1, <3>2
  <2>9. PushNotStuck'  BY <1>0, <2>1, <2>5 DEF PushNotStuck
  <2>10. OnePushDeployAtATime'
    <3>1. pushed \subseteq Ids  BY DEF RowTypes
    <3>2. QED  BY <1>0, <2>7, <3>1 DEF OnePushDeployAtATime
  <2>11. QED  BY <1>0, <2>6, <2>8, <2>9, <2>10
<1>3. QED  BY <1>1, <1>2

\* The boot sweep leaves nothing in flight.
LEMMA RowsSwept ==
  ASSUME Rows, HookTypes, Restart
  PROVE  Rows' /\ n' = n /\ pushed' = pushed
<1> USE Bounds DEF Rows
<1>1. /\ st' = [i \in Ids |-> IF i \in InFlight THEN "failed" ELSE st[i]]
      /\ tip' = tip /\ n' = n /\ pushed' = pushed /\ snap' = snap /\ took' = took /\ stale' = stale
  BY DEF Restart
<1>2. \A i \in Ids : /\ st'[i] \in {"none", "live", "failed"}
                     /\ st'[i] = "none" <=> st[i] = "none"
  BY <1>1 DEF InFlight, InFlightStates, RowTypes
<1>3. InFlight' = {}  BY <1>2 DEF InFlight, InFlightStates
<1>4. RowTypes'
  <2>1. st' \in [Ids -> InFlightStates \cup {"none", "live", "failed"}]  BY <1>1, <1>2
  <2>2. QED  BY <1>1, <1>2, <2>1 DEF RowTypes
<1>5. QED  BY <1>1, <1>2, <1>3, <1>4 DEF StaleIsStuck, PushNotStuck, OnePushDeployAtATime

\* A trigger that a commit of the branch pays for: a row, or a follow-up, or
\* neither.
LEMMA TriggerStep ==
  ASSUME Inv, NEW c \in 0..tip, Trigger(c), tip' = tip, Cardinality(pushed) < tip
  PROVE  /\ Rows'
         /\ n <= n' /\ n' <= Cardinality(pushed') + MaxManual
         /\ queue' \in Items /\ queue'.behind <= n' /\ queue'.commit <= tip
         /\ dropped' \in BOOLEAN
         /\ Cardinality(pushed') + One(queue') <= Cardinality(pushed) + One(queue) + 1
<1> USE Bounds DEF Inv
<1>0. /\ IsFiniteSet(pushed) /\ Cardinality(pushed) \in Nat
      /\ n \in Nat /\ tip \in Nat /\ tip <= MaxPushes
      /\ One(queue) \in Nat
  BY Finite DEF Rows, RowTypes, HookTypes, One
<1>1. CASE UNCHANGED <<deploys, queue>> /\ dropped' = TRUE
  <2>1. Rows'
    BY <1>1 DEF Rows, deploys, RowTypes, StaleIsStuck, PushNotStuck, OnePushDeployAtATime, InFlight
  <2>2. QED  BY <1>0, <1>1, <2>1 DEF deploys, Budget, QueueTypes, One
<1>2. CASE QueueBehind(c) /\ UNCHANGED <<deploys, dropped>>
  <2>1. Rows'
    BY <1>2 DEF Rows, deploys, RowTypes, StaleIsStuck, PushNotStuck, OnePushDeployAtATime, InFlight
  <2>2. PICK i \in Ids : Fresh(i) /\ queue' = [behind |-> i, commit |-> c]
    BY <1>2 DEF QueueBehind
  <2>3. i <= n  BY <2>2 DEF Fresh, InFlight, InFlightStates, Rows, RowTypes
  <2>4. queue' \in Items /\ queue'.behind = i /\ queue'.commit = c
    BY <2>2, <1>0 DEF Items
  <2>5. One(queue') \in {0, 1}  BY DEF One
  <2>6. QED  BY <1>0, <1>2, <2>1, <2>3, <2>4, <2>5 DEF deploys, Budget, AroundTypes
<1>3. CASE NoneFresh /\ Insert(TRUE, recorded) /\ UNCHANGED <<queue, dropped>>
  <2>1. n < MaxPushes + MaxManual  BY <1>0 DEF Budget
  <2>2. Rows'
    BY <1>3, <2>1, NoneOfAPush, RowInserted DEF HookTypes
  <2>3. n' = n + 1 /\ pushed' = pushed \cup {n + 1}  BY <1>3 DEF Insert
  <2>4. n + 1 \notin pushed  BY <1>0 DEF Rows, RowTypes
  <2>5. Cardinality(pushed') = Cardinality(pushed) + 1
    BY <1>0, <2>3, <2>4, FS_AddElement
  <2>6. queue' = queue  BY <1>3
  <2>7. One(queue') = One(queue)  BY <2>6
  <2>8. queue.behind \in Nat  BY DEF QueueTypes, Items
  <2>9. queue' \in Items /\ queue'.behind <= n' /\ queue'.commit <= tip
    BY <1>0, <2>3, <2>6, <2>8 DEF QueueTypes
  <2>10. n' <= Cardinality(pushed') + MaxManual  BY <1>0, <2>3, <2>5 DEF Budget
  <2>11. dropped' \in BOOLEAN  BY <1>3 DEF AroundTypes
  <2>12. QED  BY <1>0, <2>2, <2>3, <2>5, <2>7, <2>9, <2>10, <2>11
<1>4. QED  BY <1>1, <1>2, <1>3 DEF Trigger

\* What is not about rows, when rows only move.
LEMMA Elsewhere ==
  ASSUME HookTypes, QueueTypes, AroundTypes, Budget,
         UNCHANGED <<branch, coalescer>>, n' = n, pushed' = pushed,
         restoring' \in BOOLEAN, dropped' \in BOOLEAN
  PROVE  HookTypes' /\ QueueTypes' /\ AroundTypes' /\ Budget'
<1>1. Pending' = Pending  BY DEF Pending, branch
<1>2. QED  BY <1>1 DEF HookTypes, QueueTypes, AroundTypes, Budget, One, branch, coalescer

-----------------------------------------------------------------------------
LEMMA InitPush == Init => Inv
<1> SUFFICES ASSUME Init PROVE Inv  OBVIOUS
<1> USE Bounds DEF Init
<1>1. HookTypes  BY DEF HookTypes, Commits
<1>2. Rows
  BY DEF Rows, RowTypes, InFlightStates, StaleIsStuck, PushNotStuck, OnePushDeployAtATime
<1>3. QueueTypes /\ AroundTypes
  <2>1. NoItem \in Items /\ NoItem.behind = 0 /\ NoItem.commit = 0  BY DEF NoItem, Items
  <2>2. queue \in Items /\ queue.behind <= n /\ queue.commit <= tip
    BY <2>1
  <2>3. ticking \in Items /\ ticking.commit <= tip  BY <2>1
  <2>4. timer \in BOOLEAN /\ restoring \in BOOLEAN /\ dropped \in BOOLEAN  OBVIOUS
  <2>5. source \in Sources  OBVIOUS
  <2>6. QED  BY ONLY <2>2, <2>3, <2>4, <2>5 DEF QueueTypes, AroundTypes
<1>4. Pending = {}  BY DEF Pending
<1>5. Budget  BY <1>4, FS_EmptySet DEF Budget, One
<1>6. QED  BY <1>1, <1>2, <1>3, <1>5 DEF Inv

LEMMA StepPush == Inv /\ [Next]_vars => Inv'
<1> SUFFICES ASSUME Inv, [Next]_vars PROVE Inv'  OBVIOUS
<1> USE Bounds DEF Inv
<1>0. /\ HookTypes /\ Rows /\ QueueTypes /\ AroundTypes /\ Budget
      /\ IsFiniteSet(pushed) /\ Cardinality(pushed) \in Nat
      /\ IsFiniteSet(Pending) /\ Cardinality(Pending) \in Nat
      /\ One(queue) \in {0, 1} /\ One(ticking) \in {0, 1}
      /\ tip \in Nat /\ n \in Nat
  <2>1. HookTypes /\ Rows /\ RowTypes /\ QueueTypes /\ AroundTypes /\ Budget  BY DEF Rows
  <2>2. One(queue) \in {0, 1} /\ One(ticking) \in {0, 1}  BY DEF One
  <2>3. tip \in Nat /\ n \in Nat  BY <2>1 DEF HookTypes, RowTypes
  <2>4. QED  BY <2>1, <2>2, <2>3, Finite
<1>1. CASE Push
  <2>1. /\ tip' = tip + 1 /\ tip + 1 \in Commits /\ tip' \in 0..MaxPushes
        /\ hook' = [hook EXCEPT ![tip + 1].at = "landed"]
        /\ UNCHANGED <<source, recorded, deploys, coalescer, around>>
    BY <1>0, <1>1 DEF Push, HookTypes, Commits
  <2>2. hook[tip + 1].at = "none"  BY <1>0, <2>1 DEF HookTypes
  <2>3. HookTypes'
    <3>1. recorded' \in 0..tip'  BY <1>0, <2>1 DEF HookTypes
    <3>2. \A c \in Commits : /\ hook'[c] \in [at : {"none", "landed", "recorded", "read", "done"}, tip : 0..tip']
                             /\ c # tip + 1 => hook'[c] = hook[c]
                             /\ c = tip + 1 => hook'[c].at = "landed"
      BY <1>0, <2>1 DEF HookTypes
    <3>3. hook' \in [Commits -> [at : {"none", "landed", "recorded", "read", "done"}, tip : 0..tip']]
      BY <2>1, <3>2 DEF HookTypes
    <3>4. \A c \in Commits : hook'[c].at # "none" <=> c <= tip'
      BY <1>0, <2>1, <3>2 DEF HookTypes, Commits
    <3>5. QED  BY <2>1, <3>1, <3>3, <3>4 DEF HookTypes
  <2>4. Rows'
    <3>1. snap' \in [Ids -> 0..tip'] /\ took' \in [Ids -> 0..tip']
      BY <1>0, <2>1 DEF Rows, RowTypes, deploys
    <3>2. QED
      BY <1>0, <2>1, <3>1 DEF Rows, RowTypes, deploys, StaleIsStuck, PushNotStuck, OnePushDeployAtATime, InFlight
  <2>5. QueueTypes' /\ AroundTypes'
    BY <1>0, <2>1 DEF QueueTypes, AroundTypes, Items, deploys, coalescer, around
  <2>6. Budget'
    <3>1. Pending' = Pending \cup {tip + 1} /\ tip + 1 \notin Pending
      BY <1>0, <2>1, <2>2 DEF Pending, HookTypes
    <3>2. Cardinality(Pending') = Cardinality(Pending) + 1  BY <1>0, <3>1, FS_AddElement
    <3>3. QED  BY <1>0, <2>1, <3>2 DEF Budget, deploys, coalescer, One
  <2>7. QED  BY <2>3, <2>4, <2>5, <2>6
<1>2. ASSUME NEW c \in Commits, RecordPush(c) \/ ReadTip(c) PROVE Inv'
  <2>1. UNCHANGED <<source, tip, deploys, coalescer, around>>
    BY <1>2 DEF RecordPush, ReadTip
  <2>2. HookTypes' /\ Pending' = Pending
    <3>1. c <= tip  BY <1>0, <1>2 DEF RecordPush, ReadTip, HookTypes
    <3>2. recorded' \in 0..tip  BY <1>0, <1>2, <3>1 DEF RecordPush, ReadTip, HookTypes, Commits
    <3>3. /\ hook' \in [Commits -> [at : {"none", "landed", "recorded", "read", "done"}, tip : 0..tip]]
          /\ \A d \in Commits : d # c => hook'[d] = hook[d]
          /\ hook'[c].at \in {"recorded", "read"} /\ hook[c].at \in {"landed", "recorded"}
      BY <1>0, <1>2 DEF RecordPush, ReadTip, HookTypes
    <3>4. QED  BY <1>0, <2>1, <3>1, <3>2, <3>3 DEF HookTypes, Pending
  <2>3. Rows'
    BY <1>0, <2>1 DEF Rows, RowTypes, deploys, StaleIsStuck, PushNotStuck, OnePushDeployAtATime, InFlight
  <2>4. QueueTypes' /\ AroundTypes'
    BY <1>0, <2>1 DEF QueueTypes, AroundTypes, deploys, coalescer, around
  <2>5. Budget'  BY <1>0, <2>1, <2>2 DEF Budget, deploys, coalescer, One
  <2>6. QED  BY <2>2, <2>3, <2>4, <2>5
<1>3. ASSUME NEW c \in Commits, PushTriggers(c) PROVE Inv'
  <2>1. /\ c \in Pending /\ c <= tip /\ tip' = tip /\ ticking' = ticking /\ source' = source
        /\ restoring' = restoring
        /\ hook' = [hook EXCEPT ![c].at = "done"]
        /\ recorded' \in 0..tip /\ timer' \in BOOLEAN
    BY <1>0, <1>3 DEF PushTriggers, Pending, HookTypes, QueueTypes, Commits
  <2>2. HookTypes'
    <3>1. /\ hook' \in [Commits -> [at : {"none", "landed", "recorded", "read", "done"}, tip : 0..tip]]
          /\ \A d \in Commits : d # c => hook'[d] = hook[d]
          /\ hook'[c].at = "done"
      BY <1>0, <2>1 DEF HookTypes
    <3>2. QED  BY <1>0, <2>1, <3>1 DEF HookTypes
  <2>3. Cardinality(Pending') = Cardinality(Pending) - 1
    BY <1>0, <2>1, HandlerTriggers DEF Rows
  <2>4. Cardinality(Pending') \in Nat  BY <1>0, <2>1, <2>3, FS_EmptySet
  <2>5. CASE UNCHANGED <<deploys, queue, dropped>>
    <3>1. Rows'
      BY <1>0, <2>1, <2>5 DEF Rows, RowTypes, deploys, StaleIsStuck, PushNotStuck, OnePushDeployAtATime, InFlight
    <3>2. QueueTypes' /\ AroundTypes'
      BY <1>0, <2>1, <2>5 DEF QueueTypes, AroundTypes, deploys
    <3>3. Budget'  BY <1>0, <2>1, <2>3, <2>4, <2>5 DEF Budget, deploys, One
    <3>4. QED  BY <2>2, <3>1, <3>2, <3>3
  <2>6. CASE Trigger(c)
    <3>1. Cardinality(pushed) < tip  BY <1>0, <2>3, <2>4 DEF Budget
    <3>2. c \in 0..tip  BY <2>1, <1>0 DEF Commits
    <3>3. /\ Rows'
          /\ n <= n' /\ n' <= Cardinality(pushed') + MaxManual
          /\ queue' \in Items /\ queue'.behind <= n' /\ queue'.commit <= tip
          /\ dropped' \in BOOLEAN
          /\ Cardinality(pushed') + One(queue') <= Cardinality(pushed) + One(queue) + 1
      BY <2>1, <2>6, <3>1, <3>2, TriggerStep
    <3>4. QueueTypes' /\ AroundTypes'
      BY <1>0, <2>1, <3>3 DEF QueueTypes, AroundTypes
    <3>5. Cardinality(pushed') \in Nat /\ One(queue') \in Nat
      <4>1. RowTypes'  BY <3>3 DEF Rows
      <4>2. IsFiniteSet(1..n')  BY <4>1, FS_Interval DEF RowTypes
      <4>3. QED  BY <4>1, <4>2, FS_Subset, FS_CardinalityType DEF RowTypes, One
    <3>6. Budget'
      <4>1. One(ticking') = One(ticking)  BY <2>1
      <4>2. Cardinality(pushed') + Cardinality(Pending') + One(queue') + One(ticking') <= tip'
        <5>1. tip' = tip  BY <2>1
        <5>2. Cardinality(pushed) + Cardinality(Pending) + One(queue) + One(ticking) <= tip
          BY <1>0 DEF Budget
        <5>3. QED  BY ONLY <1>0, <2>3, <2>4, <3>3, <3>5, <4>1, <5>1, <5>2
      <4>3. QED  BY <3>3, <4>2 DEF Budget
    <3>7. QED  BY <2>2, <3>3, <3>4, <3>6
  <2>7. QED  BY <1>3, <2>5, <2>6 DEF PushTriggers
<1>4. CASE ManualDeploy
  <2>1. PICK r \in 0..recorded : Insert(FALSE, r)  BY <1>4 DEF ManualDeploy
  <2>2. UNCHANGED <<branch, coalescer, around>> /\ n - Cardinality(pushed) < MaxManual
    BY <1>4 DEF ManualDeploy
  <2>3. r \in 0..tip  BY <1>0 DEF HookTypes
  <2>4. n' = n + 1 /\ pushed' = pushed  BY <2>1 DEF Insert
  <2>5. n < MaxPushes + MaxManual  BY <1>0, <2>2 DEF Budget, HookTypes
  <2>6. Rows'  BY <1>0, <2>1, <2>2, <2>3, <2>5, RowInserted DEF branch
  <2>7. HookTypes' /\ QueueTypes' /\ AroundTypes'
    <3>1. queue.behind \in Nat  BY <1>0 DEF QueueTypes, Items
    <3>2. queue.behind <= n'  BY <1>0, <2>4, <3>1 DEF QueueTypes
    <3>3. QED  BY <1>0, <2>2, <2>4, <3>2 DEF HookTypes, QueueTypes, AroundTypes, branch, coalescer, around
  <2>8. Pending' = Pending  BY <2>2 DEF Pending, branch
  <2>9. Budget'  BY <1>0, <2>2, <2>4, <2>8 DEF Budget, One, branch, coalescer
  <2>10. QED  BY <2>6, <2>7, <2>9
<1>5. ASSUME NEW i \in Ids,
             Clone(i) \/ VerifyCommit(i) \/ DeployEnds(i) \/ DeployIsStuck(i) \/ GrowsStale(i)
      PROVE  Inv'
  <2>1. Rows' /\ n' = n /\ pushed' = pushed  BY <1>0, <1>5, RowMoves
  <2>2. UNCHANGED <<branch, coalescer, around>>
    BY <1>5 DEF Clone, VerifyCommit, DeployEnds, DeployIsStuck, GrowsStale
  <2>3. restoring' \in BOOLEAN /\ dropped' \in BOOLEAN  BY <1>0, <2>2 DEF around, AroundTypes
  <2>4. QED  BY <1>0, <2>1, <2>2, <2>3, Elsewhere
<1>6. CASE TickTakes
  <2>1. /\ ticking = NoItem /\ ticking' = queue /\ queue' = NoItem /\ timer' = timer
        /\ UNCHANGED <<branch, deploys, around>>
    BY <1>6 DEF TickTakes
  <2>2. NoItem \in Items /\ NoItem.behind = 0 /\ NoItem.commit = 0  BY DEF NoItem, Items
  <2>3. Rows'
    BY <1>0, <2>1 DEF Rows, RowTypes, branch, deploys, StaleIsStuck, PushNotStuck, OnePushDeployAtATime, InFlight
  <2>4. HookTypes' /\ QueueTypes' /\ AroundTypes'
    BY <1>0, <2>1, <2>2 DEF HookTypes, QueueTypes, AroundTypes, branch, deploys, around
  <2>5. Pending' = Pending  BY <2>1 DEF Pending, branch
  <2>6. One(ticking') = One(queue) /\ One(queue') = 0 /\ One(ticking) = 0  BY <2>1 DEF One
  <2>7. Budget'  BY <1>0, <2>1, <2>5, <2>6 DEF Budget, branch, deploys
  <2>8. QED  BY <2>3, <2>4, <2>7
<1>7. CASE FollowUpRuns
  <2> DEFINE c == IF Local THEN tip ELSE ticking.commit
  <2>1. /\ ticking # NoItem /\ Trigger(c)
        /\ timer' = (queue' # NoItem) /\ ticking' = NoItem
        /\ UNCHANGED <<branch, restoring>>
    BY <1>7 DEF FollowUpRuns
  <2>2. c \in 0..tip  BY <1>0 DEF QueueTypes, Items
  <2>3. One(ticking) = 1 /\ One(ticking') = 0  BY <2>1 DEF One
  <2>4. Cardinality(pushed) < tip  BY <1>0, <2>3 DEF Budget
  <2>5. tip' = tip  BY <2>1 DEF branch
  <2>6. /\ Rows'
        /\ n <= n' /\ n' <= Cardinality(pushed') + MaxManual
        /\ queue' \in Items /\ queue'.behind <= n' /\ queue'.commit <= tip
        /\ dropped' \in BOOLEAN
        /\ Cardinality(pushed') + One(queue') <= Cardinality(pushed) + One(queue) + 1
    <3> HIDE DEF c
    <3>1. QED  BY <2>1, <2>2, <2>4, <2>5, TriggerStep
  <2>7. HookTypes' /\ QueueTypes' /\ AroundTypes'
    <3>1. NoItem \in Items /\ NoItem.behind = 0 /\ NoItem.commit = 0  BY DEF NoItem, Items
    <3>2. QED  BY <1>0, <2>1, <2>5, <2>6, <3>1 DEF HookTypes, QueueTypes, AroundTypes, branch
  <2>8. Pending' = Pending  BY <2>1 DEF Pending, branch
  <2>9. Cardinality(pushed') \in Nat /\ One(queue') \in Nat
    <3>1. RowTypes'  BY <2>6 DEF Rows
    <3>2. IsFiniteSet(1..n')  BY <3>1, FS_Interval DEF RowTypes
    <3>3. QED  BY <3>1, <3>2, FS_Subset, FS_CardinalityType DEF RowTypes, One
  <2>10. Budget'  BY <1>0, <2>3, <2>5, <2>6, <2>8, <2>9 DEF Budget
  <2>11. QED  BY <2>6, <2>7, <2>10
<1>8. CASE RestoreBegins \/ RestoreEnds
  <2>1. UNCHANGED <<branch, deploys, coalescer, dropped>> /\ restoring' \in BOOLEAN
    BY <1>8 DEF RestoreBegins, RestoreEnds
  <2>2. Rows'
    BY <1>0, <2>1 DEF Rows, RowTypes, branch, deploys, StaleIsStuck, PushNotStuck, OnePushDeployAtATime, InFlight
  <2>3. n' = n /\ pushed' = pushed /\ dropped' \in BOOLEAN  BY <1>0, <2>1 DEF deploys, AroundTypes
  <2>4. QED  BY <1>0, <2>1, <2>2, <2>3, Elsewhere
<1>9. CASE Restart
  <2>1. Rows' /\ n' = n /\ pushed' = pushed  BY <1>0, <1>9, RowsSwept
  <2>2. /\ hook' = [c \in Commits |-> IF hook[c].at = "none" THEN hook[c] ELSE [hook[c] EXCEPT !.at = "done"]]
        /\ queue' = NoItem /\ timer' = FALSE /\ ticking' = NoItem /\ restoring' = FALSE /\ dropped' = TRUE
        /\ UNCHANGED <<source, tip, recorded>>
    BY <1>9 DEF Restart
  <2>3. NoItem \in Items /\ NoItem.behind = 0 /\ NoItem.commit = 0  BY DEF NoItem, Items
  <2>4. \A c \in Commits :
          /\ hook'[c] \in [at : {"none", "landed", "recorded", "read", "done"}, tip : 0..tip]
          /\ hook'[c].at \in {"none", "done"}
          /\ hook'[c].at = "none" <=> hook[c].at = "none"
    BY <1>0, <2>2 DEF HookTypes
  <2>5. HookTypes'
    <3>1. hook' \in [Commits -> [at : {"none", "landed", "recorded", "read", "done"}, tip : 0..tip]]
      BY <2>2, <2>4
    <3>2. QED  BY <1>0, <2>2, <2>4, <3>1 DEF HookTypes
  <2>6. QueueTypes' /\ AroundTypes'
    <3>1. queue' \in Items /\ (queue').behind <= n' /\ (queue').commit <= tip'
      BY <1>0, <2>1, <2>2, <2>3
    <3>2. ticking' \in Items /\ (ticking').commit <= tip'  BY <1>0, <2>2, <2>3
    <3>3. timer' \in BOOLEAN /\ restoring' \in BOOLEAN /\ dropped' \in BOOLEAN  BY <2>2
    <3>4. source' \in Sources  BY <1>0, <2>2 DEF AroundTypes
    <3>5. QED  BY ONLY <3>1, <3>2, <3>3, <3>4 DEF QueueTypes, AroundTypes
  <2>7. Pending' = {}  BY <2>4 DEF Pending
  <2>8. Cardinality(Pending') = 0 /\ One(queue') = 0 /\ One(ticking') = 0
    BY <2>2, <2>7, FS_EmptySet DEF One
  <2>9. Budget'  BY <1>0, <2>1, <2>2, <2>8 DEF Budget
  <2>10. QED  BY <2>1, <2>5, <2>6, <2>9
<1>10. CASE UNCHANGED vars
  <2>1. UNCHANGED <<branch, deploys, coalescer, around>>  BY <1>10 DEF vars
  <2>2. Rows'
    BY <1>0, <2>1 DEF Rows, RowTypes, branch, deploys, StaleIsStuck, PushNotStuck, OnePushDeployAtATime, InFlight
  <2>3. n' = n /\ pushed' = pushed /\ dropped' \in BOOLEAN /\ restoring' \in BOOLEAN
    BY <1>0, <2>1 DEF deploys, around, AroundTypes
  <2>4. QED  BY <1>0, <2>1, <2>2, <2>3, Elsewhere
<1>11. QED
  BY <1>1, <1>2, <1>3, <1>4, <1>5, <1>6, <1>7, <1>8, <1>9, <1>10 DEF Next

\* What the argument rests on holds throughout.
THEOREM PushInvariant == Spec => []Inv
<1>1. QED  BY InitPush, StepPush, PTL DEF Spec

\* The table of deployments has room for every row the pushes and the deploys by
\* hand insert, the follow-up is one of its rows, and all has its type.
THEOREM PushTypes == Spec => []TypeOK
<1>1. Inv => TypeOK  BY Groups DEF Inv, Rows
<1>2. QED  BY <1>1, PushInvariant, PTL

\* Pushes never overlap their own deploys (deployTrigger.js:23-26).
THEOREM PushesTakeTurns == Spec => []OnePushDeployAtATime
<1>1. Inv => OnePushDeployAtATime  BY DEF Inv, Rows
<1>2. QED  BY <1>1, PushInvariant, PTL

\* A parked follow-up is polled: the interval runs as long as one is parked or run.
THEOREM FollowUpIsPolled == Spec => []QueueIsPolled
<1>1. Init => QueueIsPolled  BY DEF Init, QueueIsPolled
<1>2. QueueIsPolled /\ [Next]_vars => QueueIsPolled'
  <2> SUFFICES ASSUME QueueIsPolled, [Next]_vars PROVE QueueIsPolled'  OBVIOUS
  <2>1. CASE UNCHANGED <<queue, timer, ticking>>  BY <2>1 DEF QueueIsPolled
  <2>2. ASSUME NEW c \in Commits, PushTriggers(c) PROVE QueueIsPolled'
    BY <2>2 DEF PushTriggers, QueueIsPolled
  <2>3. CASE TickTakes  BY <2>3 DEF TickTakes, QueueIsPolled
  <2>4. CASE FollowUpRuns  BY <2>4 DEF FollowUpRuns, QueueIsPolled
  <2>5. CASE Restart  BY <2>5 DEF Restart, QueueIsPolled
  <2>6. QED
    BY <2>1, <2>2, <2>3, <2>4, <2>5
    DEF Next, vars, coalescer, Push, RecordPush, ReadTip, ManualDeploy, Clone, VerifyCommit,
        DeployEnds, DeployIsStuck, GrowsStale, RestoreBegins, RestoreEnds
<1>3. QED  BY <1>1, <1>2, PTL DEF Spec
=============================================================================
