--------------------------- MODULE AppStudioProofs ---------------------------
(***************************************************************************)
(* For any requests, jobs and restarts: the tables of AppStudio keep their *)
(* types, a request in work is worked on, a reject is final, and what auto *)
(* mode merges was built in the sandbox.                                   *)
(***************************************************************************)
EXTENDS AppStudio, FiniteSetTheorems, WellFoundedInduction, TLAPS

\* The handler of a coding job, a build or a merge has a branch.
HandlersHaveBranches ==
  \A i \in Ids : Active(i) /\ job[i].phase \in CodePhases => handler[i].branch # 0

StudioInv == TypeOK /\ HandlersHaveBranches

\* The parts of TypeOK.
RequestsTyped ==
  /\ status \in [Reqs -> Statuses]
  /\ planned \in SUBSET Reqs /\ auto \in SUBSET Reqs
  /\ branch \in [Reqs -> 0..MaxJobs]
  /\ recoding \in SUBSET Reqs
  /\ asks \in 0..MaxAsks /\ crashes \in 0..MaxCrashes
  /\ built \in [Reqs -> SUBSET (1..MaxJobs)]
  /\ merged \in [Reqs -> SUBSET (1..MaxJobs)]
  /\ consent \in SUBSET Reqs /\ hasty \in SUBSET Reqs /\ rejected \in SUBSET Reqs

JobsTyped ==
  /\ n \in 0..MaxJobs
  /\ job \in [Ids -> Rows]
  /\ \A i \in Ids : job[i].st = "none" <=> i > n

HandlersTyped ==
  /\ handler \in [Ids -> Handlers]
  /\ \A i \in Ids : handler[i].at # "none" => job[i].st \in {"running", "failed"}
  /\ \A i, j \in {k \in Ids : handler[k].at # "none" /\ job[k].phase \in CodePhases} : i = j

-----------------------------------------------------------------------------
(* What a step does to the jobs and their handlers *)

\* Everything but these jobs is as it was.
Same(S) == \A j \in Ids \ S : job'[j] = job[j] /\ handler'[j] = handler[j]

\* Job i has ended, or was put back, as st, and nobody works on it.
EndsAs(i, st) == job'[i] = [job[i] EXCEPT !.st = st] /\ handler'[i] = NoHandler

\* A row was inserted.
Adds(e, phase) ==
  /\ n + 1 \in Ids /\ n' = n + 1
  /\ job[n + 1].st = "none" /\ job'[n + 1] = Row(e, phase)
  /\ handler[n + 1].at = "none" /\ handler'[n + 1].at = "none"

LEMMA NewRow ==
  ASSUME TypeOK, Room(1)
  PROVE  /\ n + 1 \in Ids /\ n + 1 \in 0..MaxJobs
         /\ job[n + 1].st = "none" /\ handler[n + 1].at = "none"
<1>1. n \in Nat /\ n + 1 <= MaxJobs /\ MaxJobs \in Nat
  BY StudioConstants DEF TypeOK, Room
<1>2. n + 1 \in Ids /\ n + 1 \in 0..MaxJobs  BY <1>1 DEF Ids
<1>3. job[n + 1].st = "none"  BY <1>1, <1>2 DEF TypeOK
<1> QED  BY <1>2, <1>3 DEF TypeOK

LEMMA JobIsTyped ==
  ASSUME TypeOK, NEW i \in Ids
  PROVE  /\ job[i] \in Rows /\ job[i].req \in Reqs
         /\ job[i].phase \in PlanPhases \cup CodePhases
         /\ handler[i] \in Handlers
BY DEF TypeOK, Rows

LEMMA RowIsTyped ==
  ASSUME NEW e \in Reqs, NEW phase \in PlanPhases \cup CodePhases
  PROVE  /\ Row(e, phase) \in Rows
         /\ Row(e, phase).req = e /\ Row(e, phase).phase = phase /\ Row(e, phase).st = "queued"
BY DEF Row, Rows

LEMMA NewStateIsTyped ==
  ASSUME NEW row \in Rows, NEW st \in {"none", "queued", "running", "done", "failed"}
  PROVE  /\ [row EXCEPT !.st = st] \in Rows
         /\ [row EXCEPT !.st = st].req = row.req
         /\ [row EXCEPT !.st = st].phase = row.phase
         /\ [row EXCEPT !.st = st].st = st
BY DEF Rows

LEMMA NoHandlerIsTyped == NoHandler \in Handlers /\ NoHandler.at = "none"
BY StudioConstants DEF NoHandler, Handlers

\* A job ends.
LEMMA Ended ==
  ASSUME StudioInv, NEW i \in Ids, job[i].st # "none", NEW st \in {"done", "failed"},
         job' = Finished(i, st), Leave(i), n' = n
  PROVE  /\ JobsTyped' /\ HandlersTyped' /\ HandlersHaveBranches'
         /\ EndsAs(i, st) /\ Same({i})
<1>0. job[i] \in Rows  BY JobIsTyped DEF StudioInv
<1> DEFINE row == [job[i] EXCEPT !.st = st]
<1>1. row \in Rows /\ row.req = job[i].req /\ row.phase = job[i].phase /\ row.st = st
  <2>1. st \in {"none", "queued", "running", "done", "failed"}  OBVIOUS
  <2> DEFINE old == job[i]
  <2>2. old \in Rows  BY <1>0
  <2> HIDE DEF old
  <2>3. LET new == [old EXCEPT !.st = st]
        IN  new \in Rows /\ new.req = old.req /\ new.phase = old.phase /\ new.st = st
    BY <2>1, <2>2, NewStateIsTyped
  <2> QED  BY <2>3 DEF old
<1>2. job' = [job EXCEPT ![i] = row]  BY Zenon DEF Finished
<1>3. handler' = [handler EXCEPT ![i] = NoHandler]  BY DEF Leave
<1>4. EndsAs(i, st) /\ Same({i})
  <2>1. EndsAs(i, st)  BY <1>2, <1>3 DEF EndsAs, StudioInv, TypeOK
  <2>2. Same({i})  BY <1>2, <1>3 DEF Same, StudioInv, TypeOK
  <2> QED  BY <2>1, <2>2
<1> HIDE DEF row
<1>5. JobsTyped'  BY <1>1, <1>2 DEF JobsTyped, StudioInv, TypeOK
<1>6. HandlersTyped'
  BY <1>1, <1>2, <1>3, NoHandlerIsTyped DEF HandlersTyped, StudioInv, TypeOK
<1>7. HandlersHaveBranches'
  BY <1>1, <1>2, <1>3, NoHandlerIsTyped DEF HandlersHaveBranches, Active, StudioInv, TypeOK
<1> QED  BY <1>4, <1>5, <1>6, <1>7

\* A row is inserted, and nothing else happens to the jobs.
LEMMA Inserted ==
  ASSUME StudioInv, NEW e \in Reqs, NEW phase \in PlanPhases \cup CodePhases,
         Insert(job, e, phase), handler' = handler
  PROVE  /\ JobsTyped' /\ HandlersTyped' /\ HandlersHaveBranches'
         /\ Adds(e, phase) /\ Same({n + 1})
<1> DEFINE row == Row(e, phase)
<1>1. row \in Rows /\ row.st = "queued"  BY RowIsTyped
<1>2. /\ n + 1 \in Ids /\ n + 1 \in 0..MaxJobs
      /\ job[n + 1].st = "none" /\ handler[n + 1].at = "none"
  BY NewRow DEF Insert, StudioInv
<1>3. n' = n + 1 /\ job' = [job EXCEPT ![n + 1] = row]  BY DEF Insert
<1>4. Adds(e, phase) /\ Same({n + 1})
  BY <1>2, <1>3 DEF Adds, Same, StudioInv, TypeOK
<1> HIDE DEF row
<1>5. JobsTyped'
  <2>1. n \in Nat /\ \A j \in Ids : j \in Nat  BY StudioConstants DEF StudioInv, TypeOK, Ids
  <2>2. \A j \in Ids : job'[j].st = "none" <=> j > n'
    BY <1>1, <1>2, <1>3, <2>1 DEF StudioInv, TypeOK
  <2> QED  BY <1>1, <1>2, <1>3, <2>2 DEF JobsTyped, StudioInv, TypeOK
<1>6. HandlersTyped'  BY <1>1, <1>2, <1>3 DEF HandlersTyped, StudioInv, TypeOK
<1>7. HandlersHaveBranches'
  BY <1>1, <1>2, <1>3 DEF HandlersHaveBranches, Active, StudioInv, TypeOK
<1> QED  BY <1>4, <1>5, <1>6, <1>7

\* A job ends and its handler inserts another row.
LEMMA EndedAndInserted ==
  ASSUME StudioInv, NEW i \in Ids, job[i].st # "none",
         NEW e \in Reqs, NEW phase \in PlanPhases \cup CodePhases,
         Insert(Finished(i, "done"), e, phase), Leave(i)
  PROVE  /\ JobsTyped' /\ HandlersTyped' /\ HandlersHaveBranches'
         /\ EndsAs(i, "done") /\ Adds(e, phase) /\ Same({i, n + 1}) /\ i # n + 1
<1> DEFINE new == Row(e, phase)
           row == [job[i] EXCEPT !.st = "done"]
<1>0. job[i] \in Rows  BY JobIsTyped DEF StudioInv
<1>1. row \in Rows /\ row.phase = job[i].phase /\ row.st = "done"
  BY <1>0, NewStateIsTyped
<1>2. new \in Rows /\ new.st = "queued"  BY RowIsTyped
<1>3. /\ n + 1 \in Ids /\ n + 1 \in 0..MaxJobs
      /\ job[n + 1].st = "none" /\ handler[n + 1].at = "none" /\ i # n + 1
  BY NewRow DEF Insert, StudioInv
<1>4. n' = n + 1 /\ job' = [[job EXCEPT ![i] = row] EXCEPT ![n + 1] = new]
  BY DEF Insert, Finished
<1>5. handler' = [handler EXCEPT ![i] = NoHandler]  BY DEF Leave
<1>6. EndsAs(i, "done") /\ Adds(e, phase) /\ Same({i, n + 1})
  BY <1>3, <1>4, <1>5 DEF Adds, EndsAs, Same, StudioInv, TypeOK
<1> HIDE DEF row, new
<1>7. JobsTyped'
  <2>1. n \in Nat /\ \A j \in Ids : j \in Nat  BY StudioConstants DEF StudioInv, TypeOK, Ids
  <2>2. \A j \in Ids : job'[j].st = "none" <=> j > n'
    BY <1>1, <1>2, <1>3, <1>4, <2>1 DEF StudioInv, TypeOK
  <2> QED  BY <1>1, <1>2, <1>3, <1>4, <2>2 DEF JobsTyped, StudioInv, TypeOK
<1>8. HandlersTyped'
  BY <1>1, <1>2, <1>3, <1>4, <1>5, NoHandlerIsTyped DEF HandlersTyped, StudioInv, TypeOK
<1>9. HandlersHaveBranches'
  BY <1>1, <1>2, <1>3, <1>4, <1>5, NoHandlerIsTyped
     DEF HandlersHaveBranches, Active, StudioInv, TypeOK
<1> QED  BY <1>3, <1>6, <1>7, <1>8, <1>9

\* The pull request of a job makes progress.
LEMMA Advanced ==
  ASSUME StudioInv, NEW i \in Ids, handler[i].at # "none", NEW at \in {"opened", "merged"},
         handler' = [handler EXCEPT ![i].at = at], job' = job, n' = n
  PROVE  /\ JobsTyped' /\ HandlersTyped' /\ HandlersHaveBranches'
         /\ Same({i}) /\ handler'[i].at = at /\ handler'[i].branch = handler[i].branch
<1> DEFINE h == [handler[i] EXCEPT !.at = at]
<1>1. handler[i] \in Handlers  BY JobIsTyped DEF StudioInv
<1>2. h \in Handlers /\ h.at = at /\ h.branch = handler[i].branch  BY <1>1 DEF Handlers
<1>3. handler' = [handler EXCEPT ![i] = h]  BY Zenon
<1> HIDE DEF h
<1>4. JobsTyped'  BY DEF JobsTyped, StudioInv, TypeOK
<1>5. HandlersTyped'  BY <1>2, <1>3 DEF HandlersTyped, StudioInv, TypeOK
<1>6. HandlersHaveBranches'
  BY <1>2, <1>3 DEF HandlersHaveBranches, Active, StudioInv, TypeOK
<1>7. Same({i}) /\ handler'[i] = h  BY <1>3 DEF Same, StudioInv, TypeOK
<1> QED  BY <1>2, <1>4, <1>5, <1>6, <1>7

\* The branch of a coding job is one of the bounded numbers.
LEMMA AttemptIsABranch == \A i \in Ids : Attempt(i) \in 1..MaxJobs
<1> SUFFICES ASSUME NEW i \in Ids PROVE Attempt(i) \in 1..MaxJobs  OBVIOUS
<1> DEFINE earlier == {j \in 1..(i - 1) : job[j].req = job[i].req /\ job[j].phase = "code"}
<1>1. i \in Nat \ {0} /\ i <= MaxJobs /\ MaxJobs \in Nat  BY StudioConstants DEF Ids
<1>2. IsFiniteSet(1..(i - 1)) /\ Cardinality(1..(i - 1)) = i - 1
  BY <1>1, FS_Interval
<1>3. earlier \in SUBSET (1..(i - 1))  OBVIOUS
<1> HIDE DEF earlier
<1>4. Cardinality(earlier) \in Nat /\ Cardinality(earlier) <= i - 1
  BY <1>2, <1>3, FS_Subset, FS_CardinalityType
<1>5. 1 + Cardinality(earlier) \in 1..MaxJobs  BY <1>1, <1>4
<1> QED  BY <1>5 DEF Attempt, earlier

\* A queued job gets a handler.
LEMMA Claimed ==
  ASSUME StudioInv, NEW i \in Ids, job[i].st = "queued",
         NEW phases \in {PlanPhases, CodePhases}, job[i].phase \in phases, Free(phases),
         NEW b \in 0..MaxJobs, job[i].phase \in CodePhases => b # 0, NEW mode \in BOOLEAN,
         job' = [job EXCEPT ![i].st = "running"],
         handler' = [handler EXCEPT ![i] = [at |-> "started", branch |-> b, auto |-> mode]],
         n' = n
  PROVE  /\ JobsTyped' /\ HandlersTyped' /\ HandlersHaveBranches'
         /\ job'[i] = [job[i] EXCEPT !.st = "running"]
         /\ handler'[i].at = "started" /\ handler'[i].branch = b /\ Same({i})
<1> DEFINE row == [job[i] EXCEPT !.st = "running"]
           h == [at |-> "started", branch |-> b, auto |-> mode]
<1>1. job[i] \in Rows  BY JobIsTyped DEF StudioInv
<1>2. row \in Rows /\ row.phase = job[i].phase /\ row.st = "running"  BY <1>1, NewStateIsTyped
<1>3. h \in Handlers /\ h.at = "started" /\ h.branch = b  BY DEF Handlers
<1>4. job' = [job EXCEPT ![i] = row] /\ handler' = [handler EXCEPT ![i] = h]  BY Zenon
<1>5. job'[i] = row /\ handler'[i] = h /\ Same({i})
  <2> HIDE DEF row, h
  <2> QED  BY <1>4 DEF Same, StudioInv, TypeOK
<1>6. job'[i] = [job[i] EXCEPT !.st = "running"]  BY <1>5
<1> HIDE DEF row, h
<1>7. JobsTyped'  BY <1>2, <1>4 DEF JobsTyped, StudioInv, TypeOK
<1>8. HandlersTyped'
  <2>1. handler' \in [Ids -> Handlers]  BY <1>3, <1>4 DEF StudioInv, TypeOK
  <2>2. \A j \in Ids : handler'[j].at # "none" => job'[j].st \in {"running", "failed"}
    BY <1>2, <1>5 DEF Same, StudioInv, TypeOK
  <2>3. ASSUME NEW j \in Ids, NEW k \in Ids,
               handler'[j].at # "none", job'[j].phase \in CodePhases,
               handler'[k].at # "none", job'[k].phase \in CodePhases
        PROVE  j = k
    <3>1. \A l \in Ids : job'[l].phase = job[l].phase /\ l # i => handler'[l] = handler[l]
      BY <1>2, <1>5 DEF Same
    <3>2. CASE j # i /\ k # i
      <4>1. handler[j].at # "none" /\ job[j].phase \in CodePhases
        BY <1>5, <2>3, <3>2 DEF Same
      <4>2. handler[k].at # "none" /\ job[k].phase \in CodePhases
        BY <1>5, <2>3, <3>2 DEF Same
      <4> QED  BY <4>1, <4>2 DEF StudioInv, TypeOK
    <3>3. CASE j = i \/ k = i
      <4>1. job[i].phase \in CodePhases  BY <1>2, <1>5, <2>3, <3>3
      <4>2. phases = CodePhases  BY <4>1 DEF PlanPhases, CodePhases
      <4>3. \A l \in Ids : handler[l].at # "none" => job[l].phase \notin CodePhases
        BY <4>2 DEF Free, Active, PlanPhases, CodePhases
      <4> QED  BY <1>5, <2>3, <4>3 DEF Same
    <3> QED  BY <3>2, <3>3
  <2> QED  BY <2>1, <2>2, <2>3 DEF HandlersTyped
<1>9. HandlersHaveBranches'
  BY <1>2, <1>3, <1>5 DEF HandlersHaveBranches, Active, Same, StudioInv
<1> QED  BY <1>3, <1>5, <1>6, <1>7, <1>8, <1>9

\* Rows of a set of jobs that have not ended are failed or queued again.
LEMMA Marked ==
  ASSUME StudioInv, NEW S \in SUBSET Ids,
         \A i \in S : job[i].st \in {"queued", "running"},
         NEW st \in {"queued", "failed"},
         job' = [i \in Ids |-> IF i \in S THEN [job[i] EXCEPT !.st = st] ELSE job[i]],
         \/ st = "failed" /\ handler' = handler
         \/ handler' = [i \in Ids |-> NoHandler],
         n' = n
  PROVE  /\ JobsTyped' /\ HandlersTyped' /\ HandlersHaveBranches'
         /\ \A i \in Ids : /\ job'[i].req = job[i].req /\ job'[i].phase = job[i].phase
                           /\ job'[i].st = IF i \in S THEN st ELSE job[i].st
<1>1. \A i \in Ids : job[i] \in Rows  BY JobIsTyped DEF StudioInv
<1>2. \A i \in Ids : /\ [job[i] EXCEPT !.st = st] \in Rows
                     /\ [job[i] EXCEPT !.st = st].req = job[i].req
                     /\ [job[i] EXCEPT !.st = st].phase = job[i].phase
                     /\ [job[i] EXCEPT !.st = st].st = st
  <2>1. ASSUME NEW i \in Ids
        PROVE  /\ [job[i] EXCEPT !.st = st] \in Rows
               /\ [job[i] EXCEPT !.st = st].req = job[i].req
               /\ [job[i] EXCEPT !.st = st].phase = job[i].phase
               /\ [job[i] EXCEPT !.st = st].st = st
    <3>1. job[i] \in Rows /\ st \in {"none", "queued", "running", "done", "failed"}
      BY <1>1
    <3> DEFINE row == job[i]
    <3>2. row \in Rows  BY <3>1
    <3> HIDE DEF row
    <3>3. /\ [row EXCEPT !.st = st] \in Rows
          /\ [row EXCEPT !.st = st].req = row.req
          /\ [row EXCEPT !.st = st].phase = row.phase
          /\ [row EXCEPT !.st = st].st = st
      BY <3>1, <3>2, NewStateIsTyped
    <3> QED  BY <3>3 DEF row
  <2> QED  BY <2>1
<1>3. \A i \in Ids : /\ job'[i] \in Rows
                     /\ job'[i].req = job[i].req /\ job'[i].phase = job[i].phase
                     /\ job'[i].st = IF i \in S THEN st ELSE job[i].st
  BY <1>1, <1>2
<1>4. JobsTyped'
  <2>1. job' \in [Ids -> Rows]  BY <1>3
  <2>2. \A i \in Ids : job'[i].st = "none" <=> job[i].st = "none"  BY <1>3
  <2> QED  BY <2>1, <2>2 DEF JobsTyped, StudioInv, TypeOK
<1>5. \A i \in Ids : handler'[i] = NoHandler \/ (st = "failed" /\ handler'[i] = handler[i])
  OBVIOUS
<1>6. HandlersTyped'
  <2>1. handler' \in [Ids -> Handlers]  BY NoHandlerIsTyped DEF StudioInv, TypeOK
  <2>2. \A i \in Ids : handler'[i].at # "none" => job'[i].st \in {"running", "failed"}
    BY <1>3, <1>5, NoHandlerIsTyped DEF StudioInv, TypeOK
  <2>3. \A i \in Ids : handler'[i].at # "none" => handler[i].at # "none"
    BY <1>5, NoHandlerIsTyped
  <2> QED  BY <1>3, <2>1, <2>2, <2>3 DEF HandlersTyped, StudioInv, TypeOK
<1>7. HandlersHaveBranches'
  BY <1>3, <1>5, NoHandlerIsTyped DEF HandlersHaveBranches, Active, StudioInv
<1> QED  BY <1>3, <1>4, <1>6, <1>7

-----------------------------------------------------------------------------
(* The rows of plans that became stale *)

\* How many of S are at most r.
Rank(S, r) == Cardinality({s \in S : s <= r})

\* Counting a finite set of numbers in their order reaches each count once.
LEMMA RankCounts ==
  ASSUME NEW S, IsFiniteSet(S), S \subseteq Nat
  PROVE  /\ Cardinality(S) \in Nat
         /\ \A r \in S : Rank(S, r) \in 1..Cardinality(S)
         /\ \A q, r \in S : Rank(S, q) = Rank(S, r) => q = r
         /\ \A k \in 1..Cardinality(S) : \E r \in S : Rank(S, r) = k
<1> DEFINE upto(r) == {s \in S : s <= r}
<1>1. \A r \in S : /\ IsFiniteSet(upto(r)) /\ Cardinality(upto(r)) \in Nat
                   /\ Cardinality(upto(r)) <= Cardinality(S)
  <2> SUFFICES ASSUME NEW r \in S
               PROVE  /\ IsFiniteSet(upto(r)) /\ Cardinality(upto(r)) \in Nat
                      /\ Cardinality(upto(r)) <= Cardinality(S)
    OBVIOUS
  <2>1. upto(r) \in SUBSET S  OBVIOUS
  <2> HIDE DEF upto
  <2> QED  BY <2>1, FS_Subset, FS_CardinalityType
<1>2. Cardinality(S) \in Nat  BY FS_CardinalityType
<1>3. \A r \in S : Rank(S, r) = Cardinality(upto(r))  BY DEF Rank
<1>4. \A r \in S : Rank(S, r) \in 1..Cardinality(S)
  <2> SUFFICES ASSUME NEW r \in S PROVE Rank(S, r) \in 1..Cardinality(S)  OBVIOUS
  <2>1. r \in upto(r)  OBVIOUS
  <2> HIDE DEF upto
  <2>2. Cardinality(upto(r)) # 0  BY <1>1, <2>1, FS_EmptySet
  <2> QED  BY <1>1, <1>2, <1>3, <2>2
<1>5. ASSUME NEW q \in S, NEW r \in S, q < r PROVE Rank(S, q) # Rank(S, r)
  <2>1. r \in Nat /\ q \in Nat  OBVIOUS
  <2>2. upto(q) \in SUBSET upto(r)
    <3> SUFFICES ASSUME NEW s \in upto(q) PROVE s \in upto(r)  OBVIOUS
    <3>1. s \in S /\ s <= q /\ s \in Nat  OBVIOUS
    <3> QED  BY <1>5, <2>1, <3>1
  <2>3. r \in upto(r) /\ r \notin upto(q)  BY <1>5, <2>1
  <2>4. IsFiniteSet(upto(r))  BY <1>1
  <2> HIDE DEF upto
  <2>5. Cardinality(upto(r)) # Cardinality(upto(q))  BY <2>2, <2>3, <2>4, FS_Subset
  <2> QED  BY <1>3, <2>5
<1>6. \A q, r \in S : Rank(S, q) = Rank(S, r) => q = r
  <2> SUFFICES ASSUME NEW q \in S, NEW r \in S, Rank(S, q) = Rank(S, r), q # r PROVE FALSE
    OBVIOUS
  <2>1. q < r \/ r < q  OBVIOUS
  <2> QED  BY <1>5, <2>1
<1>7. \A k \in 1..Cardinality(S) : \E r \in S : Rank(S, r) = k
  <2> DEFINE f == [r \in S |-> Rank(S, r)]
             T == 1..Cardinality(S)
  <2>1. IsFiniteSet(T) /\ Cardinality(T) = Cardinality(S)
    BY <1>2, FS_Interval
  <2>2. f \in Injection(S, T)  BY <1>4, <1>6 DEF Injection, IsInjective
  <2> HIDE DEF T
  <2>3. f \in Surjection(S, T)
    <3> HIDE DEF f
    <3> QED  BY <2>1, <2>2, FS_Injection
  <2>4. \A k \in T : \E r \in S : f[r] = k
    <3> HIDE DEF f
    <3> QED  BY <2>3 DEF Surjection
  <2> QED  BY <2>4 DEF T
<1> QED  BY <1>2, <1>4, <1>6, <1>7

\* The code of job i is pushed: a build of its request is queued, and a plan for each
\* request whose plan is stale.
LEMMA Pushed ==
  ASSUME StudioInv, NEW i \in Ids, CodePushed(i)
  PROVE  /\ JobsTyped' /\ HandlersTyped' /\ HandlersHaveBranches'
         /\ EndsAs(i, "done")
         /\ \A j \in Ids \ {i} : handler'[j] = handler[j]
         /\ \A j \in Ids \ {i} : job[j].st # "none" => job'[j] = job[j]
         /\ \A j \in Ids : job[j].st = "none" =>
              \/ job'[j] = job[j]
              \/ job'[j] = Row(job[i].req, "build") /\ j = n + 1
              \/ \E r \in StalePlans(job[i].req) : job'[j] = Row(r, "plan")
         /\ n + 1 \in Ids /\ job[n + 1].st = "none" /\ handler[n + 1].at = "none"
         /\ job'[n + 1] = Row(job[i].req, "build")
         /\ \A r \in StalePlans(job[i].req) : \E j \in Ids :
              job[j].st = "none" /\ job'[j] = Row(r, "plan")
<1> DEFINE e == job[i].req
           stale == StalePlans(e)
           row == [job[i] EXCEPT !.st = "done"]
           m == Cardinality(stale)
<1>1. /\ job[i] \in Rows /\ e \in Reqs /\ handler[i] \in Handlers
      /\ job[i].phase = "code" /\ handler[i].at = "started"
      /\ job[i].st \in {"running", "failed"}
  BY JobIsTyped DEF CodePushed, At, StudioInv, TypeOK
<1>2. row \in Rows /\ row.phase = "code" /\ row.st = "done"  BY <1>1, NewStateIsTyped
<1>3. IsFiniteSet(stale) /\ stale \subseteq Nat /\ stale \subseteq Reqs
  <2>1. stale \in SUBSET Reqs  BY DEF StalePlans
  <2> HIDE DEF stale
  <2> QED  BY <2>1, StudioConstants, FS_Subset
<1>4. /\ Room(1 + m) /\ n' = n + 1 + m
      /\ job' = [j \in Ids |->
                  IF j = i THEN row
                  ELSE IF j = n + 1 THEN Row(e, "build")
                  ELSE IF \E r \in stale : j = n + 1 + Rank(stale, r)
                       THEN Row(CHOOSE r \in stale : j = n + 1 + Rank(stale, r), "plan")
                       ELSE job[j]]
      /\ handler' = [handler EXCEPT ![i] = NoHandler]
  BY DEF CodePushed, Leave, Rank
<1>5. /\ m \in Nat
      /\ \A r \in stale : Rank(stale, r) \in 1..m
      /\ \A q, r \in stale : Rank(stale, q) = Rank(stale, r) => q = r
      /\ \A k \in 1..m : \E r \in stale : Rank(stale, r) = k
  <2> HIDE DEF stale
  <2> QED  BY <1>3, RankCounts
<1> HIDE DEF row, m, stale, e
<1>6. /\ n \in Nat /\ MaxJobs \in Nat /\ n + 1 + m <= MaxJobs
      /\ \A j \in Ids : j \in Nat /\ j <= MaxJobs /\ (job[j].st = "none" <=> j > n)
  BY <1>4, <1>5, StudioConstants DEF StudioInv, TypeOK, Room, Ids
<1>7. i <= n  BY <1>1, <1>6
<1>8. n + 1 \in Ids /\ job[n + 1].st = "none" /\ handler[n + 1].at = "none" /\ n + 1 # i
  <2>1. n + 1 \in Ids  BY <1>5, <1>6 DEF Ids
  <2> QED  BY <1>6, <1>7, <2>1 DEF StudioInv, TypeOK
<1>9. \A r \in Reqs : Row(r, "plan") \in Rows /\ Row(r, "plan").st = "queued"
                      /\ Row(r, "build") \in Rows /\ Row(r, "build").st = "queued"
  BY RowIsTyped DEF PlanPhases, CodePhases
<1>10. ASSUME NEW j \in Ids \ {i}
       PROVE  /\ j <= n => job'[j] = job[j]
              /\ j = n + 1 => job'[j] = Row(e, "build")
              /\ j > n + 1 /\ j <= n + 1 + m =>
                   \E r \in stale : j = n + 1 + Rank(stale, r) /\ job'[j] = Row(r, "plan")
              /\ j > n + 1 + m => job'[j] = job[j]
  <2>1. j \in Nat  BY <1>6
  <2>2. ASSUME j > n + 1, j <= n + 1 + m
        PROVE  \E r \in stale : j = n + 1 + Rank(stale, r) /\ job'[j] = Row(r, "plan")
    <3>1. j - (n + 1) \in 1..m  BY <1>5, <1>6, <2>1, <2>2
    <3>2. PICK r \in stale : Rank(stale, r) = j - (n + 1)  BY <1>5, <3>1
    <3>3. j = n + 1 + Rank(stale, r)  BY <1>6, <2>1, <3>2
    <3> DEFINE q == CHOOSE s \in stale : j = n + 1 + Rank(stale, s)
    <3>4. q \in stale /\ j = n + 1 + Rank(stale, q)  BY <3>3
    <3>5. job'[j] = Row(q, "plan")
      <4>1. j # i /\ j # n + 1  BY <1>6, <2>2
      <4> QED  BY <1>4, <3>3, <4>1
    <3> HIDE DEF q
    <3> QED  BY <3>4, <3>5
  <2>3. ASSUME j <= n \/ j > n + 1 + m PROVE job'[j] = job[j]
    <3>1. j # n + 1 /\ \A r \in stale : j # n + 1 + Rank(stale, r)
      BY <1>5, <1>6, <2>1, <2>3
    <3> QED  BY <1>4, <3>1
  <2>4. j = n + 1 => job'[j] = Row(e, "build")  BY <1>4
  <2> QED  BY <2>2, <2>3, <2>4
<1>11. job'[i] = row /\ handler'[i] = NoHandler /\ \A j \in Ids \ {i} : handler'[j] = handler[j]
  BY <1>4 DEF StudioInv, TypeOK
<1>12. \A j \in Ids \ {i} : job[j].st # "none" => job'[j] = job[j]
  BY <1>6, <1>10
<1>13. \A j \in Ids : job[j].st = "none" =>
         \/ job'[j] = job[j]
         \/ job'[j] = Row(e, "build") /\ j = n + 1
         \/ \E r \in stale : job'[j] = Row(r, "plan")
  <2> SUFFICES ASSUME NEW j \in Ids, job[j].st = "none"
               PROVE  \/ job'[j] = job[j]
                      \/ job'[j] = Row(e, "build") /\ j = n + 1
                      \/ \E r \in stale : job'[j] = Row(r, "plan")
    OBVIOUS
  <2>1. j \in Ids \ {i} /\ j > n /\ j \in Nat  BY <1>1, <1>6
  <2>2. j = n + 1 \/ (j > n + 1 /\ j <= n + 1 + m) \/ j > n + 1 + m  BY <1>5, <1>6, <2>1
  <2> QED  BY <1>10, <2>1, <2>2
<1>14. \A r \in stale : \E j \in Ids : job[j].st = "none" /\ job'[j] = Row(r, "plan")
  <2> SUFFICES ASSUME NEW r \in stale
               PROVE  \E j \in Ids : job[j].st = "none" /\ job'[j] = Row(r, "plan")
    OBVIOUS
  <2> DEFINE j == n + 1 + Rank(stale, r)
  <2>1. j > n + 1 /\ j <= n + 1 + m /\ j \in Nat  BY <1>5, <1>6
  <2>2. j \in Ids \ {i}  BY <1>5, <1>6, <1>7, <2>1 DEF Ids
  <2>3. PICK q \in stale : j = n + 1 + Rank(stale, q) /\ job'[j] = Row(q, "plan")
    <3> HIDE DEF j
    <3> QED  BY <1>10, <2>1, <2>2
  <2>4. Rank(stale, q) = Rank(stale, r)  BY <1>5, <1>6, <2>3
  <2>5. q = r  BY <1>5, <2>4
  <2>6. job[j].st = "none"  BY <1>6, <2>1, <2>2
  <2> QED  BY <2>2, <2>3, <2>5, <2>6
<1>15. JobsTyped'
  <2>1. n' \in 0..MaxJobs  BY <1>4, <1>5, <1>6
  <2>2. \A j \in Ids : job'[j] \in Rows
    BY <1>1, <1>2, <1>3, <1>9, <1>11, <1>12, <1>13, JobIsTyped DEF StudioInv
  <2>3. job' \in [Ids -> Rows]  BY <1>4, <2>2
  <2>4. ASSUME NEW j \in Ids \ {i} PROVE job'[j].st = "none" <=> j > n'
    <3>1. j \in Nat /\ n' = n + 1 + m /\ (job[j].st = "none" <=> j > n)  BY <1>4, <1>6
    <3>2. CASE j <= n
      <4>1. job'[j] = job[j]  BY <1>10, <3>2
      <4> QED  BY <1>5, <1>6, <3>1, <3>2, <4>1
    <3>3. CASE j > n /\ j <= n + 1 + m
      <4>1. job'[j].st = "queued"
        <5>1. CASE j = n + 1  BY <1>1, <1>9, <1>10, <5>1
        <5>2. CASE j > n + 1
          <6>1. PICK r \in stale : job'[j] = Row(r, "plan")  BY <1>10, <3>3, <5>2
          <6> QED  BY <1>3, <1>9, <6>1
        <5> QED  BY <1>6, <3>1, <3>3, <5>1, <5>2
      <4> QED  BY <1>5, <1>6, <3>1, <3>3, <4>1
    <3>4. CASE j > n + 1 + m
      <4>1. job'[j] = job[j]  BY <1>10, <3>4
      <4> QED  BY <1>5, <1>6, <3>1, <3>4, <4>1
    <3> QED  BY <1>5, <1>6, <3>1, <3>2, <3>3, <3>4
  <2>5. ~(i > n') /\ job'[i].st # "none"
    BY <1>2, <1>4, <1>5, <1>6, <1>7, <1>11
  <2> QED  BY <2>1, <2>3, <2>4, <2>5 DEF JobsTyped
<1>16. \A j \in Ids : handler'[j].at # "none" =>
         j # i /\ handler'[j] = handler[j] /\ job'[j] = job[j] /\ handler[j].at # "none"
  <2>1. \A j \in Ids : handler[j].at # "none" => job[j].st # "none"  BY DEF StudioInv, TypeOK
  <2> QED  BY <1>11, <1>12, <2>1, NoHandlerIsTyped
<1>17. HandlersTyped'
  <2>1. handler' \in [Ids -> Handlers]
    BY <1>4, NoHandlerIsTyped DEF StudioInv, TypeOK
  <2> QED  BY <1>16, <2>1 DEF HandlersTyped, StudioInv, TypeOK
<1>18. HandlersHaveBranches'  BY <1>16 DEF HandlersHaveBranches, Active, StudioInv
<1>19. EndsAs(i, "done")  BY <1>11 DEF EndsAs, row
<1>20. job'[n + 1] = Row(e, "build")  BY <1>4, <1>8
<1> QED  BY <1>8, <1>11, <1>12, <1>13, <1>14, <1>15, <1>17, <1>18, <1>19, <1>20 DEF e, stale

-----------------------------------------------------------------------------
(* Types *)

\* The parts again.
LEMMA StudioParts ==
  /\ RequestsTyped /\ JobsTyped /\ HandlersTyped /\ HandlersHaveBranches => StudioInv
  /\ RequestsTyped' /\ JobsTyped' /\ HandlersTyped' /\ HandlersHaveBranches' => StudioInv'
BY DEF StudioInv, TypeOK, RequestsTyped, JobsTyped, HandlersTyped

LEMMA ActiveHasEnded ==
  ASSUME StudioInv, NEW i \in Ids, handler[i].at # "none"
  PROVE  job[i].st \in {"running", "failed"} /\ job[i].req \in Reqs /\ job[i] \in Rows
BY JobIsTyped DEF StudioInv, TypeOK

LEMMA StudioStart == Init => StudioInv
<1> SUFFICES ASSUME Init PROVE StudioInv  OBVIOUS
<1> DEFINE first == CHOOSE e \in Reqs : TRUE
<1>1. first \in Reqs  BY StudioConstants
<1>2. /\ NoHandler \in Handlers
      /\ 0 \in 0..MaxJobs /\ 0 \in 0..MaxAsks /\ 0 \in 0..MaxCrashes
  BY NoHandlerIsTyped, StudioConstants
<1>3. RequestsTyped
  BY <1>2 DEF Init, RequestsTyped, Statuses, ByHand, InWork
<1> DEFINE row == [req |-> first, phase |-> "plan", st |-> "none"]
<1>4. row \in Rows /\ row.st = "none"  BY <1>1 DEF Rows, PlanPhases
<1>5. job = [i \in Ids |-> row] /\ n = 0  BY DEF Init
<1> HIDE DEF row, first
<1>6. JobsTyped
  <2>1. \A i \in Ids : i > 0  BY StudioConstants DEF Ids
  <2> QED  BY <1>2, <1>4, <1>5, <2>1 DEF JobsTyped
<1>7. HandlersTyped /\ HandlersHaveBranches
  BY <1>2, NoHandlerIsTyped DEF Init, HandlersTyped, HandlersHaveBranches, Active
<1> QED  BY <1>3, <1>6, <1>7, StudioParts

\* Two jobs of requests: what a job that fails leaves.
LEMMA JobFailsTypes ==
  ASSUME StudioInv, NEW i \in Ids, job[i].st # "none", JobFails(i)
  PROVE  StudioInv' /\ EndsAs(i, "failed") /\ Same({i})
<1>1. job' = Finished(i, "failed") /\ Leave(i) /\ n' = n  BY DEF JobFails
<1>2. JobsTyped' /\ HandlersTyped' /\ HandlersHaveBranches' /\ EndsAs(i, "failed") /\ Same({i})
  BY <1>1, Ended
<1>3. job[i].req \in Reqs  BY JobIsTyped DEF StudioInv
<1>4. RequestsTyped'
  BY <1>3 DEF JobFails, SetStatus, RequestsTyped, StudioInv, TypeOK, Statuses, ByHand, bounds, history
<1> QED  BY <1>2, <1>4, StudioParts

\* A claimed job has a handler, or has failed.
LEMMA ClaimTypes ==
  ASSUME StudioInv, NEW i \in Ids, NEW phases \in {PlanPhases, CodePhases}, Claim(i, phases)
  PROVE  /\ StudioInv' /\ job[i].st = "queued" /\ Same({i})
         /\ \/ JobFails(i) /\ EndsAs(i, "failed")
            \/ /\ Ready(i)
               /\ job'[i] = [job[i] EXCEPT !.st = "running"] /\ handler'[i].at = "started"
               /\ job[i].phase \in {"build", "open_pr"} => handler'[i].branch = branch[job[i].req]
               /\ status' \in {status, [status EXCEPT ![job[i].req] = "coding"],
                               [status EXCEPT ![job[i].req] = "building"]}
               /\ UNCHANGED <<planned, auto, branch, n, recoding, bounds, history>>
<1> DEFINE e == job[i].req
           b == IF job[i].phase = "code" THEN Attempt(i) ELSE branch[e]
           mode == job[i].phase = "build" /\ e \in auto
<1>1. /\ Free(phases) /\ job[i].st = "queued" /\ job[i].phase \in phases
      /\ e \in Reqs /\ job[i].phase \in PlanPhases \cup CodePhases
  BY JobIsTyped DEF Claim, Claimable, StudioInv
<1>2. CASE ~Ready(i)
  <2>1. JobFails(i)  BY <1>2 DEF Claim
  <2> QED  BY <1>1, <2>1, JobFailsTypes
<1>3. CASE Ready(i)
  <2>1. /\ job' = [job EXCEPT ![i].st = "running"]
        /\ handler' = [handler EXCEPT ![i] = [at |-> "started", branch |-> b, auto |-> mode]]
        /\ status' \in {status, [status EXCEPT ![e] = "coding"], [status EXCEPT ![e] = "building"]}
        /\ UNCHANGED <<planned, auto, branch, n, recoding, bounds, history>>
    BY <1>3 DEF Claim, SetStatus
  <2>2. b \in 0..MaxJobs /\ (job[i].phase \in CodePhases => b # 0)
    <3>1. Attempt(i) \in 1..MaxJobs  BY AttemptIsABranch
    <3>2. branch[e] \in 0..MaxJobs  BY <1>1 DEF StudioInv, TypeOK
    <3>3. MaxJobs \in Nat  BY StudioConstants
    <3> HIDE DEF e
    <3> QED  BY <1>3, <3>1, <3>2, <3>3 DEF Ready, CodePhases, PlanPhases, e
  <2>3. mode \in BOOLEAN  OBVIOUS
  <2>4. job[i].phase \in {"build", "open_pr"} => b = branch[e]  OBVIOUS
  <2> HIDE DEF b, mode
  <2>5. /\ JobsTyped' /\ HandlersTyped' /\ HandlersHaveBranches'
        /\ job'[i] = [job[i] EXCEPT !.st = "running"]
        /\ handler'[i].at = "started" /\ handler'[i].branch = b /\ Same({i})
    <3>1. n' = n  BY <2>1
    <3> QED  BY <1>1, <2>1, <2>2, <2>3, <3>1, Claimed
  <2>6. RequestsTyped'
    BY <1>1, <2>1 DEF RequestsTyped, StudioInv, TypeOK, Statuses, ByHand, InWork, bounds, history
  <2> QED  BY <1>1, <1>3, <2>1, <2>4, <2>5, <2>6, StudioParts
<1> QED  BY <1>2, <1>3

\* The steps of a handler.
LEMMA HandlerTypes ==
  ASSUME StudioInv, NEW i \in Ids, HandlerStep(i)
  PROVE  StudioInv'
<1>0. CodePhases = {"code", "build", "open_pr"} /\ PlanPhases = {"plan", "revise_plan"}
  BY DEF CodePhases, PlanPhases
<1>a. handler[i].at # "none"
  BY DEF HandlerStep, PlanEnds, CodeChangesNothing, CodePushConflicts, CodePushed, BuildEnds,
         PrOpens, PrMerges, PrDeploys, HandlerFails, At
<1>b. /\ job[i].st \in {"running", "failed"} /\ job[i].req \in Reqs
      /\ handler[i] \in Handlers /\ handler[i].branch \in 0..MaxJobs
      /\ job[i].phase \in CodePhases => handler[i].branch \in 1..MaxJobs
  <2>1. handler[i] \in Handlers /\ job[i].st \in {"running", "failed"} /\ job[i].req \in Reqs
    BY <1>a, ActiveHasEnded, JobIsTyped DEF StudioInv
  <2>2. handler[i].branch \in 0..MaxJobs  BY <2>1 DEF Handlers
  <2>3. job[i].phase \in CodePhases => handler[i].branch # 0
    BY <1>a DEF StudioInv, HandlersHaveBranches, Active
  <2> QED  BY <2>1, <2>2, <2>3, StudioConstants
<1> USE DEF SetStatus, RequestsTyped, Statuses, ByHand, InWork, bounds, history, request
<1>1. CASE PlanEnds(i)
  <2>1. job' = Finished(i, "done") /\ Leave(i) /\ n' = n  BY <1>1 DEF PlanEnds
  <2>2. RequestsTyped'  BY <1>1, <1>b DEF PlanEnds, StudioInv, TypeOK
  <2> QED  BY <1>b, <2>1, <2>2, Ended, StudioParts
<1>2. CASE CodeChangesNothing(i)
  <2>1. job' = Finished(i, "done") /\ Leave(i) /\ n' = n  BY <1>2 DEF CodeChangesNothing
  <2>2. RequestsTyped'  BY <1>2, <1>b DEF CodeChangesNothing, StudioInv, TypeOK
  <2> QED  BY <1>b, <2>1, <2>2, Ended, StudioParts
<1>3. CASE CodePushConflicts(i)
  <2>1. Insert(Finished(i, "done"), job[i].req, "revise_plan") /\ Leave(i)
    BY <1>3 DEF CodePushConflicts
  <2>2. RequestsTyped'  BY <1>3, <1>b DEF CodePushConflicts, StudioInv, TypeOK
  <2> QED  BY <1>0, <1>b, <2>1, <2>2, EndedAndInserted, StudioParts
<1>4. CASE CodePushed(i)
  <2>1. RequestsTyped'
    <3> DEFINE stale == StalePlans(job[i].req)
    <3>1. /\ status' = [r \in Reqs |-> IF r = job[i].req THEN "pushing"
                                       ELSE IF r \in stale THEN "planning" ELSE status[r]]
          /\ planned' = planned \ stale
          /\ branch' = [branch EXCEPT ![job[i].req] = handler[i].branch]
          /\ UNCHANGED <<auto, recoding, bounds, history>>
      BY <1>4 DEF CodePushed
    <3> HIDE DEF stale
    <3> QED  BY <1>b, <3>1 DEF StudioInv, TypeOK
  <2> QED  BY <1>4, <2>1, Pushed, StudioParts
<1>5. CASE BuildEnds(i)
  <2>1. job[i].phase = "build"  BY <1>5 DEF BuildEnds, At
  <2>2. RequestsTyped'
    <3>1. handler[i].branch \in 1..MaxJobs  BY <1>0, <1>b, <2>1
    <3>2. /\ status' = [status EXCEPT ![job[i].req] = "sandbox_ready"]
          /\ built' = [built EXCEPT ![job[i].req] = @ \cup {handler[i].branch}]
          /\ UNCHANGED <<planned, auto, branch, recoding, bounds, merged, consent, hasty, rejected>>
      BY <1>5 DEF BuildEnds
    <3> QED  BY <1>b, <3>1, <3>2 DEF StudioInv, TypeOK
  <2>3. JobsTyped' /\ HandlersTyped' /\ HandlersHaveBranches'
    <3>1. CASE handler[i].auto
      <4>1. Insert(Finished(i, "done"), job[i].req, "open_pr") /\ Leave(i)
        BY <1>5, <3>1 DEF BuildEnds
      <4> QED  BY <1>0, <1>b, <4>1, EndedAndInserted
    <3>2. CASE ~handler[i].auto
      <4>1. job' = Finished(i, "done") /\ Leave(i) /\ n' = n
        BY <1>5, <3>2 DEF BuildEnds
      <4> QED  BY <1>b, <4>1, Ended
    <3> QED  BY <3>1, <3>2
  <2> QED  BY <2>2, <2>3, StudioParts
<1>6. CASE PrOpens(i)
  <2>1. handler' = [handler EXCEPT ![i].at = "opened"] /\ job' = job /\ n' = n
    BY <1>6 DEF PrOpens
  <2>2. RequestsTyped'  BY <1>6, <1>b DEF PrOpens, StudioInv, TypeOK
  <2> QED  BY <1>a, <2>1, <2>2, Advanced, StudioParts
<1>7. CASE PrMerges(i)
  <2>1. handler' = [handler EXCEPT ![i].at = "merged"] /\ job' = job /\ n' = n
    BY <1>7 DEF PrMerges
  <2>2. RequestsTyped'
    <3>1. handler[i].branch \in 1..MaxJobs  BY <1>0, <1>7, <1>b DEF PrMerges, At
    <3> QED  BY <1>7, <1>b, <3>1 DEF PrMerges, StudioInv, TypeOK
  <2> QED  BY <1>a, <2>1, <2>2, Advanced, StudioParts
<1>8. CASE PrDeploys(i)
  <2>1. job' = Finished(i, "done") /\ Leave(i) /\ n' = n  BY <1>8 DEF PrDeploys
  <2>2. RequestsTyped'  BY <1>8, <1>b DEF PrDeploys, StudioInv, TypeOK
  <2> QED  BY <1>b, <2>1, <2>2, Ended, StudioParts
<1>9. CASE HandlerFails(i)
  BY <1>9, <1>b, JobFailsTypes DEF HandlerFails
<1> QED  BY <1>1, <1>2, <1>3, <1>4, <1>5, <1>6, <1>7, <1>8, <1>9 DEF HandlerStep

\* What an operator asks for leaves everything typed.
LEMMA AskTypes ==
  ASSUME StudioInv, NEW e \in Reqs, Asked(e)
  PROVE  StudioInv'
<1>0. CodePhases = {"code", "build", "open_pr"} /\ PlanPhases = {"plan", "revise_plan"}
  BY DEF CodePhases, PlanPhases
<1> USE DEF SetStatus, RequestsTyped, Statuses, InWork, bounds, history, request, Ask
<1>a. asks \in Nat /\ MaxAsks \in Nat /\ (asks < MaxAsks => asks + 1 \in 0..MaxAsks)
  BY StudioConstants DEF StudioInv, TypeOK
<1>1. ASSUME NEW phase \in PlanPhases \cup CodePhases, Insert(job, e, phase), handler' = handler
      PROVE  JobsTyped' /\ HandlersTyped' /\ HandlersHaveBranches'
  BY <1>1, Inserted
<1>2. ASSUME UNCHANGED <<n, job, handler>>
      PROVE  JobsTyped' /\ HandlersTyped' /\ HandlersHaveBranches'
  BY <1>2 DEF JobsTyped, HandlersTyped, HandlersHaveBranches, Active, StudioInv, TypeOK
<1>3. CASE Plan(e)
  <2>1. RequestsTyped'  BY <1>3, <1>a DEF Plan, StudioInv, TypeOK
  <2>2. JobsTyped' /\ HandlersTyped' /\ HandlersHaveBranches'
    BY <1>0, <1>1, <1>3 DEF Plan
  <2> QED  BY <2>1, <2>2, StudioParts
<1>4. CASE ApprovePlan(e)
  <2>1. RequestsTyped'  BY <1>4, <1>a DEF ApprovePlan, StudioInv, TypeOK
  <2>2. JobsTyped' /\ HandlersTyped' /\ HandlersHaveBranches'
    BY <1>0, <1>1, <1>4 DEF ApprovePlan
  <2> QED  BY <2>1, <2>2, StudioParts
<1>5. CASE PlanFeedback(e)
  <2>1. RequestsTyped'  BY <1>5, <1>a DEF PlanFeedback, StudioInv, TypeOK
  <2>2. JobsTyped' /\ HandlersTyped' /\ HandlersHaveBranches'
    BY <1>0, <1>1, <1>5 DEF PlanFeedback
  <2> QED  BY <2>1, <2>2, StudioParts
<1>6. CASE Redo(e)
  <2>1. RequestsTyped'
    <3>1. branch' \in [Reqs -> 0..MaxJobs]
      BY <1>6, StudioConstants DEF Redo, StudioInv, TypeOK
    <3> QED  BY <1>6, <1>a, <3>1 DEF Redo, StudioInv, TypeOK
  <2>2. JobsTyped' /\ HandlersTyped' /\ HandlersHaveBranches'
    BY <1>0, <1>1, <1>6 DEF Redo
  <2> QED  BY <2>1, <2>2, StudioParts
<1>7. CASE RecodeBegins(e)
  <2>1. RequestsTyped'  BY <1>7, <1>a DEF RecodeBegins, StudioInv, TypeOK
  <2>2. JobsTyped' /\ HandlersTyped' /\ HandlersHaveBranches'
    BY <1>2, <1>7 DEF RecodeBegins
  <2> QED  BY <2>1, <2>2, StudioParts
<1>8. CASE RecodeEnds(e)
  <2>1. RequestsTyped'
    BY <1>8, StudioConstants DEF RecodeEnds, StudioInv, TypeOK
  <2>2. JobsTyped' /\ HandlersTyped' /\ HandlersHaveBranches'
    BY <1>0, <1>1, <1>8 DEF RecodeEnds
  <2> QED  BY <2>1, <2>2, StudioParts
<1>9. CASE ApproveSandbox(e)
  <2>1. RequestsTyped'
    <3>1. 1 \in 0..MaxJobs
      BY <1>9, StudioConstants DEF ApproveSandbox, Insert, Room, StudioInv, TypeOK
    <3> QED  BY <1>9, <1>a, <3>1 DEF ApproveSandbox, StudioInv, TypeOK
  <2>2. JobsTyped' /\ HandlersTyped' /\ HandlersHaveBranches'
    BY <1>0, <1>1, <1>9 DEF ApproveSandbox
  <2> QED  BY <2>1, <2>2, StudioParts
<1>10. CASE MarkDone(e)
  <2>1. RequestsTyped'  BY <1>10, <1>a DEF MarkDone, ByHand, StudioInv, TypeOK
  <2>2. JobsTyped' /\ HandlersTyped' /\ HandlersHaveBranches'
    BY <1>2, <1>10 DEF MarkDone
  <2> QED  BY <2>1, <2>2, StudioParts
<1>12. CASE SetByHand(e)
  <2>1. RequestsTyped'  BY <1>12, <1>a DEF SetByHand, StudioInv, TypeOK
  <2>2. JobsTyped' /\ HandlersTyped' /\ HandlersHaveBranches'
    BY <1>2, <1>12 DEF SetByHand
  <2> QED  BY <2>1, <2>2, StudioParts
<1>11. CASE Reject(e)
  <2>1. RequestsTyped'  BY <1>11, <1>a DEF Reject, ByHand, StudioInv, TypeOK
  <2>2. JobsTyped' /\ HandlersTyped' /\ HandlersHaveBranches'
    BY <1>11, Marked DEF Reject, Stopped, Open
  <2> QED  BY <2>1, <2>2, StudioParts
<1> QED
  BY <1>3, <1>4, <1>5, <1>6, <1>7, <1>8, <1>9, <1>10, <1>11, <1>12 DEF Asked

LEMMA RetryTypes ==
  ASSUME StudioInv, NEW i \in Ids, Retry(i)
  PROVE  StudioInv'
<1>1. /\ job[i].req \in Reqs /\ job[i].phase \in PlanPhases \cup CodePhases
      /\ Insert(job, job[i].req, job[i].phase) /\ handler' = handler /\ Ask(job[i].req)
  BY JobIsTyped DEF Retry, Ask, StudioInv
<1>2. asks + 1 \in 0..MaxAsks  BY <1>1, StudioConstants DEF Ask, StudioInv, TypeOK
<1>3. RequestsTyped'
  BY <1>1, <1>2 DEF Retry, Ask, SetStatus, RequestsTyped, Statuses, ByHand, InWork, StudioInv, TypeOK
<1> QED  BY <1>1, <1>3, Inserted, StudioParts

\* Some number of a set of ids is the greatest.
LEMMA GreatestId ==
  ASSUME NEW S, S \subseteq Ids, S # {}
  PROVE  \E i \in S : \A j \in S : j <= i
<1> DEFINE above == {k \in Nat : \A j \in S : j <= k}
<1>1. S \subseteq Nat /\ MaxJobs \in above  BY StudioConstants DEF Ids
<1>2. PICK k \in above : \A m \in above : k <= m
  <2> DEFINE R == OpToRel(<, Nat)
  <2>1. above \subseteq Nat /\ above # {}  BY <1>1
  <2>2. IsWellFoundedOn(R, Nat)  BY NatLessThanWellFounded
  <2> HIDE DEF above, R
  <2>3. PICK k \in above : \A m \in above : ~(<<m, k>> \in R)  BY <2>1, <2>2, WFMin
  <2>4. ASSUME NEW m \in above PROVE k <= m
    <3>1. m \in Nat /\ k \in Nat  BY <2>1
    <3>2. ~(m < k)  BY <2>3, <3>1 DEF R, OpToRel
    <3> QED  BY <3>1, <3>2
  <2> QED  BY <2>4
<1>3. k \in S
  <2> SUFFICES ASSUME k \notin S PROVE FALSE  OBVIOUS
  <2>1. \A j \in S : j < k
    <3> SUFFICES ASSUME NEW j \in S PROVE j < k  OBVIOUS
    <3>1. j \in Nat /\ k \in Nat /\ j <= k /\ j # k  BY <1>1, <1>2
    <3> QED  BY <3>1
  <2>2. k - 1 \in Nat
    <3>1. PICK j \in S : TRUE  OBVIOUS
    <3>2. j \in Nat /\ j < k /\ k \in Nat  BY <1>1, <1>2, <2>1
    <3> QED  BY <3>2
  <2>3. \A j \in S : j <= k - 1
    <3>1. \A j \in S : j \in Nat  BY <1>1
    <3> QED  BY <1>2, <2>1, <3>1
  <2>4. k - 1 \in above /\ ~(k <= k - 1)  BY <1>2, <2>2, <2>3
  <2> QED  BY <1>2, <2>4
<1> QED  BY <1>2, <1>3

LEMMA PhaseStatusIsTyped ==
  \A phase \in PlanPhases \cup CodePhases : PhaseStatus(phase) \in Statuses
BY DEF PhaseStatus, PlanPhases, CodePhases, Statuses, ByHand, InWork

\* After a restart nobody works on a job, and orphans are queued again.
LEMMA RestartTypes ==
  ASSUME StudioInv, Restart
  PROVE  /\ StudioInv' /\ \A i \in Ids : handler'[i] = NoHandler
         /\ \E alive \in SUBSET MayBeAlive :
              /\ \A i \in Ids :
                   /\ job'[i].req = job[i].req /\ job'[i].phase = job[i].phase
                   /\ job'[i].st = IF i \in Orphans(alive) THEN "queued" ELSE job[i].st
              /\ \A e \in Reqs : status'[e] = status[e]
                                 \/ \E i \in Orphans(alive) : job[i].req = e
              /\ \/ branch' = branch
                 \/ \E i \in Orphans(alive) :
                      /\ At(i, {"code"}, "started")
                      /\ branch' = [branch EXCEPT ![job[i].req] = handler[i].branch]
<1>1. PICK alive \in SUBSET MayBeAlive :
        LET orphans == Orphans(alive)
            last(e) == CHOOSE i \in orphans :
                         /\ job[i].req = e
                         /\ \A j \in orphans : job[j].req = e => j <= i
        IN  /\ job' = [i \in Ids |-> IF i \in orphans THEN [job[i] EXCEPT !.st = "queued"]
                                     ELSE job[i]]
            /\ status' = [e \in Reqs |->
                           IF \E i \in orphans : job[i].req = e
                           THEN PhaseStatus(job[last(e)].phase) ELSE status[e]]
            /\ \/ UNCHANGED branch
               \/ \E i \in orphans :
                    /\ At(i, {"code"}, "started")
                    /\ branch' = [branch EXCEPT ![job[i].req] = handler[i].branch]
  BY DEF Restart
<1> DEFINE orphans == Orphans(alive)
           last(e) == CHOOSE i \in orphans :
                        /\ job[i].req = e
                        /\ \A j \in orphans : job[j].req = e => j <= i
<1>2. orphans \in SUBSET Ids /\ \A i \in orphans : job[i].st \in {"queued", "running"}
  BY DEF Orphans
<1>3. /\ JobsTyped' /\ HandlersTyped' /\ HandlersHaveBranches'
      /\ \A i \in Ids : /\ job'[i].req = job[i].req /\ job'[i].phase = job[i].phase
                        /\ job'[i].st = IF i \in orphans THEN "queued" ELSE job[i].st
  <2>1. n' = n /\ handler' = [i \in Ids |-> NoHandler]  BY DEF Restart
  <2>2. job' = [i \in Ids |-> IF i \in orphans THEN [job[i] EXCEPT !.st = "queued"] ELSE job[i]]
    BY <1>1
  <2> HIDE DEF orphans
  <2> QED  BY <1>2, <2>1, <2>2, Marked
<1>4. ASSUME NEW e \in Reqs, \E i \in orphans : job[i].req = e
      PROVE  last(e) \in Ids
  <2> DEFINE mine == {i \in orphans : job[i].req = e}
             k == MaxJobs
  <2>1. mine \subseteq Ids /\ mine # {}  BY <1>2, <1>4
  <2>2. \E i \in mine : \A j \in mine : j <= i
    <3> HIDE DEF mine
    <3> QED  BY <2>1, GreatestId
  <2>3. \E i \in orphans : job[i].req = e /\ \A j \in orphans : job[j].req = e => j <= i
    BY <2>2
  <2>4. last(e) \in orphans
    <3> HIDE DEF orphans
    <3> QED  BY <2>3
  <2> QED  BY <1>2, <2>4
<1>5. status' \in [Reqs -> Statuses]
  <2>1. \A e \in Reqs : (\E i \in orphans : job[i].req = e) =>
                          PhaseStatus(job[last(e)].phase) \in Statuses
    <3> SUFFICES ASSUME NEW e \in Reqs, \E i \in orphans : job[i].req = e
                 PROVE  PhaseStatus(job[last(e)].phase) \in Statuses
      OBVIOUS
    <3>1. last(e) \in Ids  BY <1>4
    <3> HIDE DEF last, orphans
    <3> QED  BY <3>1, JobIsTyped, PhaseStatusIsTyped DEF StudioInv
  <2>2. status' = [e \in Reqs |-> IF \E i \in orphans : job[i].req = e
                                  THEN PhaseStatus(job[last(e)].phase) ELSE status[e]]
    BY <1>1
  <2> HIDE DEF last, orphans
  <2> QED  BY <2>1, <2>2 DEF StudioInv, TypeOK
<1>6. branch' \in [Reqs -> 0..MaxJobs]
  BY <1>1, <1>2, JobIsTyped DEF StudioInv, TypeOK, Handlers
<1>7. RequestsTyped'
  <2>1. crashes' \in 0..MaxCrashes  BY StudioConstants DEF Restart, StudioInv, TypeOK
  <2> QED  BY <1>5, <1>6, <2>1 DEF Restart, RequestsTyped, history, StudioInv, TypeOK
<1>8. \A i \in Ids : handler'[i] = NoHandler  BY DEF Restart
<1>9. \A e \in Reqs : status'[e] = status[e] \/ \E i \in orphans : job[i].req = e
  BY <1>1
<1> QED  BY <1>1, <1>3, <1>7, <1>8, <1>9, StudioParts

\* The tables keep their types, and handlers their branches, in every step.
LEMMA StudioStep == StudioInv /\ [Next]_vars => StudioInv'
<1> SUFFICES ASSUME StudioInv, [Next]_vars PROVE StudioInv'  OBVIOUS
<1>1. CASE UNCHANGED vars
  BY <1>1 DEF vars, request, bounds, history, StudioInv, TypeOK, HandlersHaveBranches, Active
<1> QED
  BY <1>1, HandlerTypes, RetryTypes, ClaimTypes, AskTypes, RestartTypes DEF Next, AtRest

THEOREM StudioInvariant == Spec => []StudioInv
BY StudioStart, StudioStep, PTL DEF Spec

\* worker.js and the routes: the job table, the handlers of this process and the
\* requests keep their types, and at most one handler codes, builds or merges.
THEOREM StudioTypes == Spec => []TypeOK
<1>1. StudioInv => TypeOK  BY DEF StudioInv
<1> QED  BY <1>1, StudioInvariant, PTL

-----------------------------------------------------------------------------
(* What the steps do, as far as the safety properties tell *)

\* Some other state than the two of an open job.
EndedStates == {"done", "failed"}

\* A step of job i's handler, other than a push: its request alone changes.
OwnStep(i) ==
  LET e == job[i].req
  IN  /\ branch' = branch
      /\ \A r \in Reqs \ {e} : /\ status'[r] = status[r]
                               /\ built'[r] = built[r] /\ merged'[r] = merged[r]
      /\ built[e] \subseteq built'[e]
      /\ \/ /\ PrOpens(i) \/ PrMerges(i)
            /\ job' = job /\ Same({i}) /\ status'[e] \notin InWork
            /\ handler'[i].at \in {"opened", "merged"}
            /\ handler'[i].branch = handler[i].branch
         \/ /\ \E st \in EndedStates : EndsAs(i, st)
            /\ Same({i}) /\ merged' = merged
            /\ status'[e] \notin InWork \/ (status' = status /\ handler[i].at = "merged")
         \/ /\ EndsAs(i, "done") /\ Adds(e, "revise_plan") /\ Same({i, n + 1}) /\ i # n + 1
            /\ merged' = merged
         \/ /\ EndsAs(i, "done") /\ Adds(e, "open_pr") /\ Same({i, n + 1}) /\ i # n + 1
            /\ merged' = merged /\ status'[e] \notin InWork
            /\ job[i].phase = "build" /\ built'[e] = built[e] \cup {handler[i].branch}

LEMMA HandlerEffect ==
  ASSUME StudioInv, NEW i \in Ids, HandlerStep(i)
  PROVE  /\ handler[i].at # "none" /\ job[i].req \in Reqs
         /\ job[i].st \in {"running", "failed"}
         /\ UNCHANGED <<recoding, consent, hasty, rejected>>
         /\ CodePushed(i) \/ OwnStep(i)
<1> DEFINE e == job[i].req
<1>0. CodePhases = {"code", "build", "open_pr"} /\ PlanPhases = {"plan", "revise_plan"}
  BY DEF CodePhases, PlanPhases
<1>a. handler[i].at # "none"
  BY DEF HandlerStep, PlanEnds, CodeChangesNothing, CodePushConflicts, CodePushed, BuildEnds,
         PrOpens, PrMerges, PrDeploys, HandlerFails, At
<1>b. job[i].st \in {"running", "failed"} /\ e \in Reqs /\ job[i].st # "none"
  BY <1>a, ActiveHasEnded
<1>c. UNCHANGED <<recoding, consent, hasty, rejected>>
  BY DEF HandlerStep, PlanEnds, CodeChangesNothing, CodePushConflicts, CodePushed, BuildEnds,
         PrOpens, PrMerges, PrDeploys, HandlerFails, JobFails, history
<1>d. ASSUME NEW s \in Statuses, status' = [status EXCEPT ![e] = s]
      PROVE  status'[e] = s /\ \A r \in Reqs \ {e} : status'[r] = status[r]
  BY <1>b, <1>d DEF StudioInv, TypeOK
<1>e. \A r \in Reqs : built[r] \subseteq built[r]  OBVIOUS
<1> HIDE DEF e
<1>1. CASE PlanEnds(i) \/ CodeChangesNothing(i)
  <2>1. /\ job' = Finished(i, "done") /\ Leave(i) /\ n' = n
        /\ UNCHANGED <<branch, built, merged>>
        /\ \/ status' = [status EXCEPT ![e] = "pending_user_review_plan"]
           \/ status' = [status EXCEPT ![e] = "no_changes_needed"]
    BY <1>1 DEF PlanEnds, CodeChangesNothing, SetStatus, history, e
  <2>2. EndsAs(i, "done") /\ Same({i})  BY <1>b, <2>1, Ended
  <2>3. status'[e] \notin InWork /\ \A r \in Reqs \ {e} : status'[r] = status[r]
    BY <1>b, <2>1 DEF Statuses, ByHand, InWork, StudioInv, TypeOK
  <2>4. OwnStep(i)  BY <1>b, <1>e, <2>1, <2>2, <2>3 DEF OwnStep, EndedStates, e
  <2> QED  BY <1>a, <1>b, <1>c, <2>4 DEF e
<1>2. CASE CodePushConflicts(i)
  <2>1. /\ Insert(Finished(i, "done"), e, "revise_plan") /\ Leave(i)
        /\ UNCHANGED <<branch, built, merged>>
        /\ status' = [status EXCEPT ![e] = "planning"]
    BY <1>2 DEF CodePushConflicts, SetStatus, history, e
  <2>2. EndsAs(i, "done") /\ Adds(e, "revise_plan") /\ Same({i, n + 1}) /\ i # n + 1
    BY <1>0, <1>b, <2>1, EndedAndInserted
  <2>3. \A r \in Reqs \ {e} : status'[r] = status[r]
    BY <1>b, <2>1 DEF StudioInv, TypeOK
  <2>4. OwnStep(i)  BY <1>b, <1>e, <2>1, <2>2, <2>3 DEF OwnStep, e
  <2> QED  BY <1>a, <1>b, <1>c, <2>4 DEF e
<1>3. CASE BuildEnds(i)
  <2>1. /\ UNCHANGED <<branch, merged>> /\ job[i].phase = "build"
        /\ status' = [status EXCEPT ![e] = "sandbox_ready"]
        /\ built' = [built EXCEPT ![e] = @ \cup {handler[i].branch}]
    BY <1>3 DEF BuildEnds, SetStatus, At, e
  <2>2. /\ status'[e] \notin InWork /\ \A r \in Reqs \ {e} : status'[r] = status[r]
        /\ built'[e] = built[e] \cup {handler[i].branch}
        /\ \A r \in Reqs \ {e} : built'[r] = built[r]
    BY <1>b, <2>1 DEF InWork, StudioInv, TypeOK
  <2>3. CASE handler[i].auto
    <3>1. Insert(Finished(i, "done"), e, "open_pr") /\ Leave(i)
      BY <1>3, <2>3 DEF BuildEnds, e
    <3>2. EndsAs(i, "done") /\ Adds(e, "open_pr") /\ Same({i, n + 1}) /\ i # n + 1
      BY <1>0, <1>b, <3>1, EndedAndInserted
    <3>3. OwnStep(i)  BY <2>1, <2>2, <3>2 DEF OwnStep, e
    <3> QED  BY <1>a, <1>b, <1>c, <3>3 DEF e
  <2>4. CASE ~handler[i].auto
    <3>1. job' = Finished(i, "done") /\ Leave(i) /\ n' = n
      BY <1>3, <2>4 DEF BuildEnds
    <3>2. EndsAs(i, "done") /\ Same({i})  BY <1>b, <3>1, Ended
    <3>3. OwnStep(i)  BY <2>1, <2>2, <3>2 DEF OwnStep, EndedStates, e
    <3> QED  BY <1>a, <1>b, <1>c, <3>3 DEF e
  <2> QED  BY <2>3, <2>4
<1>4. CASE PrOpens(i) \/ PrMerges(i)
  <2>1. /\ \E at \in {"opened", "merged"} : handler' = [handler EXCEPT ![i].at = at]
        /\ job' = job /\ n' = n /\ UNCHANGED <<branch, built>>
        /\ \/ status' = [status EXCEPT ![e] = "pr_open"]
           \/ status' = [status EXCEPT ![e] = "merged"]
        /\ merged' = merged \/ merged' = [merged EXCEPT ![e] = @ \cup {handler[i].branch}]
    BY <1>4 DEF PrOpens, PrMerges, SetStatus, history, e
  <2>2. /\ Same({i}) /\ handler'[i].at \in {"opened", "merged"}
        /\ handler'[i].branch = handler[i].branch
    BY <1>a, <2>1, Advanced
  <2>3. /\ status'[e] \notin InWork
        /\ \A r \in Reqs \ {e} : status'[r] = status[r] /\ merged'[r] = merged[r]
    BY <1>b, <2>1 DEF InWork, StudioInv, TypeOK
  <2>4. OwnStep(i)  BY <1>b, <1>e, <1>4, <2>1, <2>2, <2>3 DEF OwnStep, e
  <2> QED  BY <1>a, <1>b, <1>c, <2>4 DEF e
<1>5. CASE PrDeploys(i)
  <2>1. /\ job' = Finished(i, "done") /\ Leave(i) /\ n' = n /\ handler[i].at = "merged"
        /\ UNCHANGED <<status, branch, built, merged>>
    BY <1>5 DEF PrDeploys, At, request, history
  <2>2. EndsAs(i, "done") /\ Same({i})  BY <1>b, <2>1, Ended
  <2>3. OwnStep(i)  BY <1>b, <1>e, <2>1, <2>2 DEF OwnStep, EndedStates, e
  <2> QED  BY <1>a, <1>b, <1>c, <2>3 DEF e
<1>6. CASE HandlerFails(i)
  <2>1. /\ JobFails(i) /\ status' = [status EXCEPT ![e] = "auto_failed"]
        /\ UNCHANGED <<branch, built, merged>>
    BY <1>6 DEF HandlerFails, JobFails, SetStatus, history, e
  <2>2. EndsAs(i, "failed") /\ Same({i})  BY <1>b, <2>1, JobFailsTypes
  <2>3. status'[e] \notin InWork /\ \A r \in Reqs \ {e} : status'[r] = status[r]
    BY <1>b, <2>1 DEF InWork, StudioInv, TypeOK
  <2>4. OwnStep(i)  BY <1>b, <1>e, <2>1, <2>2, <2>3 DEF OwnStep, EndedStates, e
  <2> QED  BY <1>a, <1>b, <1>c, <2>4 DEF e
<1>7. CASE CodePushed(i)  BY <1>7, <1>a, <1>b, <1>c DEF e
<1> QED  BY <1>1, <1>2, <1>3, <1>4, <1>5, <1>6, <1>7 DEF HandlerStep

\* An operator's request for e, and a retry of a job of e: a row of e is inserted; or
\* no job changes; or the open ones of e are failed.
AskStep(e) ==
  /\ \A r \in Reqs \ {e} : status'[r] = status[r] /\ branch'[r] = branch[r]
  /\ UNCHANGED <<handler, built, merged>>
  /\ \/ Ask(e) /\ recoding' \in {recoding, recoding \cup {e}}
     \/ RecodeEnds(e)
     \/ Reject(e)
  /\ \/ /\ \E phase \in PlanPhases \cup CodePhases :
             Adds(e, phase) /\ (phase = "open_pr" => e \in consent')
        /\ Same({n + 1}) /\ recoding' \subseteq recoding
     \/ /\ UNCHANGED <<n, job, branch>> /\ Ask(e)
        /\ status' = status \/ status'[e] \notin InWork
     \/ /\ Reject(e) /\ status'[e] = "done" /\ n' = n
        /\ \A j \in Ids : /\ job'[j].req = job[j].req /\ job'[j].phase = job[j].phase
                          /\ job'[j].st = IF j \in Open(e) THEN "failed" ELSE job[j].st
                          /\ j \notin Open(e) => job'[j] = job[j]
  /\ consent \subseteq consent' /\ consent' \subseteq consent \cup {e}

LEMMA AskEffect ==
  ASSUME StudioInv, NEW e \in Reqs, Asked(e) \/ \E i \in Ids : Retry(i) /\ job[i].req = e
  PROVE  AskStep(e)
<1>0. CodePhases = {"code", "build", "open_pr"} /\ PlanPhases = {"plan", "revise_plan"}
  BY DEF CodePhases, PlanPhases
<1>1. ASSUME NEW phase \in PlanPhases \cup CodePhases, Insert(job, e, phase), handler' = handler
      PROVE  Adds(e, phase) /\ Same({n + 1})
  BY <1>1, Inserted
<1> USE DEF SetStatus, StudioInv, TypeOK, request, history
<1>2. CASE Plan(e) \/ PlanFeedback(e) \/ Redo(e)
  <2>1. \E phase \in PlanPhases : Insert(job, e, phase)
    BY <1>0, <1>2 DEF Plan, PlanFeedback, Redo
  <2>2. /\ \A r \in Reqs \ {e} : status'[r] = status[r] /\ branch'[r] = branch[r]
        /\ UNCHANGED <<handler, built, merged, recoding, consent>> /\ Ask(e)
    BY <1>2 DEF Plan, PlanFeedback, Redo, Ask
  <2>3. \E phase \in PlanPhases : Adds(e, phase) /\ Same({n + 1})  BY <1>1, <2>1, <2>2
  <2> QED  BY <1>0, <2>2, <2>3 DEF AskStep
<1>3. CASE ApprovePlan(e)
  <2>1. Insert(job, e, "code")  BY <1>3 DEF ApprovePlan
  <2>2. /\ \A r \in Reqs \ {e} : status'[r] = status[r] /\ branch'[r] = branch[r]
        /\ UNCHANGED <<handler, built, merged, recoding, consent>> /\ Ask(e)
    BY <1>3 DEF ApprovePlan, Ask
  <2>3. Adds(e, "code") /\ Same({n + 1})  BY <1>0, <1>1, <2>1, <2>2
  <2> QED  BY <1>0, <2>2, <2>3 DEF AskStep
<1>4. CASE RecodeEnds(e)
  <2>1. Insert(job, e, "code")  BY <1>4 DEF RecodeEnds
  <2>2. /\ \A r \in Reqs \ {e} : status'[r] = status[r] /\ branch'[r] = branch[r]
        /\ UNCHANGED <<handler, built, merged, consent>> /\ recoding' \subseteq recoding
    BY <1>4 DEF RecodeEnds
  <2>3. Adds(e, "code") /\ Same({n + 1})  BY <1>0, <1>1, <2>1, <2>2
  <2> QED  BY <1>0, <1>4, <2>2, <2>3 DEF AskStep
<1>5. CASE ApproveSandbox(e)
  <2>1. Insert(job, e, "open_pr")  BY <1>5 DEF ApproveSandbox
  <2>2. /\ \A r \in Reqs \ {e} : status'[r] = status[r] /\ branch'[r] = branch[r]
        /\ UNCHANGED <<handler, built, merged, recoding>> /\ Ask(e)
        /\ consent' = consent \cup {e}
    BY <1>5 DEF ApproveSandbox, Ask
  <2>3. Adds(e, "open_pr") /\ Same({n + 1})  BY <1>0, <1>1, <2>1, <2>2
  <2> QED  BY <1>0, <2>2, <2>3 DEF AskStep
<1>6. CASE RecodeBegins(e) \/ MarkDone(e) \/ SetByHand(e)
  <2>1. /\ UNCHANGED <<handler, built, merged, consent, n, job, branch>> /\ Ask(e)
        /\ recoding' \in {recoding, recoding \cup {e}}
        /\ status' = status \/ \E s \in ByHand : status' = [status EXCEPT ![e] = s]
    BY <1>6 DEF RecodeBegins, MarkDone, SetByHand, Ask, ByHand
  <2>2. /\ status' = status \/ status'[e] \notin InWork
        /\ \A r \in Reqs \ {e} : status'[r] = status[r]
    BY <2>1 DEF ByHand, InWork
  <2> QED  BY <2>1, <2>2 DEF AskStep
<1>7. CASE Reject(e)
  <2>1. /\ UNCHANGED <<handler, built, merged, consent, n, branch>>
        /\ status' = [status EXCEPT ![e] = "done"]
        /\ job' = [j \in Ids |-> IF j \in Open(e) THEN [job[j] EXCEPT !.st = "failed"] ELSE job[j]]
    BY <1>7 DEF Reject, Stopped
  <2>2. Open(e) \in SUBSET Ids /\ \A j \in Open(e) : job[j].st \in {"queued", "running"}
    BY DEF Open
  <2>3. \A j \in Ids : /\ job'[j].req = job[j].req /\ job'[j].phase = job[j].phase
                       /\ job'[j].st = IF j \in Open(e) THEN "failed" ELSE job[j].st
    <3> HIDE DEF StudioInv
    <3> QED  BY <2>1, <2>2, Marked
  <2>4. \A j \in Ids : j \notin Open(e) => job'[j] = job[j]  BY <2>1
  <2> QED  BY <1>7, <2>1, <2>3, <2>4 DEF AskStep
<1>8. CASE \E i \in Ids : Retry(i) /\ job[i].req = e
  <2>1. PICK i \in Ids : Retry(i) /\ job[i].req = e  BY <1>8
  <2>2. job[i].phase \in PlanPhases \cup CodePhases  BY JobIsTyped
  <2>3. Insert(job, e, job[i].phase)  BY <2>1 DEF Retry
  <2>4. /\ \A r \in Reqs \ {e} : status'[r] = status[r] /\ branch'[r] = branch[r]
        /\ UNCHANGED <<handler, built, merged, recoding>> /\ Ask(e)
        /\ consent' = IF job[i].phase = "open_pr" THEN consent \cup {e} ELSE consent
    BY <2>1 DEF Retry, Ask
  <2>5. Adds(e, job[i].phase) /\ Same({n + 1})  BY <1>1, <2>2, <2>3, <2>4
  <2>6. \E phase \in PlanPhases \cup CodePhases :
          Adds(e, phase) /\ (phase = "open_pr" => e \in consent')
    BY <2>2, <2>4, <2>5
  <2> QED  BY <2>4, <2>5, <2>6 DEF AskStep
<1> QED  BY <1>2, <1>3, <1>4, <1>5, <1>6, <1>7, <1>8 DEF Asked

\* Every step that is no restart and no stutter, by the request it is about.
LEMMA StepEffect ==
  ASSUME StudioInv, [Next]_vars
  PROVE  \/ \E i \in Ids : HandlerStep(i)
         \/ \E i \in Ids, phases \in {PlanPhases, CodePhases} : Claim(i, phases)
         \/ \E e \in Reqs : AskStep(e)
         \/ Restart
         \/ UNCHANGED vars
<1>1. ASSUME NEW i \in Ids, Retry(i) PROVE \E e \in Reqs : AskStep(e)
  <2>1. job[i].req \in Reqs  BY JobIsTyped DEF StudioInv
  <2> QED  BY <1>1, <2>1, AskEffect
<1>2. ASSUME NEW e \in Reqs, Asked(e) PROVE AskStep(e)  BY <1>2, AskEffect
<1> QED  BY <1>1, <1>2 DEF Next, AtRest

-----------------------------------------------------------------------------
(* A request in work is worked on *)

\* Job j keeps its request e in work: queued, at its start, or left to a container.
Keeps(j, e) ==
  /\ job[j].req = e
  /\ \/ job[j].st = "queued"
     \/ job[j].st = "running" /\ (handler[j].at = "started" \/ Stranded(j))

WorkInv == \A e \in Reqs : status[e] \in InWork => \E j \in Ids : Keeps(j, e)

LEMMA KeepsOn ==
  ASSUME NEW j \in Ids, NEW e \in Reqs, Keeps(j, e), job'[j] = job[j], handler'[j] = handler[j]
  PROVE  Keeps(j, e)'
BY DEF Keeps, Stranded, Active

LEMMA NewRowKeeps ==
  ASSUME NEW j \in Ids, NEW e \in Reqs, NEW phase \in PlanPhases \cup CodePhases,
         job'[j] = Row(e, phase)
  PROVE  Keeps(j, e)'
BY RowIsTyped DEF Keeps

\* A step that leaves the other requests and their jobs alone keeps them in work.
LEMMA OthersKept ==
  ASSUME StudioInv, WorkInv, NEW e \in Reqs, NEW S \in SUBSET Ids,
         \A j \in S : job[j].req = e \/ job[j].st = "none",
         Same(S), \A r \in Reqs \ {e} : status'[r] = status[r]
  PROVE  \A r \in Reqs \ {e} : status'[r] \in InWork => \E j \in Ids : Keeps(j, r)'
<1> SUFFICES ASSUME NEW r \in Reqs \ {e}, status'[r] \in InWork
             PROVE  \E j \in Ids : Keeps(j, r)'
  OBVIOUS
<1>1. PICK j \in Ids : Keeps(j, r)  BY DEF WorkInv
<1>2. j \notin S  BY <1>1 DEF Keeps
<1>3. job'[j] = job[j] /\ handler'[j] = handler[j]  BY <1>2 DEF Same
<1> QED  BY <1>1, <1>3, KeepsOn

LEMMA WorkStep == StudioInv /\ WorkInv /\ [Next]_vars => WorkInv'
<1> SUFFICES ASSUME StudioInv, WorkInv, [Next]_vars PROVE WorkInv'  OBVIOUS
<1>0. CodePhases = {"code", "build", "open_pr"} /\ PlanPhases = {"plan", "revise_plan"}
  BY DEF CodePhases, PlanPhases
<1>1. ASSUME NEW i \in Ids, HandlerStep(i) PROVE WorkInv'
  <2>0. PICK e \in Reqs : e = job[i].req  BY <1>1, HandlerEffect
  <2>1. e = job[i].req /\ handler[i].at # "none" /\ job[i].st \in {"running", "failed"}
    BY <1>1, <2>0, HandlerEffect
  <2>2. CASE CodePushed(i)
    <3> DEFINE stale == StalePlans(e)
    <3>1. /\ \A j \in Ids \ {i} : handler'[j] = handler[j]
          /\ \A j \in Ids \ {i} : job[j].st # "none" => job'[j] = job[j]
          /\ n + 1 \in Ids /\ job'[n + 1] = Row(e, "build")
          /\ \A r \in stale : \E j \in Ids : job'[j] = Row(r, "plan")
      BY <2>0, <2>2, Pushed
    <3>2. /\ stale \subseteq Reqs
          /\ \A r \in Reqs : r # e /\ r \notin stale => status'[r] = status[r]
      BY <2>0, <2>2 DEF CodePushed, StalePlans
    <3> HIDE DEF stale
    <3>3. ASSUME NEW r \in Reqs, status'[r] \in InWork PROVE \E j \in Ids : Keeps(j, r)'
      <4>1. CASE r = e
        <5>1. PICK j \in Ids : job'[j] = Row(r, "build")  BY <3>1, <4>1
        <5> QED  BY <1>0, <5>1, NewRowKeeps
      <4>2. CASE r \in stale
        <5>1. PICK j \in Ids : job'[j] = Row(r, "plan")  BY <3>1, <4>2
        <5> QED  BY <1>0, <5>1, NewRowKeeps
      <4>3. CASE r # e /\ r \notin stale
        <5>1. PICK j \in Ids : Keeps(j, r)  BY <3>2, <3>3, <4>3 DEF WorkInv
        <5>2. j # i /\ job[j].st # "none"  BY <2>0, <4>3, <5>1 DEF Keeps
        <5> QED  BY <3>1, <5>1, <5>2, KeepsOn
      <4> QED  BY <4>1, <4>2, <4>3
    <3> QED  BY <3>3 DEF WorkInv
  <2>3. CASE OwnStep(i)
    <3>1. \A r \in Reqs \ {e} : status'[r] = status[r]  BY <2>0, <2>3 DEF OwnStep
    <3>2. CASE Same({i}) /\ (status'[e] \notin InWork \/ (status' = status /\ handler[i].at = "merged"))
      <4>1. \A r \in Reqs \ {e} : status'[r] \in InWork => \E j \in Ids : Keeps(j, r)'
        BY <2>1, <3>1, <3>2, OthersKept
      <4>2. ASSUME status'[e] \in InWork PROVE \E j \in Ids : Keeps(j, e)'
        <5>1. PICK j \in Ids : Keeps(j, e)  BY <2>1, <3>2, <4>2 DEF WorkInv
        <5>2. j # i  BY <2>1, <3>2, <4>2, <5>1 DEF Keeps, Stranded, Active
        <5> QED  BY <2>1, <3>2, <5>1, <5>2, KeepsOn DEF Same
      <4> QED  BY <4>1, <4>2 DEF WorkInv
    <3>3. CASE \E phase \in {"revise_plan", "open_pr"} : Adds(e, phase) /\ Same({i, n + 1})
      <4>1. PICK phase \in {"revise_plan", "open_pr"} : Adds(e, phase) /\ Same({i, n + 1})
        BY <3>3
      <4>2. \A r \in Reqs \ {e} : status'[r] \in InWork => \E j \in Ids : Keeps(j, r)'
        BY <2>1, <3>1, <4>1, OthersKept DEF Adds
      <4>3. \E j \in Ids : Keeps(j, e)'
        <5>1. PICK j \in Ids : job'[j] = Row(e, phase)  BY <4>1 DEF Adds
        <5> QED  BY <1>0, <5>1, NewRowKeeps
      <4> QED  BY <4>2, <4>3 DEF WorkInv
    <3> QED  BY <2>0, <2>3, <3>2, <3>3 DEF OwnStep
  <2> QED  BY <1>1, <2>2, <2>3, HandlerEffect
<1>2. ASSUME NEW i \in Ids, NEW phases \in {PlanPhases, CodePhases}, Claim(i, phases)
      PROVE  WorkInv'
  <2>0. PICK e \in Reqs : e = job[i].req  BY JobIsTyped DEF StudioInv
  <2>1. e = job[i].req /\ Same({i}) /\ job[i] \in Rows
    BY <1>2, <2>0, ClaimTypes, JobIsTyped DEF StudioInv
  <2>2. CASE JobFails(i)
    <3>1. status' = [status EXCEPT ![e] = "auto_failed"]  BY <2>0, <2>2 DEF JobFails, SetStatus
    <3>2. status'[e] \notin InWork /\ \A r \in Reqs \ {e} : status'[r] = status[r]
      BY <2>1, <3>1 DEF InWork, StudioInv, TypeOK
    <3>3. \A r \in Reqs \ {e} : status'[r] \in InWork => \E j \in Ids : Keeps(j, r)'
      BY <2>1, <3>2, OthersKept
    <3> QED  BY <3>2, <3>3 DEF WorkInv
  <2>3. CASE /\ job'[i] = [job[i] EXCEPT !.st = "running"] /\ handler'[i].at = "started"
             /\ status' \in {status, [status EXCEPT ![e] = "coding"], [status EXCEPT ![e] = "building"]}
    <3>1. \A r \in Reqs \ {e} : status'[r] = status[r]
      BY <2>1, <2>3 DEF StudioInv, TypeOK
    <3>2. \A r \in Reqs \ {e} : status'[r] \in InWork => \E j \in Ids : Keeps(j, r)'
      BY <2>1, <3>1, OthersKept
    <3>3. Keeps(i, e)'
      <4>1. job'[i].req = e /\ job'[i].st = "running"  BY <2>1, <2>3 DEF Rows
      <4> QED  BY <2>3, <4>1 DEF Keeps
    <3> QED  BY <3>2, <3>3 DEF WorkInv
  <2> QED  BY <1>2, <2>0, <2>2, <2>3, ClaimTypes
<1>3. ASSUME NEW e \in Reqs, AskStep(e) PROVE WorkInv'
  <2>1. /\ \A r \in Reqs \ {e} : status'[r] = status[r]
        /\ handler' = handler
    BY <1>3 DEF AskStep
  <2>2. CASE \E phase \in PlanPhases \cup CodePhases : Adds(e, phase) /\ Same({n + 1})
    <3>1. PICK phase \in PlanPhases \cup CodePhases : Adds(e, phase) /\ Same({n + 1})  BY <2>2
    <3>2. \A r \in Reqs \ {e} : status'[r] \in InWork => \E j \in Ids : Keeps(j, r)'
      BY <2>1, <3>1, OthersKept DEF Adds
    <3>3. \E j \in Ids : Keeps(j, e)'
      <4>1. PICK j \in Ids : job'[j] = Row(e, phase)  BY <3>1 DEF Adds
      <4> QED  BY <4>1, NewRowKeeps
    <3> QED  BY <3>2, <3>3 DEF WorkInv
  <2>3. CASE job' = job /\ (status' = status \/ status'[e] \notin InWork)
    <3>1. \A r \in Reqs : status'[r] \in InWork => status'[r] = status[r]
      BY <2>1, <2>3 DEF InWork
    <3>2. \A r \in Reqs, j \in Ids : Keeps(j, r) => Keeps(j, r)'  BY <2>1, <2>3, KeepsOn
    <3> QED  BY <3>1, <3>2 DEF WorkInv
  <2>4. CASE status'[e] = "done" /\ \A j \in Ids : j \notin Open(e) => job'[j] = job[j]
    <3>1. Same(Open(e))  BY <2>1, <2>4 DEF Same
    <3>2. Open(e) \in SUBSET Ids /\ \A j \in Open(e) : job[j].req = e  BY DEF Open
    <3>3. \A r \in Reqs \ {e} : status'[r] \in InWork => \E j \in Ids : Keeps(j, r)'
      BY <2>1, <3>1, <3>2, OthersKept
    <3> QED  BY <2>4, <3>3 DEF WorkInv, InWork
  <2> QED  BY <1>3, <2>2, <2>3, <2>4 DEF AskStep
<1>4. CASE Restart
  <2>1. PICK alive \in SUBSET MayBeAlive :
          /\ \A i \in Ids :
               /\ job'[i].req = job[i].req /\ job'[i].phase = job[i].phase
               /\ job'[i].st = IF i \in Orphans(alive) THEN "queued" ELSE job[i].st
          /\ \A e \in Reqs : status'[e] = status[e] \/ \E i \in Orphans(alive) : job[i].req = e
    BY <1>4, RestartTypes
  <2>2. \A i \in Ids : handler'[i].at = "none"  BY <1>4, RestartTypes, NoHandlerIsTyped
  <2>3. ASSUME NEW e \in Reqs, status'[e] \in InWork PROVE \E j \in Ids : Keeps(j, e)'
    <3>1. CASE \E i \in Orphans(alive) : job[i].req = e
      BY <2>1, <3>1 DEF Keeps, Orphans
    <3>2. CASE ~\E i \in Orphans(alive) : job[i].req = e
      <4>1. PICK j \in Ids : Keeps(j, e)  BY <2>1, <2>3, <3>2 DEF WorkInv
      <4>2. j \notin Orphans(alive)  BY <3>2, <4>1 DEF Keeps
      <4>3. job[j].st = "queued" \/ (job[j].st = "running" /\ job[j].phase = "code")
        BY <4>1, <4>2 DEF Keeps, Orphans, MayBeAlive
      <4> QED  BY <2>1, <2>2, <4>1, <4>2, <4>3 DEF Keeps, Stranded, Active
    <3> QED  BY <3>1, <3>2
  <2> QED  BY <2>3 DEF WorkInv
<1>5. CASE UNCHANGED vars
  BY <1>5 DEF vars, request, WorkInv, Keeps, Stranded, Active
<1> QED  BY <1>1, <1>2, <1>3, <1>4, <1>5, StepEffect

\* worker.js and the routes: a request shown as in work has a job that is queued, has a
\* handler, or was left to the container that survived the server.
THEOREM RequestsAreWorkedOn == Spec => []InWorkIsWorkedOn
<1>1. Init => WorkInv  BY DEF Init, WorkInv, InWork
<1>2. WorkInv => InWorkIsWorkedOn
  BY DEF WorkInv, InWorkIsWorkedOn, Keeps, Working, Open, Active
<1> QED  BY <1>1, <1>2, StudioInvariant, WorkStep, PTL DEF Spec

-----------------------------------------------------------------------------
(* A reject is final *)

\* Nothing works on e, or will.
Closed(e) ==
  /\ status[e] = "done" /\ e \notin recoding
  /\ \A j \in Ids : job[j].req = e => job[j].st \in {"none", "done", "failed"} /\ ~Active(j)

RejectInv == \A e \in rejected : Closed(e)

\* Steps that touch no row of a closed request, and insert none, leave it closed.
LEMMA StaysClosed ==
  ASSUME NEW e \in Reqs, Closed(e), status'[e] = status[e], e \notin recoding',
         \A j \in Ids : job'[j].req = e =>
           \/ job'[j] = job[j] /\ handler'[j] = handler[j]
           \/ job'[j].st \in {"none", "done", "failed"} /\ handler'[j].at = "none"
  PROVE  Closed(e)'
BY DEF Closed, Active

LEMMA RejectStep == StudioInv /\ RejectInv /\ [Next]_vars => RejectInv'
<1> SUFFICES ASSUME StudioInv, RejectInv, [Next]_vars, NEW e \in rejected' PROVE Closed(e)'
  BY DEF RejectInv
<1>0. CodePhases = {"code", "build", "open_pr"} /\ PlanPhases = {"plan", "revise_plan"}
  BY DEF CodePhases, PlanPhases
<1>a. rejected \subseteq Reqs  BY DEF StudioInv, TypeOK
<1>b. \A r \in rejected : Closed(r)  BY DEF RejectInv
<1>1. ASSUME NEW i \in Ids, HandlerStep(i) PROVE Closed(e)'
  <2>1. e \in rejected /\ e \in Reqs /\ handler[i].at # "none" /\ recoding' = recoding
    BY <1>1, <1>a, HandlerEffect
  <2>2. Closed(e) /\ job[i].req # e  BY <1>b, <2>1 DEF Closed, Active
  <2>3. CASE CodePushed(i)
    <3>1. e \notin StalePlans(job[i].req)  BY <2>2 DEF StalePlans, Closed
    <3>2. status'[e] = status[e]  BY <2>1, <2>2, <2>3, <3>1 DEF CodePushed
    <3>3. ASSUME NEW j \in Ids, job'[j].req = e
          PROVE  job'[j] = job[j] /\ handler'[j] = handler[j]
      <4>1. j # i
        <5>1. job'[i] = [job[i] EXCEPT !.st = "done"]  BY <2>3, Pushed DEF EndsAs
        <5>2. job[i] \in Rows  BY JobIsTyped DEF StudioInv
        <5>3. job'[i].req = job[i].req  BY <5>1, <5>2 DEF Rows
        <5> QED  BY <2>2, <3>3, <5>3
      <4>2. handler'[j] = handler[j]  BY <2>3, <4>1, Pushed
      <4>3. CASE job[j].st # "none"  BY <2>3, <4>1, <4>2, <4>3, Pushed
      <4>4. CASE job[j].st = "none"
        <5>1. job'[j] # Row(job[i].req, "build")  BY <2>2, <3>3 DEF Row
        <5>2. \A r \in StalePlans(job[i].req) : job'[j] # Row(r, "plan")
          BY <3>1, <3>3 DEF Row
        <5> QED  BY <2>3, <4>2, <4>4, <5>1, <5>2, Pushed
      <4> QED  BY <4>3, <4>4
    <3> QED  BY <2>1, <2>2, <3>2, <3>3, StaysClosed DEF Closed
  <2>4. CASE OwnStep(i)
    <3>1. status'[e] = status[e]  BY <2>1, <2>2, <2>4 DEF OwnStep
    <3>2. ASSUME NEW j \in Ids, job'[j].req = e
          PROVE  job'[j] = job[j] /\ handler'[j] = handler[j]
      <4>1. job'[i].req = job[i].req
        <5>1. job[i] \in Rows  BY JobIsTyped DEF StudioInv
        <5>2. job'[i] = job[i] \/ \E st \in EndedStates : job'[i] = [job[i] EXCEPT !.st = st]
          BY <2>4 DEF OwnStep, EndsAs, EndedStates
        <5> QED  BY <5>1, <5>2 DEF Rows
      <4>2. j # i  BY <2>2, <3>2, <4>1
      <4>3. CASE Same({i})  BY <4>2, <4>3 DEF Same
      <4>4. CASE \E phase \in {"revise_plan", "open_pr"} :
                   Adds(job[i].req, phase) /\ Same({i, n + 1})
        <5>1. j # n + 1  BY <2>2, <3>2, <4>4 DEF Adds, Row
        <5> QED  BY <4>2, <4>4, <5>1 DEF Same
      <4> QED  BY <2>4, <4>3, <4>4 DEF OwnStep
    <3> QED  BY <2>1, <2>2, <3>1, <3>2, StaysClosed DEF Closed
  <2> QED  BY <1>1, <2>3, <2>4, HandlerEffect
<1>2. ASSUME NEW i \in Ids, NEW phases \in {PlanPhases, CodePhases}, Claim(i, phases)
      PROVE  Closed(e)'
  <2>1. job[i].st = "queued" /\ Same({i}) /\ job[i] \in Rows
    BY <1>2, ClaimTypes, JobIsTyped DEF StudioInv
  <2>2. rejected' = rejected /\ recoding' = recoding
    BY <1>2, ClaimTypes DEF JobFails, history
  <2>3. e \in Reqs /\ Closed(e) /\ job[i].req # e  BY <1>a, <1>b, <2>1, <2>2 DEF Closed
  <2>4. job'[i].req = job[i].req
    <3>1. \E st \in {"failed", "running"} : job'[i] = [job[i] EXCEPT !.st = st]
      BY <1>2, ClaimTypes DEF EndsAs
    <3> QED  BY <2>1, <3>1 DEF Rows
  <2>5. status'[e] = status[e]
    <3>1. status' = status \/ \E s \in Statuses : status' = [status EXCEPT ![job[i].req] = s]
      BY <1>2, ClaimTypes DEF JobFails, SetStatus, Statuses, ByHand, InWork
    <3> QED  BY <2>3, <3>1 DEF StudioInv, TypeOK
  <2>6. \A j \in Ids : job'[j].req = e => job'[j] = job[j] /\ handler'[j] = handler[j]
    BY <2>1, <2>3, <2>4 DEF Same
  <2> QED  BY <2>2, <2>3, <2>5, <2>6, StaysClosed DEF Closed
<1>3. ASSUME NEW r \in Reqs, AskStep(r) PROVE Closed(e)'
  <2>1. CASE e # r
    <3>1. e \in rejected /\ e \notin recoding'
      BY <1>3, <1>b, <2>1 DEF AskStep, Ask, RecodeEnds, Reject, history, Closed
    <3>2. e \in Reqs /\ Closed(e) /\ status'[e] = status[e] /\ handler' = handler
      BY <1>3, <1>a, <1>b, <2>1, <3>1 DEF AskStep
    <3>3. ASSUME NEW j \in Ids, job'[j].req = e PROVE job'[j] = job[j]
      <4>1. CASE \E phase \in PlanPhases \cup CodePhases : Adds(r, phase) /\ Same({n + 1})
        <5>1. j # n + 1  BY <2>1, <3>3, <4>1 DEF Adds, Row
        <5> QED  BY <4>1, <5>1 DEF Same
      <4>2. CASE \A k \in Ids : /\ job'[k].req = job[k].req
                                /\ k \notin Open(r) => job'[k] = job[k]
        <5>1. j \notin Open(r)  BY <2>1, <3>3, <4>2 DEF Open
        <5> QED  BY <4>2, <5>1
      <4>3. CASE job' = job  BY <4>3
      <4> QED  BY <1>3, <4>1, <4>2, <4>3 DEF AskStep
    <3> QED  BY <3>1, <3>2, <3>3, StaysClosed
  <2>2. CASE e = r
    <3>1. Reject(e)
      BY <1>3, <1>b, <2>2 DEF AskStep, Ask, RecodeEnds, history, Closed
    <3>2. Working(e) = {} /\ e \notin recoding
      BY <1>b, <3>1 DEF Reject, Closed, Working
    <3>3. status'[e] = "done" /\ recoding' = recoding /\ handler' = handler
      BY <2>2, <3>1 DEF Reject, SetStatus, StudioInv, TypeOK
    <3>4. ASSUME NEW j \in Ids, job'[j].req = e
          PROVE  job'[j].st \in {"none", "done", "failed"} /\ handler'[j].at = "none"
      <4>1. job' = [k \in Ids |-> IF k \in Open(e) THEN [job[k] EXCEPT !.st = "failed"] ELSE job[k]]
        BY <3>1 DEF Reject, Stopped
      <4>2. job[j] \in Rows /\ Open(e) \in SUBSET Ids
        BY JobIsTyped DEF StudioInv, Open
      <4>3. job'[j].req = job[j].req /\ (j \in Open(e) => job'[j].st = "failed")
            /\ (j \notin Open(e) => job'[j] = job[j])
        BY <4>1, <4>2 DEF Rows
      <4>4. job[j].req = e /\ handler[j].at = "none"
        BY <3>2, <3>4, <4>3 DEF Working, Active
      <4> QED  BY <3>3, <4>2, <4>3, <4>4 DEF Open, Rows
    <3> QED  BY <3>2, <3>3, <3>4 DEF Closed, Active
  <2> QED  BY <2>1, <2>2
<1>4. CASE Restart
  <2>1. PICK alive \in SUBSET MayBeAlive :
          /\ \A i \in Ids :
               /\ job'[i].req = job[i].req
               /\ job'[i].st = IF i \in Orphans(alive) THEN "queued" ELSE job[i].st
          /\ \A r \in Reqs : status'[r] = status[r] \/ \E i \in Orphans(alive) : job[i].req = r
    BY <1>4, RestartTypes
  <2>2. \A i \in Ids : handler'[i].at = "none"  BY <1>4, RestartTypes, NoHandlerIsTyped
  <2>3. rejected' = rejected /\ recoding' = {}  BY <1>4 DEF Restart, history
  <2>4. e \in Reqs /\ Closed(e)  BY <1>a, <1>b, <2>3
  <2>5. \A i \in Orphans(alive) : job[i].req # e  BY <2>4 DEF Orphans, Closed
  <2>6. status'[e] = "done"  BY <2>1, <2>4, <2>5 DEF Closed
  <2> QED  BY <2>1, <2>2, <2>3, <2>4, <2>5, <2>6 DEF Closed, Active
<1>5. CASE UNCHANGED vars
  <2>1. UNCHANGED <<status, job, handler, recoding, rejected>>  BY <1>5 DEF vars, request, history
  <2> QED  BY <1>b, <2>1 DEF Closed, Active
<1> QED  BY <1>1, <1>2, <1>3, <1>4, <1>5, StepEffect

\* routes/appstudio.js: a request rejected while nothing worked on it stays closed until an
\* operator asks for it, whatever other requests, late jobs and restarts do.
THEOREM RejectsAreFinal == Spec => []RejectIsFinal
<1>1. Init => RejectInv  BY DEF Init, RejectInv
<1>2. RejectInv => RejectIsFinal
  BY DEF RejectInv, RejectIsFinal, Closed, Working, Open, Active
<1> QED  BY <1>1, <1>2, StudioInvariant, RejectStep, PTL DEF Spec

-----------------------------------------------------------------------------
(* What auto mode merges was built *)

\* Job j codes, builds or merges e, or is about to.
On(j, e) ==
  /\ job[j].req = e /\ job[j].phase \in CodePhases
  /\ job[j].st \in {"queued", "running"} \/ Active(j)

\* One job at a time brings e from its code to its merge, and each finds the branch that
\* the one before left: a build builds it, a merge finds it built.
InTurn(e) ==
  /\ \A j, k \in Ids : On(j, e) /\ On(k, e) => j = k
  /\ e \in recoding => \A j \in Ids : ~On(j, e)
  /\ \A j \in Ids : On(j, e) /\ Active(j) /\ job[j].phase \in {"build", "open_pr"} =>
                      handler[j].branch = branch[e]
  /\ \A j \in Ids : On(j, e) /\ job[j].phase = "open_pr" => branch[e] \in built[e]
  /\ merged[e] \subseteq built[e]

MergeInv == \A e \in Reqs : e \notin consent \cup hasty => InTurn(e)

\* A step under which jobs of e only end, or stay as they are.
LEMMA StaysInTurn ==
  ASSUME NEW e \in Reqs, InTurn(e), branch'[e] = branch[e], built[e] \subseteq built'[e],
         merged'[e] = merged[e], e \in recoding' => e \in recoding,
         \A j \in Ids : On(j, e)' => /\ On(j, e) /\ job'[j].phase = job[j].phase
                                     /\ Active(j)' => /\ Active(j)
                                                      /\ handler'[j].branch = handler[j].branch
  PROVE  InTurn(e)'
BY DEF InTurn

\* A step after which at most job k, queued, is on e.
LEMMA OnlyQueued ==
  ASSUME NEW e \in Reqs, NEW k \in Ids, \A j \in Ids : On(j, e)' => j = k,
         handler'[k].at = "none", e \in recoding' => \A j \in Ids : ~On(j, e)',
         On(k, e)' /\ job'[k].phase = "open_pr" => branch'[e] \in built'[e],
         merged'[e] \subseteq built'[e]
  PROVE  InTurn(e)'
BY DEF InTurn, Active

\* Jobs and handlers that did not change are as much on e as before.
LEMMA OnAsBefore ==
  ASSUME NEW j \in Ids, NEW e, job'[j] = job[j], handler'[j] = handler[j]
  PROVE  /\ On(j, e)' <=> On(j, e)
         /\ Active(j)' <=> Active(j)
BY DEF On, Active

\* A job that has ended and has no handler is on nothing.
LEMMA OffWhenEnded ==
  ASSUME StudioInv, NEW i \in Ids, NEW st \in {"done", "failed"}, EndsAs(i, st), NEW e
  PROVE  ~On(i, e)' /\ job'[i].req = job[i].req
<1>1. job[i] \in Rows  BY JobIsTyped DEF StudioInv
<1>2. job'[i].st = st /\ handler'[i].at = "none" /\ job'[i].req = job[i].req
  BY <1>1, NoHandlerIsTyped DEF EndsAs, Rows
<1> QED  BY <1>2 DEF On, Active

LEMMA MergeHandlerStep ==
  ASSUME StudioInv, MergeInv, NEW i \in Ids, HandlerStep(i), NEW e \in Reqs,
         e \notin consent' \cup hasty'
  PROVE  InTurn(e)'
<1>0. CodePhases = {"code", "build", "open_pr"} /\ PlanPhases = {"plan", "revise_plan"}
  BY DEF CodePhases, PlanPhases
<1>1. /\ handler[i].at # "none" /\ job[i].req \in Reqs /\ job[i] \in Rows
      /\ job[i].st # "none" /\ recoding' = recoding /\ InTurn(e)
  BY HandlerEffect, JobIsTyped DEF MergeInv, StudioInv
<1>2. job[i].req = e /\ job[i].phase \in CodePhases => On(i, e) /\ \A j \in Ids : On(j, e) => j = i
  BY <1>1 DEF On, Active, InTurn
<1>3. CASE CodePushed(i)
  <2>1. /\ EndsAs(i, "done")
        /\ \A j \in Ids \ {i} : handler'[j] = handler[j]
        /\ \A j \in Ids \ {i} : job[j].st # "none" => job'[j] = job[j]
        /\ n + 1 \in Ids /\ job[n + 1].st = "none" /\ handler[n + 1].at = "none"
        /\ job'[n + 1] = Row(job[i].req, "build")
    BY <1>3, Pushed
  <2>2. \A j \in Ids : job[j].st = "none" =>
          \/ job'[j] = job[j]
          \/ job'[j] = Row(job[i].req, "build") /\ j = n + 1
          \/ \E r \in StalePlans(job[i].req) : job'[j] = Row(r, "plan")
    BY <1>3, Pushed
  <2>3. /\ job[i].phase = "code" /\ UNCHANGED <<built, merged>>
        /\ branch' = [branch EXCEPT ![job[i].req] = handler[i].branch]
    BY <1>3 DEF CodePushed, At, history
  <2>4. ~On(i, e)'  BY <2>1, OffWhenEnded
  <2>5. ASSUME NEW j \in Ids, On(j, e)', j # n + 1
        PROVE  job'[j] = job[j] /\ handler'[j] = handler[j] /\ j # i
    <3>1. j # i /\ handler'[j] = handler[j]  BY <2>1, <2>4, <2>5
    <3>2. CASE job[j].st # "none"  BY <2>1, <3>1, <3>2
    <3>3. CASE job[j].st = "none"
      <4>1. \A r \in StalePlans(job[i].req) : job'[j] # Row(r, "plan")
        BY <1>0, <2>5 DEF On, Row
      <4> QED  BY <2>2, <2>5, <3>1, <3>3, <4>1
    <3> QED  BY <3>2, <3>3
  <2>6. CASE job[i].req = e
    <3>1. PICK k \in Ids : k = n + 1  BY <2>1
    <3>2. handler'[k].at = "none"  BY <1>1, <2>1, <3>1
    <3>3. \A j \in Ids : On(j, e)' => j = k
      <4> SUFFICES ASSUME NEW j \in Ids, On(j, e)', j # k PROVE FALSE  OBVIOUS
      <4>1. job'[j] = job[j] /\ handler'[j] = handler[j] /\ j # i  BY <2>5, <3>1
      <4>2. On(j, e)  BY <4>1, OnAsBefore
      <4> QED  BY <1>0, <1>2, <2>3, <2>6, <4>1, <4>2
    <3>4. e \notin recoding'
      BY <1>0, <1>1, <1>2, <2>3, <2>6 DEF InTurn
    <3>5. job'[k].phase = "build"  BY <2>1, <3>1 DEF Row
    <3>6. merged'[e] \subseteq built'[e]  BY <1>1, <2>3 DEF InTurn
    <3> QED  BY <3>2, <3>3, <3>4, <3>5, <3>6, OnlyQueued
  <2>7. CASE job[i].req # e
    <3>1. \A j \in Ids : On(j, e)' => job'[j] = job[j] /\ handler'[j] = handler[j]
      <4> SUFFICES ASSUME NEW j \in Ids, On(j, e)'
                   PROVE  job'[j] = job[j] /\ handler'[j] = handler[j]
        OBVIOUS
      <4>1. j # n + 1  BY <2>1, <2>7 DEF On, Row
      <4> QED  BY <2>5, <4>1
    <3>2. \A j \in Ids : On(j, e)' => /\ On(j, e) /\ job'[j].phase = job[j].phase
                                      /\ Active(j)' => /\ Active(j)
                                                       /\ handler'[j].branch = handler[j].branch
      BY <3>1, OnAsBefore
    <3>3. branch'[e] = branch[e]  BY <2>3, <2>7 DEF StudioInv, TypeOK
    <3> QED  BY <1>1, <2>3, <3>2, <3>3, StaysInTurn
  <2> QED  BY <2>6, <2>7
<1>4. CASE OwnStep(i)
  <2>1. branch' = branch /\ built[e] \subseteq built'[e]  BY <1>4 DEF OwnStep
  <2>2. \A j \in Ids : job'[j] = job[j] /\ handler'[j] = handler[j] /\ On(j, e)' =>
          /\ On(j, e) /\ job'[j].phase = job[j].phase
          /\ Active(j)' => Active(j) /\ handler'[j].branch = handler[j].branch
    BY OnAsBefore
  <2>3. CASE (\E st \in EndedStates : EndsAs(i, st)) /\ Same({i}) /\ merged' = merged
    <3>1. ~On(i, e)'  BY <2>3, OffWhenEnded DEF EndedStates
    <3>2. \A j \in Ids : On(j, e)' => job'[j] = job[j] /\ handler'[j] = handler[j]
      BY <2>3, <3>1 DEF Same
    <3> QED  BY <1>1, <2>1, <2>2, <2>3, <3>2, StaysInTurn
  <2>4. CASE /\ EndsAs(i, "done") /\ Adds(job[i].req, "revise_plan") /\ Same({i, n + 1})
             /\ merged' = merged
    <3>1. ~On(i, e)'  BY <2>4, OffWhenEnded
    <3>2. ASSUME NEW j \in Ids, On(j, e)' PROVE job'[j] = job[j] /\ handler'[j] = handler[j]
      <4>1. j # n + 1  BY <1>0, <2>4, <3>2 DEF On, Adds, Row
      <4> QED  BY <2>4, <3>1, <3>2, <4>1 DEF Same
    <3> QED  BY <1>1, <2>1, <2>2, <2>4, <3>2, StaysInTurn
  <2>5. CASE /\ EndsAs(i, "done") /\ Adds(job[i].req, "open_pr") /\ Same({i, n + 1})
             /\ merged' = merged /\ job[i].phase = "build"
             /\ built'[job[i].req] = built[job[i].req] \cup {handler[i].branch}
    <3>1. ~On(i, e)'  BY <2>5, OffWhenEnded
    <3>2. CASE job[i].req # e
      <4>1. ASSUME NEW j \in Ids, On(j, e)' PROVE job'[j] = job[j] /\ handler'[j] = handler[j]
        <5>1. j # n + 1  BY <2>5, <3>2, <4>1 DEF On, Adds, Row
        <5> QED  BY <2>5, <3>1, <4>1, <5>1 DEF Same
      <4> QED  BY <1>1, <2>1, <2>2, <2>5, <4>1, StaysInTurn
    <3>3. CASE job[i].req = e
      <4>1. PICK k \in Ids : k = n + 1  BY <2>5 DEF Adds
      <4>2. handler'[k].at = "none"  BY <2>5, <4>1 DEF Adds
      <4>3. \A j \in Ids : On(j, e)' => j = k
        <5> SUFFICES ASSUME NEW j \in Ids, On(j, e)', j # k PROVE FALSE  OBVIOUS
        <5>1. j # i /\ job'[j] = job[j] /\ handler'[j] = handler[j]
          BY <2>5, <3>1, <4>1 DEF Same
        <5>2. On(j, e)  BY <5>1, OnAsBefore
        <5> QED  BY <1>0, <1>2, <2>5, <3>3, <5>1, <5>2
      <4>4. branch'[e] \in built'[e]
        <5>1. handler[i].branch = branch[e]
          BY <1>0, <1>1, <1>2, <2>5, <3>3 DEF InTurn, Active
        <5> QED  BY <2>1, <2>5, <3>3, <5>1
      <4>5. e \notin recoding'  BY <1>0, <1>1, <1>2, <2>5, <3>3 DEF InTurn
      <4>6. merged'[e] \subseteq built'[e]  BY <1>1, <2>1, <2>5 DEF InTurn
      <4> QED  BY <4>2, <4>3, <4>4, <4>5, <4>6, OnlyQueued
    <3> QED  BY <3>2, <3>3
  <2>6. CASE /\ PrOpens(i) \/ PrMerges(i)
             /\ job' = job /\ Same({i}) /\ handler'[i].branch = handler[i].branch
    <3>1. ASSUME NEW j \in Ids, On(j, e)'
          PROVE  /\ On(j, e) /\ job'[j].phase = job[j].phase
                 /\ Active(j)' => Active(j) /\ handler'[j].branch = handler[j].branch
      <4>1. CASE j # i  BY <2>2, <2>6, <3>1, <4>1 DEF Same
      <4>2. CASE j = i  BY <1>1, <2>6, <3>1, <4>2 DEF On, Active
      <4> QED  BY <4>1, <4>2
    <3>2. CASE merged'[e] = merged[e]  BY <1>1, <2>1, <3>1, <3>2, StaysInTurn
    <3>3. CASE merged'[e] # merged[e]
      <4>1. /\ job[i].phase = "open_pr" /\ built' = built
            /\ merged' = [merged EXCEPT ![job[i].req] = @ \cup {handler[i].branch}]
        BY <2>6, <3>3 DEF PrMerges, PrOpens, At, history
      <4>2. job[i].req = e /\ merged'[e] = merged[e] \cup {handler[i].branch}
        BY <1>1, <3>3, <4>1 DEF StudioInv, TypeOK
      <4>3. On(i, e) /\ Active(i)  BY <1>0, <1>1, <1>2, <4>1, <4>2 DEF Active
      <4>4. handler[i].branch \in built[e]  BY <1>1, <4>1, <4>3 DEF InTurn
      <4>5. merged'[e] \subseteq built'[e]  BY <1>1, <4>1, <4>2, <4>4 DEF InTurn
      <4>6. \A j, k \in Ids : On(j, e)' /\ On(k, e)' => j = k  BY <1>1, <3>1 DEF InTurn
      <4>7. e \in recoding' => \A j \in Ids : ~On(j, e)'  BY <1>1, <3>1 DEF InTurn
      <4>8. \A j \in Ids : On(j, e)' /\ Active(j)' /\ job'[j].phase \in {"build", "open_pr"} =>
                             handler'[j].branch = branch'[e]
        BY <1>1, <2>1, <3>1 DEF InTurn
      <4>9. \A j \in Ids : On(j, e)' /\ job'[j].phase = "open_pr" => branch'[e] \in built'[e]
        BY <1>1, <2>1, <3>1 DEF InTurn
      <4> QED  BY <4>5, <4>6, <4>7, <4>8, <4>9 DEF InTurn
    <3> QED  BY <3>2, <3>3
  <2> QED  BY <1>4, <2>3, <2>4, <2>5, <2>6 DEF OwnStep
<1> QED  BY <1>3, <1>4, HandlerEffect

\* Nobody is on e.
LEMMA NobodyOn ==
  ASSUME NEW e \in Reqs, \A j \in Ids : ~On(j, e)', merged'[e] \subseteq built'[e]
  PROVE  InTurn(e)'
BY DEF InTurn

LEMMA MergeClaim ==
  ASSUME StudioInv, MergeInv, NEW i \in Ids, NEW phases \in {PlanPhases, CodePhases},
         Claim(i, phases), NEW e \in Reqs, e \notin consent' \cup hasty'
  PROVE  InTurn(e)'
<1>1. job[i].st = "queued" /\ Same({i}) /\ job[i] \in Rows
  BY ClaimTypes, JobIsTyped DEF StudioInv
<1>2. UNCHANGED <<branch, built, merged, recoding, consent, hasty>>
  BY ClaimTypes DEF JobFails, history
<1>3. InTurn(e)  BY <1>2 DEF MergeInv
<1>4. \A j \in Ids \ {i} : On(j, e)' =>
        /\ On(j, e) /\ job'[j].phase = job[j].phase
        /\ Active(j)' => Active(j) /\ handler'[j].branch = handler[j].branch
  BY <1>1, OnAsBefore DEF Same
<1>5. CASE EndsAs(i, "failed")
  <2>1. ~On(i, e)'  BY <1>5, OffWhenEnded
  <2> QED  BY <1>2, <1>3, <1>4, <2>1, StaysInTurn
<1>6. CASE ~On(i, e)'  BY <1>2, <1>3, <1>4, <1>6, StaysInTurn
<1>7. CASE ~EndsAs(i, "failed") /\ On(i, e)'
  <2>1. /\ job'[i] = [job[i] EXCEPT !.st = "running"] /\ handler'[i].at = "started"
        /\ job[i].phase \in {"build", "open_pr"} => handler'[i].branch = branch[job[i].req]
    BY <1>7, ClaimTypes
  <2>2. job'[i].req = job[i].req /\ job'[i].phase = job[i].phase
    BY <1>1, <2>1 DEF Rows
  <2>3. job[i].req = e /\ On(i, e)  BY <1>1, <1>7, <2>2 DEF On
  <2>4. \A j \in Ids : On(j, e)' => j = i  BY <1>3, <1>4, <2>3 DEF InTurn
  <2>5. e \notin recoding'  BY <1>2, <1>3, <2>3 DEF InTurn
  <2>6. job'[i].phase \in {"build", "open_pr"} => handler'[i].branch = branch'[e]
    BY <1>2, <2>1, <2>2, <2>3
  <2>7. job'[i].phase = "open_pr" => branch'[e] \in built'[e]
    BY <1>2, <1>3, <2>2, <2>3 DEF InTurn
  <2>8. merged'[e] \subseteq built'[e]  BY <1>2, <1>3 DEF InTurn
  <2> QED  BY <2>4, <2>5, <2>6, <2>7, <2>8 DEF InTurn
<1> QED  BY <1>5, <1>6, <1>7

LEMMA MergeAskStep ==
  ASSUME StudioInv, MergeInv, NEW r \in Reqs, AskStep(r), NEW e \in Reqs,
         e \notin consent' \cup hasty'
  PROVE  InTurn(e)'
<1>1. /\ UNCHANGED <<handler, built, merged>>
      /\ e # r => branch'[e] = branch[e] /\ (e \in recoding' => e \in recoding)
  BY DEF AskStep, Ask, RecodeEnds, Reject
<1>2. consent \subseteq consent' /\ hasty \subseteq hasty'
  BY DEF AskStep, Ask, RecodeEnds, Reject, history
<1>3. InTurn(e)  BY <1>2 DEF MergeInv
<1>4. \A j \in Ids : job'[j] = job[j] =>
        /\ On(j, e)' <=> On(j, e)
        /\ Active(j)' <=> Active(j)
  BY <1>1, OnAsBefore
<1>5. \A j \in Ids : (Active(j)' <=> Active(j)) /\ handler'[j].branch = handler[j].branch
  BY <1>1 DEF Active
<1>6. CASE Reject(r)
  <2>1. branch' = branch /\ recoding' = recoding  BY <1>6 DEF Reject
  <2>2. ASSUME NEW j \in Ids, On(j, e)' PROVE On(j, e) /\ job'[j].phase = job[j].phase
    <3>1. job' = [k \in Ids |-> IF k \in Open(r) THEN [job[k] EXCEPT !.st = "failed"] ELSE job[k]]
      BY <1>6 DEF Reject, Stopped
    <3>2. job[j] \in Rows  BY JobIsTyped DEF StudioInv
    <3>3. CASE j \in Open(r)
      <4>1. job'[j] = [job[j] EXCEPT !.st = "failed"]  BY <3>1, <3>3
      <4>2. /\ job'[j].st = "failed" /\ job'[j].req = job[j].req
            /\ job'[j].phase = job[j].phase
        BY <3>2, <4>1 DEF Rows
      <4> QED  BY <1>5, <2>2, <4>2 DEF On
    <3>4. CASE j \notin Open(r)
      <4>1. job'[j] = job[j]  BY <3>1, <3>4
      <4> QED  BY <1>4, <2>2, <4>1
    <3> QED  BY <3>3, <3>4
  <2> QED  BY <1>1, <1>3, <1>5, <2>1, <2>2, StaysInTurn
<1>7. CASE ~Reject(r) /\ e # r
  <2>1. ASSUME NEW j \in Ids, On(j, e)' PROVE job'[j] = job[j]
    <3>1. CASE \E phase \in PlanPhases \cup CodePhases : Adds(r, phase) /\ Same({n + 1})
      <4>1. j # n + 1  BY <1>7, <2>1, <3>1 DEF On, Adds, Row
      <4> QED  BY <3>1, <4>1 DEF Same
    <3>2. CASE job' = job  BY <3>2
    <3> QED  BY <1>7, <3>1, <3>2 DEF AskStep
  <2>2. \A j \in Ids : On(j, e)' => On(j, e) /\ job'[j].phase = job[j].phase
    BY <1>4, <2>1
  <2> QED  BY <1>1, <1>3, <1>5, <1>7, <2>2, StaysInTurn
<1>8. CASE ~Reject(r) /\ e = r
  <2>1. \A j \in Ids : ~On(j, e)
    <3>1. CASE Ask(e)
      <4>1. Open(e) = {} /\ Working(e) = {}  BY <3>1 DEF Ask
      <4> QED  BY <4>1 DEF Open, Working, On
    <3>2. CASE RecodeEnds(e)
      <4>1. e \in recoding  BY <3>2 DEF RecodeEnds
      <4> QED  BY <1>3, <4>1 DEF InTurn
    <3> QED  BY <1>8, <3>1, <3>2 DEF AskStep
  <2>2. merged'[e] \subseteq built'[e]  BY <1>1, <1>3 DEF InTurn
  <2>3. CASE job' = job
    <3>1. \A j \in Ids : ~On(j, e)'  BY <1>4, <2>1, <2>3
    <3> QED  BY <2>2, <3>1, NobodyOn
  <2>4. CASE /\ \E phase \in PlanPhases \cup CodePhases :
                  Adds(e, phase) /\ (phase = "open_pr" => e \in consent')
             /\ Same({n + 1}) /\ recoding' \subseteq recoding
    <3>1. PICK phase \in PlanPhases \cup CodePhases :
            Adds(e, phase) /\ (phase = "open_pr" => e \in consent')
      BY <2>4
    <3>2. PICK k \in Ids : k = n + 1  BY <3>1 DEF Adds
    <3>3. handler'[k].at = "none" /\ job'[k].phase # "open_pr"
      BY <3>1, <3>2 DEF Adds, Row
    <3>4. \A j \in Ids : On(j, e)' => j = k
      <4>1. \A j \in Ids \ {k} : job'[j] = job[j]  BY <2>4, <3>2 DEF Same
      <4> QED  BY <1>4, <2>1, <4>1
    <3>5. e \notin recoding'
      <4>1. CASE Ask(e)
        <5>1. e \notin recoding  BY <4>1 DEF Ask
        <5> QED  BY <2>4, <5>1
      <4>2. CASE RecodeEnds(e)  BY <4>2 DEF RecodeEnds
      <4> QED  BY <1>8, <4>1, <4>2 DEF AskStep
    <3> QED  BY <2>2, <3>3, <3>4, <3>5, OnlyQueued
  <2> QED  BY <1>8, <2>3, <2>4 DEF AskStep
<1> QED  BY <1>6, <1>7, <1>8

LEMMA MergeRestart ==
  ASSUME StudioInv, MergeInv, Restart, NEW e \in Reqs, e \notin consent' \cup hasty'
  PROVE  InTurn(e)'
<1>1. PICK alive \in SUBSET MayBeAlive :
        /\ \A i \in Ids :
             /\ job'[i].req = job[i].req /\ job'[i].phase = job[i].phase
             /\ job'[i].st = IF i \in Orphans(alive) THEN "queued" ELSE job[i].st
        /\ \/ branch' = branch
           \/ \E i \in Orphans(alive) :
                /\ At(i, {"code"}, "started")
                /\ branch' = [branch EXCEPT ![job[i].req] = handler[i].branch]
  BY RestartTypes
<1>2. \A i \in Ids : ~Active(i)'  BY RestartTypes, NoHandlerIsTyped DEF Active
<1>3. UNCHANGED <<built, merged, consent, hasty>> /\ recoding' = {}
  BY DEF Restart, history
<1>4. InTurn(e)  BY <1>3 DEF MergeInv
<1>5. \A j \in Ids : On(j, e)' => On(j, e)
  BY <1>1, <1>2 DEF On, Orphans
<1>6. CASE branch'[e] = branch[e]
  BY <1>1, <1>2, <1>3, <1>4, <1>5, <1>6, StaysInTurn
<1>7. CASE branch'[e] # branch[e]
  <2>1. PICK i \in Orphans(alive) :
          /\ At(i, {"code"}, "started")
          /\ branch' = [branch EXCEPT ![job[i].req] = handler[i].branch]
    BY <1>1, <1>7
  <2>2. job[i].req = e  BY <1>7, <2>1 DEF StudioInv, TypeOK
  <2>3. i \in Ids /\ On(i, e) /\ job[i].phase = "code"
    BY <2>1, <2>2 DEF Orphans, At, On, CodePhases
  <2>4. \A j \in Ids : On(j, e)' => j = i  BY <1>4, <1>5, <2>3 DEF InTurn
  <2>5. job'[i].phase # "open_pr" /\ handler'[i].at = "none"
    BY <1>1, <1>2, <2>3 DEF Active
  <2>6. merged'[e] \subseteq built'[e]  BY <1>3, <1>4 DEF InTurn
  <2> QED  BY <1>3, <2>3, <2>4, <2>5, <2>6, OnlyQueued
<1> QED  BY <1>6, <1>7

LEMMA MergeStep == StudioInv /\ MergeInv /\ [Next]_vars => MergeInv'
<1> SUFFICES ASSUME StudioInv, MergeInv, [Next]_vars, NEW e \in Reqs,
                    e \notin consent' \cup hasty'
             PROVE  InTurn(e)'
  BY DEF MergeInv
<1>1. CASE UNCHANGED vars
  <2>1. UNCHANGED <<job, handler, branch, built, merged, recoding, consent, hasty>>
    BY <1>1 DEF vars, request, history
  <2>2. InTurn(e)  BY <2>1 DEF MergeInv
  <2>3. \A j \in Ids : On(j, e)' =>
          /\ On(j, e) /\ job'[j].phase = job[j].phase
          /\ Active(j)' => Active(j) /\ handler'[j].branch = handler[j].branch
    BY <2>1 DEF On, Active
  <2> QED  BY <2>1, <2>2, <2>3, StaysInTurn
<1> QED  BY <1>1, StepEffect, MergeHandlerStep, MergeClaim, MergeAskStep, MergeRestart

\* services/appstudio/worker.js: while operators wait for a request's jobs and leave the
\* merge to auto mode, every branch merged for it is one the sandbox ran.
THEOREM AutoMergesWhatWasBuilt == Spec => []MergedWasBuilt
<1>1. Init => MergeInv
  <2> SUFFICES ASSUME Init, NEW e \in Reqs PROVE InTurn(e)  BY DEF MergeInv
  <2>1. \A j \in Ids : job[j].st = "none" /\ handler[j].at = "none"
    BY NoHandlerIsTyped DEF Init
  <2>2. \A j \in Ids : ~On(j, e)  BY <2>1 DEF On, Active
  <2>3. merged[e] = {}  BY DEF Init
  <2> QED  BY <2>2, <2>3 DEF InTurn
<1>2. MergeInv => MergedWasBuilt  BY DEF MergeInv, MergedWasBuilt, InTurn
<1> QED  BY <1>1, <1>2, StudioInvariant, MergeStep, PTL DEF Spec
=============================================================================
