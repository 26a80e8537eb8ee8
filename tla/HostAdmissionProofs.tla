------------------------- MODULE HostAdmissionProofs -------------------------
(***************************************************************************)
(* Proofs about the two admissions to the Docker host: of image builds and *)
(* prunes (BuildGate) and of containers to its memory (MemoryAdmission).   *)
(* The two share nothing.                                                  *)
(*                                                                         *)
(* For any number of build and prune calls, the build gate keeps image     *)
(* prunes away from image builds, never loses a wake-up, hands a call only *)
(* a prune that has not started, and implements HostLease.                 *)
(*                                                                         *)
(* For any containers, starts and readers: no reservation outlives its     *)
(* start, no caller is left waiting for a read that has ended, a           *)
(* measurement asked for since the last start ended hides no container,    *)
(* and what runs fits into the memory there is unless a start was decided  *)
(* on beside another or on a measurement that was late.                    *)
(***************************************************************************)
EXTENDS BuildGate, MemoryAdmission, FiniteSetTheorems, WellFoundedInduction, TLAPS

-----------------------------------------------------------------------------
(* The build gate *)

\* The `builds' counter counts the calls between += 1 and -= 1.
CountsBuilds == builds = Cardinality(Running(Builds))

\* `pruning' names the one body between its assignment and its finally.
HolderIsPruning == \A p \in Prunes : pc[p] \in {"running", "settled"} <=> pruning = p

\* The exclusion itself, on the two gate variables.
Exclusive == pruning # NONE => builds = 0

\* `drained' holds exactly the parked bodies, and only while builds run.
ParkedAreDrained ==
  /\ \A p \in Prunes : pc[p] = "drainWait" <=> p \in drained
  /\ drained # {} => builds > 0

GateInv == GateTypeOK /\ CountsBuilds /\ HolderIsPruning /\ Exclusive /\ ParkedAreDrained

-----------------------------------------------------------------------------
\* A state-by-state view of Running(Builds), so that the steps below need no set algebra.
LEMMA RunningFinite == IsFiniteSet(Running(Builds)) /\ Cardinality(Running(Builds)) \in Nat
<1>1. Running(Builds) \subseteq Builds  BY DEF Running
<1>2. IsFiniteSet(Running(Builds))  BY <1>1, GateConstants, FS_Subset
<1>3. QED  BY <1>2, FS_CardinalityType

\* A step that leaves every build where it is leaves the count alone.
LEMMA CountUnchanged ==
  ASSUME \A b \in Builds : (pc[b] = "running") <=> (pc[b] = "running")'
  PROVE  Running(Builds)' = Running(Builds)
BY DEF Running

\* Entering the gate adds one running build.
LEMMA CountUp ==
  ASSUME GateTypeOK, NEW b \in Builds, pc[b] # "running", pc' = [pc EXCEPT ![b] = "running"]
  PROVE  Cardinality(Running(Builds)') = Cardinality(Running(Builds)) + 1
<1>1. Running(Builds)' = Running(Builds) \cup {b}  BY DEF Running, GateTypeOK
<1>2. b \notin Running(Builds)  BY DEF Running
<1>3. QED  BY <1>1, <1>2, RunningFinite, FS_AddElement

\* Leaving the gate removes one.
LEMMA CountDown ==
  ASSUME GateTypeOK, NEW b \in Builds, pc[b] = "running",
         \A c \in Builds : pc'[c] = IF c = b THEN "done" ELSE pc[c]
  PROVE  Cardinality(Running(Builds)') = Cardinality(Running(Builds)) - 1
<1>1. Running(Builds)' = Running(Builds) \ {b}  BY DEF Running, GateTypeOK
<1>2. b \in Running(Builds)  BY DEF Running
<1>3. QED  BY <1>1, <1>2, RunningFinite, FS_RemoveElement

\* No build runs exactly when the counter is zero.
LEMMA NoneRunning == CountsBuilds => (builds = 0 <=> Running(Builds) = {})
BY RunningFinite, FS_EmptySet DEF CountsBuilds

-----------------------------------------------------------------------------
\* Nothing builds or prunes at first.
LEMMA InitGate == GateInit => GateInv
<1> SUFFICES ASSUME GateInit PROVE GateInv  OBVIOUS
<1>1. GateTypeOK  BY GateConstants DEF GateInit, GateTypeOK, BuildStates, PruneStates
<1>2. Running(Builds) = {}  BY DEF GateInit, Running
<1>3. CountsBuilds  BY <1>2, FS_EmptySet DEF GateInit, CountsBuilds
<1>4. HolderIsPruning /\ Exclusive /\ ParkedAreDrained
  BY GateConstants DEF GateInit, HolderIsPruning, Exclusive, ParkedAreDrained
<1>5. QED  BY <1>1, <1>3, <1>4 DEF GateInv

\* A build that enters or parks keeps the gate's invariant.
LEMMA EnterOrWaitKeepsGate ==
  ASSUME GateInv, NEW b \in Builds, pc[b] \in {"idle", "waiting"}, EnterOrWait(b),
         UNCHANGED <<pruning, drained, queued, keyOf, holds>>
  PROVE  GateInv'
<1> USE GateConstants DEF GateInv
<1>1. GateTypeOK'  BY DEF GateTypeOK, EnterOrWait, BuildStates, PruneStates
<1>2. \A p \in Prunes : pc'[p] = pc[p]  BY DEF GateTypeOK, EnterOrWait
<1>3. HolderIsPruning'  BY <1>2 DEF HolderIsPruning
<1>4. Exclusive'  BY DEF Exclusive, EnterOrWait
<1>5. ParkedAreDrained'  BY <1>2 DEF ParkedAreDrained, EnterOrWait, GateTypeOK
<1>6. CountsBuilds'
  <2>1. CASE pruning = NONE
    <3>1. builds' = builds + 1 /\ pc' = [pc EXCEPT ![b] = "running"]  BY <2>1 DEF EnterOrWait
    <3>2. QED  BY <3>1, CountUp DEF CountsBuilds
  <2>2. CASE pruning # NONE
    <3>1. builds' = builds /\ pc' = [pc EXCEPT ![b] = "waiting"]  BY <2>2 DEF EnterOrWait
    <3>2. \A c \in Builds : (pc[c] = "running") <=> (pc[c] = "running")'  BY <3>1 DEF GateTypeOK
    <3>3. QED  BY <3>1, <3>2, CountUnchanged DEF CountsBuilds
  <2>3. QED  BY <2>1, <2>2
<1>7. QED  BY <1>1, <1>3, <1>4, <1>5, <1>6

\* A build that ends, and wakes the prune when it was the last, keeps it.
LEMMA EndBuildKeepsGate ==
  ASSUME GateInv, NEW b \in Builds, EndBuild(b)
  PROVE  GateInv'
<1> USE GateConstants DEF GateInv
<1> DEFINE woken == IF builds = 1 THEN drained ELSE {}
<1>1. /\ pc' = [c \in Builds \cup Prunes |->
                   IF c = b THEN "done" ELSE IF c \in woken THEN "looking" ELSE pc[c]]
      /\ drained' = drained \ woken
      /\ builds' = builds - 1
      /\ pc[b] = "running"
      /\ UNCHANGED <<pruning, queued, awaited, keyOf, holds>>
  BY DEF EndBuild
<1>2. woken \subseteq Prunes  BY DEF GateTypeOK
<1>3. \A c \in Builds : pc'[c] = IF c = b THEN "done" ELSE pc[c]  BY <1>1, <1>2
<1>4. Cardinality(Running(Builds)') = Cardinality(Running(Builds)) - 1
  BY <1>1, <1>3, CountDown
<1>5. CountsBuilds'  BY <1>1, <1>4 DEF CountsBuilds
<1>6. builds \in Nat \ {0}  BY <1>1, NoneRunning DEF Running, GateTypeOK
<1>7. pruning = NONE  BY <1>6 DEF Exclusive
<1>8. GateTypeOK'  BY <1>1, <1>2, <1>6 DEF GateTypeOK, BuildStates, PruneStates
<1>9. HolderIsPruning' /\ Exclusive'
  BY <1>1, <1>7 DEF HolderIsPruning, Exclusive, ParkedAreDrained, GateTypeOK
<1>10. ParkedAreDrained'
  <2>1. CASE builds = 1  BY <1>1, <2>1 DEF ParkedAreDrained, GateTypeOK
  <2>2. CASE builds # 1
    <3>1. drained' = drained /\ builds' > 0  BY <1>1, <1>6, <2>2
    <3>2. \A p \in Prunes : pc'[p] = pc[p]  BY <1>1, <2>2
    <3>3. QED  BY <3>1, <3>2 DEF ParkedAreDrained
  <2>3. QED  BY <2>1, <2>2
<1>11. QED  BY <1>5, <1>8, <1>9, <1>10

\* The three moves of a prune body and the creation of one touch no build.
LEMMA PruneMovesKeepGate ==
  ASSUME GateInv,
         \/ \E c \in Callers, k \in Keys : WithPrune(c, k)
         \/ \E p \in Prunes : PruneStep(p)
  PROVE  GateInv'
<1> USE GateConstants DEF GateInv
<1>1. ASSUME NEW c \in Callers, NEW k \in Keys, WithPrune(c, k) PROVE GateInv'
  <2>1. GateTypeOK'  BY <1>1 DEF WithPrune, GateTypeOK, PruneStates
  <2>2. \A b \in Builds : (pc[b] = "running") <=> (pc[b] = "running")'  BY <1>1 DEF WithPrune, GateTypeOK
  <2>3. CountsBuilds'  BY <1>1, <2>2, CountUnchanged DEF CountsBuilds, WithPrune
  <2>4. HolderIsPruning' /\ Exclusive' /\ ParkedAreDrained'
    BY <1>1 DEF HolderIsPruning, Exclusive, ParkedAreDrained, WithPrune, GateTypeOK
  <2>5. QED  BY <2>1, <2>3, <2>4
<1>2. ASSUME NEW p \in Prunes, RunBody(p) PROVE GateInv'
  <2>0. pc[p] \in {"looking", "pruneWait"} /\ Look(p) /\ UNCHANGED <<builds, keyOf, holds>>
    BY <1>2 DEF RunBody
  <2>1. GateTypeOK'  BY <2>0 DEF Look, GateTypeOK, PruneStates
  <2>2. \A b \in Builds : (pc[b] = "running") <=> (pc[b] = "running")'  BY <2>0 DEF Look, GateTypeOK
  <2>3. CountsBuilds'  BY <2>0, <2>2, CountUnchanged DEF CountsBuilds
  <2>4. HolderIsPruning' /\ Exclusive'
    BY <2>0 DEF HolderIsPruning, Exclusive, Look, GateTypeOK
  <2>5. ParkedAreDrained'  BY <2>0 DEF ParkedAreDrained, Look, GateTypeOK
  <2>6. QED  BY <2>1, <2>3, <2>4, <2>5
<1>3. ASSUME NEW p \in Prunes, PruneSettles(p) \/ PruneFinally(p) PROVE GateInv'
  <2>1. GateTypeOK'  BY <1>3 DEF PruneSettles, PruneFinally, GateTypeOK, PruneStates
  <2>2. \A b \in Builds : (pc[b] = "running") <=> (pc[b] = "running")'
    BY <1>3 DEF PruneSettles, PruneFinally, GateTypeOK
  <2>3. CountsBuilds'  BY <1>3, <2>2, CountUnchanged DEF CountsBuilds, PruneSettles, PruneFinally
  <2>4. HolderIsPruning' /\ Exclusive' /\ ParkedAreDrained'
    BY <1>3 DEF HolderIsPruning, Exclusive, ParkedAreDrained, PruneSettles, PruneFinally, GateTypeOK
  <2>5. QED  BY <2>1, <2>3, <2>4
<1>4. QED  BY <1>1, <1>2, <1>3 DEF PruneStep

\* Every step keeps the gate's invariant.
LEMMA StepGate == GateInv /\ [GateNext]_gateVars => GateInv'
<1> SUFFICES ASSUME GateInv, [GateNext]_gateVars PROVE GateInv'  OBVIOUS
<1>1. ASSUME NEW b \in Builds, WithBuild(b) \/ ResumeBuild(b) PROVE GateInv'
  BY <1>1, EnterOrWaitKeepsGate DEF WithBuild, ResumeBuild
<1>2. ASSUME NEW b \in Builds, EndBuild(b) PROVE GateInv'  BY <1>2, EndBuildKeepsGate
<1>3. CASE UNCHANGED gateVars
  BY <1>3 DEF gateVars, GateInv, GateTypeOK, CountsBuilds, HolderIsPruning, Exclusive, ParkedAreDrained, Running
<1>4. QED  BY <1>1, <1>2, <1>3, PruneMovesKeepGate DEF GateNext, BuildStep

-----------------------------------------------------------------------------
\* The gate invariant holds in every reachable state.
THEOREM GateInvariant == GateSpec => []GateInv
<1>1. QED  BY InitGate, StepGate, PTL DEF GateSpec

\* buildGate.js: however many deploys build and prune at once, a prune never
\* runs beside a build and two prunes never run together.
THEOREM GateExcludes == GateSpec => []NoBuildBesidePrune
<1>1. GateInv => NoBuildBesidePrune
  BY NoneRunning, GateConstants
     DEF GateInv, NoBuildBesidePrune, HolderIsPruning, Exclusive, Running, GateTypeOK
<1>2. QED  BY <1>1, GateInvariant, PTL

\* buildGate.js: a body parked in `drained' always has a running build that
\* will wake it, so resetting the list loses nobody.
THEOREM NoLostWakeUp == GateSpec => []ParkedOnlyBehindBuilds
<1>1. GateInv => ParkedOnlyBehindBuilds
  BY NoneRunning DEF GateInv, ParkedOnlyBehindBuilds, ParkedAreDrained, GateTypeOK
<1>2. QED  BY <1>1, GateInvariant, PTL

\* Type correctness of the gate, for any calls and keys.
THEOREM GateTypes == GateSpec => []GateTypeOK
<1>1. GateInv => GateTypeOK  BY DEF GateInv
<1>2. QED  BY <1>1, GateInvariant, PTL

-----------------------------------------------------------------------------
(* Whom a caller joins *)

\* What is queued under a key is a body of that key that has not started.
QueuedAreWaiting ==
  \A k \in Keys : queued[k] # NONE =>
    pc[queued[k]] \in {"looking", "drainWait", "pruneWait"} /\ keyOf[queued[k]] = k

\* The body that starts is the only one queued under its key, and leaves the queue.
LEMMA QueueKept == GateInv /\ QueuedAreWaiting /\ [GateNext]_gateVars => QueuedAreWaiting'
<1> SUFFICES ASSUME GateInv, QueuedAreWaiting, [GateNext]_gateVars PROVE QueuedAreWaiting'
  OBVIOUS
<1>0. \A k \in Keys : queued[k] # NONE => queued[k] \in Prunes
  BY DEF GateInv, GateTypeOK
<1>1. ASSUME NEW b \in Builds, WithBuild(b) \/ ResumeBuild(b) PROVE QueuedAreWaiting'
  <2>1. UNCHANGED <<queued, keyOf>> /\ \A p \in Prunes : pc'[p] = pc[p]
    BY <1>1, GateConstants DEF WithBuild, ResumeBuild, EnterOrWait, GateInv, GateTypeOK
  <2> QED  BY <1>0, <2>1 DEF QueuedAreWaiting
<1>2. ASSUME NEW b \in Builds, EndBuild(b) PROVE QueuedAreWaiting'
  <2>1. /\ UNCHANGED <<queued, keyOf>>
        /\ \A p \in Prunes : pc'[p] \in {pc[p], "looking"}
    BY <1>2, GateConstants DEF EndBuild, GateInv, GateTypeOK
  <2> QED  BY <1>0, <2>1 DEF QueuedAreWaiting
<1>3. ASSUME NEW c \in Callers, NEW k \in Keys, WithPrune(c, k) PROVE QueuedAreWaiting'
  <2>1. CASE queued[k] # NONE
    BY <1>3, <2>1 DEF WithPrune, QueuedAreWaiting
  <2>2. CASE queued[k] = NONE
    <3>1. PICK p \in Prunes : /\ pc[p] = "unused"
                              /\ pc' = [pc EXCEPT ![p] = "looking"]
                              /\ queued' = [queued EXCEPT ![k] = p]
                              /\ keyOf' = [keyOf EXCEPT ![p] = k]
      BY <1>3, <2>2 DEF WithPrune
    <3>2. \A j \in Keys : queued[j] # p  BY <3>1, GateConstants DEF QueuedAreWaiting
    <3>3. \A q \in Prunes : q # p => pc'[q] = pc[q] /\ keyOf'[q] = keyOf[q]
      BY <3>1 DEF GateInv, GateTypeOK
    <3>4. pc'[p] = "looking" /\ keyOf'[p] = k /\ queued'[k] = p
      BY <3>1 DEF GateInv, GateTypeOK
    <3>5. \A j \in Keys : j # k => queued'[j] = queued[j]
      BY <3>1 DEF GateInv, GateTypeOK
    <3> QED  BY <1>0, <3>2, <3>3, <3>4, <3>5 DEF QueuedAreWaiting
  <2> QED  BY <2>1, <2>2
<1>4. ASSUME NEW p \in Prunes, RunBody(p) PROVE QueuedAreWaiting'
  <2>1. Look(p) /\ keyOf' = keyOf  BY <1>4 DEF RunBody
  <2>2. \A q \in Prunes : q # p => pc'[q] = pc[q]  BY <2>1 DEF Look, GateInv, GateTypeOK
  <2>3. CASE builds > 0 \/ pruning # NONE
    <3>1. UNCHANGED queued /\ pc'[p] \in {"drainWait", "pruneWait"}
      BY <2>1, <2>3 DEF Look, GateInv, GateTypeOK
    <3> QED  BY <1>0, <2>1, <2>2, <3>1 DEF QueuedAreWaiting
  <2>4. CASE ~(builds > 0 \/ pruning # NONE)
    <3>1. queued' = [queued EXCEPT ![keyOf[p]] = NONE]  BY <2>1, <2>4 DEF Look
    <3>2. \A k \in Keys : queued'[k] # NONE => queued'[k] = queued[k] /\ k # keyOf[p]
      BY <3>1 DEF GateInv, GateTypeOK
    <3> QED  BY <1>0, <2>1, <2>2, <3>2 DEF QueuedAreWaiting
  <2> QED  BY <2>3, <2>4
<1>5. ASSUME NEW p \in Prunes, PruneSettles(p) \/ PruneFinally(p) PROVE QueuedAreWaiting'
  <2>1. /\ pc[p] \in {"running", "settled"} /\ UNCHANGED <<queued, keyOf>>
        /\ \A q \in Prunes : q # p => pc'[q] = pc[q]
    BY <1>5 DEF PruneSettles, PruneFinally, GateInv, GateTypeOK
  <2> QED  BY <1>0, <2>1 DEF QueuedAreWaiting
<1>6. CASE UNCHANGED gateVars  BY <1>6 DEF gateVars, QueuedAreWaiting
<1> QED  BY <1>1, <1>2, <1>3, <1>4, <1>5, <1>6 DEF GateNext, BuildStep, PruneStep

\* buildGate.js: a prune request joins only a body that has not started, or the one it
\* creates, so what was orphaned before the request is still there to be removed.
THEOREM JoinsOnlyWhatWaits == GateSpec => NeverJoinsStartedPrune
<1>1. GateInit => QueuedAreWaiting  BY DEF GateInit, QueuedAreWaiting
<1>2. GateInv /\ QueuedAreWaiting /\ [GateNext]_gateVars
      => [\A c \in Callers : holds[c] = NONE /\ holds'[c] # NONE
            => pc'[holds'[c]] \notin {"running", "settled", "done"}]_gateVars
  <2> SUFFICES ASSUME GateInv, QueuedAreWaiting, [GateNext]_gateVars,
                      NEW c \in Callers, holds[c] = NONE, holds'[c] # NONE
               PROVE  pc'[holds'[c]] \notin {"running", "settled", "done"}
    OBVIOUS
  <2>1. PICK d \in Callers, k \in Keys : WithPrune(d, k)
    BY DEF GateNext, BuildStep, WithBuild, ResumeBuild, EndBuild,
           PruneStep, RunBody, PruneSettles, PruneFinally, gateVars
  <2>2. d = c  BY <2>1 DEF WithPrune, GateInv, GateTypeOK
  <2>3. CASE queued[k] # NONE
    <3>1. holds'[c] = queued[k] /\ pc' = pc
      BY <2>1, <2>2, <2>3 DEF WithPrune, GateInv, GateTypeOK
    <3> QED  BY <2>3, <3>1 DEF QueuedAreWaiting
  <2>4. CASE queued[k] = NONE
    <3>1. PICK p \in Prunes : pc' = [pc EXCEPT ![p] = "looking"] /\ holds'[c] = p
      BY <2>1, <2>2, <2>4 DEF WithPrune, GateInv, GateTypeOK
    <3> QED  BY <3>1 DEF GateInv, GateTypeOK
  <2> QED  BY <2>3, <2>4
<1> QED
  BY <1>1, <1>2, GateInvariant, QueueKept, PTL DEF GateSpec, NeverJoinsStartedPrune

-----------------------------------------------------------------------------
(* The gate implements the lease *)

LeaseOf == [c \in Builds \cup Prunes |-> Stage(c)]

\* A step that moves one call changes the lease of that call alone.
LEMMA LeaseMove ==
  ASSUME NEW c \in Builds \cup Prunes, NEW stage, Stage(c)' = stage,
         \A d \in Builds \cup Prunes : d # c => Stage(d)' = Stage(d)
  PROVE  LeaseOf' = [LeaseOf EXCEPT ![c] = stage]
BY DEF LeaseOf

\* A step that changes no stage is a stutter of the lease.
LEMMA LeaseStutter ==
  ASSUME \A d \in Builds \cup Prunes : Stage(d)' = Stage(d)
  PROVE  LeaseOf' = LeaseOf
BY DEF LeaseOf

\* The actions of the lease, over the stages of the calls.
LEMMA LeaseAsks ==
  ASSUME NEW c \in Builds \cup Prunes, Stage(c) = "out",
         LeaseOf' = [LeaseOf EXCEPT ![c] = "asked"]
  PROVE  Lease!Next
BY DEF Lease!Next, Lease!Ask, Lease!Go, LeaseOf

LEMMA LeaseEndsHere ==
  ASSUME NEW c \in Builds \cup Prunes, Stage(c) = "in",
         LeaseOf' = [LeaseOf EXCEPT ![c] = "done"]
  PROVE  Lease!Next
BY DEF Lease!Next, Lease!Leave, Lease!Go, LeaseOf

LEMMA BuildComesIn ==
  ASSUME NEW b \in Builds, Stage(b) \in {"out", "asked"},
         \A p \in Prunes : Stage(p) # "in",
         LeaseOf' = [LeaseOf EXCEPT ![b] = "in"]
  PROVE  Lease!Next
BY DEF Lease!Next, Lease!EnterBuild, Lease!Inside, Lease!Go, LeaseOf

LEMMA PruneComesIn ==
  ASSUME NEW p \in Prunes, Stage(p) = "asked",
         \A c \in Builds \cup Prunes : Stage(c) # "in",
         LeaseOf' = [LeaseOf EXCEPT ![p] = "in"]
  PROVE  Lease!Next
BY DEF Lease!Next, Lease!EnterPrune, Lease!Inside, Lease!Go, LeaseOf

\* While the gate's variables say so, no prune and no build holds the host.
LEMMA WhoIsInside ==
  ASSUME GateInv
  PROVE  /\ pruning = NONE => \A p \in Prunes : Stage(p) # "in"
         /\ builds = 0 => \A b \in Builds : Stage(b) # "in"
<1>1. pruning = NONE => \A p \in Prunes : Stage(p) # "in"
  BY GateConstants DEF GateInv, HolderIsPruning, GateTypeOK, PruneStates, Stage
<1>2. builds = 0 => \A b \in Builds : Stage(b) # "in"
  BY NoneRunning DEF GateInv, Running, GateTypeOK, BuildStates, Stage
<1> QED  BY <1>1, <1>2

\* withBuild either parks, which asks for the lease, or takes it.
LEMMA EnterOrWaitLease ==
  ASSUME GateInv, NEW b \in Builds, pc[b] \in {"idle", "waiting"}, EnterOrWait(b)
  PROVE  Lease!Next \/ LeaseOf' = LeaseOf
<1>0. \A d \in Builds \cup Prunes : d # b => Stage(d)' = Stage(d)
  BY DEF EnterOrWait, GateInv, GateTypeOK, Stage
<1>1. CASE pruning # NONE
  <2>1. Stage(b)' = "asked"  BY <1>1 DEF EnterOrWait, GateInv, GateTypeOK, Stage
  <2>2. CASE pc[b] = "idle"
    BY <1>0, <2>1, <2>2, LeaseMove, LeaseAsks DEF Stage
  <2>3. CASE pc[b] = "waiting"
    <3>1. Stage(b) = "asked"  BY <2>3 DEF Stage
    <3> QED  BY <1>0, <2>1, <3>1, LeaseStutter
  <2> QED  BY <2>2, <2>3
<1>2. CASE pruning = NONE
  <2>1. Stage(b)' = "in"  BY <1>2 DEF EnterOrWait, GateInv, GateTypeOK, Stage
  <2>2. Stage(b) \in {"out", "asked"}  BY DEF Stage
  <2> QED  BY <1>0, <1>2, <2>1, <2>2, LeaseMove, BuildComesIn, WhoIsInside
<1> QED  BY <1>1, <1>2

\* The end of a build gives its lease back; a woken prune still waits for its own.
LEMMA EndBuildLease ==
  ASSUME GateInv, NEW b \in Builds, EndBuild(b)
  PROVE  Lease!Next
<1>1. Stage(b) = "in" /\ Stage(b)' = "done"
  BY DEF EndBuild, GateInv, GateTypeOK, Stage
<1>2. ASSUME NEW d \in Builds \cup Prunes, d # b PROVE Stage(d)' = Stage(d)
  <2>1. CASE d \in drained /\ builds = 1
    BY <1>2, <2>1 DEF EndBuild, GateInv, GateTypeOK, ParkedAreDrained, Stage
  <2>2. CASE ~(d \in drained /\ builds = 1)
    BY <1>2, <2>2 DEF EndBuild, GateInv, GateTypeOK, Stage
  <2> QED  BY <2>1, <2>2
<1> QED  BY <1>1, <1>2, LeaseMove, LeaseEndsHere

\* Asking for a prune asks for a lease, unless it joins one that is queued.
LEMMA WithPruneLease ==
  ASSUME GateInv, NEW c \in Callers, NEW k \in Keys, WithPrune(c, k)
  PROVE  Lease!Next \/ LeaseOf' = LeaseOf
<1>1. CASE queued[k] # NONE
  BY <1>1, LeaseStutter DEF WithPrune, Stage
<1>2. CASE queued[k] = NONE
  <2>1. PICK p \in Prunes : pc[p] = "unused" /\ pc' = [pc EXCEPT ![p] = "looking"]
    BY <1>2 DEF WithPrune
  <2>2. Stage(p) = "out" /\ Stage(p)' = "asked"
    BY <2>1 DEF GateInv, GateTypeOK, Stage
  <2>3. \A d \in Builds \cup Prunes : d # p => Stage(d)' = Stage(d)
    BY <2>1 DEF GateInv, GateTypeOK, Stage
  <2> QED  BY <2>2, <2>3, LeaseMove, LeaseAsks
<1> QED  BY <1>1, <1>2

\* A prune body looks, runs and ends.
LEMMA PruneStepLease ==
  ASSUME GateInv, NEW p \in Prunes, PruneStep(p)
  PROVE  Lease!Next \/ LeaseOf' = LeaseOf
<1>0. ASSUME NEW stage \in PruneStates, pc' = [pc EXCEPT ![p] = stage]
      PROVE  \A d \in Builds \cup Prunes : d # p => Stage(d)' = Stage(d)
  BY <1>0 DEF GateInv, GateTypeOK, Stage
<1>1. CASE RunBody(p)
  <2>0. pc[p] \in {"looking", "pruneWait"} /\ Look(p)  BY <1>1 DEF RunBody
  <2>1. Stage(p) = "asked"  BY <2>0 DEF Stage
  <2>2. CASE builds > 0 \/ pruning # NONE
    <3>1. \E s \in {"drainWait", "pruneWait"} : pc' = [pc EXCEPT ![p] = s]
      BY <2>0, <2>2 DEF Look, GateInv, GateTypeOK
    <3>2. Stage(p)' = "asked"  BY <3>1 DEF GateInv, GateTypeOK, Stage
    <3> QED  BY <1>0, <2>1, <3>1, <3>2, LeaseStutter DEF PruneStates
  <2>3. CASE builds = 0 /\ pruning = NONE
    <3>1. pc' = [pc EXCEPT ![p] = "running"]  BY <2>0, <2>3 DEF Look
    <3>2. Stage(p)' = "in"  BY <3>1 DEF GateInv, GateTypeOK, Stage
    <3> QED  BY <1>0, <2>1, <2>3, <3>1, <3>2, LeaseMove, PruneComesIn, WhoIsInside
             DEF PruneStates
  <2> QED  BY <2>2, <2>3 DEF GateInv, GateTypeOK
<1>2. CASE PruneSettles(p)
  <2>1. Stage(p)' = Stage(p) /\ pc' = [pc EXCEPT ![p] = "settled"]
    BY <1>2 DEF PruneSettles, GateInv, GateTypeOK, Stage
  <2> QED  BY <1>0, <2>1, LeaseStutter DEF PruneStates
<1>3. CASE PruneFinally(p)
  <2>1. /\ Stage(p) = "in" /\ Stage(p)' = "done"
        /\ pc' = [pc EXCEPT ![p] = "done"]
    BY <1>3 DEF PruneFinally, GateInv, GateTypeOK, Stage
  <2> QED  BY <1>0, <2>1, LeaseMove, LeaseEndsHere DEF PruneStates
<1> QED  BY <1>1, <1>2, <1>3 DEF PruneStep

\* buildGate.js: whatever the number of calls and the order of their wake-ups, the
\* gate behaves as a lease that builds share and a prune has alone.
THEOREM GateIsALease == GateSpec => Lease!Spec
<1>1. GateInit => Lease!Init
  BY GateConstants DEF GateInit, Lease!Init, Stage
<1>2. GateInv /\ [GateNext]_gateVars => Lease!Next \/ LeaseOf' = LeaseOf
  <2> SUFFICES ASSUME GateInv, [GateNext]_gateVars PROVE Lease!Next \/ LeaseOf' = LeaseOf
    OBVIOUS
  <2>1. ASSUME NEW b \in Builds, WithBuild(b) \/ ResumeBuild(b)
        PROVE  Lease!Next \/ LeaseOf' = LeaseOf
    BY <2>1, EnterOrWaitLease DEF WithBuild, ResumeBuild
  <2>2. ASSUME UNCHANGED gateVars PROVE LeaseOf' = LeaseOf
    BY <2>2, LeaseStutter DEF gateVars, Stage
  <2> QED
    BY <2>1, <2>2, EndBuildLease, WithPruneLease, PruneStepLease DEF GateNext, BuildStep
<1>3. GateInv /\ [GateNext]_gateVars => [Lease!Next]_LeaseOf
  BY <1>2
<1> QED
  BY <1>1, <1>3, GateInvariant, PTL DEF GateSpec, Lease!Spec, LeaseOf

-----------------------------------------------------------------------------
(* The admission to memory *)

\* What RunningContainers leaves behind is well typed.
LEMMA RunningContainersTypes ==
  ASSUME TypeOK, NEW p \in Actors, RunningContainers(p)
  PROVE  /\ flight' \in [Actors -> Reads]
         /\ shared' \in Actors \cup {NoOne}
         /\ at' \in [Actors -> Ats]
         /\ \A q \in Actors : q # p => at'[q] = at[q]
         /\ on' \in [Actors -> Actors \cup {NoOne}]
         /\ view' \in [Actors -> Rows \cup {NoRows}]
         /\ \A q \in Actors : flight'[q].st = "listed" => flight'[q].rows \in Rows
         /\ \A q \in Actors : at'[q] \in {"measured", "hit"} => view'[q] \in Rows
         /\ \A q \in Actors : at'[q] = "waiting" => on'[q] \in Actors
<1>1. CASE snap # NoRows
  BY <1>1 DEF TypeOK, RunningContainers, Ats
<1>2. CASE snap = NoRows /\ Joinable
  BY <1>2 DEF TypeOK, RunningContainers, Joinable, Ats
<1>3. CASE snap = NoRows /\ ~Joinable
  <2>1. [st |-> "asked", rows |-> NoRows, current |-> TRUE] \in Reads
    BY DEF Reads
  <2>2. flight' = [flight EXCEPT ![p] =
                     [st |-> "asked", rows |-> NoRows, current |-> TRUE]]
    BY <1>3 DEF RunningContainers
  <2>3. flight' \in [Actors -> Reads]
    BY <2>1, <2>2 DEF TypeOK
  <2>4. \A q \in Actors : flight'[q].st = "listed" => flight'[q].rows \in Rows
    BY <2>2 DEF TypeOK
  <2> QED
    BY <1>3, <2>3, <2>4 DEF TypeOK, RunningContainers, Ats
<1> QED
  BY <1>1, <1>2, <1>3

\* A call that ends keeps the types of the per-actor variables.
LEMMA FinishTypes ==
  ASSUME TypeOK, NEW p \in Actors, Finish(p)
  PROVE  /\ at' \in [Actors -> Ats]
         /\ on' \in [Actors -> Actors \cup {NoOne}]
         /\ view' \in [Actors -> Rows \cup {NoRows}]
         /\ job' \in [Actors -> Jobs \cup {NoJob}]
         /\ \A q \in Starters : at'[q] # "idle" => job'[q] \in Jobs
         /\ \A q \in Actors : at'[q] \in {"measured", "hit"} => view'[q] \in Rows
         /\ \A q \in Actors : at'[q] = "waiting" => on'[q] \in Actors
         /\ \A q \in Actors : q # p => at'[q] = at[q] /\ job'[q] = job[q] /\ view'[q] = view[q]
         /\ at'[p] = "idle"
  BY DEF TypeOK, Finish, Ats, Actors

\* Invalidation keeps the types of the caches.
LEMMA InvalidateTypes ==
  ASSUME TypeOK, Invalidate
  PROVE  /\ cached' = NoRows /\ snap' = NoRows
         /\ flight' \in [Actors -> Reads]
         /\ \A q \in Actors : flight'[q].st = flight[q].st /\ flight'[q].rows = flight[q].rows
         /\ \A q \in Actors : ~flight'[q].current
<1>1. \A q \in Actors : flight[q] \in Reads
  BY DEF TypeOK
<1>2. \A q \in Actors : [flight[q] EXCEPT !.current = FALSE] \in Reads
  BY <1>1 DEF Reads
<1>3. flight' = [q \in Actors |-> [flight[q] EXCEPT !.current = FALSE]]
  BY DEF Invalidate
<1> QED
  BY <1>1, <1>2, <1>3 DEF Invalidate, Reads

\* The end of a start keeps the types of the history.
LEMMA StartEndsTypes ==
  ASSUME TypeOK, NEW i \in BOOLEAN, StartEnds(i)
  PROVE  /\ lateReads' \subseteq Actors /\ lateViews' \subseteq Actors
         /\ lateCached' \in BOOLEAN /\ lateSnap' \in BOOLEAN /\ alone' \in BOOLEAN
<1>1. (~i /\ cached # NoRows) \in BOOLEAN /\ (~i /\ snap # NoRows) \in BOOLEAN  OBVIOUS
<1>2. lateCached' \in BOOLEAN /\ lateSnap' \in BOOLEAN  BY <1>1 DEF StartEnds
<1>3. alone' \in BOOLEAN  BY DEF StartEnds, TypeOK
<1>4. lateReads' \subseteq Actors /\ lateViews' \subseteq Actors  BY DEF StartEnds
<1> QED  BY <1>2, <1>3, <1>4

\* What a caller writes into the cache is well typed.
LEMMA CacheTypes ==
  ASSUME TypeOK, NEW p \in Actors, at[p] \in {"measured", "hit"}, Cache(p)
  PROVE  cached' \in Rows \cup {NoRows} /\ lateCached' \in BOOLEAN
<1>1. cached' \in Rows \cup {NoRows}
  BY DEF Cache, TypeOK
<1>2. (p \in lateViews) \in BOOLEAN /\ lateCached \in BOOLEAN
  BY DEF TypeOK
<1>3. lateCached' \in BOOLEAN
  BY <1>2 DEF Cache
<1> QED  BY <1>1, <1>3

\* A step of the app's process keeps the variables well typed when only the
\* containers, the place of the call and the reservations change.
LEMMA MoveTypes ==
  ASSUME TypeOK, NEW p \in Starters, NEW next \in Ats \ {"waiting", "measured", "hit"},
         at[p] # "idle",
         at' = [at EXCEPT ![p] = next],
         UNCHANGED <<cached, snap, flight, shared, on, view, job, late, alone>>,
         running' \in Rows, holder' \in [Names -> Starters \cup {NoOne}]
  PROVE  TypeOK'
  BY DEF TypeOK, Actors, late

\* The reservations, the caches and every call in progress are well typed.
THEOREM MemoryTypes == Spec => []TypeOK
<1>1. Init => TypeOK
  <2> SUFFICES ASSUME Init PROVE TypeOK
    OBVIOUS
  <2>1. running \in Rows /\ NoFlight \in Reads /\ NoFlight.st = "none" /\ "idle" \in Ats
    BY DEF Init, Rows, Reads, NoFlight, Ats
  <2>2. /\ cached \in Rows \cup {NoRows} /\ snap \in Rows \cup {NoRows}
        /\ flight \in [Actors -> Reads]
        /\ shared \in Actors \cup {NoOne}
        /\ holder \in [Names -> Starters \cup {NoOne}]
        /\ at \in [Actors -> Ats]
        /\ on \in [Actors -> Actors \cup {NoOne}]
        /\ view \in [Actors -> Rows \cup {NoRows}]
        /\ job \in [Actors -> Jobs \cup {NoJob}]
    BY <2>1 DEF Init
  <2>3. /\ lateReads \subseteq Actors /\ lateViews \subseteq Actors
        /\ lateCached \in BOOLEAN /\ lateSnap \in BOOLEAN /\ alone \in BOOLEAN
    BY DEF Init
  <2>4. /\ \A p \in Actors : at[p] = "idle" /\ flight[p].st = "none"
        /\ Starters \subseteq Actors
    BY <2>1 DEF Init, Actors
  <2> QED
    BY <2>1, <2>2, <2>3, <2>4 DEF TypeOK
<1>2. TypeOK /\ [Next]_vars => TypeOK'
  <2> SUFFICES ASSUME TypeOK, [Next]_vars PROVE TypeOK'
    OBVIOUS
  <2>0. /\ Starters \subseteq Actors /\ Readers \subseteq Actors
        /\ Apps \subseteq Names /\ Coders \subseteq Names
    BY DEF Actors, Names
  <2>1. ASSUME NEW p \in Actors, DockerLists(p) PROVE TypeOK'
    <3>1. flight[p] \in Reads /\ running \in Rows
      BY DEF TypeOK
    <3>2. flight' = [flight EXCEPT ![p] = [flight[p] EXCEPT !.st = "listed", !.rows = running]]
      BY <2>1 DEF DockerLists, TypeOK
    <3>3. [flight[p] EXCEPT !.st = "listed", !.rows = running] \in Reads
      BY <3>1 DEF Reads
    <3>4. flight' \in [Actors -> Reads]
      BY <3>2, <3>3 DEF TypeOK
    <3>5. \A q \in Actors : flight'[q].st = "listed" => flight'[q].rows \in Rows
      BY <3>1, <3>2 DEF TypeOK, Reads
    <3> QED
      BY <2>1, <3>4, <3>5 DEF DockerLists, TypeOK, late
  <2>2. ASSUME NEW p \in Actors, ReadReturns(p) PROVE TypeOK'
    <3>1. flight[p] \in Reads /\ flight[p].rows \in Rows
      BY <2>2 DEF TypeOK, ReadReturns
    <3>2. NoFlight \in Reads /\ NoFlight.st = "none"
      BY DEF NoFlight, Reads
    <3>3. /\ flight' \in [Actors -> Reads]
          /\ \A q \in Actors : flight'[q].st = "listed" => flight'[q].rows \in Rows
      BY <2>2, <3>2 DEF TypeOK, ReadReturns
    <3>4. /\ at' \in [Actors -> Ats]
          /\ view' \in [Actors -> Rows \cup {NoRows}]
      BY <2>2, <3>1 DEF TypeOK, ReadReturns, Ats
    <3>5. /\ \A q \in Actors : at'[q] \in {"measured", "hit"} => view'[q] \in Rows
          /\ \A q \in Actors : at'[q] = "waiting" => at[q] = "waiting"
          /\ \A q \in Starters : at'[q] # "idle" => at[q] # "idle"
      BY <2>2, <2>0, <3>1 DEF TypeOK, ReadReturns, WaitsFor
    <3>6. /\ lateReads' \subseteq Actors /\ lateViews' \subseteq Actors /\ lateSnap' \in BOOLEAN
          /\ UNCHANGED <<lateCached, alone>>
      <4>1. (p \in lateReads) \in BOOLEAN /\ lateSnap \in BOOLEAN
        BY DEF TypeOK
      <4>2. lateSnap' \in BOOLEAN
        BY <2>2, <4>1 DEF ReadReturns
      <4>3. lateReads' \subseteq Actors /\ lateViews' \subseteq Actors
        BY <2>2 DEF TypeOK, ReadReturns
      <4> QED
        BY <2>2, <4>2, <4>3 DEF ReadReturns
    <3> QED
      BY <2>2, <2>0, <3>1, <3>3, <3>4, <3>5, <3>6 DEF TypeOK, ReadReturns
  <2>3. ASSUME NEW p \in Starters, NEW k \in {"deploy", "restart", "coder"}, NEW m \in Names,
               NEW s \in Sizes, Request(p, k, m, s)
        PROVE  TypeOK'
    <3>1. [kind |-> k, name |-> m, size |-> s] \in Jobs
      BY DEF Jobs
    <3>2. /\ job' \in [Actors -> Jobs \cup {NoJob}]
          /\ job'[p] \in Jobs
          /\ \A q \in Actors : q # p => job'[q] = job[q]
      BY <2>3, <2>0, <3>1 DEF Request, TypeOK
    <3>5. /\ lateReads' \subseteq Actors /\ lateViews' \subseteq Actors
          /\ UNCHANGED <<lateCached, lateSnap, alone>>
      BY <2>3, <2>0 DEF Request, RunningContainers, TypeOK
    <3>3. CASE RunningContainers(p)
      <4>1. \A q \in Starters : at'[q] # "idle" => job'[q] \in Jobs
        BY <3>2, <3>3, <2>0, RunningContainersTypes DEF TypeOK
      <4> QED
        BY <2>3, <2>0, <3>2, <3>3, <3>5, <4>1, RunningContainersTypes DEF Request, TypeOK
    <3>4. CASE /\ cached # NoRows
               /\ view' = [view EXCEPT ![p] = cached]
               /\ at' = [at EXCEPT ![p] = "hit"]
               /\ UNCHANGED <<flight, shared, on>>
      <4>1. /\ at' \in [Actors -> Ats]
            /\ view' \in [Actors -> Rows \cup {NoRows}]
            /\ \A q \in Actors : at'[q] \in {"measured", "hit"} => view'[q] \in Rows
            /\ \A q \in Actors : at'[q] = "waiting" => at[q] = "waiting"
        BY <2>0, <3>4 DEF TypeOK, Ats
      <4>2. \A q \in Starters : at'[q] # "idle" => job'[q] \in Jobs
        BY <2>0, <3>2, <3>4 DEF TypeOK
      <4> QED
        BY <2>3, <2>0, <3>2, <3>4, <3>5, <4>1, <4>2 DEF Request, TypeOK
    <3>6. \/ RunningContainers(p)
          \/ /\ cached # NoRows
             /\ view' = [view EXCEPT ![p] = cached]
             /\ at' = [at EXCEPT ![p] = "hit"]
             /\ UNCHANGED <<flight, shared, on>>
      BY <2>3 DEF Request
    <3> QED
      BY <3>3, <3>4, <3>6
  <2>4. ASSUME NEW p \in Starters, Decide(p) PROVE TypeOK'
    <3>1. cached' \in Rows \cup {NoRows} /\ lateCached' \in BOOLEAN
      BY <2>4, <2>0, CacheTypes DEF Decide
    <3>4. /\ lateReads' \subseteq Actors /\ lateViews' \subseteq Actors /\ lateSnap' \in BOOLEAN
          /\ alone' \in BOOLEAN
      <4>1. (alone /\ p \notin lateViews /\ \A q \in Starters : ~UnderWay(q)) \in BOOLEAN  OBVIOUS
      <4>2. alone' \in BOOLEAN  BY <2>4, <4>1 DEF Decide, TypeOK
      <4> QED  BY <2>4, <4>2 DEF Decide, TypeOK
    <3>2. CASE Finish(p)
      BY <2>4, <2>0, <3>1, <3>2, <3>4, FinishTypes DEF Decide, TypeOK
    <3>3. CASE /\ at' = [at EXCEPT ![p] = "admitted"]
               /\ on' = [on EXCEPT ![p] = NoOne]
               /\ view' = [view EXCEPT ![p] = NoRows]
               /\ UNCHANGED job
      <4>1. at[p] # "idle"
        BY <2>4 DEF Decide
      <4> QED
        BY <2>4, <2>0, <3>1, <3>3, <3>4, <4>1 DEF Decide, TypeOK, Ats
    <3> QED
      BY <2>4, <3>2, <3>3 DEF Decide
  <2>5. ASSUME NEW p \in Starters, Reserve(p) PROVE TypeOK'
    BY <2>5, MoveTypes DEF Reserve, TypeOK, Ats
  <2>6. ASSUME NEW p \in Starters, StopOld(p) \/ RunContainer(p) \/ RestartStop(p) PROVE TypeOK'
    <3>1. at[p] # "idle" /\ job[p] \in Jobs
      BY <2>6 DEF StopOld, RunContainer, RestartStop, TypeOK
    <3>2. running' \in Rows
      BY <2>6, <3>1 DEF StopOld, RunContainer, RestartStop, TypeOK, Rows, Jobs
    <3> QED
      BY <2>6, <3>1, <3>2, MoveTypes DEF StopOld, RunContainer, RestartStop, TypeOK, Ats
  <2>7. ASSUME NEW p \in Starters, RunFails(p) PROVE TypeOK'
    BY <2>7, MoveTypes DEF RunFails, TypeOK, Ats
  <2>8. ASSUME NEW p \in Starters, Release(p) PROVE TypeOK'
    <3>1. holder' \in [Names -> Starters \cup {NoOne}]
      BY <2>8 DEF Release, TypeOK
    <3> QED
      BY <2>8, <2>0, <3>1, FinishTypes, InvalidateTypes, StartEndsTypes DEF Release, TypeOK
  <2>9. ASSUME NEW p \in Starters, RestartStart(p) PROVE TypeOK'
    <3>1. job[p] \in Jobs
      BY <2>9 DEF RestartStart, TypeOK
    <3>2. running' \in Rows
      BY <2>9, <3>1 DEF RestartStart, TypeOK, Rows, Jobs
    <3> QED
      BY <2>9, <2>0, <3>2, FinishTypes, StartEndsTypes DEF RestartStart, TypeOK
  <2>10. ASSUME NEW p \in Starters, CoderStart(p) PROVE TypeOK'
    <3>1. job[p] \in Jobs
      BY <2>10 DEF CoderStart, TypeOK
    <3>2. running' \in Rows /\ holder' \in [Names -> Starters \cup {NoOne}]
      BY <2>10, <3>1 DEF CoderStart, TypeOK, Rows, Jobs
    <3> QED
      BY <2>10, <2>0, <3>2, FinishTypes, InvalidateTypes, StartEndsTypes DEF CoderStart, TypeOK
  <2>11. ASSUME NEW p \in Readers, Read(p) PROVE TypeOK'
    <3>1. \A q \in Starters : at'[q] # "idle" => at[q] # "idle"
      BY <2>11, <2>0, RunningContainersTypes, MemoryConstants DEF Read
    <3>2. /\ lateReads' \subseteq Actors /\ lateViews' \subseteq Actors
          /\ lateCached' \in BOOLEAN /\ lateSnap' \in BOOLEAN /\ alone' \in BOOLEAN
      BY <2>11, <2>0 DEF Read, RunningContainers, TypeOK
    <3>3. job' = job /\ running' = running /\ cached' = cached /\ snap' = snap /\ holder' = holder
      BY <2>11 DEF Read
    <3>4. \A q \in Starters : at'[q] # "idle" => job'[q] \in Jobs
      BY <3>1, <3>3 DEF TypeOK
    <3>5. RunningContainers(p) /\ p \in Actors
      BY <2>11, <2>0 DEF Read
    <3>6. /\ running' \in Rows /\ cached' \in Rows \cup {NoRows} /\ snap' \in Rows \cup {NoRows}
          /\ holder' \in [Names -> Starters \cup {NoOne}] /\ job' \in [Actors -> Jobs \cup {NoJob}]
      BY <3>3 DEF TypeOK
    <3> QED
      BY <3>2, <3>4, <3>5, <3>6, RunningContainersTypes DEF TypeOK
  <2>12. ASSUME NEW p \in Readers, ReadDone(p) PROVE TypeOK'
    <3>1. cached' \in Rows \cup {NoRows} /\ lateCached' \in BOOLEAN /\ lateViews' \subseteq Actors
      <4>1. lateCached \in BOOLEAN /\ cached \in Rows \cup {NoRows} /\ lateViews \subseteq Actors
        BY DEF TypeOK
      <4> QED
        BY <2>12, <2>0, <4>1, CacheTypes DEF ReadDone
    <3> QED
      BY <2>12, <2>0, <3>1, FinishTypes DEF ReadDone, TypeOK
  <2>13. ASSUME NEW m \in Names, Exit(m) PROVE TypeOK'
    <3>1. running' \in Rows
      BY <2>13 DEF Exit, TypeOK, Rows
    <3> QED
      BY <2>13, <3>1 DEF Exit, TypeOK, late
  <2>14. CASE Expire
    BY <2>14 DEF Expire, TypeOK, late
  <2>15. CASE UNCHANGED vars
    BY <2>15 DEF vars, TypeOK, late
  <2> QED
    BY <2>0, <2>1, <2>2, <2>3, <2>4, <2>5, <2>6, <2>7, <2>8, <2>9, <2>10, <2>11,
       <2>12, <2>13, <2>14, <2>15, MemoryConstants DEF Next, StarterStep
<1> QED
  BY <1>1, <1>2, PTL DEF Spec

-----------------------------------------------------------------------------
(* Reservations *)

\* No reservation outlives the start it was made for.
THEOREM NoLeakedReservation == Spec => []ReservationHasAStart
<1>1. Init => ReservationHasAStart
  BY DEF Init, ReservationHasAStart
<1>2. TypeOK /\ ReservationHasAStart /\ [Next]_vars => ReservationHasAStart'
  <2> SUFFICES ASSUME TypeOK, ReservationHasAStart, [Next]_vars
               PROVE  ReservationHasAStart'
    OBVIOUS
  <2>0. Starters \subseteq Actors /\ NoOne \notin Starters
    BY MemoryConstants DEF Actors
  \* A step of a call that is not between its reservation and its release, and
  \* that leaves every other call and all reservations alone.
  <2>1. ASSUME NEW p \in Actors, ~(p \in Starters /\ InStart(p)), UNCHANGED holder,
               \A q \in Starters : q # p => at'[q] = at[q] /\ job'[q] = job[q]
        PROVE  ReservationHasAStart'
    BY <2>1, <2>0 DEF ReservationHasAStart, InStart, TypeOK
  <2>2. ASSUME UNCHANGED <<holder, at, job>> PROVE ReservationHasAStart'
    BY <2>2 DEF ReservationHasAStart, InStart
  <2>3. ASSUME NEW p \in Actors, DockerLists(p) PROVE ReservationHasAStart'
    BY <2>3, <2>2 DEF DockerLists
  <2>4. ASSUME NEW p \in Actors, ReadReturns(p) PROVE ReservationHasAStart'
    <3>1. \A q \in Starters : InStart(q) => at'[q] = at[q] /\ job'[q] = job[q]
      BY <2>4, <2>0 DEF ReadReturns, WaitsFor, InStart
    <3>2. UNCHANGED <<holder, job>>
      BY <2>4 DEF ReadReturns
    <3>3. \A m \in Names : holder[m] # NoOne => InStart(holder[m])'
      BY <3>1, <3>2 DEF ReservationHasAStart, InStart, TypeOK
    <3> QED
      BY <3>2, <3>3 DEF ReservationHasAStart, InStart
  <2>5. ASSUME NEW p \in Starters, NEW k, NEW m, NEW s, Request(p, k, m, s)
        PROVE  ReservationHasAStart'
    <3>1. \A q \in Starters : q # p => at'[q] = at[q] /\ job'[q] = job[q]
      BY <2>5, <2>0, RunningContainersTypes DEF Request, TypeOK
    <3>2. ~InStart(p) /\ UNCHANGED holder
      BY <2>5 DEF Request, InStart
    <3> QED
      BY <2>0, <2>1, <3>1, <3>2
  <2>6. ASSUME NEW p \in Starters, Decide(p) PROVE ReservationHasAStart'
    <3>1. \A q \in Starters : q # p => at'[q] = at[q] /\ job'[q] = job[q]
      BY <2>6, <2>0, FinishTypes DEF Decide, TypeOK
    <3>2. ~InStart(p) /\ UNCHANGED holder
      BY <2>6 DEF Decide, InStart
    <3> QED
      BY <2>0, <2>1, <3>1, <3>2
  <2>7. ASSUME NEW p \in Starters, Reserve(p) PROVE ReservationHasAStart'
    <3>1. job[p] \in Jobs /\ at'[p] = "starting" /\ at[p] = "admitted"
      BY <2>7, <2>0 DEF Reserve, TypeOK
    <3>2. \A m \in Names : holder'[m] = IF m = job[p].name THEN p ELSE holder[m]
      BY <2>7, <3>1 DEF Reserve, TypeOK
    <3> QED
      BY <2>7, <2>0, <3>1, <3>2 DEF Reserve, ReservationHasAStart, InStart, TypeOK
  <2>8. ASSUME NEW p \in Starters, StopOld(p) \/ RunContainer(p) \/ RunFails(p)
        PROVE  ReservationHasAStart'
    <3>1. /\ at[p] \in {"starting", "stopped"} /\ at'[p] \in {"stopped", "ran"}
          /\ \A q \in Starters : q # p => at'[q] = at[q]
          /\ UNCHANGED <<holder, job>>
      BY <2>8, <2>0 DEF StopOld, RunContainer, RunFails, TypeOK
    <3>2. \A m \in Names : holder[m] # NoOne => InStart(holder[m])'
      BY <3>1 DEF ReservationHasAStart, InStart, TypeOK
    <3> QED
      BY <3>1, <3>2 DEF ReservationHasAStart, InStart
  <2>9. ASSUME NEW p \in Starters, Release(p) PROVE ReservationHasAStart'
    <3>1. \A q \in Starters : q # p => at'[q] = at[q] /\ job'[q] = job[q]
      BY <2>9, <2>0, FinishTypes DEF Release
    <3>2. \A m \in Names : holder'[m] # NoOne => holder'[m] = holder[m] /\ holder[m] # p
      BY <2>9, <2>0 DEF Release, ReservationHasAStart, TypeOK
    <3> QED
      BY <2>0, <3>1, <3>2 DEF ReservationHasAStart, InStart, TypeOK
  <2>10. ASSUME NEW p \in Starters, RestartStop(p) PROVE ReservationHasAStart'
    <3>1. \A q \in Starters : q # p => at'[q] = at[q] /\ job'[q] = job[q]
      BY <2>10, <2>0 DEF RestartStop, TypeOK
    <3>2. ~InStart(p) /\ UNCHANGED holder
      BY <2>10 DEF RestartStop, InStart
    <3> QED
      BY <2>0, <2>1, <3>1, <3>2
  <2>11. ASSUME NEW p \in Starters, RestartStart(p) PROVE ReservationHasAStart'
    <3>1. \A q \in Starters : q # p => at'[q] = at[q] /\ job'[q] = job[q]
      BY <2>11, <2>0, FinishTypes DEF RestartStart
    <3>2. ~InStart(p) /\ UNCHANGED holder
      BY <2>11 DEF RestartStart, InStart
    <3> QED
      BY <2>0, <2>1, <3>1, <3>2
  <2>12. ASSUME NEW p \in Starters, CoderStart(p) PROVE ReservationHasAStart'
    <3>1. \A q \in Starters : q # p => at'[q] = at[q] /\ job'[q] = job[q]
      BY <2>12, <2>0, FinishTypes DEF CoderStart
    <3>2. \A m \in Names : holder'[m] # NoOne => holder'[m] = holder[m]
      BY <2>12 DEF CoderStart, TypeOK
    <3>3. ~InStart(p)
      BY <2>12 DEF CoderStart, InStart
    <3> QED
      BY <2>0, <3>1, <3>2, <3>3 DEF ReservationHasAStart, InStart, TypeOK
  <2>13. ASSUME NEW p \in Readers, Read(p) \/ ReadDone(p) PROVE ReservationHasAStart'
    <3>1. p \in Actors /\ p \notin Starters
      BY MemoryConstants DEF Actors
    <3>2. \A q \in Starters : q # p => at'[q] = at[q] /\ job'[q] = job[q]
      BY <2>13, <2>0, <3>1, RunningContainersTypes, FinishTypes DEF Read, ReadDone
    <3>3. UNCHANGED holder
      BY <2>13 DEF Read, ReadDone
    <3> QED
      BY <2>1, <3>1, <3>2, <3>3
  <2>14. CASE (\E m \in Names : Exit(m)) \/ Expire \/ UNCHANGED vars
    BY <2>2, <2>14 DEF Exit, Expire, vars
  <2> QED
    BY <2>3, <2>4, <2>5, <2>6, <2>7, <2>8, <2>9, <2>10, <2>11, <2>12, <2>13, <2>14
       DEF Next, StarterStep
<1> QED
  BY <1>1, <1>2, MemoryTypes, PTL DEF Spec

-----------------------------------------------------------------------------
(* Shared reads *)

\* A read is awaited by the caller that began it, a read that may be joined is
\* under way, and so is every read somebody waits for.
ReadInv ==
  /\ \A p \in Actors : flight[p].st # "none" => at[p] = "waiting" /\ on[p] = p
  /\ \A p \in Actors : flight[p].current => flight[p].st # "none"
  /\ WaitersAreServed

\* A step of p that neither begins, joins nor ends a read.
LEMMA ReadInvMove ==
  ASSUME TypeOK, ReadInv, NEW p \in Actors, at[p] # "waiting", at'[p] # "waiting",
         \A q \in Actors : q # p => at'[q] = at[q] /\ on'[q] = on[q],
         \A q \in Actors : flight'[q].st = flight[q].st,
         \A q \in Actors : flight'[q].current => flight[q].current
  PROVE  ReadInv'
  BY DEF ReadInv, WaitersAreServed, TypeOK

\* An idle caller that measures keeps ReadInv.
LEMMA ReadInvRunningContainers ==
  ASSUME TypeOK, ReadInv, NEW p \in Actors, at[p] = "idle", RunningContainers(p)
  PROVE  ReadInv'
<1>0. \A q \in Actors : at[q] = "waiting" => on[q] # p
  BY DEF ReadInv, WaitersAreServed
<1>1. CASE snap # NoRows
  BY <1>1 DEF TypeOK, RunningContainers, ReadInv, WaitersAreServed
<1>2. CASE snap = NoRows /\ Joinable
  BY <1>2 DEF TypeOK, RunningContainers, Joinable, ReadInv, WaitersAreServed
<1>3. CASE snap = NoRows /\ ~Joinable
  <2>1. /\ flight'[p].st = "asked"
        /\ \A q \in Actors : q # p => flight'[q] = flight[q] /\ at'[q] = at[q] /\ on'[q] = on[q]
        /\ at'[p] = "waiting" /\ on'[p] = p
    BY <1>3 DEF TypeOK, RunningContainers
  <2> QED
    BY <1>0, <2>1 DEF TypeOK, ReadInv, WaitersAreServed
<1> QED
  BY <1>1, <1>2, <1>3

\* Every step keeps the invariant of the shared read.
LEMMA ReadInvStep == TypeOK /\ ReadInv /\ [Next]_vars => ReadInv'
<1> SUFFICES ASSUME TypeOK, ReadInv, [Next]_vars PROVE ReadInv'
  OBVIOUS
<1>0. Starters \subseteq Actors /\ Readers \subseteq Actors
  BY DEF Actors
<1>1. ASSUME NEW p \in Actors, DockerLists(p) PROVE ReadInv'
  <2>1. flight[p] \in Reads
    BY DEF TypeOK
  <2>2. \A q \in Actors : (flight'[q].st # "none" <=> flight[q].st # "none")
                          /\ flight'[q].current = flight[q].current
    BY <1>1, <2>1 DEF DockerLists, TypeOK, Reads
  <2> QED
    BY <1>1, <2>2 DEF DockerLists, ReadInv, WaitersAreServed, TypeOK
<1>2. ASSUME NEW p \in Actors, ReadReturns(p) PROVE ReadInv'
  <2>1. /\ \A q \in Actors : q # p => flight'[q] = flight[q]
        /\ flight'[p].st = "none" /\ ~flight'[p].current
    BY <1>2 DEF ReadReturns, NoFlight, TypeOK
  <2>2. \A q \in Actors : at'[q] = "waiting" => at[q] = "waiting" /\ on[q] # p
    BY <1>2 DEF ReadReturns, WaitsFor
  <2>3. \A q \in Actors : on[q] # p => at'[q] = at[q]
    BY <1>2 DEF ReadReturns, WaitsFor, TypeOK
  <2>4. UNCHANGED on
    BY <1>2 DEF ReadReturns
  <2> QED
    BY <2>1, <2>2, <2>3, <2>4 DEF ReadInv, WaitersAreServed, TypeOK
<1>3. ASSUME NEW p \in Starters, NEW k, NEW m, NEW s, Request(p, k, m, s)
      PROVE  ReadInv'
  <2>1. CASE RunningContainers(p)
    BY <1>0, <1>3, <2>1, ReadInvRunningContainers DEF Request
  <2>2. CASE /\ at' = [at EXCEPT ![p] = "hit"]
             /\ UNCHANGED <<flight, shared, on>>
    BY <1>0, <1>3, <2>2, ReadInvMove DEF Request, TypeOK
  <2> QED
    BY <1>3, <2>1, <2>2 DEF Request
<1>4. ASSUME NEW p \in Starters, Decide(p) PROVE ReadInv'
  BY <1>0, <1>4, ReadInvMove DEF Decide, Finish, TypeOK
<1>5. ASSUME NEW p \in Starters,
             Reserve(p) \/ StopOld(p) \/ RunContainer(p) \/ RunFails(p) \/ RestartStop(p)
      PROVE  ReadInv'
  BY <1>0, <1>5, ReadInvMove
     DEF Reserve, StopOld, RunContainer, RunFails, RestartStop, TypeOK
<1>6. ASSUME NEW p \in Starters, Release(p) \/ CoderStart(p) PROVE ReadInv'
  <2>1. /\ \A q \in Actors : flight'[q].st = flight[q].st
        /\ \A q \in Actors : flight'[q].current => flight[q].current
    BY <1>6, InvalidateTypes DEF Release, CoderStart
  <2>2. at[p] # "waiting" /\ Finish(p)
    BY <1>6 DEF Release, CoderStart
  <2>3. /\ at'[p] # "waiting"
        /\ \A q \in Actors : q # p => at'[q] = at[q] /\ on'[q] = on[q]
    BY <1>0, <2>2 DEF Finish, TypeOK
  <2> QED
    BY <1>0, <2>1, <2>2, <2>3, ReadInvMove
<1>7. ASSUME NEW p \in Actors, RestartStart(p) \/ ReadDone(p) PROVE ReadInv'
  BY <1>7, ReadInvMove DEF RestartStart, ReadDone, Finish, TypeOK
<1>8. ASSUME NEW p \in Readers, Read(p) PROVE ReadInv'
  BY <1>0, <1>8, ReadInvRunningContainers DEF Read
<1>9. CASE (\E m \in Names : Exit(m)) \/ Expire \/ UNCHANGED vars
  BY <1>9 DEF Exit, Expire, vars, ReadInv, WaitersAreServed
<1> QED
  BY <1>0, <1>1, <1>2, <1>3, <1>4, <1>5, <1>6, <1>7, <1>8, <1>9 DEF Next, StarterStep

\* No caller is left waiting for a read that has ended, whatever is invalidated
\* and whoever else reads meanwhile.
THEOREM NoLostCaller == Spec => []WaitersAreServed
<1>1. Init => ReadInv
  BY DEF Init, ReadInv, WaitersAreServed, NoFlight
<1>2. ReadInv => WaitersAreServed
  BY DEF ReadInv
<1> QED
  BY <1>1, <1>2, ReadInvStep, MemoryTypes, PTL DEF Spec

-----------------------------------------------------------------------------
(* Measurements in use *)

\* The start that ran m is not over.
Ran(m) == \E p \in Starters : at[p] = "ran" /\ job[p].name = m

\* Every container that runs is in these rows, or its start is not over.
Covers(rows) == \A m \in Names : running[m] <= rows[m] \/ Ran(m)

\* Every measurement in use that was asked for after the last start ended covers Docker.
CoverInv ==
  /\ cached # NoRows /\ ~lateCached => Covers(cached)
  /\ snap # NoRows /\ ~lateSnap => Covers(snap)
  /\ \A p \in Actors : flight[p].st = "listed" /\ p \notin lateReads => Covers(flight[p].rows)
  /\ \A p \in Actors : at[p] \in {"measured", "hit"} /\ p \notin lateViews => Covers(view[p])

\* The rows of a measurement count containers.
LEMMA RowsAreNat == \A r \in Rows : \A m \in Names : r[m] \in Nat
<1>1. Sizes \cup {0} \subseteq Nat
  BY MemoryConstants
<1> QED
  BY <1>1 DEF Rows

\* Rows that cover go on covering while containers only stop, or run in a start that is
\* not over.
LEMMA CoversKept ==
  ASSUME TypeOK, TypeOK',
         \A m \in Names : running'[m] <= running[m] \/ Ran(m)',
         \A m \in Names : Ran(m) => Ran(m)'
  PROVE  \A rows \in Rows :
           Covers(rows) => \A m \in Names : running'[m] <= rows[m] \/ Ran(m)'
<1>1. running \in Rows /\ running' \in Rows
  BY DEF TypeOK
<1>2. \A m \in Names : running[m] \in Nat /\ running'[m] \in Nat
  BY <1>1, RowsAreNat
<1> SUFFICES ASSUME NEW rows \in Rows, Covers(rows), NEW m \in Names
             PROVE  running'[m] <= rows[m] \/ Ran(m)'
  OBVIOUS
<1>3. rows[m] \in Nat  BY RowsAreNat
<1>4. running[m] <= rows[m] \/ Ran(m)  BY DEF Covers
<1>5. running'[m] <= running[m] \/ Ran(m)'  OBVIOUS
<1>6. Ran(m) => Ran(m)'  OBVIOUS
<1> HIDE DEF Ran
<1> QED  BY <1>2, <1>3, <1>4, <1>5, <1>6

\* A step that takes up no measurement, and ends no start.
LEMMA CoverInvKept ==
  ASSUME TypeOK, TypeOK', CoverInv,
         \A m \in Names : running'[m] <= running[m] \/ Ran(m)',
         \A m \in Names : Ran(m) => Ran(m)',
         cached' # NoRows => cached' = cached /\ lateCached' = lateCached,
         snap' # NoRows => snap' = snap /\ lateSnap' = lateSnap,
         \A p \in Actors : flight'[p].st = "listed" =>
           flight[p].st = "listed" /\ flight'[p].rows = flight[p].rows,
         \A p \in Actors : at'[p] \in {"measured", "hit"} =>
           at[p] \in {"measured", "hit"} /\ view'[p] = view[p],
         UNCHANGED <<lateReads, lateViews>>
  PROVE  CoverInv'
<1>0. \A rows \in Rows : Covers(rows) => \A m \in Names : running'[m] <= rows[m] \/ Ran(m)'
  BY CoversKept
<1>1. cached' # NoRows /\ ~lateCached' => Covers(cached)'
  <2> SUFFICES ASSUME cached' # NoRows, ~lateCached' PROVE Covers(cached)'  OBVIOUS
  <2>1. cached' = cached /\ cached \in Rows /\ Covers(cached)  BY DEF CoverInv, TypeOK
  <2>2. \A m \in Names : running'[m] <= cached'[m] \/ Ran(m)'  BY <1>0, <2>1
  <2> QED  BY <2>2 DEF Covers
<1>2. snap' # NoRows /\ ~lateSnap' => Covers(snap)'
  <2> SUFFICES ASSUME snap' # NoRows, ~lateSnap' PROVE Covers(snap)'  OBVIOUS
  <2>1. snap' = snap /\ snap \in Rows /\ Covers(snap)  BY DEF CoverInv, TypeOK
  <2>2. \A m \in Names : running'[m] <= snap'[m] \/ Ran(m)'  BY <1>0, <2>1
  <2> QED  BY <2>2 DEF Covers
<1>3. ASSUME NEW p \in Actors, flight'[p].st = "listed", p \notin lateReads'
      PROVE  Covers(flight[p].rows)'
  <2>1. flight'[p].rows = flight[p].rows /\ flight[p].rows \in Rows /\ Covers(flight[p].rows)
    BY <1>3 DEF CoverInv, TypeOK
  <2>2. \A m \in Names : running'[m] <= flight'[p].rows[m] \/ Ran(m)'  BY <1>0, <2>1
  <2> QED  BY <2>2 DEF Covers
<1>4. ASSUME NEW p \in Actors, at'[p] \in {"measured", "hit"}, p \notin lateViews'
      PROVE  Covers(view[p])'
  <2>1. view'[p] = view[p] /\ view[p] \in Rows /\ Covers(view[p])
    BY <1>4 DEF CoverInv, TypeOK
  <2>2. \A m \in Names : running'[m] <= view'[p][m] \/ Ran(m)'  BY <1>0, <2>1
  <2> QED  BY <2>2 DEF Covers
<1> QED  BY <1>1, <1>2, <1>3, <1>4 DEF CoverInv

\* Where Docker, and the starts that ran, are the same, so is what rows cover.
LEMMA CoversSame ==
  ASSUME UNCHANGED <<running, job>>, \A q \in Starters : at'[q] = "ran" <=> at[q] = "ran"
  PROVE  /\ \A m : Ran(m)' <=> Ran(m)
         /\ \A rows : Covers(rows) => \A m \in Names : running'[m] <= rows[m] \/ Ran(m)'
BY DEF Ran, Covers

\* When a start ends, what is left of what was asked for before is late.
LEMMA AllLate ==
  ASSUME TypeOK, LoopIsFree, NEW p \in Actors, Finish(p), NEW i \in BOOLEAN, StartEnds(i),
         \A q \in Actors : flight'[q].st = flight[q].st,
         cached' # NoRows => ~i /\ cached' = cached,
         snap' # NoRows => ~i /\ snap' = snap
  PROVE  CoverInv'
<1>1. cached' # NoRows => lateCached'  BY DEF StartEnds
<1>2. snap' # NoRows => lateSnap'  BY DEF StartEnds
<1>3. \A q \in Actors : flight'[q].st = "listed" => q \in lateReads'  BY DEF StartEnds
<1>4. ASSUME NEW q \in Actors, at'[q] \in {"measured", "hit"} PROVE q \in lateViews'
  <2>1. q # p /\ at'[q] = at[q]  BY <1>4 DEF Finish, TypeOK
  <2>2. at[q] # "hit"  BY DEF LoopIsFree
  <2> QED  BY <1>4, <2>1, <2>2 DEF StartEnds
<1> QED  BY <1>1, <1>2, <1>3, <1>4 DEF CoverInv

\* Whoever measures takes up what is cached, or asks for more.
LEMMA MeasuringCovers ==
  ASSUME TypeOK, CoverInv, NEW p \in Actors, at[p] = "idle",
         UNCHANGED <<running, cached, snap, lateCached, lateSnap>>,
         \A q \in Actors : q # p => job'[q] = job[q],
         \/ RunningContainers(p)
         \/ /\ cached # NoRows
            /\ view' = [view EXCEPT ![p] = cached]
            /\ at' = [at EXCEPT ![p] = "hit"]
            /\ lateViews' = IF lateCached THEN lateViews \cup {p} ELSE lateViews
            /\ UNCHANGED <<flight, lateReads>>
  PROVE  CoverInv'
<1>0. /\ \A q \in Actors : q # p => at'[q] = at[q] /\ view'[q] = view[q]
      /\ at'[p] \in {"waiting", "measured", "hit"}
      /\ \A q \in Actors : q # p => (q \in lateViews => q \in lateViews')
      /\ at'[p] \in {"measured", "hit"} =>
           \/ view'[p] = snap /\ snap # NoRows /\ (lateSnap => p \in lateViews')
           \/ view'[p] = cached /\ cached # NoRows /\ (lateCached => p \in lateViews')
  BY DEF RunningContainers, TypeOK
<1>1. \A q \in Actors : flight'[q].st = "listed" =>
        flight'[q] = flight[q] /\ (q \in lateReads => q \in lateReads')
  BY DEF RunningContainers, TypeOK
<1>2. \A m : Ran(m)' <=> Ran(m)
  BY <1>0 DEF Ran, Actors
<1>3. \A rows : Covers(rows) => \A m \in Names : running'[m] <= rows[m] \/ Ran(m)'
  BY <1>2 DEF Covers
<1>4. cached' # NoRows /\ ~lateCached' => Covers(cached)'
  BY <1>3 DEF CoverInv, Covers
<1>5. snap' # NoRows /\ ~lateSnap' => Covers(snap)'
  BY <1>3 DEF CoverInv, Covers
<1>6. \A q \in Actors : flight'[q].st = "listed" /\ q \notin lateReads' => Covers(flight[q].rows)'
  BY <1>1, <1>3 DEF CoverInv, Covers
<1>7. ASSUME NEW q \in Actors, at'[q] \in {"measured", "hit"}, q \notin lateViews'
      PROVE  Covers(view[q])'
  <2>1. CASE q # p  BY <1>0, <1>3, <1>7, <2>1 DEF CoverInv, Covers
  <2>2. CASE q = p
    <3>1. Covers(view'[p])  BY <1>0, <1>7, <2>2 DEF CoverInv
    <3>2. \A m \in Names : running'[m] <= view'[p][m] \/ Ran(m)'  BY <1>3, <3>1
    <3> QED  BY <2>2, <3>2 DEF Covers
  <2> QED  BY <2>1, <2>2
<1> QED  BY <1>4, <1>5, <1>6, <1>7 DEF CoverInv

\* A measurement that is written to the cache is as late as it was.
LEMMA CachingCovers ==
  ASSUME TypeOK, CoverInv, NEW p \in Actors, at[p] \in {"measured", "hit"},
         UNCHANGED <<running, snap, flight, lateReads, lateSnap>>,
         Cache(p) \/ UNCHANGED <<cached, lateCached>>,
         at'[p] \notin {"measured", "hit", "ran"},
         \A q \in Actors : q # p => at'[q] = at[q] /\ view'[q] = view[q] /\ job'[q] = job[q],
         lateViews' = lateViews \ {p}
  PROVE  CoverInv'
<1>1. \A m : Ran(m)' <=> Ran(m)
  BY DEF Ran, Actors
<1>2. \A rows : Covers(rows) => \A m \in Names : running'[m] <= rows[m] \/ Ran(m)'
  BY <1>1 DEF Covers
<1>3. cached' # NoRows /\ ~lateCached' => Covers(cached)'
  <2>1. \/ cached' = cached /\ lateCached' = lateCached
        \/ at[p] = "measured" /\ cached' = view[p] /\ (lateCached' <=> p \in lateViews)
    BY DEF Cache
  <2>2. cached' # NoRows /\ ~lateCached' => Covers(cached')  BY <2>1 DEF CoverInv
  <2> QED  BY <1>2, <2>2 DEF Covers
<1>4. snap' # NoRows /\ ~lateSnap' => Covers(snap)'
  BY <1>2 DEF CoverInv, Covers
<1>5. \A q \in Actors : flight'[q].st = "listed" /\ q \notin lateReads' => Covers(flight[q].rows)'
  BY <1>2 DEF CoverInv, Covers
<1>6. \A q \in Actors : at'[q] \in {"measured", "hit"} /\ q \notin lateViews' => Covers(view[q])'
  BY <1>2 DEF CoverInv, Covers
<1> QED  BY <1>3, <1>4, <1>5, <1>6 DEF CoverInv

\* Whatever starts, reads and ends overlap, and however they do.
LEMMA CoverStep == TypeOK /\ TypeOK' /\ CoverInv /\ [Next]_vars => CoverInv'
<1> SUFFICES ASSUME TypeOK, TypeOK', CoverInv, [Next]_vars PROVE CoverInv'
  OBVIOUS
<1>0. Starters \subseteq Actors /\ Readers \subseteq Actors /\ Starters \cap Readers = {}
  BY MemoryConstants DEF Actors
<1>a. \A m \in Names : running[m] \in Nat /\ running'[m] \in Nat
  BY RowsAreNat DEF TypeOK
<1>1. ASSUME NEW p \in Actors, DockerLists(p) PROVE CoverInv'
  <2>1. \A q \in Actors : /\ q # p => flight'[q] = flight[q]
                          /\ q = p => flight'[q].rows = running
    BY <1>1 DEF DockerLists, TypeOK, Reads
  <2>2. UNCHANGED <<running, cached, snap, holder, at, view, job, late>>
    BY <1>1 DEF DockerLists
  <2>3. Covers(running)
    BY <1>a DEF Covers
  <2>4. \A rows : Covers(rows) => \A m \in Names : running'[m] <= rows[m] \/ Ran(m)'
    BY <2>2, CoversSame
  <2>5. \A q \in Actors : flight'[q].st = "listed" /\ q \notin lateReads' => Covers(flight[q].rows)'
    BY <2>1, <2>2, <2>3, <2>4 DEF CoverInv, Covers, late
  <2> QED
    BY <2>2, <2>4, <2>5 DEF CoverInv, Covers, late
<1>2. ASSUME NEW p \in Actors, ReadReturns(p) PROVE CoverInv'
  <2>1. p \notin lateReads => Covers(flight[p].rows)
    BY <1>2 DEF ReadReturns, CoverInv
  <2>2. UNCHANGED <<running, cached, holder, job, lateCached>>
    BY <1>2 DEF ReadReturns
  <2>3. \A q \in Starters : at'[q] = "ran" <=> at[q] = "ran"
    BY <1>0, <1>2 DEF ReadReturns, WaitsFor, TypeOK
  <2>4. \A rows : Covers(rows) => \A m \in Names : running'[m] <= rows[m] \/ Ran(m)'
    BY <2>2, <2>3, CoversSame
  <2>5. snap' # NoRows /\ ~lateSnap' => Covers(snap)'
    <3>1. \/ snap' = snap /\ lateSnap' = lateSnap
          \/ snap' = flight[p].rows /\ (lateSnap' <=> p \in lateReads)
      BY <1>2 DEF ReadReturns
    <3>2. snap' # NoRows /\ ~lateSnap' => Covers(snap')  BY <2>1, <3>1 DEF CoverInv
    <3> QED  BY <2>4, <3>2 DEF Covers
  <2>6. \A q \in Actors : flight'[q].st = "listed" /\ q \notin lateReads' => Covers(flight[q].rows)'
    <3>1. \A q \in Actors : flight'[q].st = "listed" => flight'[q] = flight[q] /\ q # p
      BY <1>2 DEF ReadReturns, NoFlight, TypeOK
    <3>2. \A q \in Actors : q # p => (q \in lateReads' <=> q \in lateReads)
      BY <1>2 DEF ReadReturns
    <3> QED  BY <2>4, <3>1, <3>2 DEF CoverInv, Covers
  <2>7. ASSUME NEW q \in Actors, at'[q] \in {"measured", "hit"}, q \notin lateViews'
        PROVE  Covers(view[q])'
    <3>1. CASE WaitsFor(q, p)
      <4>1. view'[q] = flight[p].rows /\ p \notin lateReads
        BY <1>2, <2>7, <3>1 DEF ReadReturns, TypeOK
      <4> QED  BY <2>1, <2>4, <4>1 DEF Covers
    <3>2. CASE ~WaitsFor(q, p)
      <4>1. view'[q] = view[q] /\ at'[q] = at[q] /\ q \notin lateViews
        BY <1>2, <2>7, <3>2 DEF ReadReturns, TypeOK
      <4>2. Covers(view[q])  BY <2>7, <4>1 DEF CoverInv
      <4> QED  BY <2>4, <4>1, <4>2 DEF Covers
    <3> QED  BY <3>1, <3>2
  <2>8. cached' # NoRows /\ ~lateCached' => Covers(cached)'
    BY <2>2, <2>4 DEF CoverInv, Covers
  <2> QED  BY <2>5, <2>6, <2>7, <2>8 DEF CoverInv
<1>3. ASSUME NEW p \in Starters, NEW k, NEW m, NEW n, Request(p, k, m, n) PROVE CoverInv'
  <2>1. /\ at[p] = "idle" /\ UNCHANGED <<running, cached, snap, lateCached, lateSnap>>
        /\ \A q \in Actors : q # p => job'[q] = job[q]
    BY <1>3, <1>0 DEF Request, TypeOK
  <2> QED  BY <1>0, <1>3, <2>1, MeasuringCovers DEF Request
<1>4. ASSUME NEW p \in Starters, Decide(p) PROVE CoverInv'
  <2>1. /\ at[p] \in {"measured", "hit"} /\ Cache(p) /\ lateViews' = lateViews \ {p}
        /\ UNCHANGED <<running, snap, flight, lateReads, lateSnap>>
    BY <1>4 DEF Decide
  <2>2. /\ at'[p] \notin {"measured", "hit", "ran"}
        /\ \A q \in Actors : q # p => at'[q] = at[q] /\ view'[q] = view[q] /\ job'[q] = job[q]
    BY <1>0, <1>4 DEF Decide, Finish, TypeOK
  <2> QED  BY <1>0, <2>1, <2>2, CachingCovers
<1>5. ASSUME NEW p \in Starters,
             \/ Reserve(p) \/ StopOld(p) \/ RunContainer(p) \/ RunFails(p) \/ RestartStop(p)
      PROVE  CoverInv'
  <2>1. /\ at[p] \in {"admitted", "starting", "stopped"} /\ at'[p] \in {"starting", "stopped", "ran"}
        /\ \A q \in Actors : q # p => at'[q] = at[q]
        /\ UNCHANGED <<cached, snap, flight, view, job, late>>
    BY <1>0, <1>5 DEF Reserve, StopOld, RunContainer, RunFails, RestartStop, TypeOK
  <2>2. \A m \in Names : Ran(m) => Ran(m)'
    BY <1>0, <2>1 DEF Ran
  <2>3. \A m \in Names : running'[m] <= running[m] \/ Ran(m)'
    <3>1. CASE RunContainer(p)
      <4>1. /\ \A m \in Names : m # job[p].name => running'[m] = running[m]
            /\ at'[p] = "ran" /\ job'[p] = job[p]
        BY <1>0, <3>1 DEF RunContainer, TypeOK, Rows
      <4>2. Ran(job[p].name)'  BY <4>1 DEF Ran
      <4>3. ASSUME NEW m \in Names PROVE running'[m] <= running[m] \/ Ran(m)'
        <5>1. CASE m = job[p].name  BY <4>1, <4>2, <5>1 DEF Ran
        <5>2. CASE m # job[p].name  BY <1>a, <4>1, <5>2
        <5> QED  BY <5>1, <5>2
      <4> QED  BY <4>3
    <3>2. CASE ~RunContainer(p)
      <4>1. \/ running' = running
            \/ running' = [running EXCEPT ![job[p].name] = 0]
        BY <1>5, <3>2 DEF Reserve, StopOld, RunFails, RestartStop
      <4>2. \A m \in Names : running'[m] = running[m] \/ running'[m] = 0
        BY <4>1 DEF TypeOK, Rows
      <4> QED
        BY <1>a, <4>2
    <3> QED  BY <3>1, <3>2
  <2> QED  BY <2>1, <2>2, <2>3, CoverInvKept DEF late
<1>6. ASSUME NEW p \in Starters, Release(p) \/ CoderStart(p) PROVE CoverInv'
  <2>1. /\ LoopIsFree /\ Finish(p) /\ StartEnds(TRUE)
        /\ cached' = NoRows /\ snap' = NoRows
        /\ \A q \in Actors : flight'[q].st = flight[q].st
    BY <1>6, InvalidateTypes DEF Release, CoderStart
  <2> QED  BY <1>0, <2>1, AllLate
<1>7. ASSUME NEW p \in Starters, RestartStart(p) PROVE CoverInv'
  <2>1. LoopIsFree /\ Finish(p) /\ StartEnds(FALSE) /\ UNCHANGED <<cached, snap, flight>>
    BY <1>7 DEF RestartStart
  <2> QED  BY <1>0, <2>1, AllLate
<1>8. ASSUME NEW p \in Readers, Read(p) PROVE CoverInv'
  <2>1. /\ at[p] = "idle" /\ RunningContainers(p)
        /\ UNCHANGED <<running, cached, snap, lateCached, lateSnap, job>>
    BY <1>8 DEF Read
  <2> QED  BY <1>0, <2>1, MeasuringCovers
<1>9. ASSUME NEW p \in Readers, ReadDone(p) PROVE CoverInv'
  <2>1. /\ at[p] \in {"measured", "hit"} /\ (Cache(p) \/ UNCHANGED <<cached, lateCached>>)
        /\ lateViews' = lateViews \ {p}
        /\ UNCHANGED <<running, snap, flight, lateReads, lateSnap>>
    BY <1>9 DEF ReadDone
  <2>2. /\ at'[p] \notin {"measured", "hit", "ran"}
        /\ \A q \in Actors : q # p => at'[q] = at[q] /\ view'[q] = view[q] /\ job'[q] = job[q]
    BY <1>0, <1>9 DEF ReadDone, Finish, TypeOK
  <2> QED  BY <1>0, <2>1, <2>2, CachingCovers
<1>10. CASE (\E m \in Names : Exit(m)) \/ Expire \/ UNCHANGED vars
  <2>1. UNCHANGED <<flight, at, view, job, late>>
    BY <1>10 DEF Exit, Expire, vars
  <2>2. /\ cached' # NoRows => cached' = cached
        /\ snap' # NoRows => snap' = snap
    BY <1>10 DEF Exit, Expire, vars
  <2>3. \A m \in Names : running'[m] <= running[m]
    BY <1>10, <1>a DEF Exit, Expire, vars, TypeOK, Rows
  <2>4. \A m \in Names : Ran(m) => Ran(m)'
    BY <2>1 DEF Ran
  <2> QED  BY <2>1, <2>2, <2>3, <2>4, CoverInvKept DEF late
<1> QED
  BY <1>0, <1>1, <1>2, <1>3, <1>4, <1>5, <1>6, <1>7, <1>8, <1>9, <1>10 DEF Next, StarterStep

LEMMA CoverIsKept == Spec => [](TypeOK /\ ReservationHasAStart /\ CoverInv)
<1>1. Init => CoverInv
  BY DEF Init, CoverInv, NoFlight, Actors
<1> QED
  BY <1>1, CoverStep, MemoryTypes, NoLeakedReservation, PTL DEF Spec

\* With any starts, restarts, coder sessions and readers that overlap as they may, the
\* cached measurement hides a running container only until its start is over, unless a
\* caller cached what it had asked for before, or a restart ended.
THEOREM NothingHidden == Spec => []NeverHidden
<1>1. CoverInv => NeverHidden
  BY DEF CoverInv, Covers, Ran, NeverHidden
<1> QED
  BY <1>1, CoverIsKept, PTL

-----------------------------------------------------------------------------
(* Sums over finite sets: what SumFunctionOnSet computes *)

\* The element a sum takes next.
Picked(s) == CHOOSE x \in s : TRUE
\* g is the sum of f over every subset of S.
Sums(g, f, S) ==
  g = [s \in SUBSET S |-> IF s = {} THEN 0 ELSE f[Picked(s)] + g[s \ {Picked(s)}]]

\* Among subsets of a finite set one is smallest.
LEMMA SmallestSet ==
  ASSUME NEW S, IsFiniteSet(S), NEW T \in SUBSET SUBSET S, T # {}
  PROVE  \E s \in T : \A t \in SUBSET s : t # s => t \notin T
<1>1. IsWellFoundedOn(StrictSubsetOrdering(S), FiniteSubsetsOf(S))
  BY FS_StrictSubsetOrderingWellFounded
<1>2. T \subseteq FiniteSubsetsOf(S)  BY FS_Subset DEF FiniteSubsetsOf
<1>3. \E s \in T : \A t \in T : ~(<<t, s>> \in StrictSubsetOrdering(S))
  BY <1>1, <1>2, WFMin
<1>4. QED  BY <1>3 DEF StrictSubsetOrdering

\* The sums are determined ...
LEMMA OneSum ==
  ASSUME NEW f, NEW S, IsFiniteSet(S), NEW g, Sums(g, f, S),
         NEW R \in SUBSET S, NEW h, Sums(h, f, R)
  PROVE  \A s \in SUBSET R : g[s] = h[s]
<1> DEFINE T == {s \in SUBSET R : g[s] # h[s]}
<1> SUFFICES ASSUME T # {} PROVE FALSE  OBVIOUS
<1>1. PICK s \in T : \A t \in SUBSET s : t # s => t \notin T
  <2>1. T \in SUBSET SUBSET R /\ IsFiniteSet(R)  BY FS_Subset
  <2> HIDE DEF T
  <2>2. QED  BY <2>1, SmallestSet
<1>2. CASE s = {}  BY <1>2 DEF Sums
<1>3. CASE s # {}
  <2> DEFINE t == s \ {Picked(s)}
  <2>1. t \in SUBSET s /\ t # s  BY <1>3 DEF Picked
  <2>2. g[t] = h[t]  BY <1>1, <2>1
  <2>3. g[s] = f[Picked(s)] + g[t] /\ h[s] = f[Picked(s)] + h[t]
    BY <1>1, <1>3 DEF Sums
  <2>4. QED  BY <1>1, <2>2, <2>3
<1>4. QED  BY <1>2, <1>3

\* ... and there are such sums, built up from smaller sets.
LEMMA SumsExist ==
  ASSUME NEW f, NEW S, IsFiniteSet(S)
  PROVE  \E g : Sums(g, f, S)
<1> DEFINE T == {s \in SUBSET S : ~\E g : Sums(g, f, s)}
<1> SUFFICES ASSUME T # {} PROVE FALSE  OBVIOUS
<1>1. PICK s \in T : \A t \in SUBSET s : t # s => t \notin T
  <2>1. T \in SUBSET SUBSET S  OBVIOUS
  <2> HIDE DEF T
  <2>2. QED  BY <2>1, SmallestSet
<1> DEFINE part(t) == CHOOSE g : Sums(g, f, t)
           rest(t) == t \ {Picked(t)}
           value(t) == IF t = {} THEN 0 ELSE f[Picked(t)] + part(rest(t))[rest(t)]
           g == [t \in SUBSET s |-> value(t)]
<1>2. \A t \in SUBSET s : t # s => Sums(part(t), f, t)  BY <1>1
<1>3. \A t \in SUBSET s : t # {} => rest(t) \in SUBSET s /\ rest(t) # s /\ rest(t) \in SUBSET t
  BY DEF Picked
<1>4. ASSUME NEW t \in SUBSET s, t # s PROVE g[t] = part(t)[t]
  <2>1. CASE t = {}
    <3>1. Sums(part(t), f, t)  BY <1>2, <1>4
    <3>2. part(t)[t] = 0  BY <2>1, <3>1 DEF Sums
    <3>3. QED  BY <2>1, <3>2
  <2>2. CASE t # {}
    <3>1. Sums(part(t), f, t) /\ Sums(part(rest(t)), f, rest(t))  BY <1>2, <1>3, <1>4, <2>2
    <3>2. IsFiniteSet(t)  BY FS_Subset
    <3> HIDE DEF part
    <3>3. part(t)[rest(t)] = part(rest(t))[rest(t)]
      <4>1. rest(t) \in SUBSET t  BY <1>3, <2>2
      <4>2. rest(t) \in SUBSET rest(t)  OBVIOUS
      <4> HIDE DEF rest
      <4>3. QED  BY <3>1, <3>2, <4>1, <4>2, OneSum
    <3>4. part(t)[t] = f[Picked(t)] + part(t)[rest(t)]  BY <2>2, <3>1 DEF Sums
    <3>5. QED  BY <2>2, <3>3, <3>4
  <2>3. QED  BY <2>1, <2>2
<1>5. ASSUME NEW t \in SUBSET s, t # {} PROVE g[t] = f[Picked(t)] + g[rest(t)]
  <2>1. g[t] = f[Picked(t)] + part(rest(t))[rest(t)]  BY <1>5
  <2>2. g[rest(t)] = part(rest(t))[rest(t)]
    <3>1. rest(t) \in SUBSET s /\ rest(t) # s  BY <1>3, <1>5
    <3> HIDE DEF g, part, rest
    <3>2. QED  BY <1>4, <3>1
  <2>3. QED  BY <2>1, <2>2
<1>6. \A t \in SUBSET s : t = {} => g[t] = 0  OBVIOUS
<1>7. g = [t \in SUBSET s |-> IF t = {} THEN 0 ELSE f[Picked(t)] + g[t \ {Picked(t)}]]
  <2>1. g = [t \in SUBSET s |-> g[t]]  OBVIOUS
  <2> HIDE DEF g
  <2>2. QED  BY <1>5, <1>6, <2>1
<1> HIDE DEF g
<1>8. Sums(g, f, s)  BY <1>7 DEF Sums
<1>9. QED  BY <1>1, <1>8

\* SumFunctionOnSet is one.
LEMMA SumIs ==
  ASSUME NEW f, NEW S, IsFiniteSet(S)
  PROVE  \E g : Sums(g, f, S) /\ SumFunctionOnSet(f, S) = g[S]
<1> DEFINE g == CHOOSE g : Sums(g, f, S)
<1>1. Sums(g, f, S)  BY SumsExist
<1>2. SumFunctionOnSet(f, S) = g[S]
  BY DEF SumFunctionOnSet, FoldFunctionOnSet, MapThenFoldSet, Sums, Picked
<1> HIDE DEF g
<1>3. QED  BY <1>1, <1>2

LEMMA SumEmpty ==
  ASSUME NEW f PROVE SumFunctionOnSet(f, {}) = 0
<1>1. IsFiniteSet({})  BY FS_EmptySet
<1>2. PICK g : Sums(g, f, {}) /\ SumFunctionOnSet(f, {}) = g[{}]  BY <1>1, SumIs
<1>3. QED  BY <1>2 DEF Sums

LEMMA SumPicked ==
  ASSUME NEW f, NEW S, IsFiniteSet(S), S # {}
  PROVE  /\ Picked(S) \in S
         /\ SumFunctionOnSet(f, S) = f[Picked(S)] + SumFunctionOnSet(f, S \ {Picked(S)})
<1> DEFINE R == S \ {Picked(S)}
<1>1. Picked(S) \in S /\ R \in SUBSET S /\ IsFiniteSet(R)  BY FS_Subset DEF Picked
<1>2. PICK g : Sums(g, f, S) /\ SumFunctionOnSet(f, S) = g[S]  BY SumIs
<1>3. PICK h : Sums(h, f, R) /\ SumFunctionOnSet(f, R) = h[R]  BY <1>1, SumIs
<1>4. g[S] = f[Picked(S)] + g[R]  BY <1>2 DEF Sums
<1>5. g[R] = h[R]
  <2>1. R \in SUBSET R  OBVIOUS
  <2> HIDE DEF R
  <2>2. QED  BY <1>1, <1>2, <1>3, <2>1, OneSum
<1>6. QED  BY <1>1, <1>2, <1>3, <1>4, <1>5

\* Any element can be taken out of a sum ...
LEMMA SumWithout ==
  ASSUME NEW S, IsFiniteSet(S), NEW f, \A x \in S : f[x] \in Nat
  PROVE  /\ SumFunctionOnSet(f, S) \in Nat
         /\ \A x \in S : SumFunctionOnSet(f, S) = f[x] + SumFunctionOnSet(f, S \ {x})
<1> DEFINE sum(s) == SumFunctionOnSet(f, s)
           Fine(s) == sum(s) \in Nat /\ \A x \in s : sum(s) = f[x] + sum(s \ {x})
           T == {s \in SUBSET S : ~Fine(s)}
<1> SUFFICES ASSUME T # {} PROVE FALSE  OBVIOUS
<1>1. PICK s \in T : \A t \in SUBSET s : t # s => t \notin T
  <2>1. T \in SUBSET SUBSET S  OBVIOUS
  <2> HIDE DEF T
  <2>2. QED  BY <2>1, SmallestSet
<1>2. \A t \in SUBSET s : t # s => Fine(t)  BY <1>1
<1>3. IsFiniteSet(s)  BY <1>1, FS_Subset
<1>4. sum({}) = 0  BY SumEmpty
<1>5. s # {} => Picked(s) \in s /\ sum(s) = f[Picked(s)] + sum(s \ {Picked(s)})
  BY <1>3, SumPicked
<1>6. ~Fine(s)  BY <1>1
<1> HIDE DEF sum
<1>7. CASE s = {}  BY <1>4, <1>6, <1>7
<1>8. CASE s # {}
  <2> DEFINE p == Picked(s)
  <2>1. p \in s /\ sum(s) = f[p] + sum(s \ {p})  BY <1>5, <1>8
  <2> HIDE DEF p
  <2>2. /\ f[p] \in Nat /\ sum(s \ {p}) \in Nat
        /\ \A x \in s \ {p} : sum(s \ {p}) = f[x] + sum((s \ {p}) \ {x})
    BY <1>1, <1>2, <2>1
  <2>3. ASSUME NEW x \in s PROVE sum(s) = f[x] + sum(s \ {x})
    <3>1. CASE x = p  BY <2>1, <3>1
    <3>2. CASE x # p
      <4> DEFINE r == (s \ {p}) \ {x}
      <4>1. r = (s \ {x}) \ {p}  OBVIOUS
      <4>2. sum(s \ {p}) = f[x] + sum(r)  BY <2>2, <2>3, <3>2
      <4>3. sum(s \ {x}) = f[p] + sum(r)
        <5>1. s \ {x} \in SUBSET s /\ s \ {x} # s /\ p \in s \ {x}  BY <2>1, <2>3, <3>2
        <5>2. Fine(s \ {x})  BY <1>2, <5>1
        <5>3. QED  BY <4>1, <5>1, <5>2
      <4>4. sum(r) \in Nat
        <5>1. r \in SUBSET s /\ r # s  BY <2>1
        <5>2. QED  BY <1>2, <5>1
      <4>5. f[x] \in Nat  BY <1>1, <2>3
      <4> HIDE DEF r
      <4>6. QED  BY <2>1, <2>2, <4>2, <4>3, <4>4, <4>5
    <3>3. QED  BY <3>1, <3>2
  <2>4. QED  BY <1>6, <2>1, <2>2, <2>3
<1>9. QED  BY <1>7, <1>8

\* ... and a sum is no less when its terms are no less.
LEMMA SumMonotone ==
  ASSUME NEW S, IsFiniteSet(S), NEW f, NEW h,
         \A x \in S : f[x] \in Nat /\ h[x] \in Nat /\ f[x] <= h[x]
  PROVE  SumFunctionOnSet(f, S) <= SumFunctionOnSet(h, S)
<1> DEFINE sum(s) == SumFunctionOnSet(f, s)
           more(s) == SumFunctionOnSet(h, s)
           T == {s \in SUBSET S : ~(sum(s) <= more(s))}
<1> SUFFICES ASSUME T # {} PROVE FALSE  OBVIOUS
<1>1. PICK s \in T : \A t \in SUBSET s : t # s => t \notin T
  <2>1. T \in SUBSET SUBSET S  OBVIOUS
  <2> HIDE DEF T
  <2>2. QED  BY <2>1, SmallestSet
<1>2. \A t \in SUBSET s : t # s => sum(t) <= more(t)  BY <1>1
<1>3. sum({}) = 0 /\ more({}) = 0  BY SumEmpty
<1>4. /\ \A t \in SUBSET s : sum(t) \in Nat /\ \A x \in t : sum(t) = f[x] + sum(t \ {x})
      /\ \A t \in SUBSET s : more(t) \in Nat /\ \A x \in t : more(t) = h[x] + more(t \ {x})
  <2>1. \A t \in SUBSET s : IsFiniteSet(t) /\ t \in SUBSET S  BY <1>1, FS_Subset
  <2>2. QED  BY <2>1, SumWithout
<1>5. ~(sum(s) <= more(s)) /\ s \in SUBSET S  BY <1>1
<1> HIDE DEF sum, more
<1>6. PICK x \in s : TRUE  BY <1>3, <1>5
<1>7. sum(s \ {x}) <= more(s \ {x})  BY <1>2, <1>6
<1>8. /\ sum(s \ {x}) \in Nat /\ more(s \ {x}) \in Nat /\ f[x] \in Nat /\ h[x] \in Nat
      /\ sum(s) = f[x] + sum(s \ {x}) /\ more(s) = h[x] + more(s \ {x}) /\ f[x] <= h[x]
  BY <1>4, <1>5, <1>6
<1>9. QED  BY <1>5, <1>7, <1>8

-----------------------------------------------------------------------------
(* The capacity, where every start was decided on alone *)

\* What was once within the capacity, and what is about to be.
Within(rows) == SumFunctionOnSet(rows, Names) <= Capacity

\* Without what its start replaces, p's container has room.
HasRoom(p) ==
  SumFunctionOnSet(running, Names \ {job[p].name}) + job[p].size <= Capacity

RoomInv ==
  /\ Within(running)
  /\ cached # NoRows => Within(cached)
  /\ snap # NoRows => Within(snap)
  /\ \A p \in Actors : flight[p].st = "listed" => Within(flight[p].rows)
  /\ \A p \in Actors : at[p] \in {"measured", "hit"} => Within(view[p])
  /\ \A p \in Starters : at[p] \in {"admitted", "starting", "stopped"} => HasRoom(p)

\* As long as every start was decided on alone, one at most is under way.
One == \A p, q \in Starters : UnderWay(p) /\ UnderWay(q) => p = q
AloneInv == alone => RoomInv /\ One

\* Sums of measurements.
LEMMA RowSums ==
  ASSUME NEW rows \in Rows
  PROVE  /\ SumFunctionOnSet(rows, Names) \in Nat
         /\ \A m \in Names :
              /\ rows[m] \in Nat /\ SumFunctionOnSet(rows, Names \ {m}) \in Nat
              /\ SumFunctionOnSet(rows, Names) = rows[m] + SumFunctionOnSet(rows, Names \ {m})
<1>1. \A m \in Names : rows[m] \in Nat  BY RowsAreNat
<1>2. IsFiniteSet(Names)  BY MemoryConstants
<1>3. /\ SumFunctionOnSet(rows, Names) \in Nat
      /\ \A m \in Names :
           SumFunctionOnSet(rows, Names) = rows[m] + SumFunctionOnSet(rows, Names \ {m})
  BY <1>1, <1>2, SumWithout
<1>4. ASSUME NEW m \in Names PROVE SumFunctionOnSet(rows, Names \ {m}) \in Nat
  <2>1. IsFiniteSet(Names \ {m})  BY <1>2, FS_Subset
  <2>2. \A x \in Names \ {m} : rows[x] \in Nat  BY <1>1
  <2>3. QED  BY <2>1, <2>2, SumWithout
<1>5. QED  BY <1>1, <1>3, <1>4

\* Containers that count no more sum to no more, with a name left out or not.
LEMMA RowSumsMonotone ==
  ASSUME NEW S \in SUBSET Names, NEW f, NEW h,
         \A m \in S : f[m] \in Nat /\ h[m] \in Nat /\ f[m] <= h[m]
  PROVE  SumFunctionOnSet(f, S) <= SumFunctionOnSet(h, S)
<1>1. IsFiniteSet(S)  BY MemoryConstants, FS_Subset
<1>2. QED  BY <1>1, SumMonotone

\* Containers that only stop keep everything within the capacity.
LEMMA RoomShrinks ==
  ASSUME TypeOK, running' \in Rows, \A m \in Names : running'[m] <= running[m]
  PROVE  /\ Within(running) => Within(running)'
         /\ \A p \in Starters : at[p] # "idle" /\ HasRoom(p) /\ job'[p] = job[p] => HasRoom(p)'
<1>1. running \in Rows  BY DEF TypeOK
<1>2. /\ SumFunctionOnSet(running', Names) \in Nat /\ SumFunctionOnSet(running, Names) \in Nat
      /\ \A m \in Names : running'[m] \in Nat /\ running[m] \in Nat
                         /\ SumFunctionOnSet(running, Names \ {m}) \in Nat
                         /\ SumFunctionOnSet(running', Names \ {m}) \in Nat
  BY <1>1, RowSums
<1>3. SumFunctionOnSet(running', Names) <= SumFunctionOnSet(running, Names)
  BY <1>2, RowSumsMonotone
<1>4. \A m \in Names : SumFunctionOnSet(running', Names \ {m}) <= SumFunctionOnSet(running, Names \ {m})
  BY <1>2, RowSumsMonotone
<1>5. Capacity \in Nat  BY MemoryConstants
<1>6. Within(running) => Within(running)'  BY <1>2, <1>3, <1>5 DEF Within
<1>7. ASSUME NEW p \in Starters, at[p] # "idle", HasRoom(p), job'[p] = job[p]
      PROVE  HasRoom(p)'
  <2>1. job[p] \in Jobs  BY <1>7 DEF TypeOK
  <2>2. job[p].name \in Names /\ job[p].size \in Nat  BY <2>1, MemoryConstants DEF Jobs
  <2>3. QED  BY <1>2, <1>4, <1>5, <1>7, <2>2 DEF HasRoom
<1>8. QED  BY <1>6, <1>7

\* A container that was given room runs in it.
LEMMA RoomIsUsed ==
  ASSUME TypeOK, RoomInv, NEW p \in Starters, at[p] \in {"admitted", "starting", "stopped"},
         NEW c \in {0, job[p].size}, running' = [running EXCEPT ![job[p].name] = c]
  PROVE  Within(running)'
<1> DEFINE m == job[p].name
<1>1. job[p] \in Jobs  BY DEF TypeOK
<1>2. m \in Names /\ job[p].size \in Nat /\ job[p].size \in Sizes /\ c \in Nat
  <2>1. m \in Names /\ job[p].size \in Sizes  BY <1>1 DEF Jobs
  <2>2. job[p].size \in Nat  BY <2>1, MemoryConstants
  <2>3. QED  BY <2>1, <2>2
<1>3. running \in Rows /\ running' \in Rows  BY <1>2 DEF TypeOK, Rows
<1>4. running'[m] = c /\ \A k \in Names \ {m} : running'[k] = running[k]
  BY <1>2, <1>3 DEF Rows
<1> HIDE DEF m
<1>5. SumFunctionOnSet(running', Names \ {m}) <= SumFunctionOnSet(running, Names \ {m})
  <2>1. \A k \in Names \ {m} : running'[k] \in Nat /\ running[k] \in Nat /\ running'[k] <= running[k]
    <3>1. \A k \in Names : running[k] \in Nat  BY <1>3, RowsAreNat
    <3>2. QED  BY <1>4, <3>1
  <2>2. QED  BY <2>1, RowSumsMonotone
<1>6. SumFunctionOnSet(running, Names \ {m}) + job[p].size <= Capacity
  BY DEF RoomInv, HasRoom, m
<1>7. /\ SumFunctionOnSet(running', Names) = c + SumFunctionOnSet(running', Names \ {m})
      /\ SumFunctionOnSet(running', Names \ {m}) \in Nat
      /\ SumFunctionOnSet(running, Names \ {m}) \in Nat
  BY <1>2, <1>3, <1>4, RowSums
<1>8. c <= job[p].size  BY <1>2
<1>9. QED  BY <1>2, <1>5, <1>6, <1>7, <1>8, MemoryConstants DEF Within

\* One that is allowed has room: by the measurement, which hides nothing, or in the
\* place of what it replaces, since what was measured was within the capacity.
LEMMA AllowedHasRoom ==
  ASSUME TypeOK, RoomInv, NEW p \in Starters, at[p] \in {"measured", "hit"},
         \A m \in Names : running[m] <= view[p][m], \A m \in Names : holder[m] = NoOne,
         Allowed(p)
  PROVE  HasRoom(p)
<1> DEFINE m == job[p].name
           v == view[p]
<1>1. job[p] \in Jobs /\ p \in Actors  BY DEF TypeOK, Actors
<1>2. m \in Names /\ job[p].size \in Nat  BY <1>1, MemoryConstants DEF Jobs
<1>3. running \in Rows /\ v \in Rows /\ Within(v)  BY <1>1 DEF TypeOK, RoomInv
<1>4. Counts(p) = v
  <2>1. \A k \in Names : Counts(p)[k] = v[k]  BY DEF Counts
  <2>2. QED  BY <1>3, <2>1 DEF Counts, Rows
<1>5. Replaced(p) = v[m]  BY <1>2 DEF Replaced
<1>6. /\ SumFunctionOnSet(v, Names) = v[m] + SumFunctionOnSet(v, Names \ {m})
      /\ SumFunctionOnSet(v, Names \ {m}) \in Nat /\ v[m] \in Nat
      /\ SumFunctionOnSet(running, Names \ {m}) \in Nat
  BY <1>2, <1>3, RowSums
<1>7. SumFunctionOnSet(running, Names \ {m}) <= SumFunctionOnSet(v, Names \ {m})
  <2>1. \A k \in Names \ {m} : running[k] \in Nat /\ v[k] \in Nat /\ running[k] <= v[k]
    BY <1>3, RowSums
  <2> HIDE DEF v
  <2>2. QED  BY <2>1, RowSumsMonotone
<1>8. \/ SumFunctionOnSet(v, Names \ {m}) + job[p].size <= Capacity
      \/ job[p].size <= v[m]
  BY <1>4, <1>5 DEF Allowed
<1>9. SumFunctionOnSet(v, Names) <= Capacity  BY <1>3 DEF Within
<1> HIDE DEF m, v
<1>10. SumFunctionOnSet(running, Names \ {m}) + job[p].size <= Capacity
  BY <1>2, <1>6, <1>7, <1>8, <1>9, MemoryConstants
<1>11. QED  BY <1>10 DEF HasRoom, m

\* RoomInv is kept by a step under which containers only stop, measurements in use are
\* those of before or dropped, and nobody is admitted.
LEMMA RoomInvKept ==
  ASSUME TypeOK, TypeOK', RoomInv, \A m \in Names : running'[m] <= running[m],
         cached' \in {cached, NoRows}, snap' \in {snap, NoRows},
         \A p \in Actors : flight'[p].st = "listed" =>
           flight[p].st = "listed" /\ flight'[p].rows = flight[p].rows,
         \A p \in Actors : at'[p] \in {"measured", "hit"} =>
           at[p] \in {"measured", "hit"} /\ view'[p] = view[p],
         \A p \in Starters : at'[p] \in {"admitted", "starting", "stopped"} =>
           at[p] \in {"admitted", "starting", "stopped"} /\ job'[p] = job[p]
  PROVE  RoomInv'
<1>1. running' \in Rows  BY DEF TypeOK
<1>2. Within(running)'  BY <1>1, RoomShrinks DEF RoomInv
<1>3. \A p \in Starters : at'[p] \in {"admitted", "starting", "stopped"} => HasRoom(p)'
  BY <1>1, RoomShrinks DEF RoomInv
<1>4. /\ cached' # NoRows => Within(cached)'
      /\ snap' # NoRows => Within(snap)'
      /\ \A p \in Actors : flight'[p].st = "listed" => Within(flight[p].rows)'
      /\ \A p \in Actors : at'[p] \in {"measured", "hit"} => Within(view[p])'
  BY DEF RoomInv, Within
<1>5. QED  BY <1>2, <1>3, <1>4 DEF RoomInv

\* Once lost, it stays lost.
LEMMA AloneIsLost == TypeOK /\ [Next]_vars /\ alone' => alone
<1> SUFFICES ASSUME TypeOK, [Next]_vars, alone' PROVE alone
  OBVIOUS
<1>1. ASSUME NEW p \in Starters, Decide(p) PROVE alone
  BY <1>1 DEF Decide
<1>2. ASSUME NEW p \in Actors, ~(p \in Starters /\ Decide(p)),
             \/ DockerLists(p) \/ ReadReturns(p) \/ Read(p) \/ ReadDone(p)
             \/ p \in Starters /\ StarterStep(p)
      PROVE  alone' = alone
  BY <1>2 DEF DockerLists, ReadReturns, Read, ReadDone, StarterStep, Request, Reserve, StopOld,
      RunContainer, RunFails, Release, RestartStop, RestartStart, CoderStart, StartEnds
<1>3. CASE (\E m \in Names : Exit(m)) \/ Expire \/ UNCHANGED vars
  BY <1>3 DEF Exit, Expire, vars
<1> QED
  BY <1>1, <1>2, <1>3 DEF Next, Actors

\* A start that is decided on alone is the only one under way.
LEMMA OneAtATime == TypeOK /\ One /\ [Next]_vars /\ alone' => One'
<1> SUFFICES ASSUME TypeOK, One, [Next]_vars, alone' PROVE One'
  OBVIOUS
<1>0. Starters \subseteq Actors /\ Starters \cap Readers = {}
  BY MemoryConstants DEF Actors
<1>1. ASSUME \A q \in Starters : UnderWay(q)' => UnderWay(q) PROVE One'
  BY <1>1 DEF One
<1>2. ASSUME NEW p \in Starters, Decide(p) PROVE One'
  <2>1. \A q \in Starters : q # p => at'[q] = at[q]
    BY <1>0, <1>2 DEF Decide, Finish, TypeOK
  <2>2. CASE at'[p] = "idle"
    BY <1>1, <2>1, <2>2 DEF UnderWay
  <2>3. CASE at'[p] # "idle"
    <3>1. \A q \in Starters : ~UnderWay(q)
      BY <1>0, <1>2, <2>3 DEF Decide, Finish, TypeOK
    <3>2. \A q \in Starters : UnderWay(q)' => q = p
      BY <2>1, <3>1 DEF UnderWay
    <3> QED
      BY <3>2 DEF One
  <2> QED
    BY <2>2, <2>3
<1>3. ASSUME NEW p \in Starters, NEW k, NEW m, NEW n, Request(p, k, m, n) PROVE One'
  <2>1. /\ \A q \in Starters : q # p => at'[q] = at[q]
        /\ at'[p] \in {"waiting", "measured", "hit"}
    BY <1>0, <1>3 DEF Request, RunningContainers, TypeOK
  <2> QED
    BY <1>1, <2>1 DEF UnderWay
<1>4. ASSUME NEW p \in Starters,
             \/ Reserve(p) \/ StopOld(p) \/ RunContainer(p) \/ RunFails(p) \/ Release(p)
             \/ RestartStop(p) \/ RestartStart(p) \/ CoderStart(p)
      PROVE  One'
  <2>1. /\ \A q \in Starters : q # p => at'[q] = at[q]
        /\ UnderWay(p)
    BY <1>0, <1>4 DEF Reserve, StopOld, RunContainer, RunFails, Release, RestartStop, RestartStart,
       CoderStart, Finish, UnderWay, TypeOK
  <2> QED
    BY <1>1, <2>1 DEF UnderWay
<1>5. ASSUME NEW p \in Readers, Read(p) \/ ReadDone(p) PROVE One'
  <2>1. \A q \in Actors : q # p => at'[q] = at[q]
    BY <1>0, <1>5 DEF Read, ReadDone, RunningContainers, Finish, TypeOK
  <2>2. \A q \in Starters : at'[q] = at[q]
    BY <1>0, <2>1
  <2> QED
    BY <1>1, <2>2 DEF UnderWay
<1>6. ASSUME NEW p \in Actors, DockerLists(p) \/ ReadReturns(p) PROVE One'
  <2>1. \A q \in Starters : at'[q] = at[q] \/ at'[q] = "measured"
    BY <1>0, <1>6 DEF DockerLists, ReadReturns, TypeOK
  <2> QED
    BY <1>1, <2>1 DEF UnderWay
<1>7. CASE (\E m \in Names : Exit(m)) \/ Expire \/ UNCHANGED vars
  BY <1>1, <1>7 DEF Exit, Expire, vars, UnderWay
<1> QED
  BY <1>2, <1>3, <1>4, <1>5, <1>6, <1>7 DEF Next, StarterStep

\* Whoever measures takes up what was within the capacity, or asks for more.
LEMMA MeasuringIsWithin ==
  ASSUME TypeOK, RoomInv, NEW p \in Actors, at[p] = "idle",
         UNCHANGED <<running, cached, snap>>,
         \A q \in Starters : q # p => job'[q] = job[q],
         \/ RunningContainers(p)
         \/ /\ cached # NoRows
            /\ view' = [view EXCEPT ![p] = cached]
            /\ at' = [at EXCEPT ![p] = "hit"]
            /\ UNCHANGED flight
  PROVE  RoomInv'
<1>1. /\ \A q \in Actors : q # p => at'[q] = at[q] /\ view'[q] = view[q]
      /\ at'[p] \in {"waiting", "measured", "hit"}
      /\ at'[p] \in {"measured", "hit"} =>
           \/ view'[p] = snap /\ snap # NoRows
           \/ view'[p] = cached /\ cached # NoRows
  BY DEF RunningContainers, TypeOK
<1>2. \A q \in Actors : flight'[q].st = "listed" =>
        flight[q].st = "listed" /\ flight'[q].rows = flight[q].rows
  BY DEF RunningContainers, TypeOK
<1>3. \A q \in Actors : flight'[q].st = "listed" => Within(flight[q].rows)'
  BY <1>2 DEF RoomInv, Within
<1>4. \A q \in Actors : at'[q] \in {"measured", "hit"} => Within(view[q])'
  BY <1>1 DEF RoomInv, Within
<1>5. \A q \in Starters : at'[q] \in {"admitted", "starting", "stopped"} =>
        at'[q] = at[q] /\ job'[q] = job[q]
  BY <1>1 DEF Actors
<1> QED
  BY <1>3, <1>4, <1>5 DEF RoomInv, Within, HasRoom

\* A step of the one start that is under way keeps the room it was given, or uses it.
LEMMA OneRoomKept ==
  ASSUME TypeOK, TypeOK', RoomInv, One, NEW p \in Starters, UnderWay(p), Within(running)',
         \A q \in Actors : q # p => at'[q] = at[q] /\ view'[q] = view[q],
         at'[p] \in {"idle", "ran"},
         cached' \in {cached, NoRows}, snap' \in {snap, NoRows},
         \A q \in Actors : flight'[q].st = flight[q].st /\ flight'[q].rows = flight[q].rows
  PROVE  RoomInv'
<1>1. Starters \subseteq Actors  BY DEF Actors
<1>2. \A q \in Starters : at'[q] \notin {"admitted", "starting", "stopped"}
  BY <1>1 DEF One, UnderWay
<1>3. /\ cached' # NoRows => Within(cached)'
      /\ snap' # NoRows => Within(snap)'
      /\ \A q \in Actors : flight'[q].st = "listed" => Within(flight[q].rows)'
  BY DEF RoomInv, Within
<1>4. \A q \in Actors : at'[q] \in {"measured", "hit"} => Within(view[q])'
  BY DEF RoomInv, Within
<1> QED
  BY <1>2, <1>3, <1>4 DEF RoomInv

\* The running containers count more than the capacity only after a start that was decided
\* on beside another, or on a measurement asked for before the last one had ended (decide,
\* in refuse mode), whatever overlaps, exits and fails.
THEOREM CapacityIsKept == Spec => []NoOvercommit
<1>1. Init => AloneInv
  <2> SUFFICES ASSUME Init PROVE AloneInv  OBVIOUS
  <2> DEFINE zero == [m \in Names |-> 0]
  <2>1. IsFiniteSet(Names) /\ Capacity \in Nat /\ NoOne \notin Actors  BY MemoryConstants
  <2>2. SumFunctionOnSet(zero, Names) <= Capacity
    <3> DEFINE Bad == {s \in SUBSET Names : SumFunctionOnSet(zero, s) # 0}
    <3>1. Bad = {}
      <4> SUFFICES ASSUME Bad # {} PROVE FALSE  OBVIOUS
      <4>1. PICK s \in Bad : \A t \in SUBSET s : t # s => t \notin Bad
        <5>1. Bad \in SUBSET SUBSET Names  OBVIOUS
        <5> HIDE DEF Bad
        <5>2. QED  BY <2>1, <5>1, SmallestSet
      <4>2. s # {}  BY <4>1, SumEmpty
      <4>3. IsFiniteSet(s)  BY <2>1, <4>1, FS_Subset
      <4>4. /\ Picked(s) \in s
            /\ SumFunctionOnSet(zero, s) = zero[Picked(s)] + SumFunctionOnSet(zero, s \ {Picked(s)})
        <5> HIDE DEF zero, Bad
        <5>1. QED  BY <4>2, <4>3, SumPicked
      <4>5. SumFunctionOnSet(zero, s \ {Picked(s)}) = 0  BY <4>1, <4>4
      <4>6. zero[Picked(s)] = 0  BY <4>1, <4>4
      <4>7. QED  BY <4>1, <4>4, <4>5, <4>6
    <3>2. SumFunctionOnSet(zero, Names) = 0  BY <3>1
    <3>3. QED  BY <2>1, <3>2
  <2>3. RoomInv  BY <2>2 DEF Init, RoomInv, Within, NoFlight, Actors
  <2>4. \A p \in Starters : ~UnderWay(p)  BY DEF Init, UnderWay, Actors
  <2>5. QED  BY <2>3, <2>4 DEF AloneInv, One
<1>2. /\ TypeOK /\ TypeOK' /\ ReservationHasAStart /\ CoverInv /\ AloneInv
      /\ [Next]_vars
      => AloneInv'
  <2> SUFFICES ASSUME TypeOK, TypeOK', ReservationHasAStart, CoverInv, [Next]_vars,
                      alone, alone', RoomInv, One
               PROVE  RoomInv'
    <3>1. TypeOK /\ [Next]_vars /\ alone' => alone  BY AloneIsLost
    <3>2. TypeOK /\ One /\ [Next]_vars /\ alone' => One'  BY OneAtATime
    <3>3. AloneInv <=> (alone => RoomInv /\ One)  BY DEF AloneInv
    <3>4. AloneInv' <=> (alone' => RoomInv' /\ One')  BY DEF AloneInv
    <3> QED  BY <3>1, <3>2, <3>3, <3>4
  <2>0. Starters \subseteq Actors /\ NoOne \notin Starters /\ Readers \subseteq Actors
        /\ Starters \cap Readers = {}
    BY MemoryConstants DEF Actors
  <2>a. \A m \in Names : running[m] \in Nat /\ running[m] <= running[m] /\ 0 <= running[m]
    BY RowsAreNat DEF TypeOK
  <2>1. ASSUME NEW p \in Actors, DockerLists(p) PROVE RoomInv'
    <3>1. \A q \in Actors : /\ q # p => flight'[q] = flight[q]
                            /\ q = p => flight'[q].rows = running
      BY <2>1 DEF DockerLists, TypeOK, Reads
    <3>2. UNCHANGED <<running, cached, snap, holder, at, view, job>>
      BY <2>1 DEF DockerLists
    <3>3. \A q \in Actors : flight'[q].st = "listed" => Within(flight[q].rows)'
      BY <3>1, <3>2 DEF RoomInv, Within
    <3> QED
      BY <3>2, <3>3 DEF RoomInv, Within, HasRoom
  <2>2. ASSUME NEW p \in Actors, ReadReturns(p) PROVE RoomInv'
    <3>1. Within(flight[p].rows) /\ UNCHANGED <<running, cached, job>>
      BY <2>2 DEF ReadReturns, RoomInv
    <3>2. snap' # NoRows => Within(snap)'
      BY <2>2, <3>1 DEF ReadReturns, RoomInv, Within
    <3>3. \A q \in Actors : flight'[q].st = "listed" => Within(flight[q].rows)'
      <4>1. \A q \in Actors : flight'[q].st = "listed" => flight'[q] = flight[q]
        BY <2>2 DEF ReadReturns, NoFlight, TypeOK
      <4> QED
        BY <4>1 DEF RoomInv, Within
    <3>4. \A q \in Actors : at'[q] \in {"measured", "hit"} =>
            \/ at[q] \in {"measured", "hit"} /\ view'[q] = view[q]
            \/ view'[q] = flight[p].rows
      BY <2>2 DEF ReadReturns, WaitsFor, TypeOK
    <3>5. \A q \in Actors : at'[q] \in {"measured", "hit"} => Within(view[q])'
      BY <3>1, <3>4 DEF RoomInv, Within
    <3>6. \A q \in Starters : at'[q] \in {"admitted", "starting", "stopped"} => at'[q] = at[q]
      BY <2>0, <2>2 DEF ReadReturns, WaitsFor, TypeOK
    <3> QED
      BY <3>1, <3>2, <3>3, <3>5, <3>6 DEF RoomInv, Within, HasRoom
  <2>3. ASSUME NEW p \in Starters, NEW k, NEW m, NEW n, Request(p, k, m, n) PROVE RoomInv'
    <3>1. /\ at[p] = "idle" /\ UNCHANGED <<running, cached, snap>>
          /\ \A q \in Starters : q # p => job'[q] = job[q]
      BY <2>0, <2>3 DEF Request, TypeOK
    <3> QED
      BY <2>0, <2>3, <3>1, MeasuringIsWithin DEF Request
  <2>4. ASSUME NEW p \in Starters, Decide(p) PROVE RoomInv'
    <3>1. /\ at[p] \in {"measured", "hit"} /\ Within(view[p])
          /\ UNCHANGED <<running, snap, flight, holder>>
          /\ \A q \in Actors : q # p => at'[q] = at[q] /\ view'[q] = view[q] /\ job'[q] = job[q]
          /\ at'[p] \in {"admitted", "idle"}
      <4>1. at[p] \in {"measured", "hit"} /\ UNCHANGED <<running, snap, flight, holder>>
        BY <2>4 DEF Decide
      <4>2. Within(view[p])
        BY <2>0, <4>1 DEF RoomInv
      <4>3. /\ \A q \in Actors : q # p => at'[q] = at[q] /\ view'[q] = view[q] /\ job'[q] = job[q]
            /\ at'[p] \in {"admitted", "idle"}
        BY <2>0, <2>4 DEF Decide, Finish, TypeOK
      <4> QED
        BY <4>1, <4>2, <4>3
    <3>2. cached' # NoRows => Within(cached)'
      <4>1. cached' = cached \/ cached' = view[p]
        BY <2>4 DEF Decide, Cache
      <4> QED
        BY <3>1, <4>1 DEF RoomInv, Within
    <3>3. ASSUME at'[p] = "admitted" PROVE HasRoom(p)'
      <4>1. /\ Allowed(p) /\ job' = job /\ p \notin lateViews
            /\ \A q \in Starters : ~UnderWay(q)
        BY <2>0, <2>4, <3>3 DEF Decide, Finish, TypeOK
      <4>2. Covers(view[p])
        BY <2>0, <3>1, <4>1 DEF CoverInv
      <4>3. \A m \in Names : ~Ran(m)
        BY <4>1 DEF Ran, UnderWay
      <4>4. \A m \in Names : holder[m] = NoOne
        <5>1. ASSUME NEW m \in Names, holder[m] # NoOne PROVE FALSE
          <6>1. holder[m] \in Starters /\ InStart(holder[m])
            BY <5>1 DEF ReservationHasAStart, TypeOK
          <6> QED
            BY <4>1, <6>1 DEF InStart, UnderWay
        <5> QED
          BY <5>1
      <4>5. \A m \in Names : running[m] <= view[p][m]
        BY <4>2, <4>3 DEF Covers
      <4>6. HasRoom(p)
        BY <3>1, <4>1, <4>4, <4>5, AllowedHasRoom
      <4> QED
        BY <3>1, <4>1, <4>6 DEF HasRoom
    <3>4. \A q \in Starters : at'[q] \in {"admitted", "starting", "stopped"} => HasRoom(q)'
      <4>1. \A q \in Starters : q # p /\ at'[q] \in {"admitted", "starting", "stopped"}
              => HasRoom(q)'
        BY <2>0, <3>1 DEF RoomInv, HasRoom
      <4> QED
        BY <3>1, <3>3, <4>1
    <3>5. \A q \in Actors : at'[q] \in {"measured", "hit"} => Within(view[q])'
      BY <2>0, <3>1 DEF RoomInv, Within
    <3> QED
      BY <3>1, <3>2, <3>4, <3>5 DEF RoomInv, Within
  <2>5. ASSUME NEW p \in Starters,
               Reserve(p) \/ StopOld(p) \/ RunFails(p) \/ RestartStop(p)
        PROVE  RoomInv'
    <3>1. /\ UNCHANGED <<cached, snap, flight, view, job>>
          /\ at[p] \in {"admitted", "starting", "stopped"}
          /\ at'[p] \notin {"measured", "hit"} /\ \A q \in Actors : q # p => at'[q] = at[q]
      BY <2>0, <2>5 DEF Reserve, StopOld, RunFails, RestartStop, TypeOK
    <3>2. \A m \in Names : running'[m] <= running[m]
      <4>1. running' = running \/ running' = [running EXCEPT ![job[p].name] = 0]
        BY <2>5 DEF Reserve, StopOld, RunFails, RestartStop
      <4>2. \A m \in Names : running'[m] = running[m] \/ running'[m] = 0
        BY <4>1 DEF TypeOK, Rows
      <4> QED
        BY <2>a, <4>2
    <3>3. \A q \in Actors : at'[q] \in {"measured", "hit"} => at[q] \in {"measured", "hit"}
      BY <3>1
    <3>4. \A q \in Starters : at'[q] \in {"admitted", "starting", "stopped"} =>
            at[q] \in {"admitted", "starting", "stopped"}
      BY <2>0, <3>1
    <3> QED
      BY <3>1, <3>2, <3>3, <3>4, RoomInvKept
  <2>6. ASSUME NEW p \in Starters, RunContainer(p) PROVE RoomInv'
    <3>1. /\ at[p] = "stopped" /\ running' = [running EXCEPT ![job[p].name] = job[p].size]
          /\ at'[p] = "ran" /\ \A q \in Actors : q # p => at'[q] = at[q]
          /\ UNCHANGED <<cached, snap, flight, view, job>>
      BY <2>0, <2>6 DEF RunContainer, TypeOK
    <3>2. Within(running)' /\ UnderWay(p)
      BY <3>1, RoomIsUsed DEF UnderWay
    <3> QED
      BY <3>1, <3>2, OneRoomKept
  <2>7. ASSUME NEW p \in Starters, CoderStart(p) \/ RestartStart(p) \/ Release(p) PROVE RoomInv'
    <3>1. /\ Finish(p) /\ UnderWay(p)
          /\ Invalidate \/ UNCHANGED <<cached, snap, flight>>
      BY <2>7 DEF CoderStart, RestartStart, Release, UnderWay
    <3>2. /\ cached' \in {cached, NoRows} /\ snap' \in {snap, NoRows}
          /\ \A q \in Actors : flight'[q].st = flight[q].st /\ flight'[q].rows = flight[q].rows
      BY <3>1, InvalidateTypes
    <3>3. at'[p] = "idle" /\ \A q \in Actors : q # p => at'[q] = at[q] /\ view'[q] = view[q]
      BY <2>0, <3>1, FinishTypes
    <3>4. Within(running)'
      <4>1. CASE CoderStart(p) \/ RestartStart(p)
        <5>1. PICK c \in {0, job[p].size} : running' = [running EXCEPT ![job[p].name] = c]
          BY <4>1 DEF CoderStart, RestartStart
        <5>2. at[p] \in {"admitted", "stopped"}  BY <4>1 DEF CoderStart, RestartStart
        <5> QED
          BY <5>1, <5>2, RoomIsUsed
      <4>2. CASE Release(p)
        BY <4>2 DEF Release, RoomInv, Within
      <4> QED
        BY <2>7, <4>1, <4>2
    <3> QED
      BY <3>1, <3>2, <3>3, <3>4, OneRoomKept
  <2>8. ASSUME NEW p \in Readers, Read(p) PROVE RoomInv'
    <3>1. at[p] = "idle" /\ RunningContainers(p) /\ UNCHANGED <<running, cached, snap, job>>
      BY <2>8 DEF Read
    <3> QED
      BY <2>0, <3>1, MeasuringIsWithin
  <2>11. ASSUME NEW p \in Readers, ReadDone(p) PROVE RoomInv'
    <3>1. /\ at[p] = "measured" /\ Within(view[p])
          /\ UNCHANGED <<running, snap, flight>>
          /\ \A q \in Actors : q # p => at'[q] = at[q] /\ view'[q] = view[q] /\ job'[q] = job[q]
          /\ at'[p] = "idle"
      BY <2>0, <2>11 DEF ReadDone, Finish, RoomInv, TypeOK
    <3>2. cached' # NoRows => Within(cached)'
      BY <2>11, <3>1 DEF ReadDone, Cache, RoomInv, Within
    <3>3. \A q \in Starters : at'[q] \in {"admitted", "starting", "stopped"} => HasRoom(q)'
      BY <2>0, <3>1 DEF RoomInv, HasRoom
    <3>4. \A q \in Actors : at'[q] \in {"measured", "hit"} => Within(view[q])'
      BY <3>1 DEF RoomInv, Within
    <3> QED
      BY <3>1, <3>2, <3>3, <3>4 DEF RoomInv, Within
  <2>9. ASSUME NEW m \in Names, Exit(m) PROVE RoomInv'
    <3>1. \A k \in Names : running'[k] <= running[k]
      BY <2>9, <2>a DEF Exit, TypeOK, Rows
    <3> QED
      BY <2>9, <3>1, RoomInvKept DEF Exit
  <2>10. CASE Expire \/ UNCHANGED vars
    <3>1. UNCHANGED <<running, flight, at, view, job>>
      BY <2>10 DEF Expire, vars
    <3>2. cached' \in {cached, NoRows} /\ snap' \in {snap, NoRows}
      BY <2>10 DEF Expire, vars
    <3> QED
      BY <2>a, <3>1, <3>2, RoomInvKept
  <2> QED
    BY <2>1, <2>2, <2>3, <2>4, <2>5, <2>6, <2>7, <2>8, <2>9, <2>10, <2>11 DEF Next, StarterStep
<1>3. AloneInv => NoOvercommit
  BY DEF AloneInv, RoomInv, Within, NoOvercommit
<1> QED
  BY <1>1, <1>2, <1>3, CoverIsKept, PTL DEF Spec
=============================================================================
