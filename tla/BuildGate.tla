------------------------------ MODULE BuildGate ------------------------------
(***************************************************************************)
(* services/buildGate.js: image builds take a shared hold on the Docker    *)
(* host, image prunes an exclusive one.  The gate is four module variables *)
(* of one JavaScript process, so everything between two awaits is one      *)
(* step here and every await is a point where the other calls may run.     *)
(*                                                                         *)
(* A promise of the code is named by the prune body that creates it:       *)
(* `pruning' holds a body, `awaited' says whose promise a call waits for,  *)
(* and a body in state "settled" or "done" is a settled promise.           *)
(* Names other modules use too carry the prefix Gate.                      *)
(***************************************************************************)
EXTENDS Naturals, FiniteSets

CONSTANTS Builds,    \* the withBuild calls
          Prunes,    \* the withPrune bodies (promises) that can be created
          Callers,   \* the withPrune calls
          Keys,      \* coalescing keys ("dangling-images", "old-images:...")
          NONE       \* JavaScript null

ASSUME GateConstants ==
  /\ NONE \notin Prunes
  /\ Builds \cap Prunes = {}
  /\ IsFiniteSet(Builds)

VARIABLES builds,    \* number of builds holding the gate
          pruning,   \* the prune body holding the gate, or NONE
          drained,   \* bodies whose resolver waits for builds to reach 0
          queued,    \* key |-> the body not started yet for that key, or NONE
          pc,        \* where each call is suspended
          awaited,   \* the prune promise a suspended call waits for
          keyOf,     \* the key a prune body was created with
          holds      \* the promise a withPrune caller was given

gate == <<builds, pruning, drained, queued>>
gateVars == <<builds, pruning, drained, queued, pc, awaited, keyOf, holds>>

-----------------------------------------------------------------------------
BuildStates == {"idle", "waiting", "running", "done"}
PruneStates == {"unused", "looking", "drainWait", "pruneWait", "running",
                "settled", "done"}

GateTypeOK ==
  /\ builds \in Nat
  /\ pruning \in Prunes \cup {NONE}
  /\ drained \in SUBSET Prunes
  /\ queued \in [Keys -> Prunes \cup {NONE}]
  /\ pc \in [Builds \cup Prunes -> BuildStates \cup PruneStates]
  /\ \A b \in Builds : pc[b] \in BuildStates
  /\ \A p \in Prunes : pc[p] \in PruneStates
  /\ awaited \in [Builds \cup Prunes -> Prunes \cup {NONE}]
  /\ keyOf \in [Prunes -> Keys \cup {NONE}]
  /\ holds \in [Callers -> Prunes \cup {NONE}]

GateInit ==
  /\ builds = 0
  /\ pruning = NONE
  /\ drained = {}
  /\ queued = [k \in Keys |-> NONE]
  /\ pc = [c \in Builds \cup Prunes |-> IF c \in Builds THEN "idle" ELSE "unused"]
  /\ awaited = [c \in Builds \cup Prunes |-> NONE]
  /\ keyOf = [p \in Prunes |-> NONE]
  /\ holds = [c \in Callers |-> NONE]

\* The promise of body p has resolved or rejected (both wake its waiters).
Settled(p) == pc[p] \in {"settled", "done"}

-----------------------------------------------------------------------------
(* withBuild *)

\* One turn of `while (pruning) await pruning.catch(...)', then builds += 1.
EnterOrWait(b) ==
  \/ /\ pruning # NONE
     /\ pc' = [pc EXCEPT ![b] = "waiting"]
     /\ awaited' = [awaited EXCEPT ![b] = pruning]
     /\ UNCHANGED builds
  \/ /\ pruning = NONE
     /\ pc' = [pc EXCEPT ![b] = "running"]
     /\ awaited' = [awaited EXCEPT ![b] = NONE]
     /\ builds' = builds + 1

WithBuild(b) ==
  /\ pc[b] = "idle"
  /\ EnterOrWait(b)
  /\ UNCHANGED <<pruning, drained, queued, keyOf, holds>>

\* Mutant: `if (pruning) await' instead of `while'.
ResumeBuild_NoRecheck(b) ==
  /\ pc[b] = "waiting"
  /\ Settled(awaited[b])
  /\ pc' = [pc EXCEPT ![b] = "running"]
  /\ builds' = builds + 1
  /\ UNCHANGED <<pruning, drained, queued, awaited, keyOf, holds>>

ResumeBuild(b) ==
  /\ pc[b] = "waiting"
  /\ Settled(awaited[b])
  /\ EnterOrWait(b)
  /\ UNCHANGED <<pruning, drained, queued, keyOf, holds>>

\* Mutant: the last build leaves without waking the parked bodies.
EndBuild_NoWake(b) ==
  /\ pc[b] = "running"
  /\ builds' = builds - 1
  /\ pc' = [pc EXCEPT ![b] = "done"]
  /\ UNCHANGED <<pruning, drained, queued, awaited, keyOf, holds>>

\* The build's own promise settled: the finally block releases the hold and,
\* when it was the last one, wakes every body parked in `drained'.
EndBuild(b) ==
  /\ pc[b] = "running"
  /\ builds' = builds - 1
  /\ LET woken == IF builds = 1 THEN drained ELSE {}
     IN  /\ drained' = drained \ woken
         /\ pc' = [c \in Builds \cup Prunes |->
                     IF c = b THEN "done"
                     ELSE IF c \in woken THEN "looking" ELSE pc[c]]
  /\ UNCHANGED <<pruning, queued, awaited, keyOf, holds>>

-----------------------------------------------------------------------------
(* withPrune *)

\* A caller asks for a prune: it joins the queued body of its key, or creates one.
WithPrune(c, k) ==
  /\ holds[c] = NONE
  /\ \/ /\ queued[k] # NONE
        /\ holds' = [holds EXCEPT ![c] = queued[k]]
        /\ UNCHANGED <<queued, pc, keyOf>>
     \/ /\ queued[k] = NONE
        /\ \E p \in Prunes :
             /\ pc[p] = "unused"
             /\ pc' = [pc EXCEPT ![p] = "looking"]
             /\ queued' = [queued EXCEPT ![k] = p]
             /\ keyOf' = [keyOf EXCEPT ![p] = k]
             /\ holds' = [holds EXCEPT ![c] = p]
  /\ UNCHANGED <<builds, pruning, drained, awaited>>

\* Mutant: queued.delete(key) is forgotten, so later callers join a started body.
Look_NoDelete(p) ==
  /\ builds = 0 /\ pruning = NONE
  /\ pc' = [pc EXCEPT ![p] = "running"]
  /\ pruning' = p
  /\ UNCHANGED <<queued, drained, awaited>>

\* One turn of the body's for(;;): park, wait for the running prune, or start.
Look(p) ==
  \/ /\ builds > 0
     /\ pc' = [pc EXCEPT ![p] = "drainWait"]
     /\ drained' = drained \cup {p}
     /\ UNCHANGED <<pruning, queued, awaited>>
  \/ /\ builds = 0
     /\ pruning # NONE
     /\ pc' = [pc EXCEPT ![p] = "pruneWait"]
     /\ awaited' = [awaited EXCEPT ![p] = pruning]
     /\ UNCHANGED <<pruning, queued, drained>>
  \/ /\ builds = 0
     /\ pruning = NONE
     /\ pc' = [pc EXCEPT ![p] = "running"]
     /\ awaited' = [awaited EXCEPT ![p] = NONE]
     /\ queued' = [queued EXCEPT ![keyOf[p]] = NONE]
     /\ pruning' = p
     /\ UNCHANGED drained

RunBody(p) ==
  /\ \/ pc[p] = "looking"
     \/ pc[p] = "pruneWait" /\ Settled(awaited[p])
  /\ Look(p)
  /\ UNCHANGED <<builds, keyOf, holds>>

\* fn() itself resolves or rejects ...
PruneSettles(p) ==
  /\ pc[p] = "running"
  /\ pc' = [pc EXCEPT ![p] = "settled"]
  /\ UNCHANGED <<builds, pruning, drained, queued, awaited, keyOf, holds>>

\* ... and the body's finally clears the gate.
PruneFinally(p) ==
  /\ pc[p] = "settled"
  /\ pc' = [pc EXCEPT ![p] = "done"]
  /\ pruning' = NONE
  /\ UNCHANGED <<builds, drained, queued, awaited, keyOf, holds>>

-----------------------------------------------------------------------------
BuildStep(b) == WithBuild(b) \/ ResumeBuild(b) \/ EndBuild(b)
PruneStep(p) == RunBody(p) \/ PruneSettles(p) \/ PruneFinally(p)

\* Every call of the finite sets has been made and has returned.
AllReturned ==
  /\ \A b \in Builds : pc[b] = "done"
  /\ \A c \in Callers : holds[c] # NONE /\ pc[holds[c]] = "done"

GateNext ==
  \/ \E b \in Builds : BuildStep(b)
  \/ \E p \in Prunes : PruneStep(p)
  \/ \E c \in Callers, k \in Keys : WithPrune(c, k)
  \/ AllReturned /\ UNCHANGED gateVars

GateSpec == GateInit /\ [][GateNext]_gateVars

\* docker build and docker prune end (each runs under a timeout) and a settled
\* promise resumes its waiters; nobody is obliged to call withBuild or withPrune.
GateFairness ==
  /\ \A b \in Builds : WF_gateVars(ResumeBuild(b)) /\ WF_gateVars(EndBuild(b))
  /\ \A p \in Prunes : WF_gateVars(PruneStep(p))

GateFairSpec == GateSpec /\ GateFairness

-----------------------------------------------------------------------------
(* Properties *)

\* A prune holds the host only while no build does: "Image builds and image
\* prunes never overlap on one Docker host" (the lease-loss failure of the
\* header comment), and at most one prune runs at a time.
Running(S) == {c \in S : pc[c] = "running"}

NoBuildBesidePrune ==
  /\ Running(Prunes) # {} => Running(Builds) = {}
  /\ \A p, q \in Running(Prunes) : p = q

\* No lost wake-up: a body parked in `drained' always has a running build
\* whose finally block will wake it.
ParkedOnlyBehindBuilds ==
  \A p \in Prunes : pc[p] = "drainWait" => p \in drained /\ Running(Builds) # {}

\* A caller that asks for a prune never gets one that has already started:
\* layers orphaned before its call are still there to be removed.
NeverJoinsStartedPrune ==
  [][\A c \in Callers :
       holds[c] = NONE /\ holds'[c] # NONE
         => pc'[holds'[c]] \notin {"running", "settled", "done"}]_gateVars

\* Where a call is with its lease: a prune has it from its start until its finally
\* block has run.
Stage(c) ==
  CASE pc[c] \in {"idle", "unused"} -> "out"
    [] pc[c] \in {"waiting", "looking", "drainWait", "pruneWait"} -> "asked"
    [] pc[c] \in {"running", "settled"} -> "in"
    [] OTHER -> "done"

Lease == INSTANCE HostLease WITH lease <- [c \in Builds \cup Prunes |-> Stage(c)]

\* The gate is such a lease, in every order of wake-ups: holders exclude each other,
\* every build that waits and every prune asked for gets in, once, and leaves.
IsALease == Lease!FairSpec
=============================================================================
