------------------------------ MODULE HostLease ------------------------------
(***************************************************************************)
(* What services/buildGate.js promises its callers: a lease of the Docker  *)
(* host that builds share and a prune has alone, given in the end to       *)
(* everyone who asked for it.  Nothing is said of queues, of wake-ups or   *)
(* of how a call waits.                                                    *)
(***************************************************************************)
CONSTANTS Builds, Prunes

VARIABLES lease   \* where each build and prune is with its lease

Stages == {"out", "asked", "in", "done"}

Init == lease = [c \in Builds \cup Prunes |-> "out"]

Inside(S) == {c \in S : lease[c] = "in"}

Go(c, stage) == lease' = [lease EXCEPT ![c] = stage]

Ask(c) == lease[c] = "out" /\ Go(c, "asked")

\* Builds keep out only prunes, and may be let in without having to wait.
EnterBuild(b) ==
  /\ lease[b] \in {"out", "asked"}
  /\ Inside(Prunes) = {}
  /\ Go(b, "in")

EnterPrune(p) ==
  /\ lease[p] = "asked"
  /\ Inside(Builds \cup Prunes) = {}
  /\ Go(p, "in")

Leave(c) == lease[c] = "in" /\ Go(c, "done")

Next ==
  \/ \E c \in Builds \cup Prunes : Ask(c) \/ Leave(c)
  \/ \E b \in Builds : EnterBuild(b)
  \/ \E p \in Prunes : EnterPrune(p)

Spec == Init /\ [][Next]_lease

\* A lease ends; whoever waits is let in if that is possible again and again.
Fairness ==
  /\ \A c \in Builds \cup Prunes : WF_lease(Leave(c))
  /\ \A b \in Builds : SF_lease(lease[b] = "asked" /\ EnterBuild(b))
  /\ \A p \in Prunes : SF_lease(EnterPrune(p))

FairSpec == Spec /\ Fairness
=============================================================================
