------------------------------- MODULE Outbox -------------------------------
(***************************************************************************)
(* What services/emailQueue.js promises whoever enqueues a mail: it is     *)
(* settled in the end, as sent only when the relay took it or there was    *)
(* none to give it to, and once and for all unless two workers had taken   *)
(* it up.  Nothing is said of ticks, batches, retries or restarts.         *)
(***************************************************************************)
CONSTANTS Messages

VARIABLES mail,      \* what the sender can ask for: is it waiting, sent or failed
          taken,     \* messages the relay took, whether or not that is known here
          relay,     \* there is a relay
          contested  \* messages that two workers took up

vars == <<mail, taken, relay, contested>>

Settled == {"sent", "failed"}

Init ==
  /\ mail = [i \in Messages |-> "none"]
  /\ taken = {}
  /\ relay \in BOOLEAN
  /\ contested = {}

Submit(i) ==
  /\ mail[i] = "none"
  /\ mail' = [mail EXCEPT ![i] = "waiting"]
  /\ UNCHANGED <<taken, relay>>

\* The relay takes a message that waits, and no other.
Take(i) ==
  /\ mail[i] = "waiting"
  /\ taken' = taken \cup {i}
  /\ UNCHANGED <<mail, relay>>

Sent(i) ==
  /\ mail[i] = "waiting" /\ (i \in taken \/ ~relay)
  /\ mail' = [mail EXCEPT ![i] = "sent"]
  /\ UNCHANGED <<taken, relay>>

GiveUp(i) ==
  /\ mail[i] = "waiting"
  /\ mail' = [mail EXCEPT ![i] = "failed"]
  /\ UNCHANGED <<taken, relay>>

\* The second worker goes on with a message the first may have settled.
Again(i) ==
  /\ i \in contested
  /\ \E m \in Settled \cup {"waiting"} : mail' = [mail EXCEPT ![i] = m]
  /\ taken' \in {taken, taken \cup {i}}
  /\ UNCHANGED relay

Configure == relay' = ~relay /\ UNCHANGED <<mail, taken>>

\* A second worker takes up messages that wait, while anything else goes on.
Contend ==
  \E S \in SUBSET {i \in Messages : mail[i] = "waiting"} : contested' = contested \cup S

Next ==
  /\ \/ \E i \in Messages : Submit(i) \/ Take(i) \/ Sent(i) \/ GiveUp(i) \/ Again(i)
     \/ Configure
     \/ UNCHANGED <<mail, taken, relay>>
  /\ Contend

Spec == Init /\ [][Next]_vars

FairSpec == Spec /\ \A i \in Messages : WF_vars((Sent(i) \/ GiveUp(i)) /\ Contend)
=============================================================================
