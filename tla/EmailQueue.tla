----------------------------- MODULE EmailQueue -----------------------------
(***************************************************************************)
(* services/emailQueue.js: rows of the email_queue table and the worker    *)
(* that sends them.  setInterval starts a tick every 5 s whether or not    *)
(* the previous one still awaits the relay; `Ticks' are the ticks that may *)
(* be under way at once.  services/emailService.js only logs a mail while  *)
(* neither Graph nor SMTP is configured, and the worker takes that for a   *)
(* mail that was sent.                                                     *)
(*                                                                         *)
(* Left out: an enqueue that is answered from an existing idempotency key, *)
(* refused for its recipient or over the hourly budget changes no row.     *)
(***************************************************************************)
EXTENDS Naturals, FiniteSets

CONSTANTS MaxRows,      \* bound on enqueued messages
          MaxAttempts,  \* MAX_ATTEMPTS (code: 5)
          Batch,        \* BATCH (code: 10)
          Ticks,        \* ticks that can be under way at the same time
          MaxTries,     \* bound on deliveries begun per message
          MaxCrashes    \* bound on restarts of the server

ASSUME QueueConstants ==
  /\ MaxRows \in Nat /\ Batch \in Nat /\ MaxTries \in Nat /\ MaxCrashes \in Nat
  /\ MaxAttempts \in Nat \ {0}
  /\ IsFiniteSet(Ticks)

Ids == 1..MaxRows

VARIABLES n,         \* rows inserted
          status,    \* email_queue.status
          attempts,  \* email_queue.attempts
          due,       \* rows whose next_attempt_at has come
          relay,     \* Graph or SMTP is configured
          tick,      \* per tick: where it is, its row, the rows left, their attempts
          tries,     \* deliveries begun for a row
          accepted,  \* how often the relay took the message
          lost,      \* messages taken by the relay without the row learning it
          contested, \* messages that two ticks have held at once
          crashes    \* restarts so far

table == <<n, status, attempts, due>>
history == <<tries, accepted, lost, contested>>
vars == <<table, relay, tick, history, crashes>>

Idle == [at |-> "idle", row |-> 0, left |-> {}, seen |-> [i \in Ids |-> 0]]

TypeOK ==
  /\ n \in 0..MaxRows
  /\ status \in [Ids -> {"none", "queued", "sending", "sent", "failed"}]
  /\ \A i \in Ids : status[i] = "none" <=> i > n
  /\ attempts \in [Ids -> Nat]
  /\ due \in SUBSET Ids
  /\ tick \in [Ticks -> [at : {"idle", "next", "sending", "accepted", "notice"},
                         row : 0..MaxRows, left : SUBSET Ids, seen : [Ids -> Nat]]]
  /\ \A t \in Ticks : /\ tick[t].at # "idle" => Cardinality(tick[t].left) < Batch
                      /\ tick[t].at \in {"sending", "accepted"} => tick[t].row \in Ids
  /\ tries \in [Ids -> Nat]
  /\ accepted \in [Ids -> Nat]
  /\ lost \in SUBSET Ids
  /\ contested \in SUBSET Ids
  /\ relay \in BOOLEAN
  /\ crashes \in 0..MaxCrashes

Init ==
  /\ n = 0
  /\ status = [i \in Ids |-> "none"]
  /\ attempts = [i \in Ids |-> 0]
  /\ due = Ids
  /\ tick = [t \in Ticks |-> Idle]
  /\ tries = [i \in Ids |-> 0]
  /\ accepted = [i \in Ids |-> 0]
  /\ lost = {}
  /\ contested = {}
  /\ relay \in BOOLEAN
  /\ crashes = 0

-----------------------------------------------------------------------------
\* enqueueEmail inserts a row that is due at once.
Enqueue ==
  /\ n < MaxRows
  /\ n' = n + 1
  /\ status' = [status EXCEPT ![n + 1] = "queued"]
  /\ UNCHANGED <<attempts, due, relay, tick, history, crashes>>

Due == {i \in Ids : status[i] = "queued" /\ i \in due}

\* ORDER BY id ASC LIMIT BATCH.
Oldest(S) == {i \in S : Cardinality({j \in S : j < i}) < Batch}

\* The rows a tick has read and not settled.
Held(t) ==
  tick[t].left \cup (IF tick[t].at \in {"sending", "accepted"} THEN {tick[t].row} ELSE {})

\* processRow: status = 'sending', whatever it is by now, and the mail goes out; or,
\* with nothing configured, it is only logged and the row is marked sent all the same
\* (the awaits of loaded modules in between are one step here).
\* `left' are the rows of the batch after this one.
Send(t, i, left, seen) ==
  /\ tries[i] < MaxTries
  /\ tries' = [tries EXCEPT ![i] = @ + 1]
  /\ IF relay
     THEN /\ status' = [status EXCEPT ![i] = "sending"]
          /\ tick' = [tick EXCEPT ![t] =
                        [at |-> "sending", row |-> i, left |-> left, seen |-> seen]]
          /\ UNCHANGED attempts
     ELSE /\ status' = [status EXCEPT ![i] = "sent"]
          /\ attempts' = [attempts EXCEPT ![i] = @ + 1]
          /\ tick' = [tick EXCEPT ![t] =
                        [at |-> "next", row |-> 0, left |-> left, seen |-> seen]]
  /\ UNCHANGED <<n, due, relay, accepted, lost, crashes>>

\* A tick begins: it reads the due rows, their attempts included, and starts on
\* the first at once; the others stay 'queued' until their turn comes.
Select(t) ==
  /\ tick[t].at = "idle"
  /\ \E i \in Oldest(Due) :
       /\ \A j \in Oldest(Due) : i <= j
       /\ Send(t, i, Oldest(Due) \ {i},
               [j \in Ids |-> IF j \in Oldest(Due) THEN attempts[j] ELSE 0])
  /\ contested' = contested \cup {j \in Oldest(Due) : \E u \in Ticks \ {t} : j \in Held(u)}

\* The next row of the batch, as it was read.
NextRow(t) ==
  /\ tick[t].at = "next"
  /\ \E i \in tick[t].left :
       /\ \A j \in tick[t].left : i <= j
       /\ Send(t, i, tick[t].left \ {i}, tick[t].seen)
  /\ UNCHANGED contested

\* The batch is done.
EndTick(t) ==
  /\ tick[t].at = "next" /\ tick[t].left = {}
  /\ tick' = [tick EXCEPT ![t] = Idle]
  /\ UNCHANGED <<table, relay, history, crashes>>

\* The relay takes the message; its answer is still on the way.
RelayAccepts(t) ==
  /\ tick[t].at = "sending"
  /\ accepted' = [accepted EXCEPT ![tick[t].row] = @ + 1]
  /\ tick' = [tick EXCEPT ![t].at = "accepted"]
  /\ UNCHANGED <<table, relay, tries, lost, contested, crashes>>

\* Mutant: the row goes back to the queue after a successful send.
SendOk_NotRecorded(t) ==
  /\ tick[t].at = "accepted"
  /\ status' = [status EXCEPT ![tick[t].row] = "queued"]
  /\ tick' = [tick EXCEPT ![t].at = "next", ![t].row = 0]
  /\ UNCHANGED <<n, attempts, due, relay, history, crashes>>

SendOk(t) ==
  /\ tick[t].at = "accepted"
  /\ status' = [status EXCEPT ![tick[t].row] = "sent"]
  /\ attempts' = [attempts EXCEPT ![tick[t].row] = @ + 1]
  /\ tick' = [tick EXCEPT ![t].at = "next", ![t].row = 0]
  /\ UNCHANGED <<n, due, relay, history, crashes>>

\* Mutant: one attempt too few before the dead letter.
LastAttempt_OneEarly(k) == k + 1 >= MaxAttempts

\* The attempts a failed send leaves reach MAX_ATTEMPTS.
LastAttempt(k) == k >= MaxAttempts

\* sendEmail threw: back to the queue with a delay, or dead-lettered, counting
\* from the attempts the tick read when it began.
SendFails(t) ==
  /\ tick[t].at \in {"sending", "accepted"}
  /\ LET i == tick[t].row
         k == tick[t].seen[i] + 1
     IN  /\ attempts' = [attempts EXCEPT ![i] = k]
         /\ \/ /\ LastAttempt(k)
               /\ status' = [status EXCEPT ![i] = "failed"]
               /\ tick' = [tick EXCEPT ![t].at = "notice", ![t].row = 0]
               /\ UNCHANGED due
            \/ /\ ~LastAttempt(k)
               /\ status' = [status EXCEPT ![i] = "queued"]
               /\ due' = due \ {i}
               /\ tick' = [tick EXCEPT ![t].at = "next", ![t].row = 0]
         /\ lost' = IF tick[t].at = "accepted" THEN lost \cup {i} ELSE lost
  /\ UNCHANGED <<n, relay, tries, accepted, contested, crashes>>

\* The mails to the platform admins have been tried; they change no row.
NoticeSent(t) ==
  /\ tick[t].at = "notice"
  /\ tick' = [tick EXCEPT ![t].at = "next"]
  /\ UNCHANGED <<table, relay, history, crashes>>

\* A backoff delay runs out.
BecomesDue(i) ==
  /\ i \notin due
  /\ due' = due \cup {i}
  /\ UNCHANGED <<n, status, attempts, relay, tick, history, crashes>>

\* Mutant: rows left in 'sending' are forgotten.
BootReset_Nothing == status

\* startEmailWorker: rows orphaned mid-send go back to the queue.
BootReset == [i \in Ids |-> IF status[i] = "sending" THEN "queued" ELSE status[i]]

\* The server dies and boots.
Restart ==
  /\ crashes < MaxCrashes
  /\ crashes' = crashes + 1
  /\ status' = BootReset
  /\ tick' = [t \in Ticks |-> Idle]
  /\ lost' = lost \cup {tick[t].row : t \in {u \in Ticks : tick[u].at = "accepted"}}
  /\ UNCHANGED <<n, attempts, due, relay, tries, accepted, contested>>

\* An administrator configures a way to send, or removes it.
Configure ==
  /\ relay' = ~relay
  /\ UNCHANGED <<table, tick, history, crashes>>

TickStep(t) ==
  \/ Select(t) \/ NextRow(t) \/ EndTick(t) \/ RelayAccepts(t)
  \/ SendOk(t) \/ SendFails(t) \/ NoticeSent(t)

\* Nothing is left to send, or a bound of the instance is reached.
AtRest == (Due = {} \/ \E i \in Ids : tries[i] = MaxTries) /\ UNCHANGED vars

Next ==
  \/ Enqueue \/ Restart \/ Configure
  \/ \E t \in Ticks : TickStep(t)
  \/ \E i \in Ids : BecomesDue(i)
  \/ AtRest

Spec == Init /\ [][Next]_vars

\* setInterval keeps ticking, every send ends (transport timeouts), time passes.
Fairness ==
  /\ \A t \in Ticks : WF_vars(TickStep(t))
  /\ \A i \in Ids : WF_vars(BecomesDue(i))

FairSpec == Spec /\ Fairness

-----------------------------------------------------------------------------
(* Properties *)

\* A message is dead-lettered only after MAX_ATTEMPTS deliveries were begun,
\* also when ticks overlap and the server restarts in the middle of a send.
DeadLetterAfterAllTries ==
  \A i \in Ids : status[i] = "failed" => tries[i] >= MaxAttempts

\* A recipient gets a message twice only when the relay took it and the server
\* could not record that (the answer was lost, or the server died), or when two
\* overlapping ticks had both read its row.
DuplicateOnlyWithReason ==
  \A i \in Ids : accepted[i] > 1 => i \in lost \cup contested

\* What the queue implements: a row on its way to the relay still waits.
Box == INSTANCE Outbox WITH
  Messages <- Ids,
  mail <- [i \in Ids |-> IF status[i] \in {"queued", "sending"} THEN "waiting" ELSE status[i]],
  taken <- {i \in Ids : accepted[i] > 0}

\* The queue is such an outbox: but for messages two ticks held, each is settled
\* once, is never handed to the relay after that, and is sent only if the relay took
\* it or there was none; and all settle in the end, through failures and restarts.
IsAnOutbox == Box!FairSpec

\* ... its safety part.
OutboxSteps == Box!Spec

\* What "claims due rows" says: what is settled stays so.
NeverSentAgain ==
  [][\A i \in Ids : status[i] \in {"sent", "failed"} => status'[i] = status[i]]_vars
=============================================================================
