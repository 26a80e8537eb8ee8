---------------------------- MODULE SiemDelivery ----------------------------
(***************************************************************************)
(* services/siem/delivery.js for one sink of services/siem/store.js: the   *)
(* events of the store go out in batches from a durable cursor, which      *)
(* moves when the destination has accepted a batch and nobody has moved it *)
(* in the meantime.  An administrator edits the sink, moves its cursor and *)
(* flushes it; retention prunes the store; the server restarts.            *)
(*                                                                         *)
(* A sink is hydrated once per delivery: its filter in there is the one    *)
(* it began with.  Between two batches with no send the code does not give *)
(* way; here it may.  Left out: what a document looks like, the health     *)
(* report, filters on kinds and apps (one threshold stands for a filter),  *)
(* the names of exported objects.                                          *)
(*                                                                         *)
(* A send that resolves is an answer of the destination for https and S3.  *)
(* Syslog has no answers: over TLS a send resolves once the bytes are      *)
(* written to the socket, over UDP once the datagrams are sent.  There     *)
(* "received" and "accepted" mean handed over, and what is lost after that *)
(* neither the code nor this module can tell.                              *)
(***************************************************************************)
EXTENDS Integers, FiniteSets

CONSTANTS MaxEvents,   \* bound on events
          Batch,       \* config.batch_size
          MaxBatches,  \* MAX_BATCHES_PER_TICK
          MaxEdits,    \* bound on edits of the sink
          MaxMoves     \* bound on moves of the cursor

ASSUME SiemConstants ==
  /\ MaxEvents \in Nat /\ MaxEdits \in Nat /\ MaxMoves \in Nat
  /\ Batch \in Nat \ {0} /\ MaxBatches \in Nat \ {0}

Ids == 1..MaxEvents
Severities == {"info", "critical"}

VARIABLES
  n,          \* events recorded
  severity,   \* of each event
  live,       \* events in the store
  type,       \* of the sink: "stream" (syslog, https) or "s3"
  sink,       \* enabled, min_severity, cursor_event_id
  flight,     \* state.inFlight: the delivery under way, or NoFlight
  waiting,    \* Date.now() < state.nextAttemptAt
  got,        \* history: events the destination has received (syslog: was handed)
  owed,       \* history: events it is still to receive, or the filter to drop
  mayRepeat,  \* history: events it may receive again: sends that failed or were
              \* cut short, and what an administrator asked for anew
  edits, moves

events == <<n, severity, live>>
history == <<got, owed, mayRepeat>>
vars == <<events, type, sink, flight, waiting, history, edits, moves>>

NoFlight == [at |-> "off", cursor |-> 0, min |-> "info", force |-> FALSE, left |-> 0, rows |-> {}]

TypeOK ==
  /\ n \in 0..MaxEvents
  /\ severity \in [Ids -> Severities]
  /\ live \in SUBSET (1..n)
  /\ type \in {"stream", "s3"}
  /\ sink \in [enabled : BOOLEAN, min : Severities, cursor : 0..MaxEvents]
  /\ flight \in [at : {"off", "reading", "sending"}, cursor : 0..MaxEvents, min : Severities,
                 force : BOOLEAN, left : 0..MaxBatches, rows : SUBSET (1..n)]
  /\ flight.at = "sending" <=> flight.rows # {}
  /\ \A i \in flight.rows : i > flight.cursor
  /\ waiting \in BOOLEAN
  /\ owed \in SUBSET live /\ got \in SUBSET (1..n)
  /\ mayRepeat \in SUBSET Ids

\* insertSink, start_from "all".
Init ==
  /\ n = 0
  /\ severity = [i \in Ids |-> "info"]
  /\ live = {}
  /\ type \in {"stream", "s3"}
  /\ sink = [enabled |-> TRUE, min |-> "info", cursor |-> 0]
  /\ flight = NoFlight
  /\ waiting = FALSE
  /\ got = {} /\ owed = {} /\ mayRepeat = {}
  /\ edits = 0 /\ moves = 0

-----------------------------------------------------------------------------
(* The store, and the administrator *)

\* recordEvent.
Record(s) ==
  /\ n < MaxEvents
  /\ n' = n + 1
  /\ severity' = [severity EXCEPT ![n + 1] = s]
  /\ live' = live \cup {n + 1}
  /\ owed' = IF n + 1 > sink.cursor THEN owed \cup {n + 1} ELSE owed
  /\ UNCHANGED <<type, sink, flight, waiting, got, mayRepeat, edits, moves>>

\* Retention removes an old event, delivered or not.
Prune(i) ==
  /\ i \in live
  /\ live' = live \ {i}
  /\ owed' = owed \ {i}
  /\ UNCHANGED <<n, severity, type, sink, flight, waiting, got, mayRepeat, edits, moves>>

\* updateSink.
Edit(enabled, min) ==
  /\ edits < MaxEdits
  /\ edits' = edits + 1
  /\ sink' = [sink EXCEPT !.enabled = enabled, !.min = min]
  /\ UNCHANGED <<events, type, flight, waiting, history, moves>>

Matches(i, min) == min = "info" \/ severity[i] = "critical"

Picked == {i \in flight.rows : Matches(i, flight.min)}

\* setCursor: "now", "all", or any event's id.
SetCursor(c) ==
  /\ moves < MaxMoves
  /\ moves' = moves + 1
  /\ sink' = [sink EXCEPT !.cursor = c]
  /\ owed' = {i \in live : i > c}
  /\ mayRepeat' = mayRepeat \cup {i \in Ids : i > c} \cup Picked
  /\ UNCHANGED <<events, type, flight, waiting, got, edits>>

-----------------------------------------------------------------------------
(* deliverSink *)

\* A tick or a wake-up, or (force) a flush: it joins the delivery under way, does
\* nothing for a disabled sink or, not forced, in a back-off.
Begin(force) ==
  /\ flight = NoFlight /\ sink.enabled
  /\ force \/ ~waiting
  /\ flight' = [at |-> "reading", cursor |-> sink.cursor, min |-> sink.min, force |-> force,
                left |-> MaxBatches, rows |-> {}]
  /\ UNCHANGED <<events, type, sink, waiting, history, edits, moves>>

BackoffEnds ==
  /\ waiting
  /\ waiting' = FALSE
  /\ UNCHANGED <<events, type, sink, flight, history, edits, moves>>

\* Mutant: the newest rows first.
ReadBatch_Newest ==
  LET above == {i \in live : i > flight.cursor}
  IN  {i \in above : Cardinality({j \in above : j > i}) < Batch}

\* Mutant: the row at the cursor is read again.
ReadBatch_Inclusive ==
  LET above == {i \in live : i >= flight.cursor}
  IN  {i \in above : Cardinality({j \in above : j < i}) < Batch}

\* readBatch: the next rows above the cursor of the delivery.
ReadBatch ==
  LET above == {i \in live : i > flight.cursor}
  IN  {i \in above : Cardinality({j \in above : j < i}) < Batch}

MaxOf(S) == CHOOSE i \in S : \A j \in S : j <= i

\* Mutant: the cursor moves to the end of the batch wherever it is now.
Moved_Anyway(rows) == TRUE

\* Nobody has moved the cursor since the delivery read it.
Moved(rows) == sink.cursor = flight.cursor

\* The cursor moves past the rows, and the delivery goes on after a full batch; or
\* it was moved meanwhile, and the delivery ends.
Advance(rows) ==
  IF Moved(rows)
  THEN /\ sink' = [sink EXCEPT !.cursor = MaxOf(rows)]
       /\ waiting' = FALSE
       /\ flight' = IF Cardinality(rows) < Batch THEN NoFlight
                    ELSE [flight EXCEPT !.at = "reading", !.cursor = MaxOf(rows),
                                        !.left = @ - 1, !.rows = {}]
  ELSE flight' = NoFlight /\ UNCHANGED <<sink, waiting>>

\* The last batch one tick may deliver is behind it.
Stops == flight.left = 0

\* Nothing is left, or enough was done for one tick.
Ends ==
  /\ flight.at = "reading"
  /\ Stops \/ ReadBatch = {}
  /\ flight' = NoFlight
  /\ UNCHANGED <<events, type, sink, waiting, history, edits, moves>>

\* An object export waits for a full batch, or for its oldest row to come of age.
WaitsToFlush ==
  /\ flight.at = "reading" /\ ~Stops
  /\ type = "s3" /\ ~flight.force
  /\ Cardinality(ReadBatch) \in 1..(Batch - 1)
  /\ flight' = NoFlight
  /\ UNCHANGED <<events, type, sink, waiting, history, edits, moves>>

\* The filter drops every row: nothing to send.
PassesOver ==
  /\ flight.at = "reading" /\ ~Stops
  /\ ReadBatch # {} /\ \A i \in ReadBatch : ~Matches(i, flight.min)
  /\ Advance(ReadBatch)
  /\ owed' = IF Moved(ReadBatch) THEN owed \ ReadBatch ELSE owed
  /\ UNCHANGED <<events, type, got, mayRepeat, edits, moves>>

Sends ==
  /\ flight.at = "reading" /\ ~Stops
  /\ \E i \in ReadBatch : Matches(i, flight.min)
  /\ flight' = [flight EXCEPT !.at = "sending", !.rows = ReadBatch]
  /\ UNCHANGED <<events, type, sink, waiting, history, edits, moves>>

\* The send resolves: the destination has accepted the batch, or it was handed it.
Accepted ==
  /\ flight.at = "sending"
  /\ got' = got \cup Picked
  /\ Advance(flight.rows)
  /\ IF Moved(flight.rows)
     THEN owed' = owed \ flight.rows /\ mayRepeat' = mayRepeat \ Picked
     ELSE owed' = owed \ Picked /\ mayRepeat' = mayRepeat \cup Picked
  /\ UNCHANGED <<events, type, edits, moves>>

\* What may have arrived of a batch whose send does not resolve.  A request goes out
\* in chunks, one after the other; of a chunk an Elastic _bulk takes any documents
\* and refuses the others; an export puts one object for each day of its events.
Arrived == SUBSET Picked

Lost(part) ==
  /\ got' = got \cup part
  /\ mayRepeat' = mayRepeat \cup part
  /\ flight' = NoFlight

\* It refuses all or part of it, or the answer is lost: back off.
Fails(part) ==
  /\ flight.at = "sending"
  /\ Lost(part)
  /\ waiting' = TRUE
  /\ UNCHANGED <<events, type, sink, owed, edits, moves>>

\* The server dies, perhaps with a batch on its way, and boots.
Restart(part) ==
  /\ Lost(part)
  /\ waiting' = FALSE
  /\ UNCHANGED <<events, type, sink, owed, edits, moves>>

Next ==
  \/ \E s \in Severities : Record(s)
  \/ \E i \in Ids : Prune(i)
  \/ \E enabled \in BOOLEAN, min \in Severities : Edit(enabled, min)
  \/ \E c \in 0..MaxEvents : SetCursor(c)
  \/ \E force \in BOOLEAN : Begin(force)
  \/ BackoffEnds \/ Ends \/ WaitsToFlush \/ PassesOver \/ Sends \/ Accepted
  \/ \E part \in Arrived : Fails(part) \/ Restart(part)

Spec == Init /\ [][Next]_vars

\* The interval ticks, a back-off runs out; a waiting export comes of age in the
\* end, and a destination tried again and again accepts in the end.
Fairness ==
  /\ WF_vars(BackoffEnds)
  /\ SF_vars(Begin(FALSE))
  /\ WF_vars(Ends) /\ SF_vars(PassesOver) /\ SF_vars(Sends) /\ SF_vars(Accepted)

FairSpec == Spec /\ Fairness

-----------------------------------------------------------------------------
(* Properties *)

\* The cursor never passes an event that is still in the store, was neither
\* accepted by the destination nor dropped by the filter, and was not skipped by an
\* administrator: also when the cursor is moved under a batch, when the server dies
\* around a send, and when only part of a batch arrives.
NothingSkipped == \A i \in owed : i > sink.cursor

\* A batch never holds an event that has arrived before, except after a send that
\* failed, a restart under one, or a move of the cursor.
NoStrayRepeat == flight.at = "sending" => Picked \cap got \subseteq mayRepeat

\* Events go out in the order of their ids: none that is owed is left behind below
\* a batch (while the cursor is where the delivery read it).
InOrder ==
  flight.at = "sending" /\ sink.cursor = flight.cursor =>
    \A i \in flight.rows, j \in owed : j < i => j \in flight.rows

\* Every event still in the store reaches the destination or is dropped by the
\* filter, as long as the sink stays enabled, whatever fails on the way.
EventsAreDelivered ==
  \A i \in Ids : i \in owed /\ sink.enabled ~> i \notin owed \/ ~sink.enabled
=============================================================================
