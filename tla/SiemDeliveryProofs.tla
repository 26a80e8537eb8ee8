------------------------- MODULE SiemDeliveryProofs -------------------------
(***************************************************************************)
(* For every number of events, batch size, edit, move of the cursor,       *)
(* failure and restart: an event that is owed is never passed over, goes   *)
(* out in order, and never twice without a reason.                         *)
(*                                                                         *)
(* What a batch holds was read before the send, and its cursor may be      *)
(* moved away and back under it.  The argument therefore rests on the      *)
(* batch alone: among the events in the store it is everything from its    *)
(* cursor up to its last event, for new events only come above.            *)
(***************************************************************************)
EXTENDS SiemDelivery, TLAPS, FiniteSetTheorems, WellFoundedInduction

\* A batch leaves nothing out, and there was one to be delivered.
WholeBatch ==
  flight.at = "sending" =>
    /\ flight.left > 0
    /\ \A i \in flight.rows, j \in live : flight.cursor < j /\ j < i => j \in flight.rows

\* What arrived without leave to arrive again is behind both cursors.
Behind ==
  \A i \in got \ mayRepeat : i <= sink.cursor /\ (flight.at # "off" => i <= flight.cursor)

Inv == TypeOK /\ NothingSkipped /\ WholeBatch /\ Behind

-----------------------------------------------------------------------------
(* Sets of events *)

LEMMA Bounds ==
  /\ MaxEvents \in Nat /\ Batch \in Nat \ {0} /\ MaxBatches \in Nat \ {0}
  /\ Ids = 1..MaxEvents
  /\ IsFiniteSet(Ids)
<1>1. MaxEvents \in Nat /\ Batch \in Nat \ {0} /\ MaxBatches \in Nat \ {0}
  BY SiemConstants
<1>2. IsFiniteSet(1..MaxEvents)  BY <1>1, FS_Interval
<1>3. QED  BY <1>1, <1>2 DEF Ids

\* Of finitely many events one is the last.
LEMMA LastOne ==
  ASSUME NEW S \in SUBSET Ids, S # {}
  PROVE  MaxOf(S) \in S /\ \A j \in S : j <= MaxOf(S)
<1> DEFINE above(i) == {j \in S : j > i}
           T == {above(i) : i \in S}
           R == StrictSubsetOrdering(S)
<1>0. \A k \in S : k \in Nat  BY Bounds
<1>1. IsFiniteSet(S)  BY Bounds, FS_Subset
<1>2. \A i \in S : above(i) \in FiniteSubsetsOf(S)
  <2> SUFFICES ASSUME NEW i \in S PROVE above(i) \in FiniteSubsetsOf(S)  OBVIOUS
  <2>1. above(i) \in SUBSET S  OBVIOUS
  <2>2. IsFiniteSet(above(i))  BY <1>1, <2>1, FS_Subset
  <2>3. QED  BY <2>1, <2>2 DEF FiniteSubsetsOf
<1>3. T \subseteq FiniteSubsetsOf(S) /\ T # {}  BY <1>2
<1>4. PICK x \in T : \A y \in T : ~(<<y, x>> \in R)
  <2> HIDE DEF T, R
  <2>1. IsWellFoundedOn(R, FiniteSubsetsOf(S))  BY FS_StrictSubsetOrderingWellFounded DEF R
  <2>2. QED  BY <1>3, <2>1, WFMin
<1>5. PICK m \in S : x = above(m)  BY <1>4
<1>6. \A j \in S : j <= m
  <2> SUFFICES ASSUME NEW j \in S, ~(j <= m) PROVE FALSE  OBVIOUS
  <2>1. m < j  BY <1>0
  <2>2. j \in above(m) /\ j \notin above(j)  BY <1>0, <2>1
  <2>3. \A k \in above(j) : k \in above(m)  BY <1>0, <2>1
  <2>4. <<above(j), above(m)>> \in R  BY <2>2, <2>3 DEF StrictSubsetOrdering
  <2>5. QED  BY <1>4, <1>5, <2>4
<1>7. QED  BY <1>6 DEF MaxOf

\* What a flight is, and the events the sets hold.
Flights == [at : {"off", "reading", "sending"}, cursor : 0..MaxEvents, min : Severities,
            force : BOOLEAN, left : 0..MaxBatches, rows : SUBSET (1..n)]
Sinks == [enabled : BOOLEAN, min : Severities, cursor : 0..MaxEvents]

LEMMA Numbers ==
  ASSUME TypeOK
  PROVE  /\ n \in Nat /\ n <= MaxEvents
         /\ sink.cursor \in Nat /\ flight.cursor \in Nat /\ flight.left \in Nat
         /\ \A i \in live : i \in Ids /\ i \in Nat /\ i <= n
         /\ \A i \in flight.rows : i \in Ids /\ i \in Nat /\ i <= n
         /\ \A i \in got : i \in Ids /\ i \in Nat /\ i <= n
         /\ \A i \in owed : i \in live
<1>1. n \in Nat /\ n <= MaxEvents  BY Bounds DEF TypeOK
<1>2. sink.cursor \in Nat  BY Bounds DEF TypeOK
<1>3. flight \in Flights  BY DEF TypeOK, Flights
<1>4. flight.cursor \in Nat /\ flight.left \in Nat /\ flight.rows \in SUBSET (1..n)
  BY <1>3, Bounds DEF Flights
<1>5. \A i \in 1..n : i \in Ids /\ i \in Nat /\ i <= n  BY <1>1, Bounds
<1>6. live \in SUBSET (1..n) /\ got \in SUBSET (1..n) /\ owed \in SUBSET live  BY DEF TypeOK
<1>7. QED  BY <1>1, <1>2, <1>4, <1>5, <1>6

LEMMA NoneInFlight ==
  NoFlight \in Flights /\ NoFlight.at = "off" /\ NoFlight.rows = {}
BY Bounds DEF NoFlight, Flights, Severities

\* A batch is what the store holds from the cursor up to the batch's last event.
LEMMA BatchIsWhole ==
  ASSUME TypeOK
  PROVE  /\ ReadBatch \in SUBSET live
         /\ \A i \in ReadBatch : i > flight.cursor
         /\ \A i \in ReadBatch, j \in live : flight.cursor < j /\ j < i => j \in ReadBatch
<1> DEFINE above == {i \in live : i > flight.cursor}
           before(i) == {j \in above : j < i}
<1>1. above \in SUBSET Ids /\ \A i \in above : i \in Nat  BY Numbers
<1>2. ReadBatch = {i \in above : Cardinality(before(i)) < Batch}  BY DEF ReadBatch
<1>3. ASSUME NEW i \in ReadBatch, NEW j \in live, flight.cursor < j, j < i
      PROVE  j \in ReadBatch
  <2>1. i \in above /\ j \in above /\ Cardinality(before(i)) < Batch
    <3>1. flight.cursor \in Nat /\ j \in Nat  BY Numbers
    <3>2. QED  BY <1>2, <1>3, <3>1
  <2>2. before(j) \in SUBSET before(i)
    <3> SUFFICES ASSUME NEW k \in before(j) PROVE k \in before(i)  OBVIOUS
    <3>1. k \in Nat /\ j \in Nat /\ i \in Nat /\ k < j  BY <1>1, <2>1
    <3>2. k < i  BY <1>3, <3>1
    <3>3. QED  BY <3>2
  <2>3. IsFiniteSet(before(i))
    <3>1. before(i) \in SUBSET Ids  BY <1>1
    <3>2. QED  BY <3>1, Bounds, FS_Subset
  <2> HIDE DEF before, above
  <2>4. Cardinality(before(j)) <= Cardinality(before(i))  BY <2>2, <2>3, FS_Subset
  <2>5. Cardinality(before(j)) \in Nat /\ Cardinality(before(i)) \in Nat
    BY <2>2, <2>3, FS_Subset, FS_CardinalityType
  <2>6. Cardinality(before(j)) < Batch  BY <2>1, <2>4, <2>5, Bounds
  <2>7. QED  BY <1>2, <2>1, <2>6
<1>4. QED  BY <1>2, <1>3

-----------------------------------------------------------------------------
(* What the steps have in common *)

\* The cursor moves past a whole batch, if nobody has moved it: what was owed up
\* there is in the batch.
LEMMA AdvanceStep ==
  ASSUME Inv, NEW rows \in SUBSET (1..n), rows # {}, Advance(rows),
         flight.at # "off", flight.left > 0,
         \A i \in rows : i > flight.cursor,
         \A i \in rows, j \in live : flight.cursor < j /\ j < i => j \in rows
  PROVE  /\ sink' \in Sinks
         /\ flight' \in Flights
         /\ flight'.at # "sending" /\ flight'.rows = {}
         /\ waiting' \in BOOLEAN
         /\ Moved(rows) =>
              /\ \A i \in owed \ rows : i > sink'.cursor
              /\ \A i \in rows : i <= sink'.cursor
              /\ sink.cursor <= sink'.cursor
              /\ flight'.at # "off" => flight'.cursor = sink'.cursor
         /\ ~Moved(rows) => sink' = sink /\ flight'.at = "off"
<1> USE Bounds, Numbers DEF Inv
<1>0. /\ TypeOK /\ flight \in Flights /\ sink \in Sinks
      /\ flight.left - 1 \in 0..MaxBatches
      /\ rows \in SUBSET Ids /\ \A i \in rows : i \in Nat /\ i <= n
  <2>1. flight \in Flights /\ sink \in Sinks  BY DEF TypeOK, Flights, Sinks
  <2>2. flight.left \in 0..MaxBatches  BY <2>1 DEF Flights
  <2>3. flight.left - 1 \in 0..MaxBatches
    BY ONLY <2>2, flight.left > 0, MaxBatches \in Nat
  <2>4. \A i \in 1..n : i \in Ids /\ i \in Nat /\ i <= n  OBVIOUS
  <2>5. \A i \in rows : i \in Ids /\ i \in Nat /\ i <= n
    BY ONLY <2>4, rows \in SUBSET (1..n)
  <2>6. TypeOK /\ rows \in SUBSET Ids  BY ONLY <2>5, Inv DEF Inv
  <2>7. QED  BY ONLY <2>1, <2>3, <2>5, <2>6
<1>1. MaxOf(rows) \in rows /\ \A j \in rows : j <= MaxOf(rows)  BY <1>0, LastOne
<1>2. CASE Moved(rows)
  <2>1. sink' = [sink EXCEPT !.cursor = MaxOf(rows)] /\ waiting' = FALSE
    BY <1>2 DEF Advance
  <2>2. MaxOf(rows) \in 0..MaxEvents /\ MaxOf(rows) \in Nat
    <3>1. MaxOf(rows) \in Nat /\ MaxOf(rows) <= n  BY <1>0, <1>1
    <3>2. n \in Nat /\ n <= MaxEvents  BY <1>0
    <3>3. QED  BY ONLY <3>1, <3>2, MaxEvents \in Nat
  <2>3. /\ sink' \in Sinks
        /\ sink'.cursor = MaxOf(rows)
    BY <1>0, <2>1, <2>2 DEF Sinks
  <2>4. /\ flight' \in Flights
        /\ flight'.at # "sending" /\ flight'.rows = {}
        /\ flight'.at # "off" => flight'.cursor = MaxOf(rows)
    <3>1. CASE Cardinality(rows) < Batch
      <4>1. flight' = NoFlight  BY <1>2, <3>1 DEF Advance
      <4>2. QED  BY <4>1, NoneInFlight
    <3>2. CASE ~(Cardinality(rows) < Batch)
      <4>1. flight' = [flight EXCEPT !.at = "reading", !.cursor = MaxOf(rows),
                                     !.left = @ - 1, !.rows = {}]
        BY <1>2, <3>2 DEF Advance
      <4>2. QED  BY <1>0, <2>2, <4>1 DEF Flights
    <3>3. QED  BY <3>1, <3>2
  <2>5. \A i \in owed \ rows : i > MaxOf(rows)
    <3> SUFFICES ASSUME NEW i \in owed, i \notin rows PROVE i > MaxOf(rows)  OBVIOUS
    <3>1. i > flight.cursor  BY <1>2 DEF NothingSkipped, Moved
    <3>2. i \in live /\ i \in Nat /\ MaxOf(rows) \in Nat  BY <1>0, <1>1
    <3>3. ~(i < MaxOf(rows))  BY <1>1, <3>1, <3>2
    <3>4. i # MaxOf(rows)  BY <1>1
    <3>5. QED  BY <3>2, <3>3, <3>4
  <2>6. sink.cursor <= MaxOf(rows)
    <3>1. MaxOf(rows) \in Nat /\ MaxOf(rows) > flight.cursor  BY <1>0, <1>1
    <3>2. sink.cursor = flight.cursor  BY <1>2 DEF Moved
    <3>3. QED  BY <1>0, <3>1, <3>2
  <2>7. QED  BY <1>1, <1>2, <2>1, <2>3, <2>4, <2>5, <2>6
<1>3. CASE ~Moved(rows)
  <2>1. flight' = NoFlight /\ sink' = sink /\ waiting' = waiting  BY <1>3 DEF Advance
  <2>2. waiting' \in BOOLEAN  BY <2>1 DEF TypeOK
  <2>3. QED  BY <1>0, <1>3, <2>1, <2>2, NoneInFlight
<1>4. QED  BY <1>2, <1>3

-----------------------------------------------------------------------------
LEMMA InitSiem == Init => Inv
<1> SUFFICES ASSUME Init PROVE Inv  OBVIOUS
<1> USE Bounds DEF Init
<1>1. TypeOK
  <2>1. flight \in Flights  BY NoneInFlight
  <2>2. sink \in Sinks  BY DEF Sinks, Severities
  <2>3. QED  BY <2>1, <2>2, NoneInFlight DEF TypeOK, Flights, Sinks, Severities
<1>2. NothingSkipped /\ WholeBatch /\ Behind
  BY NoneInFlight DEF NothingSkipped, WholeBatch, Behind
<1>3. QED  BY <1>1, <1>2 DEF Inv

\* The types a step disturbs, one by one.
LEMMA TypeParts ==
  ASSUME n \in 0..MaxEvents, severity \in [Ids -> Severities], live \in SUBSET (1..n),
         type \in {"stream", "s3"}, sink \in Sinks, flight \in Flights,
         flight.at = "sending" <=> flight.rows # {},
         \A i \in flight.rows : i > flight.cursor,
         waiting \in BOOLEAN, owed \in SUBSET live, got \in SUBSET (1..n),
         mayRepeat \in SUBSET Ids
  PROVE  TypeOK
BY DEF TypeOK, Sinks, Flights

LEMMA PartTypes ==
  ASSUME TypeOK
  PROVE  /\ n \in 0..MaxEvents /\ severity \in [Ids -> Severities] /\ live \in SUBSET (1..n)
         /\ type \in {"stream", "s3"} /\ sink \in Sinks /\ flight \in Flights
         /\ flight.at = "sending" <=> flight.rows # {}
         /\ \A i \in flight.rows : i > flight.cursor
         /\ waiting \in BOOLEAN /\ owed \in SUBSET live /\ got \in SUBSET (1..n)
         /\ mayRepeat \in SUBSET Ids
BY DEF TypeOK, Sinks, Flights

\* A new event comes above all others.
LEMMA RecordStep == ASSUME Inv, NEW s \in Severities, Record(s) PROVE Inv'
<1> USE Bounds DEF Inv
<1>0. TypeOK  OBVIOUS
<1>1. /\ n < MaxEvents /\ n' = n + 1 /\ n + 1 \in Ids
      /\ severity' = [severity EXCEPT ![n + 1] = s] /\ live' = live \cup {n + 1}
      /\ owed' = IF n + 1 > sink.cursor THEN owed \cup {n + 1} ELSE owed
      /\ UNCHANGED <<type, sink, flight, waiting, got, mayRepeat>>
  BY <1>0, Numbers DEF Record
<1>2. TypeOK'
  <2>1. 1..n \subseteq 1..(n + 1) /\ n + 1 \in 1..(n + 1) /\ 0..n \subseteq 0..(n + 1)
        /\ n + 1 \in 0..MaxEvents
    BY <1>0, <1>1, Numbers
  <2>2. flight' \in Flights'
    <3>1. flight \in Flights  BY <1>0, PartTypes
    <3>2. QED  BY <1>1, <2>1, <3>1 DEF Flights
  <2>3. severity' \in [Ids -> Severities]  BY <1>0, <1>1, PartTypes
  <2>4. live' \in SUBSET (1..n') /\ got' \in SUBSET (1..n') /\ owed' \in SUBSET live'
    BY <1>0, <1>1, <2>1, PartTypes
  <2>5. /\ type' \in {"stream", "s3"} /\ sink' \in Sinks' /\ waiting' \in BOOLEAN
        /\ mayRepeat' \in SUBSET Ids
        /\ flight'.at = "sending" <=> flight'.rows # {}
        /\ \A i \in flight'.rows : i > flight'.cursor
    BY <1>0, <1>1, PartTypes DEF Sinks
  <2>6. QED  BY <1>1, <2>1, <2>2, <2>3, <2>4, <2>5 DEF TypeOK, Sinks, Flights
<1>3. NothingSkipped'  BY <1>1 DEF NothingSkipped
<1>4. WholeBatch'
  <2>1. \A i \in flight.rows : ~(n + 1 < i)  BY <1>0, Numbers
  <2>2. QED  BY <1>1, <2>1 DEF WholeBatch
<1>5. Behind'  BY <1>1 DEF Behind
<1>6. QED  BY <1>2, <1>3, <1>4, <1>5

\* Retention and the administrator.
LEMMA OutsideStep ==
  ASSUME Inv,
         \/ \E i \in Ids : Prune(i)
         \/ \E enabled \in BOOLEAN, min \in Severities : Edit(enabled, min)
         \/ \E c \in 0..MaxEvents : SetCursor(c)
  PROVE  Inv'
<1> USE Bounds DEF Inv
<1>0. TypeOK  OBVIOUS
<1>1. ASSUME NEW i \in Ids, Prune(i) PROVE Inv'
  <2>1. /\ live' = live \ {i} /\ owed' = owed \ {i}
        /\ UNCHANGED <<n, severity, type, sink, flight, waiting, got, mayRepeat>>
    BY <1>1 DEF Prune
  <2>2. TypeOK'  BY <1>0, <2>1 DEF TypeOK
  <2>3. QED  BY <2>1, <2>2 DEF NothingSkipped, WholeBatch, Behind
<1>2. ASSUME NEW enabled \in BOOLEAN, NEW min \in Severities, Edit(enabled, min) PROVE Inv'
  <2>1. /\ sink' = [sink EXCEPT !.enabled = enabled, !.min = min]
        /\ UNCHANGED <<n, severity, live, type, flight, waiting, got, owed, mayRepeat>>
    BY <1>2 DEF Edit, events, history
  <2>2. sink' \in Sinks /\ sink'.cursor = sink.cursor
    <3>1. sink \in Sinks  BY <1>0, PartTypes
    <3>2. QED  BY <2>1, <3>1 DEF Sinks
  <2>3. TypeOK'  BY <1>0, <2>1, <2>2 DEF TypeOK, Sinks
  <2>4. QED  BY <2>1, <2>2, <2>3 DEF NothingSkipped, WholeBatch, Behind
<1>3. ASSUME NEW c \in 0..MaxEvents, SetCursor(c) PROVE Inv'
  <2>1. /\ sink' = [sink EXCEPT !.cursor = c] /\ owed' = {i \in live : i > c}
        /\ mayRepeat' = mayRepeat \cup {i \in Ids : i > c} \cup Picked
        /\ UNCHANGED <<n, severity, live, type, flight, waiting, got>>
    BY <1>3 DEF SetCursor, events
  <2>2. sink' \in Sinks /\ sink'.cursor = c
    <3>1. sink \in Sinks  BY <1>0, PartTypes
    <3>2. QED  BY <2>1, <3>1 DEF Sinks
  <2>3. Picked \in SUBSET Ids  BY <1>0, Numbers DEF Picked
  <2>4. TypeOK'
    <3>1. mayRepeat' \in SUBSET Ids  BY <1>0, <2>1, <2>3, PartTypes
    <3>2. owed' \in SUBSET live  BY <2>1
    <3>3. QED  BY <1>0, <2>1, <2>2, <3>1, <3>2 DEF TypeOK, Sinks
  <2>5. NothingSkipped'  BY <2>1, <2>2 DEF NothingSkipped
  <2>6. WholeBatch'  BY <2>1 DEF WholeBatch
  <2>7. Behind'
    <3> SUFFICES ASSUME NEW i \in got, i \notin mayRepeat'
                 PROVE  i <= c /\ (flight.at # "off" => i <= flight.cursor)
      BY <2>1, <2>2 DEF Behind
    <3>1. i \in Ids /\ ~(i > c) /\ i \notin mayRepeat  BY <1>0, <2>1, Numbers
    <3>2. i \in Nat /\ c \in Nat  BY <1>0, Numbers
    <3>3. QED  BY <3>1, <3>2 DEF Behind
  <2>8. QED  BY <2>4, <2>5, <2>6, <2>7
<1>4. QED  BY <1>1, <1>2, <1>3

\* A delivery begins at the cursor, or ends.
LEMMA FlightStep ==
  ASSUME Inv, UNCHANGED <<events, type, sink, history>>, waiting' \in BOOLEAN,
         \/ flight' = flight
         \/ flight' = NoFlight
         \/ /\ flight' \in Flights /\ flight'.at = "reading" /\ flight'.rows = {}
            /\ flight'.cursor = sink.cursor
  PROVE  Inv'
<1> USE DEF Inv
<1>0. TypeOK /\ UNCHANGED <<n, severity, live, type, sink, got, owed, mayRepeat>>
  BY DEF events, history
<1>1. /\ flight' \in Flights
      /\ flight'.at = "sending" <=> flight'.rows # {}
      /\ \A i \in flight'.rows : i > flight'.cursor
      /\ flight' # flight => flight'.at # "sending" /\ flight'.rows = {}
      /\ flight' # flight /\ flight'.at # "off" => flight'.cursor = sink.cursor
  BY <1>0, PartTypes, NoneInFlight
<1>2. TypeOK'  BY <1>0, <1>1 DEF TypeOK, Flights
<1>3. NothingSkipped' /\ WholeBatch'  BY <1>0, <1>1 DEF NothingSkipped, WholeBatch
<1>4. Behind'  BY <1>0, <1>1 DEF Behind
<1>5. QED  BY <1>2, <1>3, <1>4

\* The filter drops a whole batch.
LEMMA PassesOverStep == ASSUME Inv, PassesOver PROVE Inv'
<1> USE Bounds DEF Inv
<1> DEFINE rows == ReadBatch
<1>0. /\ TypeOK /\ flight.at = "reading" /\ flight.left > 0 /\ rows # {} /\ Advance(rows)
      /\ owed' = IF Moved(rows) THEN owed \ rows ELSE owed
      /\ UNCHANGED <<n, severity, live, type, got, mayRepeat>>
  BY Numbers DEF PassesOver, Stops, events
<1>1. /\ rows \in SUBSET (1..n)
      /\ \A i \in rows : i > flight.cursor
      /\ \A i \in rows, j \in live : flight.cursor < j /\ j < i => j \in rows
  BY <1>0, BatchIsWhole, PartTypes
<1> HIDE DEF rows
<1>2. /\ sink' \in Sinks /\ flight' \in Flights
      /\ flight'.at # "sending" /\ flight'.rows = {} /\ waiting' \in BOOLEAN
      /\ Moved(rows) =>
           /\ \A i \in owed \ rows : i > sink'.cursor
           /\ \A i \in rows : i <= sink'.cursor
           /\ sink.cursor <= sink'.cursor
           /\ flight'.at # "off" => flight'.cursor = sink'.cursor
      /\ ~Moved(rows) => sink' = sink /\ flight'.at = "off"
  BY <1>0, <1>1, AdvanceStep
<1>3. TypeOK'
  <2>1. owed' \in SUBSET live  BY <1>0, PartTypes
  <2>2. QED  BY <1>0, <1>2, <2>1 DEF TypeOK, Sinks, Flights
<1>4. NothingSkipped'  BY <1>0, <1>2 DEF NothingSkipped
<1>5. WholeBatch'  BY <1>2 DEF WholeBatch
<1>6. Behind'
  <2> SUFFICES ASSUME NEW i \in got, i \notin mayRepeat
               PROVE  i <= sink'.cursor /\ (flight'.at # "off" => i <= flight'.cursor)
    BY <1>0 DEF Behind
  <2>1. i <= sink.cursor /\ i \in Nat /\ sink.cursor \in Nat  BY <1>0, Numbers DEF Behind
  <2>2. sink'.cursor \in Nat  BY <1>2 DEF Sinks
  <2>3. CASE Moved(rows)  BY <1>2, <2>1, <2>2, <2>3
  <2>4. CASE ~Moved(rows)  BY <1>2, <2>1, <2>4
  <2>5. QED  BY <2>3, <2>4
<1>7. QED  BY <1>3, <1>4, <1>5, <1>6

\* A batch is read and sent.
LEMMA SendsStep == ASSUME Inv, Sends PROVE Inv'
<1> USE Bounds DEF Inv
<1>0. /\ TypeOK /\ flight.at = "reading" /\ flight.left > 0 /\ ReadBatch # {}
      /\ flight' = [flight EXCEPT !.at = "sending", !.rows = ReadBatch]
      /\ UNCHANGED <<n, severity, live, type, sink, waiting, got, owed, mayRepeat>>
  BY Numbers DEF Sends, Stops, events, history
<1>1. /\ ReadBatch \in SUBSET (1..n)
      /\ \A i \in ReadBatch : i > flight.cursor
      /\ \A i \in ReadBatch, j \in live : flight.cursor < j /\ j < i => j \in ReadBatch
  BY <1>0, BatchIsWhole, PartTypes
<1>2. /\ flight' \in Flights /\ flight'.at = "sending" /\ flight'.rows = ReadBatch
      /\ flight'.cursor = flight.cursor /\ flight'.left = flight.left
  <2>1. flight \in Flights  BY <1>0, PartTypes
  <2> HIDE DEF Inv
  <2>2. QED  BY <1>0, <1>1, <2>1 DEF Flights
<1>3. TypeOK'  BY <1>0, <1>1, <1>2 DEF TypeOK, Flights
<1>4. NothingSkipped' /\ WholeBatch'  BY <1>0, <1>1, <1>2 DEF NothingSkipped, WholeBatch
<1>5. Behind'  BY <1>0, <1>2 DEF Behind
<1>6. QED  BY <1>3, <1>4, <1>5

\* The destination has the batch.
LEMMA AcceptedStep == ASSUME Inv, Accepted PROVE Inv'
<1> USE Bounds DEF Inv
<1> DEFINE rows == flight.rows
<1>0. /\ TypeOK /\ flight.at = "sending" /\ flight.left > 0 /\ rows # {} /\ Advance(rows)
      /\ got' = got \cup Picked
      /\ IF Moved(rows)
         THEN owed' = owed \ rows /\ mayRepeat' = mayRepeat \ Picked
         ELSE owed' = owed \ Picked /\ mayRepeat' = mayRepeat \cup Picked
      /\ UNCHANGED <<n, severity, live, type>>
  BY PartTypes DEF Accepted, WholeBatch, events
<1>1. /\ rows \in SUBSET (1..n) /\ Picked \in SUBSET rows
      /\ \A i \in rows : i > flight.cursor
      /\ \A i \in rows, j \in live : flight.cursor < j /\ j < i => j \in rows
  <2>1. flight \in Flights /\ \A i \in rows : i > flight.cursor  BY <1>0, PartTypes
  <2>2. QED  BY <1>0, <2>1 DEF WholeBatch, Picked, Flights
<1>2. /\ sink' \in Sinks /\ flight' \in Flights
      /\ flight'.at # "sending" /\ flight'.rows = {} /\ waiting' \in BOOLEAN
      /\ Moved(rows) =>
           /\ \A i \in owed \ rows : i > sink'.cursor
           /\ \A i \in rows : i <= sink'.cursor
           /\ sink.cursor <= sink'.cursor
           /\ flight'.at # "off" => flight'.cursor = sink'.cursor
      /\ ~Moved(rows) => sink' = sink /\ flight'.at = "off"
  <2> HIDE DEF rows
  <2>1. flight.at # "off"  BY <1>0
  <2>2. QED  BY <1>0, <1>1, <2>1, AdvanceStep
<1> HIDE DEF rows
<1>3. TypeOK'
  <2>1. owed' \in SUBSET live /\ got' \in SUBSET (1..n) /\ mayRepeat' \in SUBSET Ids
    <3>1. owed \in SUBSET live /\ got \in SUBSET (1..n) /\ mayRepeat \in SUBSET Ids
      BY <1>0, PartTypes
    <3>2. \A i \in Picked : i \in 1..n /\ i \in Ids
      <4>1. n \in Nat /\ n <= MaxEvents  BY <1>0, Numbers
      <4>2. \A i \in 1..n : i \in Ids  BY <4>1, Bounds
      <4>3. QED  BY <1>1, <4>2
    <3>3. got' \in SUBSET (1..n)  BY <1>0, <3>1, <3>2
    <3>4. owed' \in SUBSET live /\ mayRepeat' \in SUBSET Ids
      <4>1. CASE Moved(rows)  BY <1>0, <3>1, <4>1
      <4>2. CASE ~Moved(rows)  BY <1>0, <3>1, <3>2, <4>2
      <4>3. QED  BY <4>1, <4>2
    <3>5. QED  BY <3>3, <3>4
  <2>2. QED  BY <1>0, <1>2, <2>1 DEF TypeOK, Sinks, Flights
<1>4. NothingSkipped'  BY <1>0, <1>2 DEF NothingSkipped
<1>5. WholeBatch'  BY <1>2 DEF WholeBatch
<1>6. Behind'
  <2> SUFFICES ASSUME NEW i \in got', i \notin mayRepeat'
               PROVE  i <= sink'.cursor /\ (flight'.at # "off" => i <= flight'.cursor)
    BY DEF Behind
  <2>1. CASE Moved(rows)
    <3>1. CASE i \in rows  BY <1>2, <2>1, <3>1
    <3>2. CASE i \notin rows
      <4>1. i \in got /\ i \notin mayRepeat  BY <1>0, <1>1, <2>1, <3>2
      <4>2. i <= sink.cursor /\ i \in Nat /\ sink.cursor \in Nat  BY <1>0, <4>1, Numbers DEF Behind
      <4>3. sink'.cursor \in Nat  BY <1>2 DEF Sinks
      <4>4. QED  BY <1>2, <2>1, <4>2, <4>3
    <3>3. QED  BY <3>1, <3>2
  <2>2. CASE ~Moved(rows)
    <3>1. i \in got /\ i \notin mayRepeat  BY <1>0, <2>2
    <3>2. QED  BY <1>2, <2>2, <3>1 DEF Behind
  <2>3. QED  BY <2>1, <2>2
<1>7. QED  BY <1>3, <1>4, <1>5, <1>6

\* Part of a batch has arrived, and its answer has not.
LEMMA LostStep ==
  ASSUME Inv, NEW part \in Arrived, Lost(part), waiting' \in BOOLEAN,
         UNCHANGED <<events, type, sink, owed>>
  PROVE  Inv'
<1> USE Bounds DEF Inv
<1>0. /\ TypeOK
      /\ got' = got \cup part /\ mayRepeat' = mayRepeat \cup part /\ flight' = NoFlight
      /\ UNCHANGED <<n, severity, live, type, sink, owed>>
  BY DEF Lost, events
<1>1. part \in SUBSET (1..n) /\ part \in SUBSET Ids
  <2>1. part \subseteq flight.rows  BY DEF Arrived, Picked
  <2>2. QED  BY <1>0, <2>1, Numbers
<1>2. TypeOK'
  <2>1. got' \in SUBSET (1..n) /\ mayRepeat' \in SUBSET Ids  BY <1>0, <1>1, PartTypes
  <2>2. QED  BY <1>0, <2>1, NoneInFlight DEF TypeOK, Flights
<1>3. NothingSkipped' /\ WholeBatch'  BY <1>0, NoneInFlight DEF NothingSkipped, WholeBatch
<1>4. Behind'  BY <1>0, NoneInFlight DEF Behind
<1>5. QED  BY <1>2, <1>3, <1>4

-----------------------------------------------------------------------------
LEMMA StepSiem == Inv /\ [Next]_vars => Inv'
<1> SUFFICES ASSUME Inv, [Next]_vars PROVE Inv'  OBVIOUS
<1>0. TypeOK  BY DEF Inv
<1>1. CASE \E s \in Severities : Record(s)  BY <1>1, RecordStep
<1>2. CASE \/ \E i \in Ids : Prune(i)
           \/ \E enabled \in BOOLEAN, min \in Severities : Edit(enabled, min)
           \/ \E c \in 0..MaxEvents : SetCursor(c)
  BY <1>2, OutsideStep
<1>3. ASSUME NEW force \in BOOLEAN, Begin(force) PROVE Inv'
  <2>1. /\ flight' = [at |-> "reading", cursor |-> sink.cursor, min |-> sink.min, force |-> force,
                      left |-> MaxBatches, rows |-> {}]
        /\ UNCHANGED <<events, type, sink, waiting, history>>
    BY <1>3 DEF Begin
  <2>2. flight' \in Flights
    <3>1. sink \in Sinks  BY <1>0, PartTypes
    <3>2. QED  BY <2>1, <3>1, Bounds DEF Flights, Sinks
  <2>3. waiting' \in BOOLEAN  BY <1>0, <2>1, PartTypes
  <2>4. flight'.at = "reading" /\ flight'.rows = {} /\ flight'.cursor = sink.cursor
    BY <2>1
  <2>5. QED  BY <2>1, <2>2, <2>3, <2>4, FlightStep
<1>4. CASE BackoffEnds \/ Ends \/ WaitsToFlush
  <2>1. /\ UNCHANGED <<events, type, sink, history>> /\ (flight' = flight \/ flight' = NoFlight)
        /\ waiting' \in {FALSE, waiting}
    BY <1>4 DEF BackoffEnds, Ends, WaitsToFlush
  <2>2. waiting' \in BOOLEAN  BY <1>0, <2>1, PartTypes
  <2>3. QED  BY <2>1, <2>2, FlightStep
<1>5. CASE PassesOver  BY <1>5, PassesOverStep
<1>6. CASE Sends  BY <1>6, SendsStep
<1>7. CASE Accepted  BY <1>7, AcceptedStep
<1>8. ASSUME NEW part \in Arrived, Fails(part) \/ Restart(part) PROVE Inv'
  <2>1. Lost(part) /\ waiting' \in BOOLEAN /\ UNCHANGED <<events, type, sink, owed>>
    BY <1>8 DEF Fails, Restart
  <2>2. QED  BY <2>1, LostStep
<1>9. CASE UNCHANGED vars
  <2>1. UNCHANGED <<events, type, sink, history, waiting, flight>>  BY <1>9 DEF vars
  <2>2. waiting' \in BOOLEAN  BY <1>0, <2>1, PartTypes
  <2>3. QED  BY <2>1, <2>2, FlightStep
<1>10. QED
  BY <1>1, <1>2, <1>3, <1>4, <1>5, <1>6, <1>7, <1>8, <1>9 DEF Next

THEOREM SiemInvariant == Spec => []Inv
<1>1. QED  BY InitSiem, StepSiem, PTL DEF Spec

\* Type correctness: the flight holds a batch exactly while it is sending, above
\* its cursor.
THEOREM SiemTypes == Spec => []TypeOK
<1>1. Inv => TypeOK  BY DEF Inv
<1>2. QED  BY <1>1, SiemInvariant, PTL

\* The cursor never passes an event that is owed.
THEOREM CursorSkipsNothing == Spec => []NothingSkipped
<1>1. Inv => NothingSkipped  BY DEF Inv
<1>2. QED  BY <1>1, SiemInvariant, PTL

\* What was accepted is not sent again, unless a send failed, a restart cut one
\* short or the cursor was moved.
THEOREM RepeatsHaveAReason == Spec => []NoStrayRepeat
<1>1. Inv => NoStrayRepeat
  <2> SUFFICES ASSUME Inv, flight.at = "sending", NEW i \in Picked, i \in got, i \notin mayRepeat
               PROVE  FALSE
    BY DEF NoStrayRepeat
  <2>1. TypeOK /\ i \in flight.rows  BY DEF Inv, Picked
  <2>2. i <= flight.cursor  BY DEF Inv, Behind
  <2>3. i > flight.cursor  BY <2>1, PartTypes
  <2>4. i \in Nat /\ flight.cursor \in Nat  BY <2>1, Numbers
  <2>5. QED  BY <2>2, <2>3, <2>4
<1>2. QED  BY <1>1, SiemInvariant, PTL

\* No event that is owed is left behind below a batch.
THEOREM SentInOrder == Spec => []InOrder
<1>1. Inv => InOrder
  <2> SUFFICES ASSUME Inv, flight.at = "sending", sink.cursor = flight.cursor,
                      NEW i \in flight.rows, NEW j \in owed, j < i
               PROVE  j \in flight.rows
    BY DEF InOrder
  <2>1. TypeOK /\ NothingSkipped /\ WholeBatch  BY DEF Inv
  <2>2. j \in live  BY <2>1, Numbers
  <2>3. flight.cursor < j  BY <2>1, <2>2, Numbers DEF NothingSkipped
  <2>4. QED  BY <2>1, <2>2, <2>3 DEF WholeBatch
<1>2. QED  BY <1>1, SiemInvariant, PTL
=============================================================================
