-------------------------- MODULE EmailQueueProofs --------------------------
(***************************************************************************)
(* For every number of messages, attempts, overlapping ticks and restarts: *)
(* a message is dead-lettered only after MAX_ATTEMPTS deliveries.  The     *)
(* counts of the table are not enough for an induction: a tick writes back *)
(* attempts it read long ago.  What is invariant is that the attempts      *)
(* recorded, or read, and the deliveries under way never exceed together   *)
(* the deliveries begun.                                                   *)
(***************************************************************************)
EXTENDS EmailQueue, TLAPS, FiniteSetTheorems

\* The ticks with a delivery of message i under way.
Flying(i) == {t \in Ticks : tick[t].at \in {"sending", "accepted"} /\ tick[t].row = i}

\* The types the argument needs.
Types ==
  /\ n \in Nat
  /\ status \in [Ids -> {"none", "queued", "sending", "sent", "failed"}]
  /\ attempts \in [Ids -> Nat]
  /\ tries \in [Ids -> Nat]
  /\ tick \in [Ticks -> [at : {"idle", "next", "sending", "accepted", "notice"},
                         row : Nat, left : SUBSET Ids, seen : [Ids -> Nat]]]
  /\ \A t \in Ticks : tick[t].at \in {"sending", "accepted"} => tick[t].row \in Ids

Counted(i) ==
  /\ attempts[i] + Cardinality(Flying(i)) <= tries[i]
  /\ \A t \in Ticks : tick[t].seen[i] + Cardinality(Flying(i)) <= tries[i]

Inv == Types /\ (\A i \in Ids : Counted(i)) /\ DeadLetterAfterAllTries

-----------------------------------------------------------------------------
\* Deliveries under way are finitely many, so they can be counted.
LEMMA FlyingFinite ==
  \A i : IsFiniteSet(Flying(i)) /\ Cardinality(Flying(i)) \in Nat
BY QueueConstants, FS_Subset, FS_CardinalityType DEF Flying

\* A delivery that begins is one more of its message.
LEMMA OneMore ==
  ASSUME NEW S, NEW t, IsFiniteSet(S), t \notin S
  PROVE  Cardinality(S \cup {t}) = Cardinality(S) + 1
BY FS_AddElement

\* A delivery that ends is one less of its message.
LEMMA OneLess ==
  ASSUME NEW S, NEW t, IsFiniteSet(S), t \in S
  PROVE  /\ Cardinality(S \ {t}) + 1 = Cardinality(S)
         /\ Cardinality(S \ {t}) \in Nat
BY FS_RemoveElement, FS_CardinalityType, FS_Subset

\* Starting a delivery keeps the count: one more begun, one more under way.
LEMMA RelayStep ==
  ASSUME Inv, NEW t \in Ticks, NEW i \in Ids, NEW left \in SUBSET Ids,
         NEW seen \in [Ids -> Nat],
         tick[t].at \in {"idle", "next"},
         \A j \in Ids : seen[j] + Cardinality(Flying(j)) <= tries[j],
         Send(t, i, left, seen), relay
  PROVE  Inv'
<1>0. /\ n' = n /\ attempts' = attempts
      /\ tick' = [tick EXCEPT ![t] = [at |-> "sending", row |-> i, left |-> left, seen |-> seen]]
      /\ status' = [status EXCEPT ![i] = "sending"]
      /\ tries' = [tries EXCEPT ![i] = tries[i] + 1]
  BY DEF Send
<1>1. Types'
  <2>1. tick'[t] = [at |-> "sending", row |-> i, left |-> left, seen |-> seen]
    BY <1>0 DEF Inv, Types
  <2>2. \A u \in Ticks \ {t} : tick'[u] = tick[u]
    BY <1>0 DEF Inv, Types
  <2>3. i \in Nat
    BY QueueConstants DEF Ids
  <2>4. tick' \in [Ticks -> [at : {"idle", "next", "sending", "accepted", "notice"},
                             row : Nat, left : SUBSET Ids, seen : [Ids -> Nat]]]
    BY <1>0, <2>3 DEF Inv, Types
  <2>5. /\ n' = n /\ attempts' = attempts
        /\ status' \in [Ids -> {"none", "queued", "sending", "sent", "failed"}]
        /\ tries' \in [Ids -> Nat]
    BY <1>0 DEF Inv, Types
  <2> QED BY <2>1, <2>2, <2>4, <2>5 DEF Inv, Types
<1>2. ASSUME NEW j \in Ids, j # i
      PROVE  Flying(j)' = Flying(j) /\ tries'[j] = tries[j]
  BY <1>0, <1>2 DEF Flying, Inv, Types
<1>3. Flying(i)' = Flying(i) \cup {t} /\ tries'[i] = tries[i] + 1 /\ t \notin Flying(i)
  BY <1>0 DEF Flying, Inv, Types
<1>4. Cardinality(Flying(i)') = Cardinality(Flying(i)) + 1
  BY <1>3, OneMore, FlyingFinite
<1>5. \A j \in Ids : Counted(j)'
  <2> TAKE j \in Ids
  <2>0. Cardinality(Flying(j)) \in Nat
    BY FlyingFinite
  <2>1. /\ attempts' = attempts
        /\ tick'[t].seen = seen
        /\ \A u \in Ticks \ {t} : tick'[u].seen = tick[u].seen
    BY <1>0 DEF Inv, Types
  <2>2. /\ attempts[j] \in Nat /\ tries[j] \in Nat /\ seen[j] \in Nat
        /\ \A u \in Ticks : tick[u].seen[j] \in Nat
    BY DEF Inv, Types
  <2>3. Counted(j)
    BY DEF Inv
  <2>4. CASE j = i
    <3>1. tries'[j] = tries[j] + 1 /\ Cardinality(Flying(j)') = Cardinality(Flying(j)) + 1
      BY <2>4, <1>3, <1>4
    <3>2. attempts'[j] + Cardinality(Flying(j)') <= tries'[j]
      BY <3>1, <2>0, <2>1, <2>2, <2>3 DEF Counted
    <3>3. ASSUME NEW u \in Ticks
          PROVE  tick'[u].seen[j] + Cardinality(Flying(j)') <= tries'[j]
      <4>1. CASE u = t
        BY <4>1, <3>1, <2>0, <2>1, <2>2
      <4>2. CASE u # t
        BY <4>2, <3>1, <2>0, <2>1, <2>2, <2>3 DEF Counted
      <4> QED BY <4>1, <4>2
    <3> QED BY <3>2, <3>3 DEF Counted
  <2>5. CASE j # i
    <3>1. tries'[j] = tries[j] /\ Flying(j)' = Flying(j)
      BY <2>5, <1>2
    <3>2. ASSUME NEW u \in Ticks
          PROVE  tick'[u].seen[j] + Cardinality(Flying(j)') <= tries'[j]
      <4>1. CASE u = t
        BY <4>1, <3>1, <2>1
      <4>2. CASE u # t
        BY <4>2, <3>1, <2>1, <2>3 DEF Counted
      <4> QED BY <4>1, <4>2
    <3> QED BY <3>1, <3>2, <2>1, <2>3 DEF Counted
  <2> QED BY <2>4, <2>5
<1>6. DeadLetterAfterAllTries'
  <2> SUFFICES ASSUME NEW j \in Ids, status'[j] = "failed" PROVE tries'[j] >= MaxAttempts
    BY DEF DeadLetterAfterAllTries
  <2>1. j # i /\ status[j] = "failed"
    BY <1>0 DEF Inv, Types
  <2> QED BY <2>1, <1>2 DEF Inv, DeadLetterAfterAllTries
<1> QED BY <1>1, <1>5, <1>6 DEF Inv

\* With no relay configured: one more begun, and one more attempt recorded.
LEMMA MockStep ==
  ASSUME Inv, NEW t \in Ticks, NEW i \in Ids, NEW left \in SUBSET Ids,
         NEW seen \in [Ids -> Nat],
         tick[t].at \in {"idle", "next"},
         \A j \in Ids : seen[j] + Cardinality(Flying(j)) <= tries[j],
         Send(t, i, left, seen), ~relay
  PROVE  Inv'
<1>1. /\ n' = n
      /\ tick' = [tick EXCEPT ![t] = [at |-> "next", row |-> 0, left |-> left, seen |-> seen]]
      /\ status' = [status EXCEPT ![i] = "sent"]
      /\ attempts' = [attempts EXCEPT ![i] = attempts[i] + 1]
      /\ tries' = [tries EXCEPT ![i] = tries[i] + 1]
  BY DEF Send
<1>2. Types'
  <2>1. [at |-> "next", row |-> 0, left |-> left, seen |-> seen]
          \in [at : {"idle", "next", "sending", "accepted", "notice"},
              row : Nat, left : SUBSET Ids, seen : [Ids -> Nat]]
    OBVIOUS
  <2>2. \A u \in Ticks : tick'[u] = IF u = t THEN [at |-> "next", row |-> 0, left |-> left, seen |-> seen]
                                    ELSE tick[u]
    BY <1>1 DEF Inv, Types
  <2>3. /\ attempts' \in [Ids -> Nat] /\ tries' \in [Ids -> Nat]
        /\ status' \in [Ids -> {"none", "queued", "sending", "sent", "failed"}]
    BY <1>1 DEF Inv, Types
  <2>4. tick' \in [Ticks -> [at : {"idle", "next", "sending", "accepted", "notice"},
                             row : Nat, left : SUBSET Ids, seen : [Ids -> Nat]]]
    BY <1>1, <2>1 DEF Inv, Types
  <2>5. ASSUME NEW u \in Ticks, tick'[u].at \in {"sending", "accepted"}
        PROVE  tick'[u].row \in Ids
    <3>1. u # t
      BY <2>2, <2>5
    <3> QED BY <2>2, <2>5, <3>1 DEF Inv, Types
  <2> QED BY <1>1, <2>3, <2>4, <2>5 DEF Inv, Types
<1>3. \A j : Flying(j)' = Flying(j)
  BY <1>1 DEF Flying, Inv, Types
<1>4. ASSUME NEW j \in Ids PROVE Counted(j)'
  <2>1. /\ Cardinality(Flying(j)) \in Nat /\ attempts[j] \in Nat /\ tries[j] \in Nat
        /\ seen[j] \in Nat /\ \A u \in Ticks : tick[u].seen[j] \in Nat
    BY FlyingFinite DEF Inv, Types
  <2>2. /\ attempts[j] + Cardinality(Flying(j)) <= tries[j]
        /\ \A u \in Ticks : tick[u].seen[j] + Cardinality(Flying(j)) <= tries[j]
    BY DEF Inv, Counted
  <2>3. \/ attempts'[j] = attempts[j] /\ tries'[j] = tries[j]
        \/ attempts'[j] = attempts[j] + 1 /\ tries'[j] = tries[j] + 1
    BY <1>1 DEF Inv, Types
  <2>4. attempts'[j] + Cardinality(Flying(j)') <= tries'[j] /\ tries[j] <= tries'[j] /\ tries'[j] \in Nat
    BY <1>3, <2>1, <2>2, <2>3
  <2>5. ASSUME NEW u \in Ticks
        PROVE  tick'[u].seen[j] + Cardinality(Flying(j)') <= tries'[j]
    <3>1. tick'[u].seen[j] \in {seen[j], tick[u].seen[j]}
      BY <1>1 DEF Inv, Types
    <3> QED BY <1>3, <2>1, <2>2, <2>4, <3>1
  <2> QED BY <2>4, <2>5 DEF Counted
<1>5. DeadLetterAfterAllTries'
  <2> SUFFICES ASSUME NEW j \in Ids, status'[j] = "failed" PROVE tries'[j] >= MaxAttempts
    BY DEF DeadLetterAfterAllTries
  <2>1. j # i /\ status[j] = "failed" /\ tries'[j] = tries[j]
    BY <1>1 DEF Inv, Types
  <2> QED BY <2>1 DEF Inv, DeadLetterAfterAllTries
<1> QED BY <1>2, <1>4, <1>5 DEF Inv

LEMMA SendStep ==
  ASSUME Inv, NEW t \in Ticks, NEW i \in Ids, NEW left \in SUBSET Ids,
         NEW seen \in [Ids -> Nat],
         tick[t].at \in {"idle", "next"},
         \A j \in Ids : seen[j] + Cardinality(Flying(j)) <= tries[j],
         Send(t, i, left, seen)
  PROVE  Inv'
<1>1. CASE relay
  BY <1>1, RelayStep
<1>2. CASE ~relay
  BY <1>2, MockStep
<1> QED BY <1>1, <1>2

\* A delivery that ends leaves its tick well typed.
LEMMA EndTypes ==
  ASSUME Types, NEW t \in Ticks, NEW where \in {"next", "notice"},
         tick' = [tick EXCEPT ![t].at = where, ![t].row = 0]
  PROVE  /\ tick' \in [Ticks -> [at : {"idle", "next", "sending", "accepted", "notice"},
                                 row : Nat, left : SUBSET Ids, seen : [Ids -> Nat]]]
         /\ \A u \in Ticks : tick'[u].at \in {"sending", "accepted"} => tick'[u].row \in Ids
<1>1. tick'[t] = [tick[t] EXCEPT !.at = where, !.row = 0]
  BY DEF Types
<1>2. \A u \in Ticks \ {t} : tick'[u] = tick[u]
  BY DEF Types
<1>3. /\ tick'[t] \in [at : {"idle", "next", "sending", "accepted", "notice"},
                       row : Nat, left : SUBSET Ids, seen : [Ids -> Nat]]
      /\ tick'[t].at = where
  <2>1. tick[t] \in [at : {"idle", "next", "sending", "accepted", "notice"},
                    row : Nat, left : SUBSET Ids, seen : [Ids -> Nat]]
    BY DEF Types
  <2>2. \A r \in [at : {"idle", "next", "sending", "accepted", "notice"},
                  row : Nat, left : SUBSET Ids, seen : [Ids -> Nat]] :
          /\ [r EXCEPT !.at = where, !.row = 0]
               \in [at : {"idle", "next", "sending", "accepted", "notice"},
                   row : Nat, left : SUBSET Ids, seen : [Ids -> Nat]]
          /\ [r EXCEPT !.at = where, !.row = 0].at = where
    OBVIOUS
  <2> QED BY <1>1, <2>1, <2>2
<1>4. tick' \in [Ticks -> [at : {"idle", "next", "sending", "accepted", "notice"},
                          row : Nat, left : SUBSET Ids, seen : [Ids -> Nat]]]
  BY <1>2, <1>3 DEF Types
<1>5. ASSUME NEW u \in Ticks, tick'[u].at \in {"sending", "accepted"}
      PROVE  tick'[u].row \in Ids
  <2>1. CASE u = t
    BY <1>3, <1>5, <2>1
  <2>2. CASE u # t
    BY <1>2, <1>5, <2>2 DEF Types
  <2> QED BY <2>1, <2>2
<1> QED BY <1>4, <1>5

\* Ending a delivery of message i with k attempts recorded keeps the count when
\* k was covered by the deliveries begun.
LEMMA EndStep ==
  ASSUME Inv, NEW t \in Ticks, NEW i \in Ids, i = tick[t].row,
         tick[t].at \in {"sending", "accepted"},
         NEW k \in Nat, k + Cardinality(Flying(i)) <= tries[i] + 1,
         NEW where \in {"next", "notice"},
         attempts' = [attempts EXCEPT ![i] = k],
         tick' = [tick EXCEPT ![t].at = where, ![t].row = 0],
         tries' = tries, Types'
  PROVE  \A j \in Ids : Counted(j)'
<1> TAKE j \in Ids
<1>1. \A u \in Ticks : tick'[u].seen = tick[u].seen
  BY DEF Inv, Types
<1>2. /\ Cardinality(Flying(j)) \in Nat
      /\ attempts[j] \in Nat /\ tries[j] \in Nat
      /\ \A u \in Ticks : tick[u].seen[j] \in Nat
  BY FlyingFinite DEF Inv, Types
<1>3. Counted(j)
  BY DEF Inv
<1>4. CASE j = i
  <2>1. Flying(j)' = Flying(j) \ {t} /\ t \in Flying(j)
    BY <1>4 DEF Flying, Inv, Types
  <2>2. /\ Cardinality(Flying(j)') + 1 = Cardinality(Flying(j))
        /\ Cardinality(Flying(j)') \in Nat
    BY <2>1, OneLess, FlyingFinite
  <2>3. attempts'[j] = k
    BY <1>4 DEF Inv, Types
  <2>4. attempts'[j] + Cardinality(Flying(j)') <= tries'[j]
    BY <1>2, <1>4, <2>2, <2>3
  <2>5. ASSUME NEW u \in Ticks
        PROVE  tick'[u].seen[j] + Cardinality(Flying(j)') <= tries'[j]
    <3>1. tick[u].seen[j] + Cardinality(Flying(j)) <= tries[j]
      BY <1>3 DEF Counted
    <3>2. tick'[u].seen[j] = tick[u].seen[j] /\ tick[u].seen[j] \in Nat
      BY <1>1, <1>2
    <3> QED BY <1>2, <2>2, <3>1, <3>2
  <2> QED BY <2>4, <2>5 DEF Counted
<1>5. CASE j # i
  <2>1. Flying(j)' = Flying(j)
    BY <1>5 DEF Flying, Inv, Types
  <2>2. attempts'[j] = attempts[j]
    BY <1>5 DEF Inv, Types
  <2> QED BY <1>1, <1>3, <2>1, <2>2 DEF Counted
<1> QED BY <1>4, <1>5

-----------------------------------------------------------------------------
\* A step that leaves deliveries, reads and counts alone keeps the invariant.
LEMMA QuietStep ==
  ASSUME Inv, Types', tries' = tries, attempts' = attempts,
         \A t \in Ticks : tick'[t].seen \in {tick[t].seen, [i \in Ids |-> 0]},
         \A i \in Ids : Flying(i)' = Flying(i) \/ Flying(i)' = {},
         \A i \in Ids : status'[i] = "failed" => status[i] = "failed"
  PROVE  Inv'
<1>1. ASSUME NEW j \in Ids PROVE Counted(j)'
  <2>1. /\ Counted(j)
        /\ attempts[j] \in Nat /\ tries[j] \in Nat
        /\ \A u \in Ticks : tick[u].seen[j] \in Nat
    BY DEF Inv, Types
  <2>2. /\ Cardinality(Flying(j)') \in Nat /\ Cardinality(Flying(j)) \in Nat
        /\ Cardinality(Flying(j)') <= Cardinality(Flying(j))
    BY FlyingFinite, FS_EmptySet
  <2>3. attempts'[j] + Cardinality(Flying(j)') <= tries'[j]
    BY <2>1, <2>2 DEF Counted
  <2>4. ASSUME NEW u \in Ticks
        PROVE  tick'[u].seen[j] + Cardinality(Flying(j)') <= tries'[j]
    <3>1. tick[u].seen[j] + Cardinality(Flying(j)) <= tries[j]
      BY <2>1 DEF Counted
    <3>2. tick'[u].seen[j] \in {tick[u].seen[j], 0} /\ tick[u].seen[j] \in Nat
      BY <2>1
    <3> QED BY <2>1, <2>2, <3>1, <3>2
  <2> QED BY <2>3, <2>4 DEF Counted
<1>2. DeadLetterAfterAllTries'
  BY DEF Inv, DeadLetterAfterAllTries
<1> QED BY <1>1, <1>2 DEF Inv

\* The empty queue satisfies the invariant.
LEMMA InitInv == Init => Inv
<1> SUFFICES ASSUME Init PROVE Inv
  OBVIOUS
<1>1. Types
  BY DEF Init, Types, Idle
<1>2. \A i \in Ids : Flying(i) = {}
  BY DEF Init, Idle, Flying
<1>3. \A i \in Ids : Counted(i)
  <2> SUFFICES ASSUME NEW i \in Ids PROVE Counted(i)
    OBVIOUS
  <2>1. Cardinality(Flying(i)) = 0
    BY <1>2, FS_EmptySet
  <2>2. attempts[i] = 0 /\ tries[i] = 0 /\ \A t \in Ticks : tick[t].seen[i] = 0
    BY DEF Init, Idle
  <2> QED BY <2>1, <2>2 DEF Counted
<1>4. DeadLetterAfterAllTries
  BY DEF Init, DeadLetterAfterAllTries
<1> QED BY <1>1, <1>3, <1>4 DEF Inv

\* Every step keeps the invariant.
LEMMA StepInv == Inv /\ [Next]_vars => Inv'
<1> SUFFICES ASSUME Inv, [Next]_vars PROVE Inv'
  OBVIOUS
<1>1. ASSUME UNCHANGED vars PROVE Inv'
  BY <1>1, QuietStep DEF vars, table, history, Inv, Types, Flying
<1>2. ASSUME Enqueue PROVE Inv'
  <2>1. Types'
    BY <1>2, QueueConstants DEF Enqueue, history, Inv, Types, Ids
  <2> QED BY <1>2, <2>1, QuietStep DEF Enqueue, history, Inv, Types, Flying, Ids
<1>3. ASSUME Restart PROVE Inv'
  <2>1. Types'
    BY <1>3 DEF Restart, BootReset, Idle, Inv, Types
  <2>2. \A i \in Ids : Flying(i)' = {}
    BY <1>3 DEF Restart, Idle, Flying
  <2> QED BY <1>3, <2>1, <2>2, QuietStep DEF Restart, BootReset, Idle, Inv, Types
<1>4. ASSUME NEW i \in Ids, BecomesDue(i) PROVE Inv'
  BY <1>4, QuietStep DEF BecomesDue, history, Inv, Types, Flying
<1>12. ASSUME Configure PROVE Inv'
  BY <1>12, QuietStep DEF Configure, table, history, Inv, Types, Flying
<1>5. ASSUME NEW t \in Ticks, Select(t) PROVE Inv'
  <2> DEFINE read == [j \in Ids |-> IF j \in Oldest(Due) THEN attempts[j] ELSE 0]
  <2>1. PICK i \in Oldest(Due) : Send(t, i, Oldest(Due) \ {i}, read)
    BY <1>5 DEF Select
  <2>2. Oldest(Due) \in SUBSET Ids
    BY DEF Oldest, Due
  <2>3. read \in [Ids -> Nat]
    BY DEF Inv, Types
  <2>4. ASSUME NEW j \in Ids PROVE read[j] + Cardinality(Flying(j)) <= tries[j]
    <3>1. Counted(j) /\ attempts[j] \in Nat /\ tries[j] \in Nat /\ Cardinality(Flying(j)) \in Nat
      BY FlyingFinite DEF Inv, Types
    <3>2. read[j] \in {attempts[j], 0}
      OBVIOUS
    <3>3. attempts[j] + Cardinality(Flying(j)) <= tries[j]
      BY <3>1 DEF Counted
    <3> HIDE DEF read
    <3> QED BY <3>1, <3>2, <3>3
  <2>5. tick[t].at = "idle"
    BY <1>5 DEF Select
  <2>6. i \in Ids /\ Oldest(Due) \ {i} \in SUBSET Ids
    BY <2>1, <2>2
  <2> HIDE DEF read
  <2> QED BY <2>1, <2>3, <2>4, <2>5, <2>6, SendStep
<1>6. ASSUME NEW t \in Ticks, NextRow(t) PROVE Inv'
  <2>1. PICK i \in tick[t].left : Send(t, i, tick[t].left \ {i}, tick[t].seen)
    BY <1>6 DEF NextRow
  <2>2. /\ tick[t].at = "next" /\ i \in Ids
        /\ tick[t].left \ {i} \in SUBSET Ids /\ tick[t].seen \in [Ids -> Nat]
    BY <1>6, <2>1 DEF NextRow, Inv, Types
  <2>3. \A j \in Ids : tick[t].seen[j] + Cardinality(Flying(j)) <= tries[j]
    BY DEF Inv, Counted
  <2> QED BY <2>1, <2>2, <2>3, SendStep
<1>7. ASSUME NEW t \in Ticks, EndTick(t) PROVE Inv'
  <2>1. Types'
    BY <1>7 DEF EndTick, Idle, table, history, Inv, Types
  <2> QED BY <1>7, <2>1, QuietStep DEF EndTick, Idle, table, history, Inv, Types, Flying
<1>8. ASSUME NEW t \in Ticks, RelayAccepts(t) PROVE Inv'
  <2>1. Types'
    BY <1>8 DEF RelayAccepts, table, Inv, Types
  <2> QED BY <1>8, <2>1, QuietStep DEF RelayAccepts, table, Inv, Types, Flying
<1>9. ASSUME NEW t \in Ticks, SendOk(t) PROVE Inv'
  <2> DEFINE i == tick[t].row
  <2>1. i \in Ids /\ attempts[i] \in Nat /\ tries[i] \in Nat /\ Cardinality(Flying(i)) \in Nat
    BY <1>9, FlyingFinite DEF SendOk, Inv, Types
  <2>2. Counted(i)
    BY <2>1 DEF Inv
  <2>3. attempts[i] + 1 + Cardinality(Flying(i)) <= tries[i] + 1
    BY <2>1, <2>2 DEF Counted
  <2>4. Types' /\ tries' = tries
    <3>1. tick' = [tick EXCEPT ![t].at = "next", ![t].row = 0]
      BY <1>9 DEF SendOk
    <3>2. /\ n' = n /\ tries' = tries
          /\ status' = [status EXCEPT ![i] = "sent"]
          /\ attempts' = [attempts EXCEPT ![i] = attempts[i] + 1]
      BY <1>9 DEF SendOk, history
    <3>3. /\ status' \in [Ids -> {"none", "queued", "sending", "sent", "failed"}]
          /\ attempts' \in [Ids -> Nat]
      <4> HIDE DEF i
      <4> QED BY <2>1, <3>2 DEF Inv, Types
    <3>4. Types
      BY DEF Inv
    <3> QED BY <3>1, <3>2, <3>3, <3>4, EndTypes DEF Types
  <2>5. /\ attempts' = [attempts EXCEPT ![i] = attempts[i] + 1]
        /\ tick' = [tick EXCEPT ![t].at = "next", ![t].row = 0]
        /\ tick[t].at \in {"sending", "accepted"}
    BY <1>9 DEF SendOk
  <2>6. \A j \in Ids : Counted(j)'
    <3>1. attempts[i] + 1 \in Nat /\ i = tick[t].row
      BY <2>1
    <3> HIDE DEF i
    <3> QED BY <2>1, <2>3, <2>4, <2>5, <3>1, EndStep
  <2>7. DeadLetterAfterAllTries'
    BY <1>9, <2>4 DEF SendOk, Inv, Types, DeadLetterAfterAllTries
  <2> QED BY <2>4, <2>6, <2>7 DEF Inv
<1>10. ASSUME NEW t \in Ticks, SendFails(t) PROVE Inv'
  <2> DEFINE i == tick[t].row
             k == tick[t].seen[i] + 1
  <2>1. i \in Ids /\ k \in Nat /\ tries[i] \in Nat /\ Cardinality(Flying(i)) \in Nat
        /\ tick[t].seen[i] \in Nat
    BY <1>10, FlyingFinite DEF SendFails, Inv, Types
  <2>2. tick[t].seen[i] + Cardinality(Flying(i)) <= tries[i]
    BY <2>1 DEF Inv, Counted
  <2>3. k + Cardinality(Flying(i)) <= tries[i] + 1
    BY <2>1, <2>2
  <2>4. t \in Flying(i)
    BY <1>10 DEF SendFails, Flying
  <2>5. k <= tries[i]
    <3>1. /\ Cardinality(Flying(i) \ {t}) + 1 = Cardinality(Flying(i))
          /\ Cardinality(Flying(i) \ {t}) \in Nat
      BY <2>4, OneLess, FlyingFinite
    <3> QED BY <2>1, <2>2, <3>1
  <2>6. tries' = tries /\ attempts' = [attempts EXCEPT ![i] = k]
        /\ tick[t].at \in {"sending", "accepted"}
    BY <1>10 DEF SendFails
  <2>7. PICK where \in {"next", "notice"} :
          tick' = [tick EXCEPT ![t].at = where, ![t].row = 0]
    BY <1>10 DEF SendFails
  <2>8. \/ status' = [status EXCEPT ![i] = "failed"] /\ LastAttempt(k)
        \/ status' = [status EXCEPT ![i] = "queued"]
    BY <1>10 DEF SendFails
  <2>9. Types'
    <3>1. n' = n
      BY <1>10 DEF SendFails
    <3>2. /\ status' \in [Ids -> {"none", "queued", "sending", "sent", "failed"}]
          /\ attempts' \in [Ids -> Nat]
      <4> HIDE DEF i, k
      <4> QED BY <2>1, <2>6, <2>8 DEF Inv, Types
    <3>3. Types
      BY DEF Inv
    <3> QED BY <2>6, <2>7, <3>1, <3>2, <3>3, EndTypes DEF Types
  <2>10. \A j \in Ids : Counted(j)'
    BY <2>1, <2>3, <2>6, <2>7, <2>9, EndStep
  <2>11. DeadLetterAfterAllTries'
    <3> SUFFICES ASSUME NEW j \in Ids, status'[j] = "failed" PROVE tries[j] >= MaxAttempts
      BY <2>6 DEF DeadLetterAfterAllTries
    <3>1. CASE j = i
      <4>1. LastAttempt(k)
        BY <3>1, <2>1, <2>8 DEF Inv, Types
      <4> QED BY <3>1, <4>1, <2>1, <2>5, QueueConstants DEF LastAttempt
    <3>2. CASE j # i
      BY <3>2, <2>8 DEF Inv, Types, DeadLetterAfterAllTries
    <3> QED BY <3>1, <3>2
  <2> QED BY <2>9, <2>10, <2>11 DEF Inv
<1>11. ASSUME NEW t \in Ticks, NoticeSent(t) PROVE Inv'
  <2>1. Types'
    BY <1>11 DEF NoticeSent, table, history, Inv, Types
  <2> QED BY <1>11, <2>1, QuietStep DEF NoticeSent, table, history, Inv, Types, Flying
<1> QED BY <1>1, <1>2, <1>3, <1>4, <1>5, <1>6, <1>7, <1>8, <1>9, <1>10, <1>11, <1>12
        DEF Next, TickStep, AtRest

\* However many ticks overlap and however often the server restarts, no message
\* is given up before MAX_ATTEMPTS deliveries of it were begun.
THEOREM NoEarlyDeadLetter == Spec => []DeadLetterAfterAllTries
<1>1. Inv => DeadLetterAfterAllTries
  BY DEF Inv
<1> QED BY <1>1, InitInv, StepInv, PTL DEF Spec
-----------------------------------------------------------------------------
(* Types *)

\* A batch has at most BATCH rows: every row of it has another rank.
LEMMA OldestFew ==
  ASSUME NEW S \in SUBSET Ids
  PROVE  IsFiniteSet(Oldest(S)) /\ Cardinality(Oldest(S)) <= Batch
<1> DEFINE before(i) == {j \in S : j < i}
           rank == [i \in Oldest(S) |-> Cardinality(before(i))]
<1>0. IsFiniteSet(S) /\ S \subseteq Nat
  <2>1. IsFiniteSet(Ids) /\ Ids \subseteq Nat
    BY QueueConstants, FS_Interval DEF Ids
  <2> QED BY <2>1, FS_Subset
<1>1. \A i \in S : IsFiniteSet(before(i)) /\ Cardinality(before(i)) \in Nat
  BY <1>0, FS_Subset, FS_CardinalityType
<1>2. ASSUME NEW i \in S, NEW k \in S, i < k
      PROVE  Cardinality(before(i)) # Cardinality(before(k))
  <2>0. i \in Nat /\ k \in Nat /\ \A j \in S : j \in Nat
    BY <1>0
  <2>1. /\ \A j \in S : j < i => j < k
        /\ ~(i < i)
    BY <1>2, <2>0
  <2>2. /\ before(i) # before(k) /\ IsFiniteSet(before(k))
        /\ before(i) \in SUBSET before(k)
    BY <1>1, <1>2, <2>1
  <2>3. \A A, B : IsFiniteSet(A) /\ B \in SUBSET A /\ B # A => Cardinality(B) # Cardinality(A)
    BY FS_Subset
  <2> HIDE DEF before
  <2> QED BY <2>2, <2>3
<1>3. rank \in [Oldest(S) -> 0..(Batch - 1)]
  BY <1>1, QueueConstants DEF Oldest
<1>4. \A i, k \in Oldest(S) : rank[i] = rank[k] => i = k
  <2> SUFFICES ASSUME NEW i \in Oldest(S), NEW k \in Oldest(S), i # k PROVE rank[i] # rank[k]
    OBVIOUS
  <2>1. i \in S /\ k \in S /\ (i < k \/ k < i)
    BY <1>0 DEF Oldest
  <2> HIDE DEF before
  <2> QED BY <1>2, <2>1
<1>5. rank \in Injection(Oldest(S), 0..(Batch - 1))
  BY <1>3, <1>4 DEF Injection, IsInjective
<1>6. IsFiniteSet(0..(Batch - 1)) /\ Cardinality(0..(Batch - 1)) = Batch
  BY QueueConstants, FS_Interval
<1> QED
  BY <1>5, <1>6, FS_Injection

\* The rows a tick has left after it took one of its batch.
LEMMA LeftOver ==
  ASSUME NEW S \in SUBSET Ids, NEW i \in Oldest(S)
  PROVE  Oldest(S) \ {i} \in SUBSET Ids /\ Cardinality(Oldest(S) \ {i}) < Batch
<1>1. Cardinality(Oldest(S) \ {i}) = Cardinality(Oldest(S)) - 1
  BY OldestFew, FS_RemoveElement
<1>2. Cardinality(Oldest(S)) \in Nat
  BY OldestFew, FS_CardinalityType
<1>3. Cardinality(Oldest(S)) <= Batch /\ Batch \in Nat
  BY OldestFew, QueueConstants
<1>4. Oldest(S) \subseteq Ids
  BY DEF Oldest
<1> QED
  BY <1>1, <1>2, <1>3, <1>4
\* The rows a tick holds are in the table.
InTable ==
  \A t \in Ticks :
    /\ tick[t].at \in {"sending", "accepted"} => status[tick[t].row] # "none"
    /\ \A i \in tick[t].left : status[i] # "none"

\* A row of the table stays in it, so a step that leaves the ticks alone, or takes
\* rows from them, keeps them in the table.
LEMMA InTableKept ==
  ASSUME TypeOK, TypeOK', InTable,
         \A i \in Ids : status[i] # "none" => status'[i] # "none",
         \A t \in Ticks :
           /\ tick'[t].left \subseteq tick[t].left
           /\ tick'[t].at \in {"sending", "accepted"} =>
                tick[t].at \in {"sending", "accepted"} /\ tick'[t].row = tick[t].row
  PROVE  InTable'
<1>1. \A t \in Ticks : tick[t].left \subseteq Ids
  BY DEF TypeOK
<1>2. \A t \in Ticks : tick[t].at \in {"sending", "accepted"} => tick[t].row \in Ids
  BY DEF TypeOK
<1> QED
  BY <1>1, <1>2 DEF InTable

\* Starting a delivery keeps the types.
LEMMA SendTypes ==
  ASSUME TypeOK, InTable, NEW t \in Ticks, NEW i \in Ids, status[i] # "none",
         NEW left \in SUBSET Ids, Cardinality(left) < Batch,
         \A j \in left : status[j] # "none",
         NEW seen \in [Ids -> Nat], Send(t, i, left, seen),
         contested' \in SUBSET Ids
  PROVE  TypeOK' /\ InTable'
<1>1. PICK at \in {"sending", "next"}, row \in 0..MaxRows :
        /\ tick' = [tick EXCEPT ![t] = [at |-> at, row |-> row, left |-> left, seen |-> seen]]
        /\ at = "sending" => row = i
  <2>1. i \in 0..MaxRows /\ 0 \in 0..MaxRows
    BY QueueConstants DEF Ids
  <2> QED BY <2>1 DEF Send
<1>3. tick' \in [Ticks -> [at : {"idle", "next", "sending", "accepted", "notice"},
                           row : 0..MaxRows, left : SUBSET Ids, seen : [Ids -> Nat]]]
  BY <1>1 DEF TypeOK
<1>4. \A u \in Ticks : /\ tick'[u].at # "idle" => Cardinality(tick'[u].left) < Batch
                       /\ tick'[u].at \in {"sending", "accepted"} => tick'[u].row \in Ids
  BY <1>1 DEF TypeOK
<1>5. /\ status' \in [Ids -> {"none", "queued", "sending", "sent", "failed"}]
      /\ \A j \in Ids : status'[j] = "none" <=> j > n
      /\ \A j \in Ids : status[j] # "none" => status'[j] # "none"
      /\ tries' \in [Ids -> Nat] /\ attempts' \in [Ids -> Nat]
  <2>1. \/ status' = [status EXCEPT ![i] = "sending"] /\ attempts' = attempts
        \/ /\ status' = [status EXCEPT ![i] = "sent"]
           /\ attempts' = [attempts EXCEPT ![i] = attempts[i] + 1]
    BY DEF Send
  <2>2. tries' = [tries EXCEPT ![i] = tries[i] + 1] /\ n' = n
    BY DEF Send
  <2>3. tries' \in [Ids -> Nat] /\ attempts' \in [Ids -> Nat]
    BY <2>1, <2>2 DEF TypeOK
  <2>4. /\ status' \in [Ids -> {"none", "queued", "sending", "sent", "failed"}]
        /\ \A j \in Ids : status'[j] = "none" <=> status[j] = "none"
    BY <2>1 DEF TypeOK
  <2> QED BY <2>2, <2>3, <2>4 DEF TypeOK
<1>6. TypeOK'
  <2>1. UNCHANGED <<n, due, relay, accepted, lost, crashes>>
    BY DEF Send
  <2> QED BY <1>3, <1>4, <1>5, <2>1 DEF TypeOK
<1>7. InTable'
  <2> SUFFICES ASSUME NEW u \in Ticks
               PROVE  /\ tick'[u].at \in {"sending", "accepted"} => status'[tick'[u].row] # "none"
                      /\ \A j \in tick'[u].left : status'[j] # "none"
    BY DEF InTable
  <2>1. CASE u = t
    <3>1. tick'[u].at = at /\ tick'[u].row = row /\ tick'[u].left = left
      BY <2>1, <1>1 DEF TypeOK
    <3> QED BY <3>1, <1>1, <1>5
  <2>2. CASE u # t
    <3>1. tick'[u] = tick[u]
      BY <2>2, <1>1 DEF TypeOK
    <3>2. tick[u].left \subseteq Ids
      BY DEF TypeOK
    <3>3. tick[u].at \in {"sending", "accepted"} => tick[u].row \in Ids
      BY DEF TypeOK
    <3> QED BY <3>1, <3>2, <3>3, <1>5 DEF InTable
  <2> QED BY <2>1, <2>2
<1> QED
  BY <1>6, <1>7

\* What a tick moves to is a tick again.
LEMMA MoveTypes ==
  ASSUME TypeOK, NEW t \in Ticks, NEW next \in {"next", "accepted", "notice"},
         NEW row \in 0..MaxRows,
         tick[t].at # "idle", next = "accepted" => row \in Ids,
         tick' = [tick EXCEPT ![t].at = next, ![t].row = row]
  PROVE  /\ tick' \in [Ticks -> [at : {"idle", "next", "sending", "accepted", "notice"},
                                 row : 0..MaxRows, left : SUBSET Ids, seen : [Ids -> Nat]]]
         /\ \A u \in Ticks : /\ tick'[u].at # "idle" => Cardinality(tick'[u].left) < Batch
                             /\ tick'[u].at \in {"sending", "accepted"} => tick'[u].row \in Ids
         /\ tick'[t].at = next /\ tick'[t].row = row
         /\ \A u \in Ticks : tick'[u].left = tick[u].left
         /\ \A u \in Ticks \ {t} : tick'[u] = tick[u]
<1>1. tick[t] \in [at : {"idle", "next", "sending", "accepted", "notice"},
                   row : 0..MaxRows, left : SUBSET Ids, seen : [Ids -> Nat]]
  BY DEF TypeOK
<1>2. tick'[t] = [tick[t] EXCEPT !.at = next, !.row = row]
  BY DEF TypeOK
<1>3. tick'[t] \in [at : {"idle", "next", "sending", "accepted", "notice"},
                    row : 0..MaxRows, left : SUBSET Ids, seen : [Ids -> Nat]]
  BY <1>1, <1>2
<1>4. /\ tick'[t].at = next /\ tick'[t].row = row /\ tick'[t].left = tick[t].left
      /\ \A u \in Ticks \ {t} : tick'[u] = tick[u]
      /\ DOMAIN tick' = Ticks
  BY <1>1, <1>2 DEF TypeOK
<1>5. tick' \in [Ticks -> [at : {"idle", "next", "sending", "accepted", "notice"},
                           row : 0..MaxRows, left : SUBSET Ids, seen : [Ids -> Nat]]]
  BY <1>3, <1>4 DEF TypeOK
<1>6. \A u \in Ticks : /\ tick'[u].at # "idle" => Cardinality(tick'[u].left) < Batch
                       /\ tick'[u].at \in {"sending", "accepted"} => tick'[u].row \in Ids
  <2> TAKE u \in Ticks
  <2>1. CASE u = t
    BY <2>1, <1>4 DEF TypeOK
  <2>2. CASE u # t
    BY <2>2, <1>4 DEF TypeOK
  <2> QED BY <2>1, <2>2
<1> QED
  BY <1>4, <1>5, <1>6

\* The end of a delivery keeps the types.
LEMMA AnswerTypes ==
  ASSUME TypeOK, InTable, NEW t \in Ticks, tick[t].at \in {"sending", "accepted"},
         NEW next \in {"next", "notice"}, NEW st \in {"queued", "sent", "failed"},
         NEW k \in Nat,
         status' = [status EXCEPT ![tick[t].row] = st],
         attempts' = [attempts EXCEPT ![tick[t].row] = k],
         tick' = [tick EXCEPT ![t].at = next, ![t].row = 0],
         due' \in SUBSET Ids, lost' \in SUBSET Ids,
         UNCHANGED <<n, relay, tries, accepted, contested, crashes>>
  PROVE  TypeOK' /\ InTable'
<1>0. tick[t].row \in Ids /\ status[tick[t].row] # "none"
  BY DEF TypeOK, InTable
<1>1. 0 \in 0..MaxRows
  BY QueueConstants
<1>2. /\ status' \in [Ids -> {"none", "queued", "sending", "sent", "failed"}]
      /\ \A j \in Ids : status'[j] = "none" <=> j > n
      /\ \A j \in Ids : status[j] # "none" => status'[j] # "none"
      /\ attempts' \in [Ids -> Nat]
  BY <1>0 DEF TypeOK
<1>3. TypeOK'
  BY <1>1, <1>2, MoveTypes DEF TypeOK
<1> QED
  BY <1>1, <1>2, <1>3, MoveTypes, InTableKept
LEMMA InitTypes == Init => TypeOK /\ InTable
<1> SUFFICES ASSUME Init PROVE TypeOK /\ InTable
  OBVIOUS
<1>1. Ids \subseteq Nat /\ 0 \in 0..MaxRows /\ 0 \in 0..MaxCrashes /\ \A i \in Ids : i > 0
  BY QueueConstants DEF Ids
<1>2. \A t \in Ticks : tick[t] = Idle
  BY DEF Init
<1>3. Idle \in [at : {"idle", "next", "sending", "accepted", "notice"},
                row : 0..MaxRows, left : SUBSET Ids, seen : [Ids -> Nat]]
  BY <1>1 DEF Idle
<1>4. TypeOK
  BY <1>1, <1>2, <1>3 DEF Init, TypeOK, Idle
<1>5. InTable
  BY <1>2 DEF InTable, Idle
<1> QED
  BY <1>4, <1>5

\* Every step keeps the types.
LEMMA StepTypes == TypeOK /\ InTable /\ [Next]_vars => TypeOK' /\ InTable'
<1> SUFFICES ASSUME TypeOK, InTable, [Next]_vars PROVE TypeOK' /\ InTable'
  OBVIOUS
<1>0. Idle \in [at : {"idle", "next", "sending", "accepted", "notice"},
                row : 0..MaxRows, left : SUBSET Ids, seen : [Ids -> Nat]]
  BY QueueConstants DEF Idle
<1>1. ASSUME UNCHANGED vars PROVE TypeOK' /\ InTable'
  BY <1>1 DEF vars, table, history, TypeOK, InTable
<1>2. ASSUME Enqueue PROVE TypeOK' /\ InTable'
  <2>1. n \in Nat /\ n + 1 \in Ids /\ Ids \subseteq Nat /\ n + 1 \in 0..MaxRows
    BY <1>2, QueueConstants DEF Enqueue, TypeOK, Ids
  <2>2. TypeOK'
    BY <1>2, <2>1 DEF Enqueue, history, TypeOK
  <2>3. \A i \in Ids : status[i] # "none" => status'[i] # "none"
    BY <1>2, <2>1 DEF Enqueue, TypeOK
  <2> QED BY <1>2, <2>2, <2>3, InTableKept DEF Enqueue, history
<1>3. ASSUME Restart PROVE TypeOK' /\ InTable'
  <2>1. /\ status' \in [Ids -> {"none", "queued", "sending", "sent", "failed"}]
        /\ \A i \in Ids : status'[i] = "none" <=> status[i] = "none"
    BY <1>3 DEF Restart, BootReset, TypeOK
  <2>2. \A t \in Ticks : tick'[t] = Idle
    BY <1>3 DEF Restart
  <2>3. tick' \in [Ticks -> [at : {"idle", "next", "sending", "accepted", "notice"},
                             row : 0..MaxRows, left : SUBSET Ids, seen : [Ids -> Nat]]]
    BY <1>0, <1>3 DEF Restart
  <2>4. lost' \in SUBSET Ids
    BY <1>3 DEF Restart, TypeOK
  <2>5. crashes' \in 0..MaxCrashes
    BY <1>3, QueueConstants DEF Restart, TypeOK
  <2>6. TypeOK'
    BY <1>3, <2>1, <2>2, <2>3, <2>4, <2>5 DEF Restart, TypeOK, Idle
  <2>7. InTable'
    BY <2>2 DEF InTable, Idle
  <2> QED BY <2>6, <2>7
<1>4. ASSUME NEW i \in Ids, BecomesDue(i) PROVE TypeOK' /\ InTable'
  BY <1>4 DEF BecomesDue, history, TypeOK, InTable
<1>12. ASSUME Configure PROVE TypeOK' /\ InTable'
  BY <1>12 DEF Configure, table, history, TypeOK, InTable
<1>5. ASSUME NEW t \in Ticks, Select(t) PROVE TypeOK' /\ InTable'
  <2> DEFINE read == [j \in Ids |-> IF j \in Oldest(Due) THEN attempts[j] ELSE 0]
  <2>1. PICK i \in Oldest(Due) : Send(t, i, Oldest(Due) \ {i}, read)
    BY <1>5 DEF Select
  <2>2. Due \in SUBSET Ids /\ Oldest(Due) \subseteq Due /\ \A j \in Due : status[j] # "none"
    BY DEF Oldest, Due
  <2>3. Oldest(Due) \ {i} \in SUBSET Ids /\ Cardinality(Oldest(Due) \ {i}) < Batch
    BY <2>2, LeftOver
  <2>4. read \in [Ids -> Nat]
    BY DEF TypeOK
  <2>5. i \in Ids /\ status[i] # "none" /\ \A j \in Oldest(Due) \ {i} : status[j] # "none"
    BY <2>2
  <2>6. contested' \in SUBSET Ids
    BY <1>5, <2>2 DEF Select, TypeOK
  <2> HIDE DEF read
  <2> QED BY <2>1, <2>3, <2>4, <2>5, <2>6, SendTypes
<1>6. ASSUME NEW t \in Ticks, NextRow(t) PROVE TypeOK' /\ InTable'
  <2>1. PICK i \in tick[t].left : Send(t, i, tick[t].left \ {i}, tick[t].seen)
    BY <1>6 DEF NextRow
  <2>2. /\ tick[t].left \in SUBSET Ids /\ tick[t].seen \in [Ids -> Nat]
        /\ tick[t].at # "idle"
    BY <1>6 DEF NextRow, TypeOK
  <2>3. Cardinality(tick[t].left) < Batch /\ IsFiniteSet(tick[t].left)
    <3>1. IsFiniteSet(Ids)
      BY QueueConstants, FS_Interval DEF Ids
    <3>2. IsFiniteSet(tick[t].left)
      BY <2>2, <3>1, FS_Subset
    <3> QED BY <2>2, <3>2 DEF TypeOK
  <2>4. Cardinality(tick[t].left \ {i}) < Batch
    <3>1. Cardinality(tick[t].left \ {i}) = Cardinality(tick[t].left) - 1
      BY <2>3, FS_RemoveElement
    <3>2. Cardinality(tick[t].left) \in Nat /\ Batch \in Nat
      BY <2>3, FS_CardinalityType, QueueConstants
    <3> QED BY <2>3, <3>1, <3>2
  <2>5. status[i] # "none" /\ \A j \in tick[t].left \ {i} : status[j] # "none"
    BY DEF InTable
  <2>6. contested' \in SUBSET Ids
    BY <1>6 DEF NextRow, TypeOK
  <2> QED BY <2>1, <2>2, <2>4, <2>5, <2>6, SendTypes
<1>7. ASSUME NEW t \in Ticks, EndTick(t) PROVE TypeOK' /\ InTable'
  <2>1. tick' = [tick EXCEPT ![t] = Idle] /\ UNCHANGED <<table, relay, history, crashes>>
    BY <1>7 DEF EndTick
  <2>2. \A u \in Ticks : tick'[u] = IF u = t THEN Idle ELSE tick[u]
    BY <2>1 DEF TypeOK
  <2>3. tick' \in [Ticks -> [at : {"idle", "next", "sending", "accepted", "notice"},
                             row : 0..MaxRows, left : SUBSET Ids, seen : [Ids -> Nat]]]
    BY <1>0, <2>1 DEF TypeOK
  <2>4. TypeOK'
    BY <2>1, <2>2, <2>3 DEF TypeOK, table, history, Idle
  <2> QED BY <2>1, <2>2, <2>4, InTableKept DEF table, Idle
<1>8. ASSUME NEW t \in Ticks, RelayAccepts(t) PROVE TypeOK' /\ InTable'
  <2>1. /\ tick[t].at = "sending" /\ tick[t].row \in Ids /\ tick[t].row \in 0..MaxRows
        /\ tick' = [tick EXCEPT ![t].at = "accepted"]
        /\ accepted' \in [Ids -> Nat]
        /\ UNCHANGED <<table, relay, tries, lost, contested, crashes>>
    BY <1>8 DEF RelayAccepts, TypeOK
  <2>2. tick' = [tick EXCEPT ![t].at = "accepted", ![t].row = tick[t].row]
    BY <2>1 DEF TypeOK
  <2>3. /\ tick' \in [Ticks -> [at : {"idle", "next", "sending", "accepted", "notice"},
                                row : 0..MaxRows, left : SUBSET Ids, seen : [Ids -> Nat]]]
        /\ \A u \in Ticks : /\ tick'[u].at # "idle" => Cardinality(tick'[u].left) < Batch
                            /\ tick'[u].at \in {"sending", "accepted"} => tick'[u].row \in Ids
        /\ tick'[t].at = "accepted" /\ tick'[t].row = tick[t].row
        /\ \A u \in Ticks : tick'[u].left = tick[u].left
        /\ \A u \in Ticks \ {t} : tick'[u] = tick[u]
    BY <2>1, <2>2, MoveTypes
  <2>4. TypeOK'
    BY <2>1, <2>3 DEF TypeOK, table
  <2>5. \A u \in Ticks : tick'[u].at \in {"sending", "accepted"} =>
                         tick[u].at \in {"sending", "accepted"} /\ tick'[u].row = tick[u].row
    BY <2>1, <2>3
  <2> QED BY <2>1, <2>3, <2>4, <2>5, InTableKept DEF table
<1>9. ASSUME NEW t \in Ticks, SendOk(t) PROVE TypeOK' /\ InTable'
  <2>1. tick[t].row \in Ids /\ attempts[tick[t].row] + 1 \in Nat
    BY <1>9 DEF SendOk, TypeOK
  <2> QED BY <1>9, <2>1, AnswerTypes DEF SendOk, history, TypeOK
<1>10. ASSUME NEW t \in Ticks, SendFails(t) PROVE TypeOK' /\ InTable'
  <2> DEFINE k == tick[t].seen[tick[t].row] + 1
  <2>1. tick[t].row \in Ids /\ k \in Nat
    BY <1>10 DEF SendFails, TypeOK
  <2>2. due' \in SUBSET Ids /\ lost' \in SUBSET Ids
    BY <1>10, <2>1 DEF SendFails, TypeOK
  <2>3. \E next \in {"next", "notice"}, st \in {"queued", "failed"} :
          /\ status' = [status EXCEPT ![tick[t].row] = st]
          /\ attempts' = [attempts EXCEPT ![tick[t].row] = k]
          /\ tick' = [tick EXCEPT ![t].at = next, ![t].row = 0]
    BY <1>10 DEF SendFails
  <2>4. tick[t].at \in {"sending", "accepted"} /\ UNCHANGED <<n, relay, tries, accepted, contested, crashes>>
    BY <1>10 DEF SendFails
  <2> HIDE DEF k
  <2> QED BY <2>1, <2>2, <2>3, <2>4, AnswerTypes
<1>11. ASSUME NEW t \in Ticks, NoticeSent(t) PROVE TypeOK' /\ InTable'
  <2>1. /\ tick[t].at = "notice" /\ tick[t].row \in 0..MaxRows
        /\ tick' = [tick EXCEPT ![t].at = "next"]
        /\ UNCHANGED <<table, relay, history, crashes>>
    BY <1>11 DEF NoticeSent, TypeOK
  <2>2. tick' = [tick EXCEPT ![t].at = "next", ![t].row = tick[t].row]
    BY <2>1 DEF TypeOK
  <2>3. TypeOK'
    BY <2>1, <2>2, MoveTypes DEF TypeOK, table, history
  <2>4. \A u \in Ticks : /\ tick'[u].left \subseteq tick[u].left
                         /\ tick'[u].at \in {"sending", "accepted"} =>
                              tick[u].at \in {"sending", "accepted"} /\ tick'[u].row = tick[u].row
    BY <2>1, <2>2, MoveTypes
  <2> QED BY <2>1, <2>3, <2>4, InTableKept DEF table
<1> QED BY <1>1, <1>2, <1>3, <1>4, <1>5, <1>6, <1>7, <1>8, <1>9, <1>10, <1>11, <1>12
        DEF Next, TickStep, AtRest

\* Type correctness of the queue, with any number of overlapping ticks; a batch never
\* holds more rows than BATCH.
THEOREM EmailTypes == Spec => []TypeOK
<1> QED BY InitTypes, StepTypes, PTL DEF Spec
-----------------------------------------------------------------------------
(* Who holds a message: at most one tick, or it is contested *)

HeldApart ==
  \A t, u \in Ticks : t # u => Held(t) \cap Held(u) \subseteq contested

\* Nothing settles an uncontested row behind the back of the tick that holds it.
Claimed ==
  \A t \in Ticks :
    /\ tick[t].at \in {"sending", "accepted"} =>
         /\ tick[t].row \notin tick[t].left
         /\ tick[t].row \notin contested => status[tick[t].row] = "sending"
    /\ tick[t].at = "accepted" => accepted[tick[t].row] > 0
    /\ \A i \in tick[t].left \ contested : status[i] = "queued"

\* An uncontested message the relay took is recorded as sent, is about to be, or is lost.
OneCopy ==
  \A i \in Ids :
    accepted[i] > 0 /\ i \notin lost \cup contested =>
      /\ accepted[i] = 1
      /\ status[i] = "sent" \/ \E t \in Ticks : tick[t].at = "accepted" /\ tick[t].row = i

OnceInv == TypeOK /\ InTable /\ HeldApart /\ Claimed /\ OneCopy

LEMMA InitOnce == Init => OnceInv
<1> SUFFICES ASSUME Init PROVE OnceInv
  OBVIOUS
<1>1. \A t \in Ticks : tick[t].at = "idle" /\ tick[t].left = {}
  BY DEF Init, Idle
<1>2. Claimed /\ HeldApart
  BY <1>1 DEF Claimed, HeldApart, Held
<1>3. OneCopy
  BY DEF Init, OneCopy
<1> QED BY <1>2, <1>3, InitTypes DEF OnceInv

\* Starting a delivery of a row that no other tick holds, or that is now contested.
LEMMA SendOnce ==
  ASSUME OnceInv, TypeOK', InTable', NEW t \in Ticks, NEW i \in Ids,
         tick[t].at \in {"idle", "next"},
         contested \subseteq contested',
         i \notin contested' => status[i] = "queued",
         NEW left \in SUBSET Ids, i \notin left,
         \A j \in left \ contested' : status[j] = "queued",
         \A u \in Ticks \ {t} : ({i} \cup left) \cap Held(u) \subseteq contested',
         NEW seen \in [Ids -> Nat], Send(t, i, left, seen)
  PROVE  OnceInv'
<1>0. accepted' = accepted /\ lost' = lost
  BY DEF Send
<1>1. PICK at \in {"sending", "next"}, row \in {i, 0}, st \in {"sending", "sent"} :
        /\ tick' = [tick EXCEPT ![t] = [at |-> at, row |-> row, left |-> left, seen |-> seen]]
        /\ status' = [status EXCEPT ![i] = st]
        /\ at = "sending" => row = i /\ st = "sending"
  BY DEF Send
<1>2. /\ tick'[t].at = at /\ tick'[t].row = row /\ tick'[t].left = left
      /\ \A u \in Ticks \ {t} : tick'[u] = tick[u]
  BY <1>1 DEF OnceInv, TypeOK
<1>3. status'[i] = st /\ \A j \in Ids \ {i} : status'[j] = status[j]
  BY <1>1 DEF OnceInv, TypeOK
<1>4. Held(t)' \subseteq {i} \cup left /\ \A u \in Ticks \ {t} : Held(u)' = Held(u)
  BY <1>1, <1>2 DEF Held
<1>5. HeldApart'
  <2> SUFFICES ASSUME NEW u \in Ticks, NEW v \in Ticks, u # v,
                      NEW j \in Held(u)' \cap Held(v)'
               PROVE  j \in contested'
    BY DEF HeldApart
  <2>1. CASE u = t
    BY <1>4, <2>1
  <2>2. CASE v = t
    BY <1>4, <2>2
  <2>3. CASE u # t /\ v # t
    BY <1>4, <2>3 DEF OnceInv, HeldApart
  <2> QED BY <2>1, <2>2, <2>3
<1>6. Claimed'
  <2> SUFFICES ASSUME NEW u \in Ticks
               PROVE  /\ tick'[u].at \in {"sending", "accepted"} =>
                           /\ tick'[u].row \notin tick'[u].left
                           /\ tick'[u].row \notin contested' => status'[tick'[u].row] = "sending"
                      /\ tick'[u].at = "accepted" => accepted'[tick'[u].row] > 0
                      /\ \A j \in tick'[u].left \ contested' : status'[j] = "queued"
    BY DEF Claimed
  <2>1. CASE u = t
    BY <1>1, <1>2, <1>3, <2>1
  <2>2. CASE u # t
    <3>1. tick'[u] = tick[u] /\ \A j \in Held(u) \ contested' : j # i
      BY <1>2, <2>2
    <3>2. /\ tick[u].left \subseteq Ids
          /\ tick[u].at \in {"sending", "accepted"} => tick[u].row \in Ids
      BY DEF OnceInv, TypeOK
    <3>3. /\ tick[u].left \subseteq Held(u)
          /\ tick[u].at \in {"sending", "accepted"} => tick[u].row \in Held(u)
      BY DEF Held
    <3> QED BY <1>0, <1>3, <3>1, <3>2, <3>3 DEF OnceInv, Claimed
  <2> QED BY <2>1, <2>2
<1>7. OneCopy'
  <2> SUFFICES ASSUME NEW j \in Ids, accepted[j] > 0, j \notin lost \cup contested'
               PROVE  /\ accepted[j] = 1
                      /\ \/ status'[j] = "sent"
                         \/ \E u \in Ticks : tick'[u].at = "accepted" /\ tick'[u].row = j
    BY <1>0 DEF OneCopy
  <2>1. /\ accepted[j] = 1
        /\ status[j] = "sent" \/ \E u \in Ticks : tick[u].at = "accepted" /\ tick[u].row = j
    BY DEF OnceInv, OneCopy
  <2>2. ASSUME NEW u \in Ticks, tick[u].at = "accepted", tick[u].row = j
        PROVE  u # t /\ j # i /\ tick'[u] = tick[u]
    <3>1. u # t
      BY <2>2
    <3>2. j \in Held(u)
      BY <2>2 DEF Held
    <3> QED BY <1>2, <3>1, <3>2
  <2>3. CASE j = i
    BY <2>1, <2>2, <2>3
  <2>4. CASE j # i
    BY <1>3, <2>1, <2>2, <2>4
  <2> QED BY <2>3, <2>4
<1> QED BY <1>5, <1>6, <1>7 DEF OnceInv

\* The end of a delivery: recorded, or lost when the relay had taken the message.
LEMMA AnswerOnce ==
  ASSUME OnceInv, TypeOK', InTable', NEW t \in Ticks,
         tick[t].at \in {"sending", "accepted"},
         NEW next \in {"next", "notice"}, NEW st \in {"queued", "sent", "failed"},
         status' = [status EXCEPT ![tick[t].row] = st],
         tick' = [tick EXCEPT ![t].at = next, ![t].row = 0],
         lost' = IF st # "sent" /\ tick[t].at = "accepted" THEN lost \cup {tick[t].row} ELSE lost,
         accepted' = accepted, contested' = contested
  PROVE  OnceInv'
<1> DEFINE r == tick[t].row
<1>0. r \in Ids /\ r \notin tick[t].left /\ tick[t].left \subseteq Ids /\ r \in Held(t)
  BY DEF OnceInv, Claimed, TypeOK, Held
<1>1. /\ tick'[t].at = next /\ tick'[t].left = tick[t].left
      /\ \A u \in Ticks \ {t} : tick'[u] = tick[u]
  BY DEF OnceInv, TypeOK
<1>2. status'[r] = st /\ \A j \in Ids \ {r} : status'[j] = status[j]
  BY <1>0 DEF OnceInv, TypeOK
<1>3. \A u \in Ticks : Held(u)' \subseteq Held(u)
  BY <1>1 DEF Held
<1>4. HeldApart'
  BY <1>3 DEF OnceInv, HeldApart
<1>5. Claimed'
  <2> SUFFICES ASSUME NEW u \in Ticks
               PROVE  /\ tick'[u].at \in {"sending", "accepted"} =>
                           /\ tick'[u].row \notin tick'[u].left
                           /\ tick'[u].row \notin contested => status'[tick'[u].row] = "sending"
                      /\ tick'[u].at = "accepted" => accepted[tick'[u].row] > 0
                      /\ \A j \in tick'[u].left \ contested : status'[j] = "queued"
    BY DEF Claimed
  <2>0. /\ tick[u].at \in {"sending", "accepted"} =>
             /\ tick[u].row \notin tick[u].left
             /\ tick[u].row \notin contested => status[tick[u].row] = "sending"
        /\ tick[u].at = "accepted" => accepted[tick[u].row] > 0
        /\ \A j \in tick[u].left \ contested : status[j] = "queued"
    BY DEF OnceInv, Claimed
  <2>1. CASE u = t
    <3> HIDE DEF r
    <3> QED BY <1>0, <1>1, <1>2, <2>0, <2>1
  <2>2. CASE u # t
    <3>1. tick'[u] = tick[u] /\ \A j \in Held(u) \ contested : j # r
      BY <1>0, <1>1, <2>2 DEF OnceInv, HeldApart
    <3>2. /\ tick[u].left \subseteq Ids
          /\ tick[u].at \in {"sending", "accepted"} => tick[u].row \in Ids
      BY DEF OnceInv, TypeOK
    <3>3. /\ tick[u].left \subseteq Held(u)
          /\ tick[u].at \in {"sending", "accepted"} => tick[u].row \in Held(u)
      BY DEF Held
    <3> HIDE DEF r
    <3> QED BY <1>2, <2>0, <3>1, <3>2, <3>3
  <2> QED BY <2>1, <2>2
<1>6. OneCopy'
  <2> SUFFICES ASSUME NEW j \in Ids, accepted[j] > 0, j \notin lost' \cup contested
               PROVE  /\ accepted[j] = 1
                      /\ \/ status'[j] = "sent"
                         \/ \E u \in Ticks : tick'[u].at = "accepted" /\ tick'[u].row = j
    BY DEF OneCopy
  <2>1. /\ accepted[j] = 1
        /\ status[j] = "sent" \/ \E u \in Ticks : tick[u].at = "accepted" /\ tick[u].row = j
    BY DEF OnceInv, OneCopy
  <2>2. ASSUME NEW u \in Ticks \ {t}, tick[u].at = "accepted", tick[u].row = j
        PROVE  tick'[u].at = "accepted" /\ tick'[u].row = j
    BY <1>1, <2>2
  <2>3. CASE j = r
    <3>1. status[r] = "sending"
      BY <2>3 DEF OnceInv, Claimed
    <3>2. PICK u \in Ticks : tick[u].at = "accepted" /\ tick[u].row = j
      BY <2>1, <2>3, <3>1
    <3>3. CASE u = t
      BY <1>2, <2>1, <2>3, <3>2, <3>3
    <3>4. CASE u # t
      BY <2>1, <2>2, <3>2, <3>4
    <3> QED BY <3>3, <3>4
  <2>4. CASE j # r
    BY <1>2, <2>1, <2>2, <2>4
  <2> QED BY <2>3, <2>4
<1> QED BY <1>4, <1>5, <1>6 DEF OnceInv

\* Rows read by a tick, of which one is taken; those another tick holds are contested.
LEMMA BatchRows ==
  ASSUME TypeOK, NEW t \in Ticks, Select(t)
  PROVE  /\ tick[t].at = "idle"
         /\ \E i \in Ids, left \in SUBSET Ids, seen \in [Ids -> Nat] :
              /\ status[i] = "queued" /\ i \notin left /\ \A j \in left : status[j] = "queued"
              /\ contested' = contested \cup
                                {j \in {i} \cup left : \E u \in Ticks \ {t} : j \in Held(u)}
              /\ Send(t, i, left, seen)
<1> DEFINE read == [j \in Ids |-> IF j \in Oldest(Due) THEN attempts[j] ELSE 0]
<1>1. PICK i \in Oldest(Due) : Send(t, i, Oldest(Due) \ {i}, read)
  BY DEF Select
<1>2. Oldest(Due) \subseteq Ids /\ \A j \in Oldest(Due) : status[j] = "queued"
  BY DEF Oldest, Due
<1>3. read \in [Ids -> Nat]
  BY DEF TypeOK
<1>4. /\ tick[t].at = "idle" /\ {i} \cup (Oldest(Due) \ {i}) = Oldest(Due)
      /\ contested' = contested \cup {j \in Oldest(Due) : \E u \in Ticks \ {t} : j \in Held(u)}
  BY DEF Select
<1> HIDE DEF read
<1> QED BY <1>1, <1>2, <1>3, <1>4

\* The next row of a tick.
LEMMA NextRows ==
  ASSUME OnceInv, NEW t \in Ticks, NextRow(t)
  PROVE  \E i \in tick[t].left :
           /\ i \in Ids /\ (i \notin contested => status[i] = "queued")
           /\ tick[t].at = "next" /\ contested' = contested
           /\ tick[t].left \in SUBSET Ids /\ tick[t].seen \in [Ids -> Nat]
           /\ Send(t, i, tick[t].left \ {i}, tick[t].seen)
BY DEF NextRow, OnceInv, TypeOK, Claimed

\* A step that takes no row up and settles none.
LEMMA OnceKept ==
  ASSUME OnceInv, TypeOK', InTable',
         \A t \in Ticks : \/ tick'[t] = tick[t]
                          \/ /\ tick'[t].at \notin {"sending", "accepted"}
                             /\ tick[t].at # "accepted"
                             /\ tick'[t].left \subseteq tick[t].left,
         \A i \in Ids : status'[i] = status[i] \/ status[i] = "none",
         accepted' = accepted, lost' = lost, contested' = contested
  PROVE  OnceInv'
<1>1. \A t \in Ticks : Held(t)' \subseteq Held(t)
  BY DEF Held
<1>2. HeldApart'
  BY <1>1 DEF OnceInv, HeldApart
<1>3. Claimed'
  BY DEF OnceInv, Claimed, TypeOK, InTable
<1>4. OneCopy'
  BY DEF OnceInv, OneCopy
<1> QED BY <1>2, <1>3, <1>4 DEF OnceInv

\* Every step keeps the invariant.
LEMMA StepOnce ==
  ASSUME OnceInv, TypeOK', InTable', [Next]_vars
  PROVE  OnceInv'
<1>1. ASSUME UNCHANGED vars PROVE OnceInv'
  BY <1>1, OnceKept DEF vars, table, history
<1>2. ASSUME Enqueue PROVE OnceInv'
  <2>1. n + 1 \in Ids /\ status[n + 1] = "none" /\ n \in Nat
    BY <1>2, QueueConstants DEF Enqueue, OnceInv, TypeOK, Ids
  <2>2. \A i \in Ids : status'[i] = status[i] \/ status[i] = "none"
    BY <1>2, <2>1 DEF Enqueue, OnceInv, TypeOK
  <2> QED BY <1>2, <2>2, OnceKept DEF Enqueue, history
<1>3. ASSUME Restart PROVE OnceInv'
  <2>1. \A t \in Ticks : tick'[t] = Idle
    BY <1>3 DEF Restart
  <2>2. Claimed' /\ HeldApart'
    BY <2>1 DEF Claimed, HeldApart, Held, Idle
  <2>3. OneCopy'
    <3> SUFFICES ASSUME NEW j \in Ids, accepted[j] > 0, j \notin lost' \cup contested
                 PROVE  accepted[j] = 1 /\ status'[j] = "sent"
      BY <1>3 DEF Restart, OneCopy
    <3>1. j \notin lost /\ ~\E t \in Ticks : tick[t].at = "accepted" /\ tick[t].row = j
      BY <1>3 DEF Restart
    <3>2. accepted[j] = 1 /\ status[j] = "sent"
      BY <3>1 DEF OnceInv, OneCopy
    <3> QED BY <1>3, <3>2 DEF Restart, BootReset
  <2> QED BY <2>2, <2>3 DEF OnceInv
<1>4. ASSUME NEW i \in Ids, BecomesDue(i) PROVE OnceInv'
  BY <1>4, OnceKept DEF BecomesDue, history
<1>5. ASSUME Configure PROVE OnceInv'
  BY <1>5, OnceKept DEF Configure, table, history
<1>6. ASSUME NEW t \in Ticks, Select(t) PROVE OnceInv'
  BY <1>6, BatchRows, SendOnce DEF OnceInv
<1>7. ASSUME NEW t \in Ticks, NextRow(t) PROVE OnceInv'
  <2>1. PICK i \in tick[t].left :
           /\ i \in Ids /\ (i \notin contested => status[i] = "queued")
           /\ tick[t].at = "next" /\ contested' = contested
           /\ tick[t].left \in SUBSET Ids /\ tick[t].seen \in [Ids -> Nat]
           /\ Send(t, i, tick[t].left \ {i}, tick[t].seen)
    BY <1>7, NextRows
  <2>2. \A j \in tick[t].left \ contested : status[j] = "queued"
    BY DEF OnceInv, Claimed
  <2>3. \A u \in Ticks \ {t} : tick[t].left \cap Held(u) \subseteq contested
    BY DEF OnceInv, HeldApart, Held
  <2> DEFINE left == tick[t].left \ {i}
  <2>4. left \in SUBSET Ids /\ i \notin left /\ {i} \cup left = tick[t].left
    BY <2>1
  <2> HIDE DEF left
  <2>5. /\ \A j \in left \ contested' : status[j] = "queued"
        /\ \A u \in Ticks \ {t} : ({i} \cup left) \cap Held(u) \subseteq contested'
    BY <2>1, <2>2, <2>3, <2>4
  <2>6. Send(t, i, left, tick[t].seen)
    BY <2>1 DEF left
  <2> QED BY <2>1, <2>4, <2>5, <2>6, SendOnce
<1>8. ASSUME NEW t \in Ticks, EndTick(t) PROVE OnceInv'
  <2>1. \A u \in Ticks : tick'[u] = tick[u] \/ (u = t /\ tick'[u] = Idle /\ tick[u].at = "next")
    BY <1>8 DEF EndTick, OnceInv, TypeOK
  <2> QED BY <1>8, <2>1, OnceKept DEF EndTick, Idle, table, history
<1>9. ASSUME NEW t \in Ticks, RelayAccepts(t) PROVE OnceInv'
  <2> DEFINE r == tick[t].row
  <2>1. /\ tick[t].at = "sending" /\ r \in Ids /\ r \notin tick[t].left /\ r \in Held(t)
        /\ status' = status /\ lost' = lost /\ contested' = contested
    BY <1>9 DEF RelayAccepts, OnceInv, TypeOK, Claimed, table, Held
  <2>2. /\ accepted'[r] = accepted[r] + 1 /\ \A j \in Ids : accepted[j] \in Nat
        /\ \A j \in Ids \ {r} : accepted'[j] = accepted[j]
    BY <1>9, <2>1 DEF RelayAccepts, OnceInv, TypeOK
  <2>3. /\ tick'[t].at = "accepted" /\ tick'[t].row = r /\ tick'[t].left = tick[t].left
        /\ \A u \in Ticks \ {t} : tick'[u] = tick[u]
    BY <1>9 DEF RelayAccepts, OnceInv, TypeOK
  <2>4. HeldApart'
    <3>1. \A u \in Ticks : Held(u)' \subseteq Held(u)
      BY <2>1, <2>3 DEF Held
    <3> QED BY <2>1, <3>1 DEF OnceInv, HeldApart
  <2>5. Claimed'
    <3> SUFFICES ASSUME NEW u \in Ticks
                 PROVE  /\ tick'[u].at \in {"sending", "accepted"} =>
                             /\ tick'[u].row \notin tick'[u].left
                             /\ tick'[u].row \notin contested => status[tick'[u].row] = "sending"
                        /\ tick'[u].at = "accepted" => accepted'[tick'[u].row] > 0
                        /\ \A j \in tick'[u].left \ contested : status[j] = "queued"
      BY <2>1 DEF Claimed
    <3>1. tick'[u].row = tick[u].row /\ tick'[u].left = tick[u].left
      BY <2>3
    <3>2. tick'[u].at \in {"sending", "accepted"} => tick[u].at \in {"sending", "accepted"}
      BY <2>1, <2>3
    <3>3. tick'[u].at = "accepted" => u = t \/ tick[u].at = "accepted"
      BY <2>3
    <3>4. tick[u].at = "accepted" => tick[u].row \in Ids /\ accepted[tick[u].row] > 0
      BY DEF OnceInv, Claimed, TypeOK
    <3>5. \A j \in Ids : accepted[j] > 0 => accepted'[j] > 0
      BY <2>2
    <3>6. accepted'[r] > 0
      BY <2>1, <2>2
    <3>7. tick'[u].at = "accepted" => accepted'[tick'[u].row] > 0
      BY <3>1, <3>3, <3>4, <3>5, <3>6
    <3> QED BY <3>1, <3>2, <3>7 DEF OnceInv, Claimed
  <2>6. OneCopy'
    <3> SUFFICES ASSUME NEW j \in Ids, accepted'[j] > 0, j \notin lost \cup contested
                 PROVE  /\ accepted'[j] = 1
                        /\ \/ status[j] = "sent"
                           \/ \E u \in Ticks : tick'[u].at = "accepted" /\ tick'[u].row = j
      BY <2>1 DEF OneCopy
    <3>1. CASE j = r
      <4>1. status[r] = "sending"
        BY <2>1, <3>1 DEF OnceInv, Claimed
      <4>2. \A u \in Ticks : tick[u].at = "accepted" => tick[u].row # r
        <5> SUFFICES ASSUME NEW u \in Ticks, tick[u].at = "accepted", tick[u].row = r
                     PROVE  FALSE
          OBVIOUS
        <5>1. u # t /\ r \in Held(u)
          BY <2>1 DEF Held
        <5> QED BY <2>1, <3>1, <5>1 DEF OnceInv, HeldApart
      <4>3. accepted[r] = 0
        BY <2>1, <2>2, <3>1, <4>1, <4>2 DEF OnceInv, OneCopy
      <4> QED BY <2>2, <2>3, <3>1, <4>3
    <3>2. CASE j # r
      <4>1. /\ accepted[j] = 1
            /\ status[j] = "sent" \/ \E u \in Ticks : tick[u].at = "accepted" /\ tick[u].row = j
        BY <2>2, <3>2 DEF OnceInv, OneCopy
      <4> QED BY <2>1, <2>2, <2>3, <3>2, <4>1
    <3> QED BY <3>1, <3>2
  <2> QED BY <2>4, <2>5, <2>6 DEF OnceInv
<1>10. ASSUME NEW t \in Ticks, SendOk(t) PROVE OnceInv'
  BY <1>10, AnswerOnce DEF SendOk, history
<1>11. ASSUME NEW t \in Ticks, SendFails(t) PROVE OnceInv'
  <2>1. \E next \in {"next", "notice"}, st \in {"queued", "failed"} :
          /\ status' = [status EXCEPT ![tick[t].row] = st]
          /\ tick' = [tick EXCEPT ![t].at = next, ![t].row = 0]
    BY <1>11 DEF SendFails
  <2>2. /\ tick[t].at \in {"sending", "accepted"} /\ accepted' = accepted
        /\ contested' = contested
        /\ lost' = IF tick[t].at = "accepted" THEN lost \cup {tick[t].row} ELSE lost
    BY <1>11 DEF SendFails
  <2> QED BY <2>1, <2>2, AnswerOnce
<1>12. ASSUME NEW t \in Ticks, NoticeSent(t) PROVE OnceInv'
  <2>1. \A u \in Ticks : \/ tick'[u] = tick[u]
                         \/ /\ tick'[u].at = "next" /\ tick[u].at = "notice"
                            /\ tick'[u].left = tick[u].left
    BY <1>12 DEF NoticeSent, OnceInv, TypeOK
  <2> QED BY <1>12, <2>1, OnceKept DEF NoticeSent, table, history
<1> QED BY <1>1, <1>2, <1>3, <1>4, <1>5, <1>6, <1>7, <1>8, <1>9, <1>10, <1>11, <1>12
        DEF Next, TickStep, AtRest

\* However many ticks overlap and restarts interrupt them, the relay takes a message
\* twice only when an answer was lost, the server died before it could record it, or
\* two ticks had both read the row.
THEOREM NoNeedlessDuplicate == Spec => []DuplicateOnlyWithReason
<1>1. OnceInv => DuplicateOnlyWithReason
  BY DEF OnceInv, OneCopy, DuplicateOnlyWithReason, TypeOK
<1>2. TypeOK' /\ InTable' /\ OnceInv /\ [Next]_vars => OnceInv'
  BY StepOnce
<1>3. OnceInv => TypeOK /\ InTable
  BY DEF OnceInv
<1> QED BY <1>1, <1>2, <1>3, InitOnce, StepTypes, PTL DEF Spec
-----------------------------------------------------------------------------
(* The queue implements the outbox *)

MailOf == [i \in Ids |-> IF status[i] \in {"queued", "sending"} THEN "waiting" ELSE status[i]]
TakenOf == {i \in Ids : accepted[i] > 0}
boxVars == <<MailOf, TakenOf, relay, contested>>

\* Waiting rows.
Waits == {i \in Ids : MailOf[i] = "waiting"}

\* A write of one row, seen from the outbox.
LEMMA RowWritten ==
  ASSUME TypeOK, NEW i \in Ids, NEW st, status' = [status EXCEPT ![i] = st]
  PROVE  MailOf' = [MailOf EXCEPT ![i] = IF st \in {"queued", "sending"} THEN "waiting" ELSE st]
BY DEF TypeOK, MailOf

\* Nobody else takes a message up.
LEMMA NoContest == contested' = contested => Box!Contend
<1> SUFFICES ASSUME contested' = contested
             PROVE  \E S \in SUBSET {i \in Ids : MailOf[i] = "waiting"} : contested' = contested \cup S
  BY DEF Box!Contend, MailOf
<1>1. {} \in SUBSET {i \in Ids : MailOf[i] = "waiting"} /\ contested' = contested \cup {}
  OBVIOUS
<1> QED BY <1>1

\* A row that waits is settled, or waits on, while messages that wait are contested.
LEMMA RowStep ==
  ASSUME TypeOK, NEW i \in Ids, NEW st \in {"queued", "sending", "sent", "failed"},
         status[i] \in {"queued", "sending"},
         st = "sent" => accepted[i] > 0 \/ ~relay,
         status' = [status EXCEPT ![i] = st], accepted' = accepted, relay' = relay,
         NEW S \in SUBSET Waits, contested' = contested \cup S
  PROVE  Box!Next
<1>1. /\ MailOf' = [MailOf EXCEPT ![i] = IF st \in {"queued", "sending"} THEN "waiting" ELSE st]
      /\ MailOf[i] = "waiting" /\ TakenOf' = TakenOf
  BY RowWritten DEF MailOf, TakenOf
<1>2. Box!Contend
  BY DEF Box!Contend, Waits, MailOf
<1>3. CASE st = "sent"
  <2>1. i \in TakenOf \/ ~relay
    BY <1>3 DEF TakenOf
  <2> QED BY <1>1, <1>2, <1>3, <2>1 DEF Box!Next, Box!Sent, MailOf, TakenOf
<1>4. CASE st = "failed"
  BY <1>1, <1>2, <1>4 DEF Box!Next, Box!GiveUp, MailOf, TakenOf
<1>5. CASE st \in {"queued", "sending"}
  <2>1. MailOf' = MailOf
    BY <1>1, <1>5 DEF MailOf
  <2> QED BY <1>1, <1>2, <2>1 DEF Box!Next, MailOf, TakenOf
<1> QED BY <1>3, <1>4, <1>5

\* Whatever is written of a contested row, the outbox allows it.
LEMMA AgainStep ==
  ASSUME TypeOK, NEW i \in Ids, NEW st \in {"queued", "sending", "sent", "failed"},
         i \in contested,
         status' = [status EXCEPT ![i] = st],
         TakenOf' = TakenOf \/ TakenOf' = TakenOf \cup {i},
         relay' = relay, contested' = contested
  PROVE  Box!Next
<1>1. PICK m \in {"sent", "failed", "waiting"} : MailOf' = [MailOf EXCEPT ![i] = m]
  BY RowWritten
<1>2. Box!Contend
  BY NoContest
<1>3. Box!Again(i)
  BY <1>1 DEF Box!Again, Box!Settled, MailOf, TakenOf
<1> QED BY <1>2, <1>3 DEF Box!Next

\* A delivery that begins, or that is over at once for want of a relay.
LEMMA SendBox ==
  ASSUME TypeOK, NEW t, NEW i \in Ids, NEW left, NEW seen, Send(t, i, left, seen),
         \/ status[i] = "queued" /\ \E S \in SUBSET Waits : contested' = contested \cup S
         \/ i \in contested /\ contested' = contested
  PROVE  Box!Next
<1>1. PICK st \in {"sending", "sent"} :
        status' = [status EXCEPT ![i] = st] /\ (st = "sent" => ~relay)
  BY DEF Send
<1>2. accepted' = accepted /\ relay' = relay /\ TakenOf' = TakenOf
  BY DEF Send, TakenOf
<1>3. CASE status[i] = "queued" /\ \E S \in SUBSET Waits : contested' = contested \cup S
  BY <1>1, <1>2, <1>3, RowStep
<1>4. CASE i \in contested /\ contested' = contested
  BY <1>1, <1>2, <1>4, AgainStep
<1> QED BY <1>3, <1>4

\* A step of the queue is a step of the outbox or changes nothing there.
LEMMA StepBox ==
  ASSUME OnceInv, TypeOK', [Next]_vars
  PROVE  Box!Next \/ UNCHANGED boxVars
<1> USE DEF OnceInv
<1>0. \A S \in SUBSET Ids : S = {} => contested = contested \cup S
  OBVIOUS
<1>1. ASSUME UNCHANGED vars PROVE UNCHANGED boxVars
  BY <1>1 DEF vars, table, history, MailOf, TakenOf, boxVars
<1>2. ASSUME Enqueue PROVE Box!Next
  <2>1. n + 1 \in Ids /\ status[n + 1] = "none"
    BY <1>2, QueueConstants DEF Enqueue, TypeOK, Ids
  <2>2. /\ MailOf[n + 1] = "none" /\ MailOf' = [MailOf EXCEPT ![n + 1] = "waiting"]
        /\ TakenOf' = TakenOf /\ relay' = relay /\ contested' = contested
    <3>1. status' = [status EXCEPT ![n + 1] = "queued"] /\ UNCHANGED <<accepted, relay, contested>>
      BY <1>2 DEF Enqueue, history
    <3> QED BY <2>1, <3>1, RowWritten DEF MailOf, TakenOf
  <2>3. Box!Contend
    BY <2>2, NoContest
  <2> QED BY <2>1, <2>2, <2>3 DEF Box!Next, Box!Submit, MailOf, TakenOf
<1>3. ASSUME Restart PROVE UNCHANGED boxVars
  <2>1. \A i \in Ids : (IF status'[i] \in {"queued", "sending"} THEN "waiting" ELSE status'[i])
                     = (IF status[i] \in {"queued", "sending"} THEN "waiting" ELSE status[i])
    BY <1>3 DEF Restart, BootReset, TypeOK
  <2>2. UNCHANGED <<accepted, relay, contested>>
    BY <1>3 DEF Restart
  <2> QED BY <2>1, <2>2 DEF MailOf, TakenOf, boxVars
<1>4. ASSUME NEW i \in Ids, BecomesDue(i) PROVE UNCHANGED boxVars
  BY <1>4 DEF BecomesDue, history, MailOf, TakenOf, boxVars
<1>5. ASSUME Configure PROVE Box!Next
  <2>1. relay' = ~relay /\ MailOf' = MailOf /\ TakenOf' = TakenOf /\ contested' = contested
    BY <1>5 DEF Configure, table, history, MailOf, TakenOf
  <2>2. Box!Contend
    BY <2>1, NoContest
  <2> QED BY <2>1, <2>2 DEF Box!Next, Box!Configure, MailOf, TakenOf
<1>6. ASSUME NEW t \in Ticks, Select(t) PROVE Box!Next
  <2>1. PICK i \in Ids, left \in SUBSET Ids, seen \in [Ids -> Nat] :
              /\ status[i] = "queued" /\ i \notin left /\ \A j \in left : status[j] = "queued"
              /\ contested' = contested \cup
                                {j \in {i} \cup left : \E u \in Ticks \ {t} : j \in Held(u)}
              /\ Send(t, i, left, seen)
    BY <1>6, BatchRows
  <2> DEFINE S == {j \in {i} \cup left : \E u \in Ticks \ {t} : j \in Held(u)}
  <2>2. S \in SUBSET Waits
    BY <2>1 DEF Waits, MailOf
  <2> HIDE DEF S
  <2>3. contested' = contested \cup S
    BY <2>1 DEF S
  <2> QED BY <2>1, <2>2, <2>3, SendBox
<1>7. ASSUME NEW t \in Ticks, NextRow(t) PROVE Box!Next
  <2>1. PICK i \in tick[t].left :
           /\ i \in Ids /\ (i \notin contested => status[i] = "queued")
           /\ contested' = contested
           /\ Send(t, i, tick[t].left \ {i}, tick[t].seen)
    BY <1>7, NextRows
  <2>2. \E S \in SUBSET Waits : contested' = contested \cup S
    <3>1. {} \in SUBSET Waits /\ contested' = contested \cup {}
      BY <2>1
    <3> QED BY <3>1
  <2> QED BY <2>1, <2>2, SendBox
<1>8. ASSUME NEW t \in Ticks, EndTick(t) \/ NoticeSent(t) PROVE UNCHANGED boxVars
  BY <1>8 DEF EndTick, NoticeSent, table, history, MailOf, TakenOf, boxVars
<1>9. ASSUME NEW t \in Ticks, RelayAccepts(t) PROVE Box!Next
  <2> DEFINE r == tick[t].row
  <2>1. /\ r \in Ids /\ accepted[r] \in Nat
        /\ status[r] \in {"queued", "sending", "sent", "failed"}
        /\ r \notin contested => status[r] = "sending"
    BY <1>9 DEF RelayAccepts, Claimed, TypeOK, InTable
  <2>2. /\ status' = status /\ accepted' = [accepted EXCEPT ![r] = accepted[r] + 1]
        /\ relay' = relay /\ contested' = contested
    BY <1>9 DEF RelayAccepts, table
  <2> HIDE DEF r
  <2>3. MailOf' = MailOf /\ TakenOf' = TakenOf \cup {r}
    BY <2>1, <2>2 DEF TypeOK, MailOf, TakenOf
  <2>4. CASE r \in contested
    <3>1. status' = [status EXCEPT ![r] = status[r]]
      BY <2>2 DEF TypeOK
    <3> QED BY <2>1, <2>2, <2>3, <2>4, <3>1, AgainStep
  <2>5. CASE r \notin contested
    <3>1. MailOf[r] = "waiting"
      BY <2>1, <2>5 DEF MailOf
    <3>2. Box!Contend
      BY <2>2, NoContest
    <3> QED BY <2>1, <2>2, <2>3, <3>1, <3>2 DEF Box!Next, Box!Take, MailOf, TakenOf
  <2> QED BY <2>4, <2>5
<1>10. ASSUME NEW t \in Ticks, SendOk(t) \/ SendFails(t) PROVE Box!Next
  <2> DEFINE r == tick[t].row
  <2>1. /\ r \in Ids
        /\ r \notin contested => status[r] = "sending"
    BY <1>10 DEF SendOk, SendFails, Claimed, TypeOK
  <2>2. PICK st \in {"queued", "sent", "failed"} :
          /\ status' = [status EXCEPT ![r] = st]
          /\ st = "sent" => accepted[r] > 0
    BY <1>10 DEF SendOk, SendFails, Claimed
  <2>3. accepted' = accepted /\ relay' = relay /\ contested' = contested /\ TakenOf' = TakenOf
    BY <1>10 DEF SendOk, SendFails, history, TakenOf
  <2>4. CASE r \in contested
    BY <2>1, <2>2, <2>3, <2>4, AgainStep
  <2>5. CASE r \notin contested
    <3>1. {} \in SUBSET Waits /\ contested' = contested \cup {}
      BY <2>3
    <3> HIDE DEF r
    <3> QED BY <2>1, <2>2, <2>3, <2>5, <3>1, RowStep
  <2> QED BY <2>4, <2>5
<1> QED BY <1>1, <1>2, <1>3, <1>4, <1>5, <1>6, <1>7, <1>8, <1>9, <1>10
        DEF Next, TickStep, AtRest

\* However many ticks overlap and restarts interrupt them, the queue takes only steps
\* the outbox allows: but for contested messages each is settled once, is never handed
\* to the relay after that, and is settled as sent only if the relay took it or there
\* was none.
THEOREM QueueIsAnOutbox == Spec => OutboxSteps
<1>1. Init => Box!Init
  BY DEF Init, Box!Init
<1>2. TypeOK' /\ OnceInv /\ [Next]_vars => [Box!Next]_boxVars
  BY StepBox
<1>3. TypeOK' /\ InTable' /\ OnceInv /\ [Next]_vars => OnceInv'
  BY StepOnce
<1>4. OnceInv => TypeOK /\ InTable
  BY DEF OnceInv
<1> QED
  BY <1>1, <1>2, <1>3, <1>4, InitOnce, StepTypes, PTL
     DEF Spec, OutboxSteps, Box!Spec, Box!vars, boxVars, MailOf, TakenOf
=============================================================================
