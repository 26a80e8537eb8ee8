-------------------------- MODULE AuditChainProofs --------------------------
(***************************************************************************)
(* For every number of events, days, windows, batch size and threshold of  *)
(* compaction: the chain stays linked down to its floor, a row that was    *)
(* changed by hand before a verification is in its report unless a signed  *)
(* window explains that it is gone, and a verification that no prune and   *)
(* no compaction runs into reports no other row.                           *)
(***************************************************************************)
EXTENDS AuditChain, TLAPS, FiniteSetTheorems, WellFoundedInduction

-----------------------------------------------------------------------------
(* Sets of rows *)

LEMMA RowIds ==
  /\ \A j \in 0..MaxRows : j \in Nat
  /\ \A j \in Ids : j \in Nat /\ j \in 0..MaxRows /\ 0 < j
BY AuditConstants DEF Ids

LEMMA Bounds ==
  /\ MaxRows \in Nat /\ MaxTime \in Nat /\ Batch \in Nat \ {0} /\ MinCompact \in Nat \ {0}
  /\ Days \in SUBSET Nat
  /\ Ids = 1..MaxRows /\ Ids \in SUBSET (0..MaxRows)
  /\ IsFiniteSet(0..MaxRows)
<1>1. MaxRows \in Nat /\ MaxTime \in Nat /\ Batch \in Nat \ {0} /\ MinCompact \in Nat \ {0}
  BY AuditConstants
<1>2. Days \in SUBSET Nat  BY AuditConstants
<1>3. IsFiniteSet(0..MaxRows)  BY <1>1, FS_Interval
<1>4. Ids = 1..MaxRows /\ Ids \in SUBSET (0..MaxRows)  BY <1>1 DEF Ids
<1>5. QED  BY <1>1, <1>2, <1>3, <1>4

\* Of finitely many rows one is the last.
LEMMA LastOne ==
  ASSUME NEW S \in SUBSET (0..MaxRows), S # {}
  PROVE  MaxOf(S) \in S /\ \A j \in S : j <= MaxOf(S)
<1> DEFINE above(i) == {j \in S : j > i}
           T == {above(i) : i \in S}
           R == StrictSubsetOrdering(S)
<1>0. \A k \in S : k \in Nat  BY Bounds
<1>1. IsFiniteSet(S)  BY Bounds, FS_Subset
<1>2. \A i \in S : above(i) \in FiniteSubsetsOf(S)
  <2> SUFFICES ASSUME NEW i \in S PROVE above(i) \in FiniteSubsetsOf(S)  OBVIOUS
  <2>1. above(i) \in SUBSET S  OBVIOUS
  <2>2. IsFiniteSet(above(i))  BY <1>1, <2>1, FS_Subset
  <2>3. QED  BY <2>1, <2>2 DEF FiniteSubsetsOf
<1>3. T \subseteq FiniteSubsetsOf(S) /\ T # {}  BY <1>2
<1>4. PICK x \in T : \A y \in T : ~(<<y, x>> \in R)
  <2> HIDE DEF T, R
  <2>1. IsWellFoundedOn(R, FiniteSubsetsOf(S))  BY FS_StrictSubsetOrderingWellFounded DEF R
  <2>2. QED  BY <1>3, <2>1, WFMin
<1>5. PICK m \in S : x = above(m)  BY <1>4
<1>6. \A j \in S : j <= m
  <2> SUFFICES ASSUME NEW j \in S, ~(j <= m) PROVE FALSE  OBVIOUS
  <2>1. m < j  BY <1>0
  <2>2. j \in above(m) /\ j \notin above(j)  BY <1>0, <2>1
  <2>3. \A k \in above(j) : k \in above(m)  BY <1>0, <2>1
  <2>4. <<above(j), above(m)>> \in R  BY <2>2, <2>3 DEF StrictSubsetOrdering
  <2>5. QED  BY <1>4, <1>5, <2>4
<1>7. QED  BY <1>6 DEF MaxOf

LEMMA MaxIs ==
  ASSUME NEW S \in SUBSET (0..MaxRows), NEW m \in S, \A j \in S : j <= m
  PROVE  MaxOf(S) = m
<1>1. MaxOf(S) \in S /\ \A j \in S : j <= MaxOf(S)  BY ONLY LastOne, m \in S, S \in SUBSET (0..MaxRows)
<1>2. MaxOf(S) <= m /\ m <= MaxOf(S)  BY <1>1
<1>3. MaxOf(S) \in Nat /\ m \in Nat  BY <1>1, RowIds
<1>4. QED  BY ONLY <1>2, <1>3

\* Of some rows one is the first.
LEMMA FirstOne ==
  ASSUME NEW S \in SUBSET (0..MaxRows), S # {}
  PROVE  \E m \in S : \A j \in S : m <= j
<1> DEFINE T == {MaxRows - j : j \in S}
<1>1. \A j \in S : j \in Nat /\ j <= MaxRows /\ MaxRows - j \in 0..MaxRows  BY Bounds
<1>2. T \in SUBSET (0..MaxRows) /\ T # {}  BY <1>1
<1>3. MaxOf(T) \in T /\ \A x \in T : x <= MaxOf(T)
  <2> HIDE DEF T
  <2>1. QED  BY <1>2, LastOne
<1>4. PICK m \in S : MaxOf(T) = MaxRows - m  BY <1>3
<1>5. \A j \in S : MaxRows - j <= MaxRows - m  BY <1>3, <1>4
<1>6. \A j \in S : m <= j  BY <1>1, <1>5, Bounds
<1>7. QED  BY <1>6

LEMMA Counts ==
  ASSUME NEW S \in SUBSET (0..MaxRows), NEW T \in SUBSET S
  PROVE  Cardinality(S) \in Nat /\ Cardinality(T) \in Nat /\ Cardinality(T) <= Cardinality(S)
<1>1. IsFiniteSet(S)  BY Bounds, FS_Subset
<1>2. QED  BY <1>1, FS_Subset, FS_CardinalityType

\* A batch is the first of what is ahead: what it leaves is behind all of it, and
\* then it was full.
LEMMA BatchIsFirst ==
  ASSUME NEW ahead \in SUBSET Ids, NEW next,
         next = {i \in ahead : Cardinality({j \in ahead : j < i}) < Batch},
         NEW i \in ahead, i \notin next
  PROVE  /\ ~(Cardinality(next) < Batch)
         /\ \A j \in next : j < i
<1> DEFINE below(k) == {j \in ahead : j < k}
<1>1. \A k \in ahead : k \in Nat  BY RowIds
<1>2. \A k : below(k) \in SUBSET (0..MaxRows)  BY Bounds
<1>3. next \in SUBSET (0..MaxRows) /\ ahead \in SUBSET (0..MaxRows)  BY Bounds
<1>4. next = {k \in ahead : Cardinality(below(k)) < Batch}  OBVIOUS
<1>5. ~(Cardinality(next) < Batch)
  <2> SUFFICES ASSUME Cardinality(next) < Batch PROVE FALSE  OBVIOUS
  <2>1. ahead \ next # {} /\ ahead \ next \in SUBSET (0..MaxRows)  BY <1>3
  <2>2. PICK m \in ahead \ next : \A j \in ahead \ next : m <= j  BY <2>1, FirstOne
  <2>3. \A j \in below(m) : j \in next
    <3>1. \A j \in below(m) : j \in ahead /\ j < m  OBVIOUS
    <3> HIDE DEF below
    <3> SUFFICES ASSUME NEW j \in below(m), j \notin next PROVE FALSE  OBVIOUS
    <3>2. j \in ahead /\ j < m /\ m <= j  BY <2>2, <3>1
    <3>3. j \in Nat /\ m \in Nat  BY <1>1, <3>2
    <3>4. QED  BY ONLY <3>2, <3>3
  <2> HIDE DEF below
  <2>4. below(m) \in SUBSET next  BY <2>3
  <2>5. Cardinality(below(m)) <= Cardinality(next)
        /\ Cardinality(below(m)) \in Nat /\ Cardinality(next) \in Nat
    BY <1>3, <2>4, Counts
  <2>6. Cardinality(below(m)) < Batch  BY <2>5, Bounds
  <2>7. QED  BY <1>4, <2>2, <2>6
<1>6. ASSUME NEW j \in next
      PROVE  j < i
  <2> SUFFICES ASSUME ~(j < i) PROVE FALSE  OBVIOUS
  <2>1. j \in ahead /\ j \in Nat /\ i \in Nat /\ i < j  BY <1>1
  <2>2. \A k \in below(i) : k \in below(j)  BY <1>1, <2>1
  <2> HIDE DEF below
  <2>3. below(i) \in SUBSET below(j)  BY <2>2
  <2>4. Cardinality(below(i)) <= Cardinality(below(j))
        /\ Cardinality(below(i)) \in Nat /\ Cardinality(below(j)) \in Nat
    BY <1>2, <2>3, Counts
  <2>5. Cardinality(below(j)) < Batch  BY <1>4
  <2>6. Cardinality(below(i)) < Batch  BY <2>4, <2>5, Bounds
  <2>7. QED  BY <1>4, <2>6
<1>7. QED  BY <1>5, <1>6

\* What an entry's predecessor is ...
LEMMA BeforeFacts ==
  ASSUME NEW c \in SUBSET Ids, NEW low \in 0..MaxRows, NEW i \in Ids, low < i
  PROVE  LET b == Before(i, c, low)
         IN  /\ b \in 0..MaxRows /\ b < i /\ low <= b
             /\ b = low \/ b \in c
             /\ \A j \in c : j < i => j <= b
<1> DEFINE S == {low} \cup {j \in c : j < i}
<1>1. S \in SUBSET (0..MaxRows) /\ S # {} /\ low \in S  BY Bounds
<1>2. MaxOf(S) \in S /\ \A j \in S : j <= MaxOf(S)  BY <1>1, LastOne
<1>3. \A j \in S : j < i  OBVIOUS
<1>4. \A j \in S : j = low \/ j \in c  OBVIOUS
<1>5. \A j \in c : j < i => j \in S  OBVIOUS
<1>6. Before(i, c, low) = MaxOf(S)  BY DEF Before
<1> HIDE DEF S
<1>7. QED  BY <1>1, <1>2, <1>3, <1>4, <1>5, <1>6

\* ... and that nothing else is.
LEMMA BeforeIs ==
  ASSUME NEW c \in SUBSET Ids, NEW low \in 0..MaxRows, NEW i \in Ids, NEW b,
         b = low \/ b \in c, low <= b, b < i, low < i,
         \A j \in c : j < i => j <= b
  PROVE  Before(i, c, low) = b
<1> DEFINE S == {low} \cup {j \in c : j < i}
<1>1. S \in SUBSET (0..MaxRows)  BY Bounds
<1>2. b \in S /\ \A j \in S : j <= b
  <2>1. b \in Nat /\ low \in Nat  BY RowIds
  <2>2. QED  BY <2>1
<1>3. MaxOf(S) = b  BY <1>1, <1>2, MaxIs
<1>4. QED  BY <1>3 DEF Before

-----------------------------------------------------------------------------
(* The tables *)

Window == [days : Days, at : Nat]
Run == [at : {"off", "reading", "done"}, windows : SUBSET [days : Days, until : Nat],
        floor : 0..MaxRows, head : 0..MaxRows, after : 0..MaxRows,
        seals : SUBSET Ids, found : SUBSET Ids, hurt : SUBSET Ids, disturbed : BOOLEAN]

\* TypeOK, and what it leaves open of the checkpoints and the verifications.
Types ==
  /\ TypeOK
  /\ signed \in Seq(Window)
  /\ ver \in [Verifiers -> Run]

LEMMA Numbers ==
  ASSUME TypeOK
  PROVE  /\ n \in Nat /\ n <= MaxRows /\ floor \in Nat /\ floor <= n /\ floor \in 0..MaxRows
         /\ now \in Nat
         /\ chain \in SUBSET Ids
         /\ \A i \in chain : i \in Nat /\ floor < i /\ i <= n
         /\ \A i \in seals : i \in Ids /\ i <= n
         /\ Live \in SUBSET Ids /\ \A i \in Live : i \in Nat /\ i <= n
<1>1. n \in Nat /\ n <= MaxRows /\ floor \in Nat /\ floor <= n  BY Bounds DEF TypeOK
<1>2. now \in Nat  BY Bounds DEF TypeOK
<1>3. \A i \in (floor + 1)..n : i \in Ids /\ i \in Nat /\ floor < i /\ i <= n
  BY <1>1, Bounds
<1>4. \A i \in 1..n : i \in Ids /\ i <= n  BY <1>1, Bounds
<1>5. chain \in SUBSET ((floor + 1)..n) /\ seals \in SUBSET (1..n)  BY DEF TypeOK
<1>6. \A i \in Live : i \in Ids /\ row[i] # "none"  BY DEF Live
<1>7. \A i \in Ids : row[i] = "none" <=> i > n  BY DEF TypeOK
<1>8. \A i \in Live : i \in Ids /\ i \in Nat /\ i <= n  BY <1>1, <1>6, <1>7, RowIds
<1>9. floor \in 0..MaxRows  BY <1>1, Bounds
<1>10. QED  BY <1>1, <1>2, <1>3, <1>4, <1>5, <1>8, <1>9

LEMMA HeadFacts ==
  ASSUME TypeOK
  PROVE  /\ HeadRow \in Nat /\ floor <= HeadRow /\ HeadRow <= n /\ HeadRow \in 0..MaxRows
         /\ \A i \in chain : i <= HeadRow
         /\ HeadRow = floor \/ HeadRow \in chain
<1>1. CASE chain = {}
  BY <1>1, Numbers DEF HeadRow
<1>2. CASE chain # {}
  <2>1. chain \in SUBSET (0..MaxRows)  BY Numbers, RowIds
  <2>2. MaxOf(chain) \in chain /\ \A j \in chain : j <= MaxOf(chain)  BY <1>2, <2>1, LastOne
  <2>3. HeadRow = MaxOf(chain)  BY <1>2 DEF HeadRow
  <2>4. floor < HeadRow /\ HeadRow <= n /\ HeadRow \in Nat /\ HeadRow \in 0..MaxRows
    BY <2>1, <2>2, <2>3, Numbers
  <2>5. QED  BY <2>2, <2>3, <2>4, Numbers
<1>3. QED  BY <1>1, <1>2

\* A batch to seal is of rows above the head, and leaves none behind.
LEMMA FreshFacts ==
  ASSUME TypeOK
  PROVE  /\ \A i \in Fresh : i \in Unsealed
         /\ \A i \in Unsealed : i \in Live /\ HeadRow < i
         /\ \A i \in Unsealed, j \in Fresh : i \in Fresh \/ j < i
<1> DEFINE rows == Unsealed
<1>1. \A i \in rows : i \in Live /\ HeadRow < i  BY DEF Unsealed
<1>2. rows \in SUBSET Ids  BY <1>1, Numbers
<1> HIDE DEF rows
<1>3. Fresh = {i \in rows : Cardinality({j \in rows : j < i}) < Batch}  BY DEF Fresh, rows
<1>4. \A i \in Fresh : i \in rows  BY <1>3
<1>5. ASSUME NEW i \in rows, i \notin Fresh PROVE \A j \in Fresh : j < i
  BY <1>2, <1>3, <1>5, BatchIsFirst
<1>6. QED  BY <1>1, <1>4, <1>5 DEF rows

\* Sealing extends a whole chain to a whole chain.
LEMMA Sealing ==
  ASSUME TypeOK, ChainIsWhole
  PROVE  /\ Sealed \in SUBSET ((floor + 1)..n) /\ chain \subseteq Sealed
         /\ Linked \in [Ids -> 0..n]
         /\ \A i \in Sealed : Linked[i] = Before(i, Sealed, floor) /\ Linked[i] < i
         /\ \A s \in seals : s > floor => s \in Sealed
<1> USE Numbers, HeadFacts
<1>1. \A i \in Fresh : i \in Live /\ HeadRow < i  BY FreshFacts
<1>2. \A i \in Sealed : i \in Ids /\ i \in Nat /\ floor < i /\ i <= n
  BY <1>1 DEF Sealed
<1>3. Sealed \in SUBSET ((floor + 1)..n) /\ Sealed \in SUBSET Ids
  BY <1>2
<1>4. ASSUME NEW i \in Fresh
      PROVE  /\ Linked[i] = Before(i, Sealed, floor)
             /\ Linked[i] < i /\ Linked[i] \in 0..n
  <2> DEFINE b == Before(i, Sealed, HeadRow)
  <2>1. i \in Ids /\ i \in Nat /\ HeadRow < i /\ floor < i /\ i <= n  BY <1>1, <1>2 DEF Sealed
  <2>2. /\ b \in 0..MaxRows /\ b < i /\ HeadRow <= b
        /\ b = HeadRow \/ b \in Sealed
        /\ \A j \in Sealed : j < i => j <= b
    BY <1>3, <2>1, BeforeFacts
  <2>3. b = floor \/ b \in Sealed  BY <2>2 DEF Sealed
  <2>4. floor <= b /\ b \in 0..n
    <3>1. b \in Nat  BY <2>2, RowIds
    <3>2. QED  BY <2>1, <2>2, <3>1
  <2> HIDE DEF b
  <2>5. Before(i, Sealed, floor) = b  BY <1>3, <2>1, <2>2, <2>3, <2>4, BeforeIs
  <2>6. Linked[i] = b  BY <2>1 DEF Linked, Sealed, b
  <2>7. QED  BY <2>2, <2>4, <2>5, <2>6
<1>5. ASSUME NEW i \in chain, i \notin Fresh
      PROVE  /\ Linked[i] = Before(i, Sealed, floor)
             /\ Linked[i] < i
  <2> DEFINE b == Before(i, chain, floor)
  <2>1. i \in Ids /\ i \in Nat /\ floor < i /\ i <= HeadRow  OBVIOUS
  <2>2. /\ b \in 0..MaxRows /\ b < i /\ floor <= b
        /\ b = floor \/ b \in chain
        /\ \A j \in chain : j < i => j <= b
    BY <2>1, BeforeFacts
  <2>3. b = floor \/ b \in Sealed  BY <2>2 DEF Sealed
  <2>4. \A j \in Sealed : j < i => j <= b
    <3> SUFFICES ASSUME NEW j \in Sealed, j < i PROVE j <= b  OBVIOUS
    <3>1. j \notin Fresh  BY <1>1, <1>2, <2>1
    <3>2. QED  BY <2>2, <3>1 DEF Sealed
  <2> HIDE DEF b
  <2>5. Before(i, Sealed, floor) = b  BY <1>3, <2>1, <2>2, <2>3, <2>4, BeforeIs
  <2>6. Linked[i] = link[i]  BY <1>5, <2>1 DEF Linked
  <2>7. link[i] = b  BY <1>5 DEF ChainIsWhole, b
  <2>8. QED  BY <2>2, <2>5, <2>6, <2>7
<1>6. Linked \in [Ids -> 0..n]
  <2>1. link \in [Ids -> 0..n]  BY DEF TypeOK
  <2>2. \A i \in Ids : Linked[i] \in 0..n
    <3> SUFFICES ASSUME NEW i \in Ids PROVE Linked[i] \in 0..n  OBVIOUS
    <3>1. CASE i \in Fresh  BY <1>4, <3>1
    <3>2. CASE i \notin Fresh
      <4>1. Linked[i] = link[i]  BY <3>2 DEF Linked
      <4>2. QED  BY <2>1, <4>1
    <3>3. QED  BY <3>1, <3>2
  <2>3. QED  BY <2>2 DEF Linked
<1>7. \A s \in seals : s > floor => s \in Sealed  BY DEF ChainIsWhole, Sealed
<1>8. chain \subseteq Sealed  BY DEF Sealed
<1>9. \A i \in Sealed : i \in chain \/ i \in Fresh  BY DEF Sealed
<1>10. QED  BY <1>3, <1>4, <1>5, <1>6, <1>7, <1>8, <1>9

\* Compaction leaves a whole chain over its new floor, and drops only entries whose
\* rows a signed window has removed.
LEMMA Compacting ==
  ASSUME TypeOK, ChainIsWhole, NEW k, Compact(k)
  PROVE  /\ floor' \in 0..n /\ floor <= floor'
         /\ chain' \in SUBSET ((floor' + 1)..n) /\ chain' \subseteq chain
         /\ \A i \in chain' : link[i] = Before(i, chain', floor')
         /\ \A i \in chain : i > floor' => i \in chain'
         /\ \A i \in chain \ chain' : row[i] = "gone" /\ Explained(i, Windows(job.now))
<1> USE Numbers
<1> DEFINE low == {i \in chain : i <= k}
<1>1. /\ k \in chain \cup {0} /\ Compactable(k, Windows(job.now))
      /\ floor' = IF Cardinality(low) < MinCompact THEN floor ELSE k
      /\ chain' = {i \in chain : i > floor'}
  BY DEF Compact
<1>2. CASE floor' = floor
  <2>1. chain' = chain  BY <1>1, <1>2
  <2>2. QED
    <3>1. \A i \in chain : link[i] = Before(i, chain, floor)  BY DEF ChainIsWhole
    <3>2. chain \in SUBSET ((floor + 1)..n) /\ floor \in 0..n  BY DEF TypeOK
    <3>3. QED  BY <1>2, <2>1, <3>1, <3>2
<1>3. CASE floor' # floor
  <2>1. floor' = k /\ k \in chain
    <3>1. floor' = k /\ ~(Cardinality(low) < MinCompact)  BY <1>1, <1>3
    <3>2. k # 0
      <4> SUFFICES ASSUME k = 0 PROVE FALSE  OBVIOUS
      <4>1. low = {}  OBVIOUS
      <4>2. Cardinality(low) = 0  BY <4>1, FS_EmptySet
      <4>3. QED  BY <3>1, <4>2, Bounds
    <3>3. QED  BY <1>1, <3>1, <3>2
  <2> HIDE DEF low
  <2>2. k \in Nat /\ floor < k /\ k <= n /\ k \in 0..n /\ k \in 0..MaxRows  BY <2>1, RowIds
  <2>3. \A i \in chain' : i \in chain /\ k < i /\ i \in (k + 1)..n  BY <1>1, <2>1, <2>2
  <2>4. ASSUME NEW i \in chain'
        PROVE  link[i] = Before(i, chain', k)
    <3> DEFINE b == Before(i, chain, floor)
    <3>1. i \in chain /\ i \in Ids /\ i \in Nat /\ k < i /\ floor < i  BY <2>2, <2>3
    <3>2. /\ b \in 0..MaxRows /\ b < i
          /\ b = floor \/ b \in chain
          /\ \A j \in chain : j < i => j <= b
      BY <3>1, BeforeFacts
    <3>3. k <= b /\ b \in chain
      <4>1. k <= b  BY <2>1, <3>1, <3>2
      <4>2. b # floor  BY <2>2, <3>2, <4>1
      <4>3. QED  BY <3>2, <4>1, <4>2
    <3>4. b = k \/ b \in chain'
      <4>1. \A j \in chain : j > k => j \in chain'  BY <1>1, <2>1
      <4>2. b \in Nat  BY <3>2, RowIds
      <4> HIDE DEF b
      <4>3. QED  BY ONLY <2>2, <3>3, <4>1, <4>2
    <3>5. \A j \in chain' : j < i => j <= b  BY <2>3, <3>2
    <3>6. chain' \in SUBSET Ids  BY <2>3
    <3>7. link[i] = b  BY <3>1 DEF ChainIsWhole
    <3> HIDE DEF b
    <3>8. Before(i, chain', k) = b  BY <2>2, <3>1, <3>2, <3>3, <3>4, <3>5, <3>6, BeforeIs
    <3>9. QED  BY <3>7, <3>8
  <2>5. \A i \in chain \ chain' : i <= k  BY <1>1, <2>1, <2>2
  <2>6. \A i \in chain \ chain' : row[i] = "gone" /\ Explained(i, Windows(job.now))
    BY <1>1, <2>5 DEF Compactable
  <2>7. \A i \in chain : i > k => i \in chain'  BY <1>1, <2>1
  <2>8. chain' \in SUBSET ((k + 1)..n) /\ chain' \subseteq chain  BY <2>3
  <2>9. QED  BY <2>1, <2>2, <2>4, <2>6, <2>7, <2>8
<1>4. QED  BY <1>2, <1>3

-----------------------------------------------------------------------------
(* Types, in groups *)

TableTypes ==
  /\ now \in 0..MaxTime
  /\ n \in 0..MaxRows
  /\ row \in [Ids -> {"none", "live", "edited", "gone"}]
  /\ \A i \in Ids : row[i] = "none" <=> i > n
  /\ ts \in [Ids -> 0..now]
  /\ days \in Days

EntryTypes ==
  /\ chain \in SUBSET ((floor + 1)..n)
  /\ link \in [Ids -> 0..n] /\ \A i \in chain : link[i] < i
  /\ floor \in 0..n

SignedTypes ==
  /\ signed \in Seq(Window)
  /\ \A k \in 1..Len(signed) : signed[k].days \in Days /\ signed[k].at <= now
  /\ \A k \in 2..Len(signed) : signed[k].days # signed[k - 1].days
  /\ seals \in SUBSET (1..n)

WorkTypes ==
  /\ job \in [at : {"idle", "sealing", "compacting", "verifying"}, now : 0..now]
  /\ prune \in [days : Days \cup {0}, now : 0..now, signed : BOOLEAN]
  /\ ver \in [Verifiers -> Run]
  /\ ver["job"].at = "reading" <=> job.at = "verifying"

HistoryTypes == byHand \in SUBSET Ids /\ odd \in SUBSET Ids

LEMMA Groups == Types <=> TableTypes /\ EntryTypes /\ SignedTypes /\ WorkTypes /\ HistoryTypes
<1>1. ver \in [Verifiers -> Run] => \A v \in Verifiers : ver[v].at \in {"off", "reading", "done"}
  BY DEF Run
<1>2. QED
  BY <1>1 DEF Types, TypeOK, TableTypes, EntryTypes, SignedTypes, WorkTypes, HistoryTypes

LEMMA NoRunIsRun == NoRun \in Run /\ NoRun.at = "off"
BY Bounds DEF NoRun, Run

LEMMA Disturbing ==
  ASSUME NEW r \in Run, NEW d \in BOOLEAN
  PROVE  LET q == [r EXCEPT !.disturbed = d]
         IN  /\ q \in Run /\ q.at = r.at /\ q.hurt = r.hurt /\ q.found = r.found
             /\ q.windows = r.windows /\ q.after = r.after /\ q.head = r.head
BY DEF Run

LEMMA RecordedTypes ==
  ASSUME TableTypes, Appended \/ UNCHANGED events, UNCHANGED <<now, days>>
  PROVE  /\ TableTypes' /\ n \in Nat /\ n' \in Nat /\ n <= n'
         /\ \A i \in Ids : i <= n => row'[i] = row[i] /\ ts'[i] = ts[i]
<1> USE Bounds DEF TableTypes, events
<1>1. n \in Nat /\ now \in Nat /\ now \in 0..now  OBVIOUS
<1>2. CASE UNCHANGED events
  BY <1>1, <1>2
<1>3. CASE Appended /\ n # MaxRows
  <2>1. n' = n + 1 /\ n + 1 \in Ids /\ n + 1 \in 0..MaxRows  BY <1>1, <1>3 DEF Appended
  <2>2. row' = [row EXCEPT ![n + 1] = "live"] /\ ts' = [ts EXCEPT ![n + 1] = now]
    BY <1>3 DEF Appended
  <2>3. \A i \in Ids : i \in Nat  BY RowIds
  <2>4. \A i \in Ids : row'[i] = "none" <=> i > n + 1
    <3> SUFFICES ASSUME NEW i \in Ids PROVE row'[i] = "none" <=> i > n + 1  OBVIOUS
    <3>1. CASE i = n + 1  BY <2>1, <2>2, <3>1
    <3>2. CASE i # n + 1
      <4>1. row'[i] = row[i]  BY <2>2, <3>2
      <4>2. i > n <=> i > n + 1  BY <1>1, <2>3, <3>2
      <4>3. QED  BY <4>1, <4>2
    <3>3. QED  BY <3>1, <3>2
  <2>5. row' \in [Ids -> {"none", "live", "edited", "gone"}] /\ ts' \in [Ids -> 0..now]
    BY <1>1, <2>2
  <2>6. \A i \in Ids : i <= n => row'[i] = row[i] /\ ts'[i] = ts[i]
    BY <1>1, <2>2, <2>3
  <2>7. QED  BY <1>1, <2>1, <2>4, <2>5, <2>6
<1>4. CASE Appended /\ n = MaxRows
  BY <1>1, <1>2, <1>4 DEF Appended
<1>5. QED  BY <1>2, <1>3, <1>4

LEMMA Grows ==
  ASSUME NEW a \in Nat, NEW p \in Nat, NEW q \in Nat, p <= q
  PROVE  \A x \in (a + 1)..p : x \in (a + 1)..q
OBVIOUS

LEMMA Above ==
  ASSUME NEW a \in Nat, NEW p \in Nat
  PROVE  \A x \in (a + 1)..p : a < x
OBVIOUS

LEMMA EntriesStay ==
  ASSUME EntryTypes, TableTypes, n' \in Nat, n <= n', UNCHANGED <<chain, link, floor>>
  PROVE  EntryTypes'
<1>1. n \in Nat  BY Bounds DEF TableTypes
<1>2. \A x \in 0..n : x \in 0..n'  BY <1>1
<1>3. floor \in Nat /\ \A x \in (floor + 1)..n : x \in (floor + 1)..n'  BY <1>1 DEF EntryTypes
<1>4. QED  BY <1>2, <1>3 DEF EntryTypes

LEMMA SignedStays ==
  ASSUME SignedTypes, TableTypes, TableTypes', n <= n', now <= now', UNCHANGED <<signed, seals>>
  PROVE  SignedTypes'
<1>1. n \in Nat /\ n' \in Nat /\ now \in Nat /\ now' \in Nat  BY Bounds DEF TableTypes
<1>2. seals' \in SUBSET (1..n')  BY <1>1 DEF SignedTypes
<1>3. \A k \in 1..Len(signed) : signed[k].at \in Nat
  <2>1. \A k \in 1..Len(signed) : signed[k] \in Window  BY DEF SignedTypes
  <2>2. QED  BY <2>1 DEF Window
<1>4. \A k \in 1..Len(signed) : signed[k].at <= now'  BY <1>1, <1>3 DEF SignedTypes
<1>5. QED  BY <1>2, <1>4 DEF SignedTypes

LEMMA WorkStays ==
  ASSUME WorkTypes, TableTypes, TableTypes', now <= now', UNCHANGED <<job, prune, ver>>
  PROVE  WorkTypes'
<1>1. now \in Nat /\ now' \in Nat  BY Bounds DEF TableTypes
<1>2. \A x \in 0..now : x \in 0..now'  BY <1>1
<1>3. QED  BY <1>2 DEF WorkTypes

\* A batch leaves a verification that reads on or is done.
LEMMA ReadTypes ==
  ASSUME NEW r \in Run, NEW c \in SUBSET Ids, NEW l, r.at = "reading"
  PROVE  LET q == Read(r, c, l)
         IN  /\ q \in Run /\ q.at \in {"reading", "done"}
             /\ q.hurt = r.hurt /\ q.disturbed = r.disturbed /\ r.found \subseteq q.found
             /\ q.at = "reading" => q.windows = r.windows /\ q.head = r.head
<1> DEFINE ahead == {i \in c : r.after < i /\ i <= r.head}
           next == {i \in ahead : Cardinality({j \in ahead : j < i}) < Batch}
           hi == MaxOf({r.after} \cup next)
           broken == {i \in next : l[i] # Before(i, next, r.after)}
           unsealed == {i \in Live \ c : r.after < i /\ i <= hi}
           wrong == {i \in next : Wrong(i, r.windows)}
           left == r.seals \ next
           done == Cardinality(next) < Batch
           below == {i \in Live : i <= r.floor}
           found == r.found \cup broken \cup unsealed \cup wrong
           q == Read(r, c, l)
<1>1. q = IF done
          THEN [NoRun EXCEPT !.at = "done", !.hurt = r.hurt, !.disturbed = r.disturbed,
                             !.found = found \cup below \cup left]
          ELSE [r EXCEPT !.after = hi, !.seals = left, !.found = found]
  BY DEF Read
<1>2. /\ r.seals \in SUBSET Ids /\ r.found \in SUBSET Ids /\ r.hurt \in SUBSET Ids
      /\ r.after \in 0..MaxRows /\ r.disturbed \in BOOLEAN
  BY DEF Run
<1>3. next \in SUBSET Ids  OBVIOUS
<1>4. Live \in SUBSET Ids  BY DEF Live
<1>5. found \in SUBSET Ids /\ below \in SUBSET Ids /\ left \in SUBSET Ids /\ r.found \subseteq found
  BY <1>2, <1>3, <1>4
<1> HIDE DEF next
<1>6. hi \in 0..MaxRows
  <2>1. {r.after} \cup next \in SUBSET (0..MaxRows)  BY <1>2, <1>3, RowIds
  <2>2. QED  BY <2>1, LastOne
<1> HIDE DEF found, below, left, hi, done, q
<1>7. CASE done
  <2>1. q = [NoRun EXCEPT !.at = "done", !.hurt = r.hurt, !.disturbed = r.disturbed,
                          !.found = found \cup below \cup left]
    BY <1>1, <1>7
  <2>2. q \in Run  BY <1>2, <1>5, <2>1, NoRunIsRun DEF Run
  <2>3. /\ q.at = "done" /\ q.hurt = r.hurt /\ q.disturbed = r.disturbed
        /\ q.found = found \cup below \cup left
    BY <2>1, NoRunIsRun DEF Run
  <2>4. QED  BY <1>5, <2>2, <2>3 DEF q
<1>8. CASE ~done
  <2>1. q = [r EXCEPT !.after = hi, !.seals = left, !.found = found]  BY <1>1, <1>8
  <2>2. q \in Run  BY <1>5, <1>6, <2>1 DEF Run
  <2>3. /\ q.at = "reading" /\ q.hurt = r.hurt /\ q.disturbed = r.disturbed
        /\ q.found = found /\ q.windows = r.windows /\ q.head = r.head
    BY <2>1 DEF Run
  <2>4. QED  BY <1>5, <2>2, <2>3 DEF q
<1>9. QED  BY <1>7, <1>8

\* The windows that are signed.
LEMMA WindowTypes ==
  ASSUME SignedTypes, NEW t \in Nat
  PROVE  Windows(t) \in SUBSET [days : Days, until : Nat]
<1> DEFINE w(k) == [days |-> signed[k].days,
                    until |-> IF k = Len(signed) THEN t ELSE signed[k + 1].at]
<1>1. Len(signed) \in Nat /\ \A k \in 1..Len(signed) : signed[k] \in Window  BY DEF SignedTypes
<1>2. ASSUME NEW k \in 1..Len(signed)
      PROVE  w(k) \in [days : Days, until : Nat]
  <2>1. signed[k].days \in Days  BY <1>1, <1>2 DEF Window
  <2>2. k # Len(signed) => k + 1 \in 1..Len(signed)  BY <1>1, <1>2
  <2>3. k # Len(signed) => signed[k + 1].at \in Nat  BY <1>1, <2>2 DEF Window
  <2>4. QED  BY <2>1, <2>3
<1> HIDE DEF w
<1>3. Windows(t) = {w(k) : k \in 1..Len(signed)}  BY DEF Windows, w
<1>4. QED  BY <1>2, <1>3

\* What a verification starts from.
LEMMA BegunTypes ==
  ASSUME SignedTypes, HistoryTypes, TableTypes,
         NEW t \in Nat, NEW c \in SUBSET Ids, NEW low \in 0..MaxRows
  PROVE  /\ Begun(t, c, low) \in Run /\ Begun(t, c, low).at = "reading"
<1>1. Windows(t) \in SUBSET [days : Days, until : Nat]  BY WindowTypes
<1>2. MaxOf({low} \cup c) \in 0..MaxRows
  <2>1. {low} \cup c \in SUBSET (0..MaxRows)  BY Bounds
  <2>2. QED  BY <2>1, LastOne
<1>3. {s \in seals : s > low} \in SUBSET Ids
  <2>1. n \in Nat /\ n <= MaxRows  BY Bounds DEF TableTypes
  <2>2. \A x \in 1..n : x \in Ids  BY <2>1, Bounds
  <2>3. QED  BY <2>2 DEF SignedTypes
<1>4. {i \in byHand : ~Explained(i, Windows(t))} \in SUBSET Ids  BY DEF HistoryTypes
<1>5. QED  BY <1>1, <1>2, <1>3, <1>4 DEF Begun, Run

-----------------------------------------------------------------------------
(* One lemma per action *)

Inv1 == Types /\ ChainIsWhole

LEMMA FromGroups ==
  ASSUME TableTypes', EntryTypes', SignedTypes', WorkTypes', HistoryTypes'
  PROVE  Types'
<1>1. ver' \in [Verifiers -> Run] =>
        \A v \in Verifiers : ver'[v].at \in {"off", "reading", "done"}
  BY DEF Run
<1>2. QED
  BY <1>1 DEF Types, TypeOK, TableTypes, EntryTypes, SignedTypes, WorkTypes, HistoryTypes

LEMMA ToGroups ==
  ASSUME Inv1
  PROVE  /\ TableTypes /\ EntryTypes /\ SignedTypes /\ WorkTypes /\ HistoryTypes
         /\ TypeOK /\ ChainIsWhole
         /\ now \in Nat /\ n \in Nat /\ floor \in 0..MaxRows
<1>1. Types /\ ChainIsWhole /\ TypeOK  BY DEF Inv1, Types
<1>2. QED  BY <1>1, Groups, Numbers

LEMMA ChainStays ==
  ASSUME ChainIsWhole, UNCHANGED <<chain, link, floor, seals>>
  PROVE  ChainIsWhole'
BY DEF ChainIsWhole

LEMMA TickInv1 ==
  ASSUME Inv1, Tick
  PROVE  Inv1'
<1> USE ToGroups
<1>1. /\ now < MaxTime /\ now' = now + 1
      /\ UNCHANGED <<n, row, ts, days, chain, link, signed, seals, floor, job, prune, ver, byHand, odd>>
  BY DEF Tick, events, store, history
<1>2. now' \in 0..MaxTime /\ now <= now' /\ \A x \in 0..now : x \in 0..now'  BY <1>1, Bounds
<1>3. TableTypes'  BY <1>1, <1>2 DEF TableTypes
<1>4. n' \in Nat /\ n <= n'  BY <1>1
<1>5. EntryTypes' /\ SignedTypes' /\ WorkTypes' /\ HistoryTypes'
  BY <1>1, <1>2, <1>3, <1>4, EntriesStay, SignedStays, WorkStays DEF HistoryTypes
<1>6. QED  BY <1>1, <1>3, <1>5, FromGroups, ChainStays DEF Inv1

LEMMA RecordInv1 ==
  ASSUME Inv1, Record
  PROVE  Inv1'
<1> USE ToGroups
<1>1. /\ Appended
      /\ UNCHANGED <<now, days, chain, link, signed, seals, floor, job, prune, ver, byHand, odd>>
  BY DEF Record, store, history
<1>2. TableTypes' /\ n' \in Nat /\ n <= n' /\ now <= now'  BY <1>1, RecordedTypes
<1>3. EntryTypes' /\ SignedTypes' /\ WorkTypes' /\ HistoryTypes'
  BY <1>1, <1>2, EntriesStay, SignedStays, WorkStays DEF HistoryTypes
<1>4. QED  BY <1>1, <1>2, <1>3, FromGroups, ChainStays DEF Inv1

LEMMA SetRetentionInv1 ==
  ASSUME Inv1, SetRetention
  PROVE  Inv1'
<1> USE ToGroups
<1>1. /\ days' \in Days
      /\ UNCHANGED <<now, n, row, ts, chain, link, signed, seals, floor, job, prune, ver, byHand, odd>>
  BY DEF SetRetention, events, store, history
<1>2. TableTypes' /\ n' \in Nat /\ n <= n' /\ now <= now'  BY <1>1 DEF TableTypes
<1>3. EntryTypes' /\ SignedTypes' /\ WorkTypes' /\ HistoryTypes'
  BY <1>1, <1>2, EntriesStay, SignedStays, WorkStays DEF HistoryTypes
<1>4. QED  BY <1>1, <1>2, <1>3, FromGroups, ChainStays DEF Inv1

LEMMA HandsInv1 ==
  ASSUME Inv1, NEW i \in Ids, Hands(i)
  PROVE  Inv1'
<1> USE ToGroups
<1>1. /\ row[i] = "live" /\ byHand' = byHand \cup {i}
      /\ UNCHANGED <<now, n, ts, days, chain, link, signed, seals, floor, job, prune, ver, odd>>
  BY DEF Hands, store
<1>2. PICK r \in {"edited", "gone"} : row' = [row EXCEPT ![i] = r]  BY DEF Hands
<1>3. TableTypes'
  <2>1. row' \in [Ids -> {"none", "live", "edited", "gone"}]  BY <1>2 DEF TableTypes
  <2>2. \A j \in Ids : row'[j] = "none" <=> row[j] = "none"  BY <1>1, <1>2 DEF TableTypes
  <2>3. QED  BY <1>1, <2>1, <2>2 DEF TableTypes
<1>4. n' \in Nat /\ n <= n' /\ now <= now'  BY <1>1
<1>5. EntryTypes' /\ SignedTypes' /\ WorkTypes'
  BY <1>1, <1>3, <1>4, EntriesStay, SignedStays, WorkStays
<1>6. HistoryTypes'  BY <1>1 DEF HistoryTypes
<1>7. QED  BY <1>1, <1>3, <1>5, <1>6, FromGroups, ChainStays DEF Inv1

LEMMA PruneBeginsInv1 ==
  ASSUME Inv1, PruneBegins
  PROVE  Inv1'
<1> USE ToGroups
<1> DEFINE d(v) == ver[v].disturbed \/ ver[v].at = "reading" \/ (v = "job" /\ job.at = "compacting")
           s == /\ signed # <<>> /\ signed[Len(signed)].days = days
                /\ job.at = "sealing" => job.now = now
<1>1. /\ prune' = [days |-> days, now |-> now, signed |-> s]
      /\ ver' = [v \in Verifiers |-> [ver[v] EXCEPT !.disturbed = d(v)]]
      /\ UNCHANGED <<now, n, row, ts, days, chain, link, signed, seals, floor, job, byHand, odd>>
  BY DEF PruneBegins, events, store, history
<1>2. \A v \in Verifiers : d(v) \in BOOLEAN  BY DEF WorkTypes, Run
<1> HIDE DEF d
<1>3. TableTypes' /\ n' \in Nat /\ n <= n' /\ now <= now'  BY <1>1 DEF TableTypes
<1>4. EntryTypes' /\ SignedTypes' /\ HistoryTypes'
  BY <1>1, <1>3, EntriesStay, SignedStays DEF HistoryTypes
<1>5. WorkTypes'
  <2>1. \A v \in Verifiers : ver[v] \in Run  BY DEF WorkTypes
  <2>2. \A v \in Verifiers : /\ [ver[v] EXCEPT !.disturbed = d(v)] \in Run
                             /\ [ver[v] EXCEPT !.disturbed = d(v)].at = ver[v].at
    BY <1>2, <2>1, Disturbing
  <2>5. ver' \in [Verifiers -> Run] /\ ver'["job"].at = ver["job"].at
    BY <1>1, <2>2 DEF Verifiers
  <2>3. prune' \in [days : Days \cup {0}, now : 0..now', signed : BOOLEAN]
    <3>1. s \in BOOLEAN  OBVIOUS
    <3>2. days \in Days /\ now \in 0..now  BY DEF TableTypes
    <3>3. prune' = [days |-> days, now |-> now, signed |-> s] /\ now' = now  BY <1>1
    <3> HIDE DEF s
    <3>4. QED  BY <3>1, <3>2, <3>3
  <2>4. QED  BY <1>1, <2>3, <2>5 DEF WorkTypes
<1>6. QED  BY <1>1, <1>3, <1>4, <1>5, FromGroups, ChainStays DEF Inv1

LEMMA NoWork ==
  ASSUME Inv1
  PROVE  /\ NoPrune \in [days : Days \cup {0}, now : 0..now, signed : BOOLEAN]
         /\ NoJob \in [at : {"idle", "sealing", "compacting", "verifying"}, now : 0..now]
         /\ NoJob.at = "idle"
BY ToGroups DEF NoPrune, NoJob

LEMMA PruneBatchInv1 ==
  ASSUME Inv1, PruneBatch
  PROVE  Inv1'
<1> USE ToGroups
<1>1. UNCHANGED <<now, n, ts, days, chain, link, signed, seals, floor, job, ver, byHand>>
  BY DEF PruneBatch, store
<1>2. prune' \in {prune, NoPrune}  BY DEF PruneBatch
<1>3. \/ UNCHANGED <<row, odd>>
      \/ \E i \in Live : row' = [row EXCEPT ![i] = "gone"] /\ odd' \in {odd, odd \cup {i}}
  BY DEF PruneBatch, Prunable
<1>4. /\ \A j \in Ids : row'[j] = "none" <=> row[j] = "none"
      /\ row' \in [Ids -> {"none", "live", "edited", "gone"}]
      /\ odd' \in SUBSET Ids
  BY <1>3 DEF TableTypes, HistoryTypes, Live
<1>5. TableTypes' /\ n' \in Nat /\ n <= n' /\ now <= now'  BY <1>1, <1>4 DEF TableTypes
<1>6. EntryTypes' /\ SignedTypes'  BY <1>1, <1>5, EntriesStay, SignedStays
<1>7. WorkTypes' /\ HistoryTypes'
  BY <1>1, <1>2, <1>4, NoWork DEF WorkTypes, HistoryTypes
<1>8. QED  BY <1>1, <1>5, <1>6, <1>7, FromGroups, ChainStays DEF Inv1

LEMMA RestartInv1 ==
  ASSUME Inv1, Restart
  PROVE  Inv1'
<1> USE ToGroups
<1>1. /\ job' = NoJob /\ prune' = NoPrune /\ ver' = [v \in Verifiers |-> NoRun]
      /\ UNCHANGED <<now, n, row, ts, days, chain, link, signed, seals, floor, byHand, odd>>
  BY DEF Restart, events, store, history
<1>2. TableTypes' /\ n' \in Nat /\ n <= n' /\ now <= now'  BY <1>1 DEF TableTypes
<1>3. EntryTypes' /\ SignedTypes'  BY <1>1, <1>2, EntriesStay, SignedStays
<1>4. WorkTypes'
  <2>1. ver' \in [Verifiers -> Run] /\ ver'["job"].at = "off"
    BY <1>1, NoRunIsRun DEF Verifiers
  <2>2. QED  BY <1>1, <2>1, NoWork DEF WorkTypes
<1>5. HistoryTypes'  BY <1>1 DEF HistoryTypes
<1>6. QED  BY <1>1, <1>2, <1>3, <1>4, <1>5, FromGroups, ChainStays DEF Inv1

\* The time of the job's tick, and its report.
LEMMA TickFacts ==
  ASSUME Inv1, job.at \in {"idle", "sealing"}
  PROVE  /\ TickTime \in 0..now /\ TickTime \in Nat /\ TickTime <= now
         /\ TickReports \in [Verifiers -> Run] /\ TickReports["job"].at # "reading"
         /\ \A v \in Verifiers : TickReports[v] \in {ver[v], NoRun}
<1> USE ToGroups
<1>1. now \in Nat /\ now \in 0..now  OBVIOUS
<1>2. job.now \in 0..now  BY DEF WorkTypes
<1>3. TickTime \in 0..now  BY <1>1, <1>2 DEF TickTime
<1>4. TickTime \in Nat /\ TickTime <= now  BY <1>1, <1>3
<1>5. ver \in [Verifiers -> Run] /\ ver["job"].at # "reading"  BY DEF WorkTypes
<1>6. TickReports \in {ver, [ver EXCEPT !["job"] = NoRun]}  BY DEF TickReports
<1>7. TickReports \in [Verifiers -> Run] /\ TickReports["job"].at # "reading"
  BY <1>5, <1>6, NoRunIsRun DEF Verifiers
<1>8. \A v \in Verifiers : TickReports[v] \in {ver[v], NoRun}  BY <1>5, <1>6
<1>9. QED  BY <1>3, <1>4, <1>7, <1>8

\* What a checkpoint signs.
LEMMA CheckpointTypes ==
  ASSUME Inv1, NEW t \in Nat, t <= now, UNCHANGED <<now, days>>,
         CheckpointNow(t) \/ UNCHANGED <<signed, seals, events>>
  PROVE  /\ TableTypes' /\ SignedTypes' /\ n \in Nat /\ n' \in Nat /\ n <= n'
         /\ \A s \in seals' : s \in seals \/ s \in Sealed
<1> USE ToGroups
<1>1. Appended \/ UNCHANGED events  BY DEF CheckpointNow, events
<1>2. TableTypes' /\ n \in Nat /\ n' \in Nat /\ n <= n'  BY <1>1, RecordedTypes
<1>3. \A s \in seals' : s \in seals \/ s \in Sealed
  <2>1. CASE UNCHANGED seals  BY <2>1
  <2>2. CASE CheckpointNow(t) /\ seals' # seals
    <3>1. seals' = seals \cup {MaxOf(Sealed)} /\ Sealed # {}  BY <2>2 DEF CheckpointNow
    <3>2. Sealed \in SUBSET (0..MaxRows)
      <4>1. \A i \in (floor + 1)..n : i \in 0..MaxRows  BY Numbers, Bounds
      <4>2. QED  BY <4>1, Sealing
    <3>3. MaxOf(Sealed) \in Sealed  BY <3>1, <3>2, LastOne
    <3>4. QED  BY <3>1, <3>3
  <2>3. QED  BY <2>1, <2>2
<1>4. seals' \in SUBSET (1..n')
  <2>1. \A s \in Sealed : s \in 1..n'  BY <1>2, Sealing
  <2>2. \A s \in seals : s \in 1..n'  BY <1>2 DEF SignedTypes
  <2>3. QED  BY <1>3, <2>1, <2>2
<1>5. signed \in Seq(Window) /\ signed' \in {signed, Append(signed, [days |-> days, at |-> t])}
  BY DEF CheckpointNow, Signed, SignedTypes
<1>6. ASSUME signed' = signed PROVE SignedTypes'
  BY <1>4, <1>6 DEF SignedTypes
<1>7. ASSUME signed' # signed PROVE SignedTypes'
  <2> DEFINE w == [days |-> days, at |-> t]
             m == Len(signed) + 1
  <2>1. signed' = Append(signed, w) /\ (signed = <<>> \/ signed[Len(signed)].days # days)
    BY <1>5, <1>7 DEF CheckpointNow, Signed
  <2>2. w \in Window /\ w.days = days /\ w.at = t /\ days \in Days  BY DEF Window, TableTypes
  <2>3. Len(signed) \in Nat  BY <1>5
  <2> HIDE DEF w
  <2>4. /\ signed' \in Seq(Window) /\ Len(signed') = m /\ signed'[m] = w
        /\ \A k \in 1..Len(signed) : signed'[k] = signed[k]
    BY <1>5, <2>1, <2>2
  <2>5. \A k \in 1..m : signed'[k].days \in Days /\ signed'[k].at <= now'
    <3> SUFFICES ASSUME NEW k \in 1..m PROVE signed'[k].days \in Days /\ signed'[k].at <= now'
      OBVIOUS
    <3>1. CASE k = m  BY <2>2, <2>4, <3>1
    <3>2. CASE k # m
      <4>1. k \in 1..Len(signed)  BY <2>3, <3>2
      <4>2. signed'[k] = signed[k]  BY <2>4, <4>1
      <4>3. QED  BY <4>1, <4>2 DEF SignedTypes
    <3>3. QED  BY <3>1, <3>2
  <2>6. \A k \in 2..m : signed'[k].days # signed'[k - 1].days
    <3> SUFFICES ASSUME NEW k \in 2..m PROVE signed'[k].days # signed'[k - 1].days  OBVIOUS
    <3>1. CASE k = m
      <4>1. k - 1 = Len(signed) /\ Len(signed) \in 1..Len(signed)  BY <2>3, <3>1
      <4>2. signed'[k - 1] = signed[Len(signed)] /\ signed # <<>>  BY <1>5, <2>4, <4>1
      <4>3. QED  BY <2>1, <2>2, <2>4, <3>1, <4>2
    <3>2. CASE k # m
      <4>1. k \in 2..Len(signed) /\ k \in 1..Len(signed) /\ k - 1 \in 1..Len(signed)
        BY <2>3, <3>2
      <4>2. signed'[k] = signed[k] /\ signed'[k - 1] = signed[k - 1]  BY <2>4, <4>1
      <4>3. QED  BY <4>1, <4>2 DEF SignedTypes
    <3>3. QED  BY <3>1, <3>2
  <2>7. QED  BY <1>4, <2>4, <2>5, <2>6 DEF SignedTypes
<1>8. QED  BY <1>2, <1>3, <1>6, <1>7

\* What sealing leaves, whatever is recorded and signed in the same step.
LEMMA SealedInv1 ==
  ASSUME Inv1, chain' = Sealed, link' = Linked, floor' = floor, n' \in Nat, n <= n',
         \A s \in seals' : s \in seals \/ s \in Sealed
  PROVE  EntryTypes' /\ ChainIsWhole'
<1> USE ToGroups
<1>1. /\ Sealed \in SUBSET ((floor + 1)..n) /\ Linked \in [Ids -> 0..n]
      /\ \A i \in Sealed : Linked[i] = Before(i, Sealed, floor) /\ Linked[i] < i
      /\ \A s \in seals : s > floor => s \in Sealed
  BY Sealing
<1>2. floor \in Nat /\ floor \in 0..n  BY Numbers
<1>3. \A x \in 0..n : x \in 0..n'  OBVIOUS
<1>4. \A x \in (floor + 1)..n : x \in (floor + 1)..n'  BY <1>2
<1>5. EntryTypes'
  <2>1. chain' \in SUBSET ((floor' + 1)..n')  BY <1>1, <1>4
  <2>2. link' \in [Ids -> 0..n']  BY <1>1, <1>3
  <2>3. \A i \in chain' : link'[i] < i  BY <1>1
  <2>4. QED  BY <1>2, <1>3, <2>1, <2>2, <2>3 DEF EntryTypes
<1>6. ChainIsWhole'
  <2>1. \A s \in seals' : s > floor' => s \in chain'  BY <1>1
  <2>2. \A i \in chain' : link'[i] = Before(i, chain', floor')  BY <1>1
  <2>3. QED  BY <2>1, <2>2 DEF ChainIsWhole
<1>7. QED  BY <1>5, <1>6

LEMMA JobSealsInv1 ==
  ASSUME Inv1, JobSeals
  PROVE  Inv1'
<1> USE ToGroups
<1>1. /\ job.at \in {"idle", "sealing"} /\ chain' = Sealed /\ link' = Linked
      /\ UNCHANGED <<now, n, row, ts, days, signed, seals, floor, prune, byHand, odd>>
      /\ job' = [at |-> "sealing", now |-> TickTime] /\ ver' = TickReports
  BY DEF JobSeals, SealsBatch, events, history
<1>2. TableTypes' /\ n' \in Nat /\ n <= n' /\ now <= now'  BY <1>1 DEF TableTypes
<1>3. EntryTypes' /\ ChainIsWhole'  BY <1>1, <1>2, SealedInv1
<1>4. SignedTypes' /\ HistoryTypes'  BY <1>1, <1>2, SignedStays DEF HistoryTypes
<1>5. WorkTypes'  BY <1>1, TickFacts DEF WorkTypes
<1>6. QED  BY <1>2, <1>3, <1>4, <1>5, FromGroups DEF Inv1

LEMMA JobTickInv1 ==
  ASSUME Inv1, NEW verify \in BOOLEAN, JobTick(verify)
  PROVE  Inv1'
<1> USE ToGroups
<1>1. /\ job.at \in {"idle", "sealing"} /\ chain' = Sealed /\ link' = Linked
      /\ CheckpointNow(TickTime) \/ UNCHANGED <<signed, seals, events>>
      /\ UNCHANGED <<now, days, floor, prune, byHand, odd>>
      /\ job' \in {NoJob, [at |-> "compacting", now |-> TickTime]}
      /\ ver' = TickReports
  BY DEF JobTick, SealsBatch, history
<1>2. /\ TableTypes' /\ SignedTypes' /\ n \in Nat /\ n' \in Nat /\ n <= n'
      /\ \A s \in seals' : s \in seals \/ s \in Sealed
  BY <1>1, TickFacts, CheckpointTypes
<1>3. EntryTypes' /\ ChainIsWhole'  BY <1>1, <1>2, SealedInv1
<1>4. WorkTypes'
  <2>1. /\ job' \in [at : {"idle", "sealing", "compacting", "verifying"}, now : 0..now']
        /\ job'.at # "verifying"
    BY <1>1, NoWork, TickFacts
  <2>2. QED  BY <1>1, <2>1, TickFacts DEF WorkTypes
<1>5. HistoryTypes'  BY <1>1 DEF HistoryTypes
<1>6. QED  BY <1>2, <1>3, <1>4, <1>5, FromGroups DEF Inv1

LEMMA ManualSealsInv1 ==
  ASSUME Inv1, ManualSeals
  PROVE  Inv1'
<1> USE ToGroups
<1>1. /\ chain' = Sealed /\ link' = Linked
      /\ UNCHANGED <<now, n, row, ts, days, signed, seals, floor, job, prune, ver, byHand, odd>>
  BY DEF ManualSeals, SealsBatch, events, history
<1>2. TableTypes' /\ n' \in Nat /\ n <= n' /\ now <= now'  BY <1>1 DEF TableTypes
<1>3. EntryTypes' /\ ChainIsWhole'  BY <1>1, <1>2, SealedInv1
<1>4. SignedTypes' /\ WorkTypes' /\ HistoryTypes'
  BY <1>1, <1>2, SignedStays, WorkStays DEF HistoryTypes
<1>5. QED  BY <1>2, <1>3, <1>4, FromGroups DEF Inv1

LEMMA JobVerifiesInv1 ==
  ASSUME Inv1, NEW k \in 0..MaxRows, JobVerifies(k)
  PROVE  Inv1'
<1> USE ToGroups
<1> DEFINE b == Begun(job.now, chain', floor')
           d == ver["job"].disturbed
           e == ver["manual"].disturbed \/ chain' # chain
           r == Read([b EXCEPT !.disturbed = d], chain', link)
<1>1. /\ job.at = "compacting" /\ Compact(k)
      /\ ver' = [ver EXCEPT !["job"] = r, !["manual"].disturbed = e]
      /\ job' = IF r.at = "done" THEN NoJob ELSE [job EXCEPT !.at = "verifying"]
      /\ Alarm(r)
      /\ UNCHANGED <<now, days, link, signed, seals, prune, byHand, odd>>
  BY DEF JobVerifies, history
<1>2. /\ floor' \in 0..n /\ floor <= floor'
      /\ chain' \in SUBSET ((floor' + 1)..n) /\ chain' \subseteq chain
      /\ \A i \in chain' : link[i] = Before(i, chain', floor')
      /\ \A i \in chain : i > floor' => i \in chain'
  BY <1>1, Compacting
<1>3. Appended \/ UNCHANGED events  BY <1>1 DEF Alarm
<1>4. TableTypes' /\ n' \in Nat /\ n <= n' /\ now <= now'
  BY <1>1, <1>3, RecordedTypes
<1>5. EntryTypes'
  <2>1. n \in Nat /\ n' \in Nat /\ n <= n'  BY <1>4
  <2>2. floor' \in Nat /\ \A x \in 0..n : x \in 0..n'  BY <1>2, <2>1
  <2>3. \A x \in (floor' + 1)..n : x \in (floor' + 1)..n'  BY <2>1, <2>2, Grows
  <2>4. link' \in [Ids -> 0..n'] /\ \A i \in chain' : link'[i] < i
    BY <1>1, <1>2, <2>2 DEF EntryTypes
  <2>5. QED  BY <1>2, <2>2, <2>3, <2>4 DEF EntryTypes
<1>6. ChainIsWhole'
  <2>1. \A s \in seals' : s > floor' => s \in chain'
    <3> SUFFICES ASSUME NEW s \in seals, s > floor' PROVE s \in chain'  BY <1>1
    <3>1. s > floor
      <4>1. floor \in Nat /\ s \in Nat /\ floor' \in Nat  BY <1>2, Numbers, RowIds
      <4>2. QED  BY ONLY <4>1, <1>2, s > floor'
    <3>2. QED  BY <1>2, <3>1 DEF ChainIsWhole
  <2>2. \A i \in chain' : link'[i] = Before(i, chain', floor')  BY <1>1, <1>2
  <2>3. QED  BY <2>1, <2>2 DEF ChainIsWhole
<1>7. SignedTypes'  BY <1>1, <1>4, SignedStays
<1>8. WorkTypes'
  <2>1. job.now \in Nat /\ d \in BOOLEAN /\ e \in BOOLEAN /\ ver["manual"] \in Run
    BY DEF WorkTypes, Verifiers, Run
  <2>2. chain' \in SUBSET Ids /\ floor' \in 0..MaxRows
    BY <1>2, Numbers, Bounds
  <2>3. b \in Run /\ b.at = "reading"  BY <2>1, <2>2, BegunTypes
  <2> HIDE DEF b, d, e
  <2>4. [b EXCEPT !.disturbed = d] \in Run /\ [b EXCEPT !.disturbed = d].at = "reading"
    BY <2>1, <2>3, Disturbing
  <2>5. r \in Run /\ r.at \in {"reading", "done"}  BY <2>2, <2>4, ReadTypes
  <2>6. [ver["manual"] EXCEPT !.disturbed = e] \in Run  BY <2>1, Disturbing
  <2> HIDE DEF r
  <2>7. ver' \in [Verifiers -> Run] /\ ver'["job"] = r
    <3>1. /\ ver'["job"] = r /\ ver'["manual"] = [ver["manual"] EXCEPT !.disturbed = e]
          /\ DOMAIN ver' = Verifiers /\ ver' = [v \in Verifiers |-> ver'[v]]
      BY <1>1 DEF WorkTypes, Verifiers
    <3>2. \A v \in Verifiers : ver'[v] \in Run  BY <2>5, <2>6, <3>1 DEF Verifiers
    <3>3. QED  BY <3>1, <3>2
  <2>8. /\ job' \in [at : {"idle", "sealing", "compacting", "verifying"}, now : 0..now]
        /\ job'.at = "verifying" <=> r.at # "done"
    BY <1>1, NoWork DEF WorkTypes
  <2>9. QED  BY <1>1, <2>5, <2>7, <2>8 DEF WorkTypes
<1>9. HistoryTypes'  BY <1>1 DEF HistoryTypes
<1>10. QED  BY <1>4, <1>5, <1>6, <1>7, <1>8, <1>9, FromGroups DEF Inv1

LEMMA ManualVerifyInv1 ==
  ASSUME Inv1, ManualVerify
  PROVE  Inv1'
<1> USE ToGroups
<1> DEFINE b == Begun(now, Sealed, floor)
           r == Read(b, Sealed, Linked)
<1>1. /\ chain' = Sealed /\ link' = Linked
      /\ ver' = [ver EXCEPT !["manual"] = r]
      /\ Alarm(r)
      /\ UNCHANGED <<now, days, signed, seals, floor, job, prune, byHand, odd>>
  BY DEF ManualVerify, SealsBatch, history
<1>2. Appended \/ UNCHANGED events  BY <1>1 DEF Alarm
<1>3. TableTypes' /\ n' \in Nat /\ n <= n' /\ now <= now'
  BY <1>1, <1>2, RecordedTypes
<1>4. EntryTypes' /\ ChainIsWhole'  BY <1>1, <1>3, SealedInv1
<1>5. SignedTypes'  BY <1>1, <1>3, SignedStays
<1>6. WorkTypes'
  <2>1. Sealed \in SUBSET Ids
    <3>1. \A i \in (floor + 1)..n : i \in Ids  BY Numbers, Bounds
    <3>2. QED  BY <3>1, Sealing
  <2>2. b \in Run /\ b.at = "reading"  BY <2>1, BegunTypes
  <2> HIDE DEF b
  <2>3. r \in Run  BY <2>1, <2>2, ReadTypes
  <2> HIDE DEF r
  <2>4. ver' \in [Verifiers -> Run] /\ ver'["job"] = ver["job"]
    BY <1>1, <2>3 DEF WorkTypes, Verifiers
  <2>5. QED  BY <1>1, <2>4 DEF WorkTypes
<1>7. HistoryTypes'  BY <1>1 DEF HistoryTypes
<1>8. QED  BY <1>3, <1>4, <1>5, <1>6, <1>7, FromGroups DEF Inv1

LEMMA VerifyBatchInv1 ==
  ASSUME Inv1, NEW v \in Verifiers, VerifyBatch(v)
  PROVE  Inv1'
<1> USE ToGroups
<1> DEFINE r == Read(ver[v], chain, link)
<1>1. /\ ver[v].at = "reading" /\ ver' = [ver EXCEPT ![v] = r]
      /\ job' = IF v = "job" /\ r.at = "done" THEN NoJob ELSE job
      /\ Alarm(r)
      /\ UNCHANGED <<now, days, chain, link, signed, seals, floor, prune, byHand, odd>>
  BY DEF VerifyBatch, history, store
<1>2. Appended \/ UNCHANGED events  BY <1>1 DEF Alarm
<1>3. TableTypes' /\ n' \in Nat /\ n <= n' /\ now <= now'
  BY <1>1, <1>2, RecordedTypes
<1>4. EntryTypes' /\ SignedTypes'  BY <1>1, <1>3, EntriesStay, SignedStays
<1>5. WorkTypes'
  <2>1. ver[v] \in Run /\ chain \in SUBSET Ids  BY Numbers DEF WorkTypes
  <2>2. r \in Run /\ r.at \in {"reading", "done"}  BY <1>1, <2>1, ReadTypes
  <2> HIDE DEF r
  <2>3. ver' \in [Verifiers -> Run] /\ \A w \in Verifiers : ver'[w] = IF w = v THEN r ELSE ver[w]
    BY <1>1, <2>2 DEF WorkTypes
  <2>4. job' \in [at : {"idle", "sealing", "compacting", "verifying"}, now : 0..now]
    BY <1>1, NoWork DEF WorkTypes
  <2>5. ver'["job"].at = "reading" <=> job'.at = "verifying"
    <3>1. CASE v = "job"
      <4>1. job.at = "verifying"  BY <1>1, <3>1 DEF WorkTypes
      <4>2. ver'["job"] = r  BY <2>3, <3>1
      <4>3. QED  BY <1>1, <2>2, <3>1, <4>1, <4>2, NoWork
    <3>2. CASE v # "job"
      <4>1. ver'["job"] = ver["job"] /\ job' = job  BY <1>1, <2>3, <3>2 DEF Verifiers
      <4>2. QED  BY <4>1 DEF WorkTypes
    <3>3. QED  BY <3>1, <3>2
  <2>6. QED  BY <1>1, <2>3, <2>4, <2>5 DEF WorkTypes
<1>6. HistoryTypes'  BY <1>1 DEF HistoryTypes
<1>7. QED  BY <1>1, <1>3, <1>4, <1>5, <1>6, FromGroups, ChainStays DEF Inv1

-----------------------------------------------------------------------------
(* The first theorems *)

LEMMA StartsInv1 ==
  ASSUME Init
  PROVE  Inv1
<1>1. TableTypes  BY Bounds, RowIds, AuditConstants DEF Init, TableTypes
<1>2. EntryTypes  BY Bounds DEF Init, EntryTypes
<1>3. SignedTypes
  <2>1. signed = <<>> /\ Len(signed) = 0 /\ seals = {}  BY DEF Init
  <2>2. signed \in Seq(Window)  BY <2>1
  <2>3. 1..Len(signed) = {} /\ 2..Len(signed) = {}  BY <2>1
  <2>4. QED  BY <2>1, <2>2, <2>3 DEF SignedTypes
<1>4. WorkTypes
  <2>1. /\ job = NoJob /\ prune = NoPrune /\ ver = [v \in Verifiers |-> NoRun] /\ now = 0
    BY DEF Init
  <2>2. ver \in [Verifiers -> Run] /\ ver["job"].at = "off"
    BY <2>1, NoRunIsRun DEF Verifiers
  <2>3. QED  BY <2>1, <2>2 DEF WorkTypes, NoJob, NoPrune
<1>5. HistoryTypes  BY DEF Init, HistoryTypes
<1>6. ChainIsWhole  BY DEF Init, ChainIsWhole
<1>7. QED  BY <1>1, <1>2, <1>3, <1>4, <1>5, <1>6, Groups DEF Inv1

LEMMA StaysInv1 ==
  ASSUME Inv1, [Next]_vars
  PROVE  Inv1'
<1>1. CASE Next
  BY <1>1, TickInv1, RecordInv1, SetRetentionInv1, RestartInv1, HandsInv1, PruneBeginsInv1,
     PruneBatchInv1, JobSealsInv1, JobTickInv1, JobVerifiesInv1, ManualSealsInv1,
     ManualVerifyInv1, VerifyBatchInv1
  DEF Next
<1>2. CASE UNCHANGED vars
  <2>1. UNCHANGED <<now, n, row, ts, days, chain, link, signed, seals, floor, job, prune, ver,
                    byHand, odd>>
    BY <1>2 DEF vars, events, store, history
  <2>2. TableTypes' /\ EntryTypes' /\ SignedTypes' /\ WorkTypes' /\ HistoryTypes'
    BY <2>1, ToGroups DEF TableTypes, EntryTypes, SignedTypes, WorkTypes, HistoryTypes
  <2>3. QED  BY <2>1, <2>2, ToGroups, FromGroups, ChainStays DEF Inv1
<1>3. QED  BY <1>1, <1>2

\* The tables, the checkpoints and the verifications keep their types.
THEOREM AuditTypes == Spec => []TypeOK
<1>1. Inv1 => TypeOK  BY DEF Inv1, Types
<1>2. QED  BY <1>1, StartsInv1, StaysInv1, PTL DEF Spec

\* The chain is linked from its head down to its floor and holds every signed head
\* above it, however the job and the route seal and compact (auditChain.js).
THEOREM ChainStaysWhole == Spec => []ChainIsWhole
<1>1. Inv1 => ChainIsWhole  BY DEF Inv1
<1>2. QED  BY <1>1, StartsInv1, StaysInv1, PTL DEF Spec

-----------------------------------------------------------------------------
(* What retention explains *)

\* The rows among t (their times) old enough for one of the windows.
Old(windows, t) == {i \in Ids : \E w \in windows : t[i] < w.until - w.days}

\* The time the next checkpoint would be signed with.
Horizon == IF job.at = "sealing" THEN job.now ELSE now

\* The rows that the windows signed so far explain, and will.
Past == Old(Windows(Horizon), ts)

LEMMA Explaining ==
  ASSUME NEW windows, NEW i \in Ids
  PROVE  Explained(i, windows) <=> i \in Old(windows, ts)
BY DEF Explained, Old

\* A window, named by its place among the signed ones.
LEMMA Explains ==
  ASSUME NEW t, NEW i \in Ids
  PROVE  Explained(i, Windows(t)) <=>
           \E k \in 1..Len(signed) :
             ts[i] < (IF k = Len(signed) THEN t ELSE signed[k + 1].at) - signed[k].days
<1> DEFINE w(k) == [days |-> signed[k].days,
                    until |-> IF k = Len(signed) THEN t ELSE signed[k + 1].at]
<1>1. Windows(t) = {w(k) : k \in 1..Len(signed)}  BY DEF Windows
<1>2. Explained(i, Windows(t)) <=> \E k \in 1..Len(signed) : ts[i] < w(k).until - w(k).days
  BY <1>1 DEF Explained
<1>3. QED  BY <1>2

LEMMA SignedNumbers ==
  ASSUME Inv1
  PROVE  /\ Len(signed) \in Nat
         /\ \A k \in 1..Len(signed) : signed[k].days \in Nat /\ signed[k].at \in Nat
         /\ \A i \in Ids : ts[i] \in Nat
<1>1. signed \in Seq(Window)  BY ToGroups DEF SignedTypes
<1>2. \A k \in 1..Len(signed) : signed[k] \in Window  BY <1>1
<1>3. \A k \in 1..Len(signed) : signed[k].days \in Nat /\ signed[k].at \in Nat
  BY <1>2, Bounds DEF Window
<1>4. now \in Nat /\ ts \in [Ids -> 0..now]  BY ToGroups DEF TableTypes
<1>5. QED  BY <1>1, <1>3, <1>4

LEMMA HorizonFacts ==
  ASSUME Inv1
  PROVE  /\ now \in Nat /\ job.now \in Nat /\ job.now <= now
         /\ Horizon \in Nat /\ Horizon <= now
         /\ job.at \in {"idle", "sealing"} => TickTime = Horizon
<1>1. now \in Nat  BY ToGroups
<1>2. job.now \in 0..now  BY ToGroups DEF WorkTypes
<1>3. job.now \in Nat /\ job.now <= now  BY <1>1, <1>2
<1>4. QED  BY <1>1, <1>3 DEF Horizon, TickTime

\* What is explained at an earlier time still is.
LEMMA EarlierExplains ==
  ASSUME Inv1, NEW t \in Nat, NEW u \in Nat, t <= u, NEW i \in Ids, Explained(i, Windows(t))
  PROVE  i \in Old(Windows(u), ts)
<1>1. PICK k \in 1..Len(signed) :
        ts[i] < (IF k = Len(signed) THEN t ELSE signed[k + 1].at) - signed[k].days
  BY Explains
<1>2. signed[k].days \in Nat /\ ts[i] \in Nat  BY SignedNumbers
<1>3. ts[i] < (IF k = Len(signed) THEN u ELSE signed[k + 1].at) - signed[k].days
  <2>1. CASE k = Len(signed)  BY <1>1, <1>2, <2>1
  <2>2. CASE k # Len(signed)  BY <1>1, <2>2
  <2>3. QED  BY <2>1, <2>2
<1>4. Explained(i, Windows(u))  BY <1>3, Explains
<1>5. QED  BY <1>4, Explaining

LEMMA PastExplains ==
  ASSUME Inv1, NEW i \in Past, NEW t \in Nat, Horizon <= t
  PROVE  i \in Ids /\ i \in Old(Windows(t), ts) /\ Explained(i, Windows(t))
<1>1. i \in Ids /\ Explained(i, Windows(Horizon))  BY Explaining DEF Past, Old
<1>2. i \in Old(Windows(t), ts)  BY <1>1, HorizonFacts, EarlierExplains
<1>3. QED  BY <1>1, <1>2, Explaining

\* ... and so it is after a step that signs another window, or lets time go by.
LEMMA StillExplained ==
  ASSUME Inv1, NEW i \in Past, ts'[i] = ts[i], NEW t \in Nat, Horizon <= t,
         signed' = signed \/ signed' = Append(signed, [days |-> days, at |-> Horizon])
  PROVE  /\ i \in Ids
         /\ \E k \in 1..Len(signed') :
              ts'[i] < (IF k = Len(signed') THEN t ELSE signed'[k + 1].at) - signed'[k].days
<1>1. i \in Ids /\ Explained(i, Windows(Horizon))  BY Explaining DEF Past, Old
<1>2. PICK k \in 1..Len(signed) :
        ts[i] < (IF k = Len(signed) THEN Horizon ELSE signed[k + 1].at) - signed[k].days
  BY <1>1, Explains
<1>3. Len(signed) \in Nat /\ signed[k].days \in Nat /\ ts[i] \in Nat /\ Horizon \in Nat
  BY <1>1, SignedNumbers, HorizonFacts
<1> DEFINE until == IF k = Len(signed') THEN t ELSE signed'[k + 1].at
<1>4. k \in 1..Len(signed') /\ ts'[i] < until - signed'[k].days
  <2>1. CASE signed' = signed
    <3>1. CASE k = Len(signed)  BY <1>2, <1>3, <2>1, <3>1
    <3>2. CASE k # Len(signed)  BY <1>2, <2>1, <3>2
    <3>3. QED  BY <3>1, <3>2
  <2>2. CASE signed' = Append(signed, [days |-> days, at |-> Horizon])
    <3> DEFINE w == [days |-> days, at |-> Horizon]
               m == Len(signed) + 1
    <3>1. signed \in Seq(Window)  BY ToGroups DEF SignedTypes
    <3>2. w.at = Horizon  OBVIOUS
    <3> HIDE DEF w
    <3>3. /\ Len(signed') = m /\ signed'[m] = w
          /\ \A j \in 1..Len(signed) : signed'[j] = signed[j]
      BY <2>2, <3>1 DEF w
    <3>4. k # Len(signed') /\ k \in 1..Len(signed')  BY <1>3, <3>3
    <3>5. until = signed'[k + 1].at /\ signed'[k] = signed[k]  BY <3>3, <3>4
    <3>6. CASE k = Len(signed)  BY <1>2, <3>2, <3>3, <3>4, <3>5, <3>6
    <3>7. CASE k # Len(signed)
      <4>1. k + 1 \in 1..Len(signed)  BY <1>3, <3>7
      <4>2. signed'[k + 1] = signed[k + 1]  BY <3>3, <4>1
      <4>3. QED  BY <1>2, <3>4, <3>5, <3>7, <4>2
    <3>8. QED  BY <3>6, <3>7
  <2>3. QED  BY <2>1, <2>2
<1>5. QED  BY <1>1, <1>4

\* The clock, and the windows a step signs: the time of a checkpoint never goes back.
LEMMA ClockOnward ==
  ASSUME Inv1, [Next]_vars
  PROVE  /\ now' \in Nat /\ now <= now' /\ Horizon' \in Nat /\ Horizon <= Horizon'
         /\ signed' = signed \/ signed' = Append(signed, [days |-> days, at |-> Horizon])
<1>0. now \in Nat /\ now + 1 \in Nat /\ now <= now + 1 /\ now <= now  BY ToGroups
<1>1. now' \in {now, now + 1}
  BY DEF Next, vars, Tick, Record, SetRetention, Restart, Hands, PruneBegins, PruneBatch, JobSeals,
         JobTick, JobVerifies, ManualSeals, ManualVerify, VerifyBatch
<1>2. now' \in Nat /\ now <= now'  BY <1>0, <1>1
<1>3. CASE \E verify \in BOOLEAN : JobTick(verify)
  <2>1. PICK verify \in BOOLEAN : JobTick(verify)  BY <1>3
  <2>2. job.at \in {"idle", "sealing"} /\ job'.at # "sealing" /\ now' = now
        /\ (CheckpointNow(TickTime) \/ signed' = signed)
    BY <2>1 DEF JobTick, NoJob
  <2>3. Horizon' = now  BY <2>2 DEF Horizon
  <2>4. signed' = signed \/ signed' = Append(signed, [days |-> days, at |-> TickTime])
    BY <2>2 DEF CheckpointNow, Signed
  <2>5. QED  BY <1>2, <2>2, <2>3, <2>4, HorizonFacts
<1>4. CASE JobSeals
  <2>1. /\ job.at \in {"idle", "sealing"} /\ signed' = signed
        /\ job' = [at |-> "sealing", now |-> TickTime]
    BY <1>4 DEF JobSeals
  <2>2. Horizon' = TickTime  BY <2>1 DEF Horizon
  <2>3. QED  BY <1>2, <2>1, <2>2, HorizonFacts
<1>5. CASE ~JobSeals /\ ~(\E verify \in BOOLEAN : JobTick(verify))
  <2>1. signed' = signed
    BY <1>5 DEF Next, vars, store, Tick, Record, SetRetention, Restart, Hands, PruneBegins, PruneBatch,
                JobVerifies, ManualSeals, ManualVerify, VerifyBatch
  <2>2. job' = job \/ job'.at # "sealing"
    <3>1. CASE \E k \in 0..MaxRows : JobVerifies(k)
      <4>1. job' = NoJob \/ job' = [job EXCEPT !.at = "verifying"]  BY <3>1 DEF JobVerifies
      <4>2. job \in [at : {"idle", "sealing", "compacting", "verifying"}, now : 0..now]
        BY ToGroups DEF WorkTypes
      <4>3. QED  BY <4>1, <4>2 DEF NoJob
    <3>2. CASE \E v \in Verifiers : VerifyBatch(v)  BY <3>2 DEF VerifyBatch, NoJob
    <3>3. CASE Restart  BY <3>3 DEF Restart, NoJob
    <3>4. QED
      BY <1>5, <3>1, <3>2, <3>3
      DEF Next, vars, Tick, Record, SetRetention, Hands, PruneBegins, PruneBatch, ManualSeals, ManualVerify
  <2>3. CASE job' = job /\ job.at = "sealing"
    <3>1. Horizon' = job.now /\ Horizon = job.now  BY <2>3 DEF Horizon
    <3>2. QED  BY <1>2, <2>1, <3>1, HorizonFacts
  <2>4. CASE job'.at # "sealing"
    <3>1. Horizon' = now'  BY <2>4 DEF Horizon
    <3>2. QED  BY <1>0, <1>2, <2>1, <3>1, HorizonFacts
  <2>5. QED  BY <2>2, <2>3, <2>4
<1>6. QED  BY <1>3, <1>4, <1>5

LEMMA PastStays ==
  ASSUME Inv1, [Next]_vars, NEW i \in Past, ts'[i] = ts[i]
  PROVE  i \in Past'
<1>1. /\ Horizon' \in Nat /\ Horizon <= Horizon'
      /\ signed' = signed \/ signed' = Append(signed, [days |-> days, at |-> Horizon])
  BY ClockOnward
<1>2. PICK k \in 1..Len(signed') :
        ts'[i] < (IF k = Len(signed') THEN Horizon' ELSE signed'[k + 1].at) - signed'[k].days
  BY <1>1, StillExplained
<1>3. [days |-> signed'[k].days,
       until |-> IF k = Len(signed') THEN Horizon' ELSE signed'[k + 1].at] \in Windows(Horizon)'
  BY DEF Windows
<1>4. i \in Ids  BY DEF Past, Old
<1>5. QED  BY <1>2, <1>3, <1>4 DEF Past, Old

-----------------------------------------------------------------------------
(* What a batch reads *)

\* A row not as it was sealed, with its entry ahead: the batch reports it, or has
\* still to come to it.
LEMMA ReadCatches ==
  ASSUME NEW r \in Run, NEW c \in SUBSET Ids, NEW l, r.at = "reading",
         NEW i \in c, r.after < i, i <= r.head,
         row[i] \in {"edited", "gone"}, ~Explained(i, r.windows)
  PROVE  LET q == Read(r, c, l)
         IN  \/ i \in q.found
             \/ q.at = "reading" /\ q.after < i /\ i <= q.head /\ q.windows = r.windows
<1> DEFINE ahead == {j \in c : r.after < j /\ j <= r.head}
           next == {j \in ahead : Cardinality({k \in ahead : k < j}) < Batch}
           hi == MaxOf({r.after} \cup next)
           broken == {j \in next : l[j] # Before(j, next, r.after)}
           unsealed == {j \in Live \ c : r.after < j /\ j <= hi}
           wrong == {j \in next : Wrong(j, r.windows)}
           left == r.seals \ next
           done == Cardinality(next) < Batch
           below == {j \in Live : j <= r.floor}
           found == r.found \cup broken \cup unsealed \cup wrong
           q == Read(r, c, l)
<1>1. q = IF done
          THEN [NoRun EXCEPT !.at = "done", !.hurt = r.hurt, !.disturbed = r.disturbed,
                             !.found = found \cup below \cup left]
          ELSE [r EXCEPT !.after = hi, !.seals = left, !.found = found]
  BY DEF Read
<1>2. found \subseteq q.found
  <2> HIDE DEF found, below, left, hi, done
  <2>1. CASE done  BY <1>1, <2>1 DEF NoRun
  <2>2. CASE ~done
    <3>1. q = [r EXCEPT !.after = hi, !.seals = left, !.found = found]  BY <1>1, <2>2
    <3> HIDE DEF q
    <3>2. q.found = found  BY <3>1 DEF Run
    <3>3. QED  BY <3>2
  <2>3. QED  BY <2>1, <2>2
<1>3. i \in ahead /\ ahead \in SUBSET Ids  OBVIOUS
<1>4. CASE i \in next
  <2>1. Wrong(i, r.windows)  BY DEF Wrong
  <2>2. i \in wrong  BY <1>4, <2>1
  <2>3. QED  BY <1>2, <2>2
<1>5. CASE i \notin next
  <2> HIDE DEF ahead, q, found, left
  <2>1. next = {j \in ahead : Cardinality({k \in ahead : k < j}) < Batch}  OBVIOUS
  <2> HIDE DEF next
  <2>2. ~(Cardinality(next) < Batch) /\ \A j \in next : j < i  BY <1>3, <1>5, <2>1, BatchIsFirst
  <2>3. {r.after} \cup next \in SUBSET (0..MaxRows)
    <3>1. r.after \in 0..MaxRows  BY DEF Run
    <3>2. next \in SUBSET Ids  BY <1>3, <2>1
    <3>3. QED  BY <3>1, <3>2, Bounds
  <2>4. hi \in {r.after} \cup next  BY <2>3, LastOne
  <2>5. hi < i  BY <2>2, <2>4
  <2>6. q = [r EXCEPT !.after = hi, !.seals = left, !.found = found]  BY <1>1, <2>2
  <2> HIDE DEF hi
  <2>7. q.at = "reading" /\ q.after = hi /\ q.head = r.head /\ q.windows = r.windows
    BY <2>6 DEF Run
  <2>8. QED  BY <2>5, <2>7 DEF q
<1>6. QED  BY <1>4, <1>5

-----------------------------------------------------------------------------
(* Rows hands have touched *)

\* A row that was hurt when a verification began is reported, explained, or still
\* ahead of it with its entry.
Pending(r, c, touched, past, t) ==
  \A i \in r.hurt :
    /\ i \in touched
    /\ \/ i \in r.found
       \/ i \in past
       \/ /\ r.at = "reading" /\ i \in c /\ r.after < i /\ i <= r.head
          /\ i \notin Old(r.windows, t)

HandsShow == \A i \in byHand : i \in Ids /\ row[i] \in {"edited", "gone"}

\* A touched row whose entry is gone was explained when it was compacted.
Dropped == \A i \in byHand \ chain : i \in Past

Reported == \A v \in Verifiers : Pending(ver[v], chain, byHand, Past, ts)

Inv2 == Inv1 /\ HandsShow /\ Dropped /\ Reported

LEMMA PendingStays ==
  ASSUME NEW r, NEW c, NEW touched \in SUBSET Ids, NEW past, NEW t,
         NEW c2, NEW touched2, NEW past2, NEW t2,
         Pending(r, c, touched, past, t),
         touched \subseteq touched2,
         \A i \in touched : i \in past => i \in past2,
         \A i \in touched : t2[i] = t[i],
         \A i \in touched : i \in c => i \in c2 \/ i \in past2
  PROVE  Pending(r, c2, touched2, past2, t2)
<1> SUFFICES ASSUME NEW i \in r.hurt
             PROVE  /\ i \in touched2
                    /\ \/ i \in r.found
                       \/ i \in past2
                       \/ /\ r.at = "reading" /\ i \in c2 /\ r.after < i /\ i <= r.head
                          /\ i \notin Old(r.windows, t2)
  BY DEF Pending
<1>1. /\ i \in touched
      /\ \/ i \in r.found
         \/ i \in past
         \/ /\ r.at = "reading" /\ i \in c /\ r.after < i /\ i <= r.head
            /\ i \notin Old(r.windows, t)
  BY DEF Pending
<1>2. i \in Old(r.windows, t2) => i \in Old(r.windows, t)  BY <1>1 DEF Old
<1>3. QED  BY <1>1, <1>2

\* A batch settles what it comes to.
LEMMA ReadPending ==
  ASSUME NEW r \in Run, NEW c \in SUBSET Ids, NEW l, r.at = "reading", HandsShow,
         Pending(r, c, byHand, Past, ts)
  PROVE  Pending(Read(r, c, l), c, byHand, Past, ts)
<1> DEFINE q == Read(r, c, l)
<1>1. q.hurt = r.hurt /\ r.found \subseteq q.found  BY ReadTypes
<1>2. ASSUME NEW i \in r.hurt
      PROVE  /\ i \in byHand
             /\ \/ i \in q.found
                \/ i \in Past
                \/ /\ q.at = "reading" /\ i \in c /\ q.after < i /\ i <= q.head
                   /\ i \notin Old(q.windows, ts)
  <2> HIDE DEF q
  <2>1. /\ i \in byHand
        /\ \/ i \in r.found
           \/ i \in Past
           \/ i \in c /\ r.after < i /\ i <= r.head /\ i \notin Old(r.windows, ts)
    BY <1>2 DEF Pending
  <2>2. CASE i \in r.found \/ i \in Past  BY <1>1, <2>1, <2>2
  <2>3. CASE i \in c /\ r.after < i /\ i <= r.head /\ i \notin Old(r.windows, ts)
    <3>1. i \in Ids /\ row[i] \in {"edited", "gone"}  BY <2>1 DEF HandsShow
    <3>2. ~Explained(i, r.windows)  BY <2>3, <3>1, Explaining
    <3>3. \/ i \in q.found
          \/ q.at = "reading" /\ q.after < i /\ i <= q.head /\ q.windows = r.windows
      BY <2>3, <3>1, <3>2, ReadCatches DEF q
    <3>4. QED  BY <2>1, <2>3, <3>3
  <2>4. QED  BY <2>1, <2>2, <2>3
<1> HIDE DEF q
<1>3. \A i \in q.hurt : i \in r.hurt  BY <1>1
<1>4. Pending(q, c, byHand, Past, ts)  BY <1>2, <1>3 DEF Pending
<1>5. QED  BY <1>4 DEF q

-----------------------------------------------------------------------------
(* ... through every step *)

\* Touched rows stay touched, keep their times, show it, and once explained stay so.
LEMMA Onward ==
  ASSUME Inv2, [Next]_vars
  PROVE  /\ HandsShow' /\ byHand \subseteq byHand' /\ byHand \in SUBSET Ids
         /\ \A i \in byHand : ts'[i] = ts[i] /\ (i \in Past => i \in Past')
         /\ \A i \in byHand' : i \in byHand \/ (i \in chain /\ chain' = chain)
<1> USE ToGroups
<1>1. Inv1 /\ HandsShow  BY DEF Inv2
<1>2. \A i \in byHand : i \in Ids /\ i \in Nat /\ i <= n /\ row[i] \in {"edited", "gone"}
  <2>1. \A i \in byHand : i \in Ids /\ row[i] # "none"  BY <1>1 DEF HandsShow
  <2>2. \A i \in Ids : i \in Nat /\ (row[i] # "none" => i <= n)  BY <1>1, RowIds DEF TableTypes
  <2>3. QED  BY <1>1, <2>1, <2>2 DEF HandsShow
<1> DEFINE Keeps == \A i \in byHand : ts'[i] = ts[i] /\ row'[i] \in {"edited", "gone"}
           Same == byHand' = byHand /\ Keeps
<1>3. ASSUME Same
      PROVE  /\ HandsShow' /\ byHand \subseteq byHand' /\ byHand \in SUBSET Ids
             /\ \A i \in byHand : ts'[i] = ts[i] /\ (i \in Past => i \in Past')
             /\ \A i \in byHand' : i \in byHand \/ (i \in chain /\ chain' = chain)
  <2>1. HandsShow'  BY <1>2, <1>3 DEF HandsShow
  <2>2. byHand' = byHand /\ \A i \in byHand : ts'[i] = ts[i]  BY <1>3
  <2>3. \A i \in byHand : i \in Past => i \in Past'  BY <1>1, <2>2, PastStays
  <2>4. byHand \in SUBSET Ids  BY <1>2
  <2> HIDE DEF Same, Keeps
  <2>5. \A i \in byHand : ts'[i] = ts[i] /\ (i \in Past => i \in Past')  BY ONLY <2>2, <2>3
  <2>6. \A i \in byHand' : i \in byHand \/ (i \in chain /\ chain' = chain)  BY ONLY <2>2
  <2>7. byHand \subseteq byHand'  BY ONLY <2>2
  <2>8. QED  BY ONLY <2>1, <2>4, <2>5, <2>6, <2>7
<1>4. Appended \/ UNCHANGED events => (UNCHANGED now /\ UNCHANGED days => Keeps)
  <2> SUFFICES ASSUME Appended \/ UNCHANGED events, UNCHANGED now, UNCHANGED days PROVE Keeps
    OBVIOUS
  <2>1. \A i \in Ids : i <= n => row'[i] = row[i] /\ ts'[i] = ts[i]
    BY <1>1, RecordedTypes
  <2>2. QED  BY <1>2, <2>1
<1>6. CASE Tick
  <2>1. UNCHANGED <<row, ts, byHand>>  BY <1>6 DEF Tick, events, history
  <2>2. Same  BY <1>2, <2>1
  <2>3. QED  BY <1>3, <2>2
<1>7. CASE \/ Record \/ (\E verify \in BOOLEAN : JobTick(verify)) \/ ManualVerify
           \/ (\E k \in 0..MaxRows : JobVerifies(k)) \/ (\E v \in Verifiers : VerifyBatch(v))
  <2>1. Appended \/ UNCHANGED events
    BY <1>7 DEF Record, JobTick, CheckpointNow, ManualVerify, JobVerifies, VerifyBatch, Alarm
  <2>2. UNCHANGED <<now, days, byHand>>
    BY <1>7 DEF Record, JobTick, ManualVerify, JobVerifies, VerifyBatch, history, store
  <2>3. Same  BY <1>4, <2>1, <2>2
  <2>4. QED  BY <1>3, <2>3
<1>8. CASE SetRetention \/ PruneBegins \/ Restart \/ JobSeals \/ ManualSeals \/ UNCHANGED vars
  <2>1. UNCHANGED <<row, ts, byHand>>
    BY <1>8 DEF SetRetention, PruneBegins, Restart, JobSeals, ManualSeals, vars, events, history
  <2>2. Same  BY <1>2, <2>1
  <2>3. QED  BY <1>3, <2>2
<1>9. CASE PruneBatch
  <2>1. UNCHANGED <<ts, byHand>>  BY <1>9 DEF PruneBatch
  <2>2. UNCHANGED row \/ \E i \in Ids : row' = [row EXCEPT ![i] = "gone"]
    BY <1>9 DEF PruneBatch, Prunable, Live
  <2>3. \A i \in byHand : row'[i] \in {"edited", "gone"}
    <3>1. row \in [Ids -> {"none", "live", "edited", "gone"}]  BY <1>1 DEF TableTypes
    <3>2. QED  BY <1>2, <2>2, <3>1
  <2>4. Same  BY <2>1, <2>3
  <2>5. QED  BY <1>3, <2>4
<1>10. ASSUME NEW h \in Ids, Hands(h)
       PROVE  /\ HandsShow' /\ byHand \subseteq byHand' /\ byHand \in SUBSET Ids
              /\ \A i \in byHand : ts'[i] = ts[i] /\ (i \in Past => i \in Past')
              /\ \A i \in byHand' : i \in byHand \/ (i \in chain /\ chain' = chain)
  <2>1. /\ byHand' = byHand \cup {h} /\ h \in chain
        /\ UNCHANGED <<ts, chain>>
    BY <1>10 DEF Hands, store
  <2>2. PICK r \in {"edited", "gone"} : row' = [row EXCEPT ![h] = r]  BY <1>10 DEF Hands
  <2>3. HandsShow'
    <3>1. row \in [Ids -> {"none", "live", "edited", "gone"}]  BY <1>1 DEF TableTypes
    <3>2. \A i \in byHand' : i \in Ids /\ row'[i] \in {"edited", "gone"}
      BY <1>2, <2>1, <2>2, <3>1
    <3>3. QED  BY <3>2 DEF HandsShow
  <2>4. \A i \in Past : i \in Past'  BY <1>1, <2>1, PastStays
  <2>5. QED  BY <1>2, <2>1, <2>3, <2>4
<1>11. QED
  <2>1. CASE Next
    BY <1>6, <1>7, <1>8, <1>9, <1>10, <2>1 DEF Next
  <2>2. QED  BY <1>8, <2>1

\* What is pending for a verification stays so when only what it reads moves on.
LEMMA PendingOnward ==
  ASSUME Inv2, [Next]_vars, NEW r, NEW c, NEW c2, Pending(r, c, byHand, Past, ts),
         \A i \in byHand : i \in c => i \in c2 \/ i \in Past
  PROVE  Pending(r, c2, byHand', Past', ts')
<1>1. /\ byHand \subseteq byHand' /\ byHand \in SUBSET Ids
      /\ \A i \in byHand : ts'[i] = ts[i] /\ (i \in Past => i \in Past')
  BY Onward
<1>2. \A i \in byHand : i \in c => i \in c2 \/ i \in Past'  BY <1>1
<1>3. \A i \in byHand : i \in Past => i \in Past'  BY <1>1
<1>4. \A i \in byHand : ts'[i] = ts[i]  BY <1>1
<1>5. QED  BY <1>1, <1>2, <1>3, <1>4, PendingStays

\* Nothing is pending for a verification that is off, and a flag changes nothing.
LEMMA NothingPending ==
  ASSUME NEW c, NEW touched, NEW past, NEW t
  PROVE  Pending(NoRun, c, touched, past, t)
BY DEF Pending, NoRun

LEMMA PendingDisturbed ==
  ASSUME NEW r \in Run, NEW d \in BOOLEAN, NEW c, NEW touched, NEW past, NEW t
  PROVE  Pending([r EXCEPT !.disturbed = d], c, touched, past, t) <=> Pending(r, c, touched, past, t)
BY Disturbing DEF Pending

\* A verification begins with every touched row that no window explains ahead of it,
\* or with one whose entry is gone, which by now is explained.
LEMMA BegunPending ==
  ASSUME Inv2, NEW t \in Nat, NEW c \in SUBSET Ids, NEW low \in 0..MaxRows,
         \A i \in c : low < i, \A i \in byHand : i \in c \/ i \in Past
  PROVE  Pending(Begun(t, c, low), c, byHand, Past, ts)
<1> DEFINE b == Begun(t, c, low)
<1>1. /\ b.at = "reading" /\ b.windows = Windows(t) /\ b.after = low
      /\ b.head = MaxOf({low} \cup c)
      /\ b.hurt = {i \in byHand : ~Explained(i, Windows(t))}
  BY DEF Begun
<1>2. {low} \cup c \in SUBSET (0..MaxRows)  BY Bounds
<1>3. \A i \in c : i <= MaxOf({low} \cup c)  BY <1>2, LastOne
<1> HIDE DEF b
<1>4. ASSUME NEW i \in b.hurt
      PROVE  /\ i \in byHand
             /\ \/ i \in b.found
                \/ i \in Past
                \/ /\ b.at = "reading" /\ i \in c /\ b.after < i /\ i <= b.head
                   /\ i \notin Old(b.windows, ts)
  <2>1. i \in byHand /\ ~Explained(i, Windows(t))  BY <1>1, <1>4
  <2>2. i \in Ids  BY <2>1 DEF Inv2, HandsShow
  <2>3. i \notin Old(b.windows, ts)  BY <1>1, <2>1, <2>2, Explaining
  <2>4. QED  BY <1>1, <1>3, <2>1, <2>3
<1>5. Pending(b, c, byHand, Past, ts)  BY <1>4 DEF Pending
<1>6. QED  BY <1>5 DEF b

\* Compaction drops the entries of rows that are explained.
LEMMA CompactsPast ==
  ASSUME Inv1, NEW k, Compact(k), job.at = "compacting", NEW i \in chain, i \notin chain'
  PROVE  i \in Past
<1>1. Explained(i, Windows(job.now))  BY ToGroups, Compacting
<1>2. Horizon = now  BY DEF Horizon
<1>3. i \in Ids  BY ToGroups, Numbers
<1>4. i \in Old(Windows(now), ts)  BY <1>1, <1>3, HorizonFacts, EarlierExplains
<1>5. QED  BY <1>2, <1>4 DEF Past

LEMMA DroppedStays ==
  ASSUME Inv2, [Next]_vars
  PROVE  Dropped'
<1>1. /\ \A i \in byHand : i \in Past => i \in Past'
      /\ \A i \in byHand' : i \in byHand \/ (i \in chain /\ chain' = chain)
  BY Onward
<1>2. \A i \in chain : i \in chain' \/ i \in Past
  <2>1. CASE chain' = chain  BY <2>1
  <2>2. CASE chain' = Sealed  BY <2>2 DEF Sealed
  <2>3. CASE job.at = "compacting" /\ \E k : Compact(k)  BY <2>3, CompactsPast DEF Inv2
  <2>4. QED
    BY <2>1, <2>2, <2>3
    DEF Next, vars, store, Tick, Record, SetRetention, Restart, Hands, PruneBegins, PruneBatch,
        JobSeals, JobTick, JobVerifies, ManualSeals, ManualVerify, VerifyBatch, SealsBatch
<1>3. \A i \in byHand' \ chain' : i \in Past'
  <2> SUFFICES ASSUME NEW i \in byHand', i \notin chain' PROVE i \in Past'  OBVIOUS
  <2>1. i \in byHand  BY <1>1
  <2>2. i \in Past
    <3>1. CASE i \in chain  BY <1>2, <3>1
    <3>2. CASE i \notin chain  BY <2>1, <3>2 DEF Inv2, Dropped
    <3>3. QED  BY <3>1, <3>2
  <2>3. QED  BY <1>1, <2>1, <2>2
<1>4. QED  BY <1>3 DEF Dropped

LEMMA QuietReported ==
  ASSUME Inv2, [Next]_vars, chain \subseteq chain', NEW v \in Verifiers,
         ver'[v] \in {ver[v], NoRun} \/ \E d \in BOOLEAN : ver'[v] = [ver[v] EXCEPT !.disturbed = d]
  PROVE  Pending(ver'[v], chain', byHand', Past', ts')
<1>1. Pending(ver[v], chain, byHand, Past, ts) /\ ver[v] \in Run
  BY DEF Inv2, Reported, Inv1, Types
<1>2. Pending(ver[v], chain', byHand', Past', ts')  BY <1>1, PendingOnward
<1>3. CASE ver'[v] = NoRun  BY <1>3, NothingPending
<1>4. CASE ver'[v] = ver[v]  BY <1>2, <1>4
<1>5. CASE \E d \in BOOLEAN : ver'[v] = [ver[v] EXCEPT !.disturbed = d]
  BY <1>1, <1>2, <1>5, PendingDisturbed
<1>6. QED  BY <1>3, <1>4, <1>5

LEMMA JobVerifiesReported ==
  ASSUME Inv2, NEW k \in 0..MaxRows, JobVerifies(k)
  PROVE  Reported'
<1> DEFINE b == Begun(job.now, chain', floor')
           d == ver["job"].disturbed
           e == ver["manual"].disturbed \/ chain' # chain
           r == Read([b EXCEPT !.disturbed = d], chain', link)
<1>1. /\ Inv1 /\ HandsShow /\ TypeOK /\ SignedTypes /\ HistoryTypes /\ TableTypes /\ WorkTypes
      /\ ChainIsWhole /\ [Next]_vars
  BY ToGroups DEF Inv2, Next
<1>2. job.at = "compacting" /\ Compact(k) /\ ver' = [ver EXCEPT !["job"] = r, !["manual"].disturbed = e]
  BY DEF JobVerifies
<1>3. /\ chain' \in SUBSET Ids /\ floor' \in 0..MaxRows /\ \A i \in chain' : floor' < i
      /\ \A i \in byHand : i \in chain => i \in chain' \/ i \in Past
  <2>1. /\ floor' \in 0..n /\ chain' \in SUBSET ((floor' + 1)..n) /\ chain' \subseteq chain
    BY <1>1, <1>2, Compacting
  <2>2. n \in Nat /\ n <= MaxRows /\ chain \in SUBSET Ids  BY <1>1, Numbers
  <2>3. floor' \in Nat /\ floor' \in 0..MaxRows  BY <2>1, <2>2, Bounds
  <2>4. \A i \in (floor' + 1)..n : floor' < i  BY <2>2, <2>3, Above
  <2>5. \A i \in chain : i \in chain' \/ i \in Past  BY <1>1, <1>2, CompactsPast
  <2>6. QED  BY <2>1, <2>2, <2>3, <2>4, <2>5
<1>4. \A i \in byHand : i \in chain' \/ i \in Past  BY <1>3 DEF Inv2, Dropped
<1>5. job.now \in Nat /\ d \in BOOLEAN /\ e \in BOOLEAN /\ ver["manual"] \in Run /\ ver \in [Verifiers -> Run]
  BY <1>1 DEF WorkTypes, Verifiers, Run
<1>6. b \in Run /\ b.at = "reading"  BY <1>1, <1>3, <1>5, BegunTypes
<1>7. Pending(b, chain', byHand, Past, ts)  BY <1>3, <1>4, <1>5, BegunPending
<1> HIDE DEF b, d, e
<1>8. /\ [b EXCEPT !.disturbed = d] \in Run /\ [b EXCEPT !.disturbed = d].at = "reading"
      /\ Pending([b EXCEPT !.disturbed = d], chain', byHand, Past, ts)
  BY <1>5, <1>6, <1>7, Disturbing, PendingDisturbed
<1>9. Pending(r, chain', byHand, Past, ts)  BY <1>1, <1>3, <1>8, ReadPending
<1> HIDE DEF r
<1>10. Pending(r, chain', byHand', Past', ts')  BY <1>1, <1>9, PendingOnward
<1>11. Pending([ver["manual"] EXCEPT !.disturbed = e], chain', byHand', Past', ts')
  <2>1. Pending(ver["manual"], chain, byHand, Past, ts)  BY DEF Inv2, Reported, Verifiers
  <2>2. Pending(ver["manual"], chain', byHand', Past', ts')  BY <1>1, <1>3, <2>1, PendingOnward
  <2>3. QED  BY <1>5, <2>2, PendingDisturbed
<1>12. ver'["job"] = r /\ ver'["manual"] = [ver["manual"] EXCEPT !.disturbed = e]
  BY <1>2, <1>5 DEF Verifiers
<1>13. \A v \in Verifiers : Pending(ver'[v], chain', byHand', Past', ts')
  BY <1>10, <1>11, <1>12 DEF Verifiers
<1>14. QED  BY <1>13 DEF Reported

LEMMA ManualVerifyReported ==
  ASSUME Inv2, ManualVerify
  PROVE  Reported'
<1> DEFINE b == Begun(now, Sealed, floor)
           r == Read(b, Sealed, Linked)
<1>1. /\ Inv1 /\ HandsShow /\ TypeOK /\ SignedTypes /\ HistoryTypes /\ TableTypes /\ WorkTypes
      /\ ChainIsWhole /\ [Next]_vars /\ now \in Nat /\ floor \in 0..MaxRows
  BY ToGroups DEF Inv2, Next
<1>2. chain' = Sealed /\ ver' = [ver EXCEPT !["manual"] = r]
  BY DEF ManualVerify, SealsBatch
<1>3. Sealed \in SUBSET Ids /\ chain \subseteq Sealed /\ \A i \in Sealed : floor < i
  <2>1. Sealed \in SUBSET ((floor + 1)..n) /\ chain \subseteq Sealed  BY <1>1, Sealing
  <2>2. \A i \in (floor + 1)..n : i \in Ids /\ floor < i  BY <1>1, Numbers, Bounds
  <2>3. QED  BY <2>1, <2>2
<1>4. \A i \in byHand : i \in Sealed \/ i \in Past  BY <1>3 DEF Inv2, Dropped
<1>5. b \in Run /\ b.at = "reading"  BY <1>1, <1>3, BegunTypes
<1>6. Pending(b, Sealed, byHand, Past, ts)  BY <1>1, <1>3, <1>4, BegunPending
<1> HIDE DEF b
<1>7. Pending(r, Sealed, byHand, Past, ts)  BY <1>1, <1>3, <1>5, <1>6, ReadPending
<1> HIDE DEF r
<1>8. Pending(r, chain', byHand', Past', ts')  BY <1>1, <1>2, <1>7, PendingOnward
<1>9. ver'["job"] = ver["job"] /\ ver'["manual"] = r
  BY <1>1, <1>2 DEF WorkTypes, Verifiers
<1>10. Pending(ver'["job"], chain', byHand', Past', ts')
  BY <1>1, <1>2, <1>3, <1>9, QuietReported DEF Verifiers
<1>11. \A v \in Verifiers : Pending(ver'[v], chain', byHand', Past', ts')
  BY <1>8, <1>9, <1>10 DEF Verifiers
<1>12. QED  BY <1>11 DEF Reported

LEMMA VerifyBatchReported ==
  ASSUME Inv2, NEW w \in Verifiers, VerifyBatch(w)
  PROVE  Reported'
<1> DEFINE r == Read(ver[w], chain, link)
<1>1. /\ Inv1 /\ HandsShow /\ TypeOK /\ WorkTypes /\ [Next]_vars
      /\ Pending(ver[w], chain, byHand, Past, ts)
  BY ToGroups DEF Inv2, Next, Reported
<1>2. chain' = chain /\ ver[w].at = "reading" /\ ver' = [ver EXCEPT ![w] = r]
  BY DEF VerifyBatch, store
<1>3. chain \in SUBSET Ids /\ ver[w] \in Run  BY <1>1, Numbers DEF WorkTypes
<1>4. Pending(r, chain, byHand, Past, ts)  BY <1>1, <1>2, <1>3, ReadPending
<1> HIDE DEF r
<1>5. Pending(r, chain', byHand', Past', ts')  BY <1>1, <1>2, <1>4, PendingOnward
<1>6. ASSUME NEW v \in Verifiers
      PROVE  Pending(ver'[v], chain', byHand', Past', ts')
  <2>1. CASE v = w
    <3>1. ver'[v] = r  BY <1>1, <1>2, <2>1 DEF WorkTypes
    <3>2. QED  BY <1>5, <3>1
  <2>2. CASE v # w
    <3>1. ver'[v] = ver[v]  BY <1>1, <1>2, <2>2 DEF WorkTypes
    <3>2. QED  BY <1>1, <1>2, <3>1, QuietReported
  <2>3. QED  BY <2>1, <2>2
<1>7. QED  BY <1>6 DEF Reported

LEMMA StaysReported ==
  ASSUME Inv2, [Next]_vars
  PROVE  Reported'
<1>1. WorkTypes  BY ToGroups DEF Inv2
<1>2. CASE \/ Tick \/ Record \/ SetRetention \/ Restart \/ PruneBegins \/ PruneBatch
           \/ (\E i \in Ids : Hands(i)) \/ (\E verify \in BOOLEAN : JobTick(verify))
           \/ JobSeals \/ ManualSeals \/ UNCHANGED vars
  <2>1. chain \subseteq chain'
    BY <1>2 DEF Tick, Record, SetRetention, Restart, PruneBegins, PruneBatch, Hands, JobTick, JobSeals, ManualSeals,
                vars, store, SealsBatch, Sealed
  <2>2. ASSUME NEW v \in Verifiers
        PROVE  \/ ver'[v] \in {ver[v], NoRun}
               \/ \E d \in BOOLEAN : ver'[v] = [ver[v] EXCEPT !.disturbed = d]
    <3>1. CASE ver' = ver  BY <3>1
    <3>2. CASE Restart  BY <3>2 DEF Restart
    <3>3. CASE PruneBegins
      <4> DEFINE d == ver[v].disturbed \/ ver[v].at = "reading" \/ (v = "job" /\ job.at = "compacting")
      <4>1. ver'[v] = [ver[v] EXCEPT !.disturbed = d]  BY <3>3 DEF PruneBegins
      <4>2. d \in BOOLEAN  BY <1>1 DEF WorkTypes, Run
      <4> HIDE DEF d
      <4>3. QED  BY <4>1, <4>2
    <3>4. CASE JobSeals \/ \E verify \in BOOLEAN : JobTick(verify)
      <4>1. ver' = TickReports /\ job.at \in {"idle", "sealing"}  BY <3>4 DEF JobTick, JobSeals
      <4>2. QED  BY <4>1, TickFacts DEF Inv2
    <3>5. QED
      BY <1>2, <3>1, <3>2, <3>3, <3>4
      DEF Tick, Record, SetRetention, PruneBatch, Hands, ManualSeals, vars
  <2>3. \A v \in Verifiers : Pending(ver'[v], chain', byHand', Past', ts')
    BY <2>1, <2>2, QuietReported
  <2>4. QED  BY <2>3 DEF Reported
<1>3. QED
  BY <1>2, JobVerifiesReported, ManualVerifyReported, VerifyBatchReported DEF Next

\* A sealed row that hands edit or delete is in the report of every verification that
\* begins afterwards, unless a window signed so far explains that it is gone, whatever
\* is recorded, pruned, sealed and compacted meanwhile (verifyChain).
THEOREM TamperingIsReported == Spec => []TamperIsReported
<1>1. Init => Inv2
  <2> SUFFICES ASSUME Init PROVE Inv2  OBVIOUS
  <2>1. Inv1  BY StartsInv1
  <2>2. byHand = {} /\ ver = [v \in Verifiers |-> NoRun]  BY DEF Init
  <2>3. Reported  BY <2>2, NothingPending DEF Reported
  <2>4. QED  BY <2>1, <2>2, <2>3 DEF Inv2, HandsShow, Dropped
<1>2. Inv2 /\ [Next]_vars => Inv2'
  <2> SUFFICES ASSUME Inv2, [Next]_vars PROVE Inv2'  OBVIOUS
  <2>1. Inv1'  BY StaysInv1 DEF Inv2
  <2>2. HandsShow' /\ Dropped' /\ Reported'  BY Onward, DroppedStays, StaysReported
  <2>3. QED  BY <2>1, <2>2 DEF Inv2
<1>3. Inv2 => TamperIsReported
  <2> SUFFICES ASSUME Inv2, NEW v \in Verifiers, ver[v].at = "done",
                      NEW i \in ver[v].hurt, i \notin ver[v].found
               PROVE  Explained(i, Windows(now))
    BY DEF TamperIsReported
  <2>1. i \in Past  BY DEF Inv2, Reported, Pending
  <2>2. QED  BY <2>1, HorizonFacts, PastExplains DEF Inv2
<1>4. QED  BY <1>1, <1>2, <1>3, PTL DEF Spec

-----------------------------------------------------------------------------
(* No false alarm *)

Bad == byHand \cup odd

\* Rows that are gone, or will be once the prune under way comes to them, for a
\* window that had been signed for.
Owed ==
  {i \in Ids : \/ row[i] = "gone" /\ i \notin Bad
               \/ prune.signed /\ i \in Live /\ ts[i] < prune.now - prune.days}

EditsShow == \A i \in Ids : row[i] = "edited" => i \in byHand

\* No row is left behind by the head: those up to an entry, or to the floor, have one.
CoveredBy(c, low) == \A i \in Live : \A h \in c \cup {low} : i <= h => i \in c

\* Each of the owed rows is explained now, and will be to the verification that the
\* job is about to begin.
Excused ==
  /\ Owed \subseteq Past
  /\ job.at = "compacting" /\ ~ver["job"].disturbed => Owed \subseteq Old(Windows(job.now), ts)

\* What a verification has reported was bad, and what it read first still holds: its
\* windows explain what is owed, it stands at an entry or the floor, and the signed
\* heads it has not met are ahead of it.
Sound(r, c, low, bad, owed, t) ==
  /\ r.found \subseteq bad
  /\ r.at = "reading" =>
       /\ \A i \in owed : i \in Old(r.windows, t)
       /\ r.floor = low
       /\ r.after = low \/ r.after \in c
       /\ \A s \in r.seals : s \in c /\ r.after < s /\ s <= r.head

Justified ==
  \A v \in Verifiers : ~ver[v].disturbed => Sound(ver[v], chain, floor, Bad, Owed, ts)

Inv3 == Inv1 /\ EditsShow /\ CoveredBy(chain, floor) /\ Excused /\ Justified

\* A batch of an undisturbed verification reports nothing but bad rows.
LEMMA ReadSound ==
  ASSUME Inv1, EditsShow, NEW r \in Run, NEW c \in SUBSET Ids, NEW low \in 0..MaxRows, NEW l,
         r.at = "reading", \A i \in c : low < i /\ l[i] = Before(i, c, low),
         CoveredBy(c, low), Sound(r, c, low, Bad, Owed, ts)
  PROVE  Sound(Read(r, c, l), c, low, Bad, Owed, ts)
<1> DEFINE ahead == {i \in c : r.after < i /\ i <= r.head}
           next == {i \in ahead : Cardinality({j \in ahead : j < i}) < Batch}
           hi == MaxOf({r.after} \cup next)
           broken == {i \in next : l[i] # Before(i, next, r.after)}
           unsealed == {i \in Live \ c : r.after < i /\ i <= hi}
           wrong == {i \in next : Wrong(i, r.windows)}
           left == r.seals \ next
           done == Cardinality(next) < Batch
           below == {i \in Live : i <= r.floor}
           found == r.found \cup broken \cup unsealed \cup wrong
           q == Read(r, c, l)
<1>1. q = IF done
          THEN [NoRun EXCEPT !.at = "done", !.hurt = r.hurt, !.disturbed = r.disturbed,
                             !.found = found \cup below \cup left]
          ELSE [r EXCEPT !.after = hi, !.seals = left, !.found = found]
  BY DEF Read
<1>2. /\ r.found \subseteq Bad /\ \A i \in Owed : i \in Old(r.windows, ts)
      /\ r.floor = low /\ (r.after = low \/ r.after \in c)
      /\ \A s \in r.seals : s \in c /\ r.after < s /\ s <= r.head
  BY DEF Sound
<1>3. /\ ahead \in SUBSET Ids /\ next \in SUBSET ahead
      /\ \A i \in ahead : i \in c /\ r.after < i /\ i <= r.head
      /\ \A i \in c : r.after < i /\ i <= r.head => i \in ahead
      /\ next = {i \in ahead : Cardinality({j \in ahead : j < i}) < Batch}
  OBVIOUS
<1>4. /\ r.after \in 0..MaxRows /\ r.head \in 0..MaxRows /\ r.after \in Nat /\ r.head \in Nat
      /\ low \in Nat /\ low <= r.after
  <2>1. r.after \in 0..MaxRows /\ r.head \in 0..MaxRows  BY DEF Run
  <2>2. r.after \in Nat /\ r.head \in Nat /\ low \in Nat  BY <2>1, RowIds
  <2>3. low <= r.after  BY <1>2, <2>2
  <2>4. QED  BY <2>1, <2>2, <2>3
<1> HIDE DEF ahead, next
<1>5. ASSUME NEW i \in ahead, i \notin next
      PROVE  ~done /\ \A j \in next : j < i
  BY <1>3, <1>5, BatchIsFirst
<1>6. broken = {}
  <2> SUFFICES ASSUME NEW i \in next PROVE l[i] = Before(i, next, r.after)  OBVIOUS
  <2> DEFINE b == Before(i, c, low)
  <2>1. i \in c /\ i \in Ids /\ r.after < i /\ low < i /\ i <= r.head /\ i \in Nat
    BY <1>3, RowIds
  <2>2. /\ b \in 0..MaxRows /\ b < i /\ low <= b
        /\ b = low \/ b \in c
        /\ \A j \in c : j < i => j <= b
    BY <2>1, BeforeFacts
  <2>3. l[i] = b  BY <2>1
  <2> HIDE DEF b
  <2>4. b \in Nat  BY <2>2, RowIds
  <2>5. r.after <= b  BY <1>2, <1>4, <2>1, <2>2, <2>4
  <2>6. b = r.after \/ b \in next
    <3> SUFFICES ASSUME b # r.after, b \notin next PROVE FALSE  OBVIOUS
    <3>1. r.after < b  BY <1>4, <2>4, <2>5
    <3>2. b \in c  BY <1>4, <2>2, <2>4, <3>1
    <3>3. b <= r.head  BY <1>4, <2>1, <2>2, <2>4
    <3>4. b \in ahead  BY <1>3, <3>1, <3>2, <3>3
    <3>5. i < b  BY <1>5, <3>4
    <3>6. QED  BY <2>1, <2>2, <2>4, <3>5
  <2>7. \A j \in next : j < i => j <= b  BY <1>3, <2>2
  <2>8. next \in SUBSET Ids  BY <1>3
  <2>9. Before(i, next, r.after) = b  BY <1>4, <2>1, <2>2, <2>5, <2>6, <2>7, <2>8, BeforeIs
  <2>10. QED  BY <2>3, <2>9
<1>7. hi \in {r.after} \cup next /\ \A j \in {r.after} \cup next : j <= hi
  <2>1. {r.after} \cup next \in SUBSET (0..MaxRows)
    <3>1. next \in SUBSET Ids  BY <1>3
    <3>2. QED  BY <1>4, <3>1, Bounds
  <2>2. QED  BY <2>1, LastOne
<1>8. hi = low \/ hi \in c  BY <1>2, <1>3, <1>7
<1> HIDE DEF hi
<1>9. unsealed = {}  BY <1>8 DEF CoveredBy
<1>10. below = {}
  <2> SUFFICES ASSUME NEW i \in Live, i <= low PROVE FALSE  BY <1>2
  <2>1. i \in c  BY DEF CoveredBy
  <2>2. low < i /\ i \in Nat  BY <2>1, RowIds
  <2>3. QED  BY <1>4, <2>2
<1>11. wrong \subseteq Bad
  <2> SUFFICES ASSUME NEW i \in next, Wrong(i, r.windows) PROVE i \in Bad  OBVIOUS
  <2>1. i \in Ids  BY <1>3
  <2>2. CASE row[i] = "edited"  BY <2>1, <2>2 DEF EditsShow, Bad
  <2>3. CASE row[i] = "gone" /\ ~Explained(i, r.windows)
    <3>1. i \notin Owed  BY <1>2, <2>1, <2>3, Explaining
    <3>2. QED  BY <2>1, <2>3, <3>1 DEF Owed
  <2>4. QED  BY <2>2, <2>3 DEF Wrong
<1>12. found \subseteq Bad  BY <1>2, <1>6, <1>9, <1>11
<1>13. \A s \in r.seals : s \in ahead  BY <1>2, <1>3
<1> HIDE DEF found, below, left, done, q
<1>14. CASE done
  <2>1. left = {}  BY <1>5, <1>13, <1>14 DEF left
  <2>2. q = [NoRun EXCEPT !.at = "done", !.hurt = r.hurt, !.disturbed = r.disturbed,
                          !.found = found \cup below \cup left]
    BY <1>1, <1>14
  <2>3. q.at = "done" /\ q.found = found \cup below \cup left
    BY <2>2 DEF NoRun
  <2>4. QED  BY <1>10, <1>12, <2>1, <2>3 DEF Sound, q
<1>15. CASE ~done
  <2>1. q = [r EXCEPT !.after = hi, !.seals = left, !.found = found]  BY <1>1, <1>15
  <2>2. /\ q.at = "reading" /\ q.found = found /\ q.windows = r.windows /\ q.floor = r.floor
        /\ q.head = r.head /\ q.after = hi /\ q.seals = left
    BY <2>1 DEF Run
  <2>3. \A s \in left : s \in ahead /\ s \notin next  BY <1>13 DEF left
  <2>4. \A s \in left : s \in c /\ hi < s /\ s <= r.head
    <3> SUFFICES ASSUME NEW s \in left PROVE s \in c /\ hi < s /\ s <= r.head  OBVIOUS
    <3>1. s \in ahead /\ s \notin next /\ s \in c /\ r.after < s /\ s <= r.head  BY <1>3, <2>3
    <3>2. \A j \in next : j < s  BY <1>5, <3>1
    <3>3. QED  BY <1>7, <3>1, <3>2
  <2>5. QED  BY <1>2, <1>8, <1>12, <2>2, <2>4 DEF Sound, q
<1>16. QED  BY <1>14, <1>15

\* It begins with nothing reported, at the floor, with every signed head ahead.
LEMMA BegunSound ==
  ASSUME NEW t, NEW c \in SUBSET Ids, NEW low \in 0..MaxRows, NEW d,
         Owed \subseteq Old(Windows(t), ts), \A s \in seals : s > low => s \in c
  PROVE  Sound([Begun(t, c, low) EXCEPT !.disturbed = d], c, low, Bad, Owed, ts)
<1> DEFINE b == [Begun(t, c, low) EXCEPT !.disturbed = d]
<1>1. /\ b.found = {} /\ b.windows = Windows(t) /\ b.floor = low /\ b.after = low
      /\ b.head = MaxOf({low} \cup c) /\ b.seals = {s \in seals : s > low}
  BY DEF Begun
<1>2. {low} \cup c \in SUBSET (0..MaxRows)  BY Bounds
<1>3. \A i \in c : i <= MaxOf({low} \cup c) /\ i \in Nat  BY <1>2, LastOne, RowIds
<1>4. low \in Nat  BY RowIds
<1> HIDE DEF b
<1>5. \A s \in b.seals : s \in c /\ b.after < s /\ s <= b.head  BY <1>1, <1>3, <1>4
<1>6. Sound(b, c, low, Bad, Owed, ts)  BY <1>1, <1>5 DEF Sound
<1>7. QED  BY <1>6 DEF b

\* ... and through every step.  The rows: those there are keep their times, a new one is live, of now;
LEMMA AppendedRows ==
  ASSUME TableTypes, Appended \/ UNCHANGED events
  PROVE  \A i \in Ids : \/ row'[i] = row[i] /\ ts'[i] = ts[i]
                        \/ n < i /\ row'[i] = "live" /\ ts'[i] = now
<1>1. CASE UNCHANGED events  BY <1>1 DEF events
<1>2. CASE Appended /\ n # MaxRows
  <2>1. row' = [row EXCEPT ![n + 1] = "live"] /\ ts' = [ts EXCEPT ![n + 1] = now]
    BY <1>2 DEF Appended
  <2>2. n \in Nat /\ n < n + 1  BY Bounds DEF TableTypes
  <2>3. QED  BY <2>1, <2>2 DEF TableTypes
<1>3. QED  BY <1>1, <1>2 DEF Appended

\* what was bad stays so, and only the beginning of a prune owes more.
LEMMA RowsOnward ==
  ASSUME Inv1, EditsShow, [Next]_vars
  PROVE  /\ Bad \subseteq Bad' /\ EditsShow'
         /\ \A i \in Live' : i \in Live \/ n < i
         /\ \A i \in Owed : ts'[i] = ts[i]
         /\ PruneBegins \/ Owed' \subseteq Owed
<1> USE ToGroups
<1>0. /\ \A i \in Ids : i \in Nat /\ ts[i] \in Nat
      /\ row \in [Ids -> {"none", "live", "edited", "gone"}] /\ ts \in [Ids -> 0..now]
      /\ now \in Nat /\ prune.now \in Nat /\ prune.days \in Nat /\ prune.now <= now
  <2>1. /\ row \in [Ids -> {"none", "live", "edited", "gone"}] /\ ts \in [Ids -> 0..now]
        /\ now \in Nat
    BY DEF TableTypes
  <2>2. prune \in [days : Days \cup {0}, now : 0..now, signed : BOOLEAN]  BY DEF WorkTypes
  <2>3. \A x \in Days \cup {0} : x \in Nat  BY Bounds
  <2>4. \A x \in 0..now : x \in Nat /\ x <= now  BY <2>1
  <2>5. \A i \in Ids : i \in Nat /\ ts[i] \in Nat  BY <2>1, <2>4, RowIds
  <2>6. prune.now \in Nat /\ prune.days \in Nat /\ prune.now <= now  BY <2>2, <2>3, <2>4
  <2>7. QED  BY <2>1, <2>5, <2>6
<1>1. NoPrune.now = 0 /\ NoPrune.days = 0  BY DEF NoPrune
<1>2. \A i \in Owed : i \in Ids /\ (row[i] = "gone" \/ i \in Live)  BY DEF Owed
<1>3. \A i \in Ids : n < i <=> row[i] = "none"  BY DEF TableTypes
<1>4. \A i \in Live : i \in Ids /\ row[i] \in {"live", "edited"}  BY DEF Live
<1>5. CASE (Appended \/ UNCHANGED events) /\ UNCHANGED <<byHand, odd, prune>>
  <2>1. \A i \in Ids : \/ row'[i] = row[i] /\ ts'[i] = ts[i]
                       \/ n < i /\ row'[i] = "live" /\ ts'[i] = now
    BY <1>5, AppendedRows
  <2>2. Bad' = Bad /\ EditsShow'  BY <1>5, <2>1 DEF Bad, EditsShow
  <2>3. \A i \in Live' : i \in Live \/ n < i  BY <2>1 DEF Live
  <2>4. \A i \in Owed : ts'[i] = ts[i]  BY <1>2, <1>3, <1>4, <2>1
  <2>5. ASSUME NEW i \in Owed'
        PROVE  i \in Owed
    <3>1. i \in Ids /\ \/ row'[i] = "gone" /\ i \notin Bad
                       \/ prune.signed /\ i \in Live' /\ ts'[i] < prune.now - prune.days
      BY <1>5, <2>2, <2>5 DEF Owed
    <3>2. CASE row'[i] = row[i] /\ ts'[i] = ts[i]  BY <3>1, <3>2 DEF Owed, Live
    <3>3. CASE row'[i] = "live" /\ ts'[i] = now  BY <1>0, <3>1, <3>3
    <3>4. QED  BY <2>1, <3>1, <3>2, <3>3
  <2>6. QED  BY <2>2, <2>3, <2>4, <2>5
<1>6. CASE Restart \/ PruneBegins
  <2>1. UNCHANGED <<row, ts, byHand, odd>> /\ (PruneBegins \/ prune' = NoPrune)
    BY <1>6 DEF Restart, PruneBegins, events, history
  <2>2. Bad' = Bad /\ Live' = Live /\ EditsShow'  BY <2>1 DEF Bad, Live, EditsShow
  <2>3. ASSUME prune' = NoPrune PROVE Owed' \subseteq Owed
    BY <1>0, <1>1, <2>1, <2>2, <2>3 DEF Owed
  <2>4. QED  BY <2>1, <2>2, <2>3
<1>7. ASSUME NEW h \in Ids, Hands(h)
      PROVE  /\ Bad \subseteq Bad' /\ EditsShow'
             /\ \A i \in Live' : i \in Live \/ n < i
             /\ \A i \in Owed : ts'[i] = ts[i]
             /\ Owed' \subseteq Owed
  <2>1. byHand' = byHand \cup {h} /\ row[h] = "live" /\ UNCHANGED <<ts, odd, prune>>
    BY <1>7 DEF Hands
  <2>2. PICK x \in {"edited", "gone"} : row' = [row EXCEPT ![h] = x]  BY <1>7 DEF Hands
  <2>3. /\ row'[h] = x /\ \A i \in Ids : i # h => row'[i] = row[i]
        /\ Bad' = Bad \cup {h}
    BY <1>0, <2>1, <2>2 DEF Bad
  <2>4. EditsShow'  BY <2>1, <2>3 DEF EditsShow
  <2>5. \A i \in Live' : i \in Live  BY <2>1, <2>3 DEF Live
  <2>6. Owed' \subseteq Owed  BY <2>1, <2>3, <2>5 DEF Owed
  <2>7. QED  BY <2>1, <2>3, <2>4, <2>5, <2>6
<1>8. CASE PruneBatch
  <2>1. UNCHANGED <<ts, byHand>> /\ prune' \in {prune, NoPrune}  BY <1>8 DEF PruneBatch
  <2>2. CASE UNCHANGED <<row, odd>>
    <3>1. Bad' = Bad /\ Live' = Live /\ EditsShow'  BY <2>1, <2>2 DEF Bad, Live, EditsShow
    <3>2. Owed' \subseteq Owed  BY <1>0, <1>1, <2>1, <2>2, <3>1 DEF Owed
    <3>3. QED  BY <2>1, <3>1, <3>2
  <2>3. CASE ~UNCHANGED <<row, odd>>
    <3>1. PICK g \in Prunable(prune.days, prune.now) :
            /\ row' = [row EXCEPT ![g] = "gone"]
            /\ odd' = IF prune.signed THEN odd ELSE odd \cup {g}
      BY <1>8, <2>3 DEF PruneBatch
    <3>2. g \in Live /\ g \in Ids /\ ts[g] < prune.now - prune.days  BY <1>4 DEF Prunable
    <3>3. row'[g] = "gone" /\ \A i \in Ids : i # g => row'[i] = row[i]  BY <1>0, <3>1, <3>2
    <3>4. Bad \subseteq Bad' /\ (prune.signed \/ g \in Bad')  BY <2>1, <3>1 DEF Bad
    <3>5. EditsShow'  BY <2>1, <3>3 DEF EditsShow
    <3>6. \A i \in Live' : i \in Live  BY <3>3 DEF Live
    <3>7. ASSUME NEW i \in Owed'
          PROVE  i \in Owed
      <4>1. i \in Ids /\ \/ row'[i] = "gone" /\ i \notin Bad'
                         \/ prune'.signed /\ i \in Live' /\ ts[i] < prune'.now - prune'.days
        BY <2>1, <3>7 DEF Owed
      <4>2. CASE i = g
        <5>1. i \notin Live'  BY <3>3, <4>2 DEF Live
        <5>2. prune.signed  BY <3>4, <4>1, <4>2, <5>1
        <5>3. QED  BY <3>2, <4>2, <5>2 DEF Owed
      <4>3. CASE i # g /\ row'[i] = "gone" /\ i \notin Bad'  BY <3>3, <3>4, <4>1, <4>3 DEF Owed
      <4>4. CASE prune'.signed /\ i \in Live' /\ ts[i] < prune'.now - prune'.days
        <5>1. prune' = prune  BY <1>0, <1>1, <2>1, <4>1, <4>4
        <5>2. QED  BY <3>6, <4>1, <4>4, <5>1 DEF Owed
      <4>5. QED  BY <4>1, <4>2, <4>3, <4>4
    <3>8. QED  BY <2>1, <3>4, <3>5, <3>6, <3>7
  <2>4. QED  BY <2>2, <2>3
<1>9. CASE \/ Tick \/ Record \/ SetRetention \/ UNCHANGED vars \/ JobSeals \/ ManualSeals \/ ManualVerify
           \/ (\E verify \in BOOLEAN : JobTick(verify)) \/ (\E k \in 0..MaxRows : JobVerifies(k))
           \/ (\E v \in Verifiers : VerifyBatch(v))
  <2>1. UNCHANGED <<byHand, odd, prune>>
    BY <1>9 DEF Tick, Record, SetRetention, vars, JobSeals, ManualSeals, ManualVerify, JobTick,
                JobVerifies, VerifyBatch, history
  <2>2. Appended \/ UNCHANGED events
    BY <1>9 DEF Tick, Record, SetRetention, vars, JobSeals, ManualSeals, ManualVerify, JobTick,
                JobVerifies, VerifyBatch, CheckpointNow, Alarm
  <2>3. QED  BY <1>5, <2>1, <2>2
<1>10. QED
  BY <1>6, <1>7, <1>8, <1>9 DEF Next

\* the chain: it grows, or compaction drops entries of rows that are gone.
LEMMA CoverOnward ==
  ASSUME Inv1, CoveredBy(chain, floor), [Next]_vars
  PROVE  /\ CoveredBy(chain', floor')
         /\ \A h \in chain' \cup {floor'} : h \in Nat /\ h <= n
         /\ \A i \in Ids : i \in chain' \/ i \notin chain \/ floor' # floor
         /\ floor' # floor => chain' # chain
<1>0. TypeOK /\ ChainIsWhole /\ n \in Nat /\ floor \in Nat /\ floor <= n
      /\ \A i \in chain : i \in Nat /\ floor < i /\ i <= n
  BY ToGroups, Numbers
<1>1. CASE UNCHANGED <<chain, floor>>  BY <1>0, <1>1
<1>2. CASE chain' = Sealed /\ floor' = floor
  <2>1. chain \subseteq Sealed /\ \A i \in Sealed : i \in Nat /\ i <= n
    <3>1. Sealed \in SUBSET ((floor + 1)..n) /\ chain \subseteq Sealed  BY <1>0, Sealing
    <3>2. QED  BY <1>0, <3>1
  <2>2. HeadRow \in chain \cup {floor} /\ HeadRow \in Nat /\ floor <= HeadRow
        /\ \A h \in chain : h <= HeadRow
    BY <1>0, HeadFacts
  <2>3. \A i \in Live : i \in Nat /\ (i \in chain \/ i \in Unsealed)
    <3>1. \A i \in Live : i \in Nat  BY <1>0, Numbers
    <3>2. QED  BY <2>2, <3>1 DEF CoveredBy, Unsealed
  <2>4. CoveredBy(Sealed, floor)
    <3> SUFFICES ASSUME NEW i \in Live, NEW h \in Sealed \cup {floor}, i <= h, i \notin Sealed
                 PROVE  FALSE
      BY DEF CoveredBy
    <3>1. i \in Unsealed /\ i \notin Fresh /\ i \in Nat  BY <2>3 DEF Sealed
    <3>2. HeadRow < i  BY <1>0, <3>1, FreshFacts
    <3>3. h \in Fresh  BY <1>0, <2>1, <2>2, <3>1, <3>2 DEF Sealed
    <3>4. h < i /\ h \in Nat  BY <1>0, <2>1, <3>1, <3>3, FreshFacts
    <3>5. QED  BY <3>1, <3>4
  <2>5. QED  BY <1>0, <1>2, <2>1, <2>4 DEF CoveredBy
<1>3. ASSUME NEW k, Compact(k)
      PROVE  /\ CoveredBy(chain', floor')
             /\ \A h \in chain' \cup {floor'} : h \in Nat /\ h <= n
             /\ \A i \in Ids : i \in chain' \/ i \notin chain \/ floor' # floor
             /\ floor' # floor => chain' # chain
  <2>1. /\ floor' \in 0..n /\ floor <= floor' /\ chain' \subseteq chain
        /\ \A i \in chain : i > floor' => i \in chain'
        /\ \A i \in chain \ chain' : row[i] = "gone"
    BY <1>0, <1>3, Compacting
  <2>2. chain' = {i \in chain : i > floor'} /\ (floor' = floor \/ (floor' = k /\ k \in chain \cup {0}))
    BY <1>3 DEF Compact
  <2>3. floor' = floor \/ floor' \in chain
    <3>1. CASE floor' = 0  BY <1>0, <2>1, <3>1
    <3>2. QED  BY <2>2, <3>1
  <2>4. \A h \in chain' \cup {floor'} : h \in chain \cup {floor}  BY <2>1, <2>3
  <2>5. CoveredBy(chain', floor')
    <3> SUFFICES ASSUME NEW i \in Live, NEW h \in chain' \cup {floor'}, i <= h PROVE i \in chain'
      BY DEF CoveredBy
    <3>1. i \in chain  BY <2>4 DEF CoveredBy
    <3>2. row[i] # "gone"  BY DEF Live
    <3>3. QED  BY <2>1, <3>1, <3>2
  <2>6. floor' # floor => chain' # chain
    <3> SUFFICES ASSUME floor' # floor PROVE floor' \in chain /\ floor' \notin chain'  OBVIOUS
    <3>1. floor' \in chain  BY <2>3
    <3>2. ~(floor' > floor')  BY <1>0, <3>1
    <3>3. QED  BY <2>2, <3>1, <3>2
  <2>7. \A i \in chain : floor' = floor => i \in chain'  BY <1>0, <2>1
  <2>8. QED  BY <1>0, <2>4, <2>5, <2>6, <2>7
<1>4. QED
  BY <1>1, <1>2, <1>3
  DEF Next, vars, store, Tick, Record, SetRetention, Restart, Hands, PruneBegins, PruneBatch,
      JobSeals, JobTick, JobVerifies, ManualSeals, ManualVerify, VerifyBatch, SealsBatch

LEMMA NotPruning ==
  ASSUME Inv1, UNCHANGED prune
  PROVE  ~PruneBegins
<1>1. days # 0  BY ToGroups, AuditConstants DEF TableTypes
<1>2. NoPrune.days = 0  BY DEF NoPrune
<1>3. QED  BY <1>1, <1>2 DEF PruneBegins

\* What a prune that begins owes is explained by the window signed last.
LEMMA PruneExcused ==
  ASSUME Inv1, PruneBegins, NEW i \in Owed', i \notin Owed
  PROVE  i \in Past'
<1>1. /\ prune' = [days |-> days, now |-> now,
                   signed |-> /\ signed # <<>> /\ signed[Len(signed)].days = days
                              /\ job.at = "sealing" => job.now = now]
      /\ UNCHANGED <<now, row, ts, signed, job, byHand, odd>>
  BY DEF PruneBegins, events, store, history
<1>2. i \in Ids /\ prune'.signed /\ ts[i] < prune'.now - prune'.days
  BY <1>1 DEF Owed, Bad, Live
<1>3. signed # <<>> /\ signed[Len(signed)].days = days /\ ts[i] < now - days
      /\ (job.at = "sealing" => job.now = now)
  BY <1>1, <1>2
<1>4. signed \in Seq(Window)  BY ToGroups DEF SignedTypes
<1>5. Len(signed) \in 1..Len(signed)  BY <1>3, <1>4
<1>6. ts[i] < (IF Len(signed) = Len(signed) THEN now ELSE signed[Len(signed) + 1].at)
                - signed[Len(signed)].days
  BY <1>3
<1>7. Explained(i, Windows(now))  BY <1>2, <1>5, <1>6, Explains
<1>8. i \in Past  BY <1>2, <1>3, <1>7, Explaining DEF Past, Horizon
<1>9. Past' = Past  BY <1>1 DEF Past, Old, Windows, Horizon
<1>10. QED  BY <1>8, <1>9

\* The job's tick is what it was, or begins, or is over.
LEMMA JobOnward ==
  ASSUME Inv1, [Next]_vars, job'.at = "compacting", ~ver'["job"].disturbed
  PROVE  \/ job'.now = Horizon /\ ~PruneBegins
         \/ /\ UNCHANGED <<job, signed>>
            /\ ~PruneBegins /\ ~ver["job"].disturbed
<1>1. WorkTypes /\ TableTypes  BY ToGroups
<1>2. ver \in [Verifiers -> Run] /\ "job" \in Verifiers  BY <1>1 DEF WorkTypes, Verifiers
<1>3. CASE \E verify \in BOOLEAN : JobTick(verify)
  <2>1. job.at \in {"idle", "sealing"} /\ job' \in {NoJob, [at |-> "compacting", now |-> TickTime]}
        /\ UNCHANGED prune
    BY <1>3 DEF JobTick
  <2>2. job'.now = TickTime  BY <2>1 DEF NoJob
  <2>3. QED  BY <2>1, <2>2, HorizonFacts, NotPruning
<1>4. CASE Restart \/ JobSeals  BY <1>4 DEF Restart, JobSeals, NoJob
<1>5. CASE \E k \in 0..MaxRows : JobVerifies(k)
  <2>1. job' = NoJob \/ job' = [job EXCEPT !.at = "verifying"]  BY <1>5 DEF JobVerifies
  <2>2. job'.at # "compacting"  BY <1>1, <2>1 DEF NoJob, WorkTypes
  <2>3. QED  BY <2>2
<1>6. CASE PruneBegins
  <2>1. UNCHANGED job  BY <1>6 DEF PruneBegins
  <2>2. ver'["job"] = [ver["job"] EXCEPT !.disturbed =
                         ver["job"].disturbed \/ ver["job"].at = "reading"
                         \/ ("job" = "job" /\ job.at = "compacting")]
    BY <1>2, <1>6 DEF PruneBegins
  <2>3. ver["job"] \in Run  BY <1>2
  <2>4. ver'["job"].disturbed = (ver["job"].disturbed \/ ver["job"].at = "reading"
                                 \/ ("job" = "job" /\ job.at = "compacting"))
    BY <2>2, <2>3 DEF Run
  <2>5. QED  BY <2>1, <2>4
<1>7. CASE \E v \in Verifiers : VerifyBatch(v)
  <2>1. PICK v \in Verifiers : VerifyBatch(v)  BY <1>7
  <2>2. job' \in {job, NoJob} /\ UNCHANGED <<signed, prune>> /\ ver[v].at = "reading"
        /\ ver' = [ver EXCEPT ![v] = Read(ver[v], chain, link)]
    BY <2>1 DEF VerifyBatch, store
  <2>3. job' = job  BY <2>2 DEF NoJob
  <2>4. v # "job"  BY <1>1, <2>2, <2>3 DEF WorkTypes
  <2>5. ver'["job"] = ver["job"]  BY <1>2, <2>2, <2>4
  <2>6. QED  BY <2>2, <2>3, <2>5, NotPruning
<1>8. CASE ManualSeals \/ ManualVerify
  <2>1. UNCHANGED <<job, signed, prune>>  BY <1>8 DEF ManualSeals, ManualVerify
  <2>2. ver'["job"] = ver["job"]  BY <1>2, <1>8 DEF ManualSeals, ManualVerify
  <2>3. QED  BY <2>1, <2>2, NotPruning
<1>9. CASE Tick \/ Record \/ SetRetention \/ (\E i \in Ids : Hands(i)) \/ UNCHANGED vars
  <2>1. UNCHANGED <<job, signed, prune, ver>>
    BY <1>9 DEF Tick, Record, SetRetention, Hands, vars, store
  <2>2. QED  BY <2>1, NotPruning
<1>10. CASE PruneBatch
  <2>1. UNCHANGED <<job, signed, ver>> /\ prune # NoPrune  BY <1>10 DEF PruneBatch, store
  <2>2. QED  BY <2>1 DEF PruneBegins
<1>11. QED
  BY <1>3, <1>4, <1>5, <1>6, <1>7, <1>8, <1>9, <1>10 DEF Next

LEMMA ExcusedStays ==
  ASSUME Inv3, [Next]_vars
  PROVE  Excused'
<1>1. Inv1 /\ EditsShow /\ Excused  BY DEF Inv3
<1>2. signed' = signed \/ signed' = Append(signed, [days |-> days, at |-> Horizon])
  BY <1>1, ClockOnward
<1>3. (\A i \in Owed : ts'[i] = ts[i]) /\ (PruneBegins \/ Owed' \subseteq Owed)  BY <1>1, RowsOnward
<1>4. Owed' \subseteq Past'
  <2> SUFFICES ASSUME NEW i \in Owed' PROVE i \in Past'  OBVIOUS
  <2>1. CASE i \in Owed
    <3>1. i \in Past /\ ts'[i] = ts[i]  BY <1>1, <1>3, <2>1 DEF Excused
    <3>2. QED  BY <1>1, <3>1, PastStays
  <2>2. CASE i \notin Owed  BY <1>1, <1>3, <2>2, PruneExcused
  <2>3. QED  BY <2>1, <2>2
<1>5. ASSUME job'.at = "compacting", ~ver'["job"].disturbed
      PROVE  Owed' \subseteq Old(Windows(job.now), ts)'
  <2>1. CASE job'.now = Horizon /\ ~PruneBegins
    <3> SUFFICES ASSUME NEW i \in Owed' PROVE i \in Old(Windows(job.now), ts)'  OBVIOUS
    <3>1. i \in Past /\ ts'[i] = ts[i]  BY <1>1, <1>3, <2>1 DEF Excused
    <3>2. Horizon \in Nat /\ Horizon <= Horizon  BY <1>1, HorizonFacts
    <3>3. i \in Ids /\ \E k \in 1..Len(signed') :
            ts'[i] < (IF k = Len(signed') THEN job'.now ELSE signed'[k + 1].at) - signed'[k].days
      BY <1>1, <1>2, <2>1, <3>1, <3>2, StillExplained
    <3>4. PICK k \in 1..Len(signed') :
            ts'[i] < (IF k = Len(signed') THEN job'.now ELSE signed'[k + 1].at) - signed'[k].days
      BY <3>3
    <3>5. [days |-> signed'[k].days,
           until |-> IF k = Len(signed') THEN job'.now ELSE signed'[k + 1].at] \in Windows(job.now)'
      BY DEF Windows
    <3>6. QED  BY <3>3, <3>4, <3>5 DEF Old
  <2>2. CASE UNCHANGED <<job, signed>> /\ ~PruneBegins /\ ~ver["job"].disturbed
    <3>1. Owed' \subseteq Owed /\ Owed \subseteq Old(Windows(job.now), ts)
      BY <1>1, <1>3, <1>5, <2>2 DEF Excused
    <3>2. Windows(job.now)' = Windows(job.now)  BY <2>2 DEF Windows
    <3>3. QED  BY <1>3, <3>1, <3>2 DEF Old
  <2>3. QED  BY <1>1, <1>5, <2>1, <2>2, JobOnward
<1>6. QED  BY <1>4, <1>5 DEF Excused

LEMMA SoundOnward ==
  ASSUME NEW r, NEW c, NEW low, NEW bad, NEW owed, NEW t,
         NEW c2, NEW bad2, NEW owed2, NEW t2,
         Sound(r, c, low, bad, owed, t),
         bad \subseteq bad2,
         r.at = "reading" => c \subseteq c2 /\ owed2 \subseteq owed,
         \A i \in owed : t2[i] = t[i]
  PROVE  Sound(r, c2, low, bad2, owed2, t2)
<1>1. ASSUME r.at = "reading", NEW i \in owed2
      PROVE  i \in Old(r.windows, t2)
  <2>1. i \in owed /\ i \in Old(r.windows, t)  BY <1>1 DEF Sound
  <2>2. QED  BY <2>1 DEF Old
<1>2. QED  BY <1>1 DEF Sound

LEMMA SoundDisturbed ==
  ASSUME NEW r \in Run, NEW d \in BOOLEAN, NEW c, NEW low, NEW bad, NEW owed, NEW t,
         Sound(r, c, low, bad, owed, t)
  PROVE  Sound([r EXCEPT !.disturbed = d], c, low, bad, owed, t)
<1> DEFINE q == [r EXCEPT !.disturbed = d]
<1>1. /\ q.found = r.found /\ q.at = r.at /\ q.windows = r.windows /\ q.floor = r.floor
      /\ q.after = r.after /\ q.seals = r.seals /\ q.head = r.head
  BY DEF Run
<1> HIDE DEF q
<1>2. Sound(q, c, low, bad, owed, t)  BY <1>1 DEF Sound
<1>3. QED  BY <1>2 DEF q

\* A verification that does nothing in a step, which does not compact under it.
LEMMA KeptSound ==
  ASSUME Inv3, [Next]_vars, NEW v \in Verifiers, ~ver'[v].disturbed,
         chain \subseteq chain', floor' = floor, PruneBegins => ver[v].at # "reading",
         \/ ver'[v] \in {ver[v], NoRun}
         \/ \E d \in BOOLEAN : (ver[v].disturbed => d) /\ ver'[v] = [ver[v] EXCEPT !.disturbed = d]
  PROVE  Sound(ver'[v], chain', floor', Bad', Owed', ts')
<1>1. Inv1 /\ EditsShow /\ ver[v] \in Run  BY ToGroups DEF Inv3, WorkTypes
<1>2. /\ Bad \subseteq Bad' /\ \A i \in Owed : ts'[i] = ts[i]
      /\ PruneBegins \/ Owed' \subseteq Owed
  BY <1>1, RowsOnward
<1>3. ASSUME ~ver[v].disturbed PROVE Sound(ver[v], chain', floor', Bad', Owed', ts')
  <2>1. Sound(ver[v], chain, floor, Bad, Owed, ts)  BY <1>3 DEF Inv3, Justified
  <2>2. Sound(ver[v], chain', floor, Bad', Owed', ts')  BY <1>2, <2>1, SoundOnward
  <2>3. QED  BY <2>2
<1>4. CASE ver'[v] = NoRun  BY <1>4 DEF Sound, NoRun
<1>5. CASE ver'[v] = ver[v]  BY <1>3, <1>5
<1>6. CASE \E d \in BOOLEAN : (ver[v].disturbed => d) /\ ver'[v] = [ver[v] EXCEPT !.disturbed = d]
  <2>1. PICK d \in BOOLEAN : (ver[v].disturbed => d) /\ ver'[v] = [ver[v] EXCEPT !.disturbed = d]
    BY <1>6
  <2>2. ver'[v].disturbed = d  BY <1>1, <2>1 DEF Run
  <2>3. ~ver[v].disturbed  BY <2>1, <2>2
  <2>4. QED  BY <1>1, <1>3, <2>1, <2>3, SoundDisturbed
<1>7. QED  BY <1>4, <1>5, <1>6

\* The bounds of the chain, once a step is taken.
LEMMA Within ==
  ASSUME NEW m \in 0..MaxRows, NEW f \in 0..m, NEW c \in SUBSET ((f + 1)..m)
  PROVE  c \in SUBSET Ids /\ f \in 0..MaxRows /\ \A i \in c : f < i
<1>1. MaxRows \in Nat /\ Ids = 1..MaxRows  BY Bounds
<1>2. m \in Nat /\ m <= MaxRows /\ f \in Nat /\ f <= m  BY <1>1
<1>3. ASSUME NEW i \in c PROVE i \in 1..MaxRows /\ f < i
  <2>1. i \in (f + 1)..m  OBVIOUS
  <2>2. QED  BY <1>1, <1>2, <2>1
<1>4. f \in 0..MaxRows  BY <1>1, <1>2
<1>5. QED  BY <1>1, <1>3, <1>4

LEMMA WithinNext ==
  ASSUME TypeOK'
  PROVE  chain' \in SUBSET Ids /\ floor' \in 0..MaxRows /\ \A i \in chain' : floor' < i
<1>1. n' \in 0..MaxRows  BY DEF TypeOK
<1>2. floor' \in 0..n'  BY DEF TypeOK
<1>3. chain' \in SUBSET ((floor' + 1)..n')  BY DEF TypeOK
<1>4. QED  BY <1>1, <1>2, <1>3, Within

\* One that reads a batch of the chain as the step leaves it.
LEMMA ReadOnward ==
  ASSUME Inv3, [Next]_vars, UNCHANGED prune, NEW r \in Run, r.at = "reading", NEW l,
         \A i \in chain' : l[i] = Before(i, chain', floor'),
         Sound(r, chain', floor', Bad, Owed, ts)
  PROVE  Sound(Read(r, chain', l), chain', floor', Bad', Owed', ts')
<1>1. Inv1 /\ EditsShow /\ CoveredBy(chain, floor) /\ Inv1'  BY StaysInv1 DEF Inv3
<1>2. chain' \in SUBSET Ids /\ floor' \in 0..MaxRows /\ \A i \in chain' : floor' < i
  <2>1. TypeOK'  BY <1>1 DEF Inv1, Types
  <2>2. QED  BY <2>1, WithinNext
<1>3. CoveredBy(chain', floor')  BY <1>1, CoverOnward
<1>4. Sound(Read(r, chain', l), chain', floor', Bad, Owed, ts)
  BY <1>1, <1>2, <1>3, ReadSound
<1>5. Bad \subseteq Bad' /\ Owed' \subseteq Owed /\ \A i \in Owed : ts'[i] = ts[i]
  BY <1>1, RowsOnward, NotPruning
<1>6. QED  BY <1>4, <1>5, SoundOnward

LEMMA JobVerifiesJustified ==
  ASSUME Inv3, NEW k \in 0..MaxRows, JobVerifies(k)
  PROVE  Justified'
<1> DEFINE d == ver["job"].disturbed
           e == ver["manual"].disturbed \/ chain' # chain
           b == [Begun(job.now, chain', floor') EXCEPT !.disturbed = d]
           r == Read(b, chain', link)
<1>1. /\ Inv1 /\ EditsShow /\ TypeOK /\ SignedTypes /\ HistoryTypes /\ TableTypes /\ WorkTypes
      /\ ChainIsWhole /\ [Next]_vars /\ Inv1'
  BY ToGroups, StaysInv1 DEF Inv3, Next
<1>2. /\ Compact(k) /\ ver' = [ver EXCEPT !["job"] = r, !["manual"].disturbed = e]
      /\ job.at = "compacting" /\ UNCHANGED <<prune, seals, link>>
  BY DEF JobVerifies
<1>3. job.now \in Nat /\ d \in BOOLEAN /\ e \in BOOLEAN /\ ver["manual"] \in Run
      /\ ver \in [Verifiers -> Run] /\ "job" \in Verifiers /\ "manual" \in Verifiers
  BY <1>1 DEF WorkTypes, Verifiers, Run
<1>4. /\ chain' \in SUBSET Ids /\ floor' \in 0..MaxRows
      /\ \A i \in chain' : link[i] = Before(i, chain', floor')
      /\ \A s \in seals : s > floor' => s \in chain'
  <2>1. TypeOK' /\ ChainIsWhole'  BY <1>1 DEF Inv1, Types
  <2>2. QED  BY <1>2, <2>1, WithinNext DEF ChainIsWhole
<1>5. b \in Run /\ b.at = "reading" /\ b.disturbed = d
  <2> DEFINE g == Begun(job.now, chain', floor')
  <2>1. g \in Run /\ g.at = "reading"  BY <1>1, <1>3, <1>4, BegunTypes
  <2>2. b = [g EXCEPT !.disturbed = d]  OBVIOUS
  <2> HIDE DEF b, g, d
  <2>3. b \in Run /\ b.at = "reading"  BY <1>3, <2>1, <2>2, Disturbing
  <2>4. b.disturbed = d  BY <2>1, <2>2 DEF Run
  <2>5. QED  BY <2>3, <2>4
<1>6. ASSUME ~d PROVE Sound(r, chain', floor', Bad', Owed', ts')
  <2>1. Owed \subseteq Old(Windows(job.now), ts)  BY <1>2, <1>6 DEF Inv3, Excused
  <2>2. Sound(b, chain', floor', Bad, Owed, ts)  BY <1>4, <2>1, BegunSound
  <2> HIDE DEF b
  <2>3. QED  BY <1>1, <1>2, <1>4, <1>5, <2>2, ReadOnward
<1>7. r.disturbed = d
  <2> HIDE DEF b, d
  <2>1. QED  BY <1>4, <1>5, ReadTypes
<1> HIDE DEF r, b, d, e
<1>8. ver'["job"] = r /\ ver'["manual"] = [ver["manual"] EXCEPT !.disturbed = e]
  BY <1>2, <1>3 DEF Verifiers
<1>9. ASSUME ~ver'["manual"].disturbed
      PROVE  Sound(ver'["manual"], chain', floor', Bad', Owed', ts')
  <2>1. ver'["manual"].disturbed = e  BY <1>3, <1>8 DEF Run
  <2>2. ~e  BY <1>9, <2>1
  <2>3. chain' = chain /\ (ver["manual"].disturbed => e)  BY <2>2 DEF e
  <2>4. floor' = floor  BY <1>1, <2>3, CoverOnward DEF Inv3
  <2>5. QED  BY <1>1, <1>2, <1>3, <1>8, <1>9, <2>3, <2>4, NotPruning, KeptSound
<1>10. QED  BY <1>6, <1>7, <1>8, <1>9 DEF Justified, Verifiers

LEMMA ManualVerifyJustified ==
  ASSUME Inv3, ManualVerify
  PROVE  Justified'
<1> DEFINE b == [Begun(now, Sealed, floor) EXCEPT !.disturbed = FALSE]
           r == Read(Begun(now, Sealed, floor), Sealed, Linked)
<1>1. /\ Inv1 /\ EditsShow /\ TypeOK /\ SignedTypes /\ HistoryTypes /\ TableTypes /\ WorkTypes
      /\ ChainIsWhole /\ [Next]_vars /\ now \in Nat /\ floor \in 0..MaxRows
  BY ToGroups DEF Inv3, Next
<1>2. /\ chain' = Sealed /\ floor' = floor /\ ver' = [ver EXCEPT !["manual"] = r]
      /\ UNCHANGED prune
  BY DEF ManualVerify, SealsBatch
<1>3. /\ Sealed \in SUBSET Ids /\ chain \subseteq Sealed
      /\ \A i \in Sealed : Linked[i] = Before(i, Sealed, floor)
      /\ \A s \in seals : s > floor => s \in Sealed
  <2>1. Sealed \in SUBSET ((floor + 1)..n)  BY <1>1, Sealing
  <2>2. \A i \in (floor + 1)..n : i \in Ids  BY <1>1, Numbers, Bounds
  <2>3. QED  BY <1>1, <2>1, <2>2, Sealing
<1>4. Begun(now, Sealed, floor) = b
  <2> DEFINE g == Begun(now, Sealed, floor)
  <2>1. g \in Run  BY <1>1, <1>3, BegunTypes
  <2>2. g.disturbed = FALSE  BY DEF Begun
  <2>3. b = [g EXCEPT !.disturbed = FALSE]  OBVIOUS
  <2> HIDE DEF g, b
  <2>4. g = b  BY <2>1, <2>2, <2>3 DEF Run
  <2>5. QED  BY <2>4 DEF g
<1>5. b \in Run /\ b.at = "reading"
  <2>1. Begun(now, Sealed, floor) \in Run /\ Begun(now, Sealed, floor).at = "reading"
    BY <1>1, <1>3, BegunTypes
  <2> HIDE DEF b
  <2>2. QED  BY <1>4, <2>1
<1>6. \A i \in Owed : i \in Old(Windows(now), ts)
  BY <1>1, HorizonFacts, PastExplains DEF Inv3, Excused
<1>7. Sound(b, Sealed, floor, Bad, Owed, ts)  BY <1>1, <1>3, <1>6, BegunSound
<1>8. r = Read(b, chain', Linked)  BY <1>2, <1>4
<1> HIDE DEF b, r
<1>9. Sound(r, chain', floor', Bad', Owed', ts')
  BY <1>1, <1>2, <1>3, <1>5, <1>7, <1>8, ReadOnward
<1>10. ver'["job"] = ver["job"] /\ ver'["manual"] = r  BY <1>1, <1>2 DEF WorkTypes, Verifiers
<1>11. ~ver'["job"].disturbed => Sound(ver'["job"], chain', floor', Bad', Owed', ts')
  BY <1>1, <1>2, <1>3, <1>10, NotPruning, KeptSound DEF Verifiers
<1>12. QED  BY <1>9, <1>10, <1>11 DEF Justified, Verifiers

LEMMA VerifyBatchJustified ==
  ASSUME Inv3, NEW w \in Verifiers, VerifyBatch(w)
  PROVE  Justified'
<1> DEFINE r == Read(ver[w], chain, link)
<1>1. /\ Inv1 /\ EditsShow /\ TypeOK /\ WorkTypes /\ ChainIsWhole /\ [Next]_vars
  BY ToGroups DEF Inv3, Next
<1>2. /\ chain' = chain /\ floor' = floor /\ ver[w].at = "reading" /\ ver' = [ver EXCEPT ![w] = r]
      /\ UNCHANGED prune
  BY DEF VerifyBatch, store
<1>3. chain \in SUBSET Ids /\ ver[w] \in Run /\ ver \in [Verifiers -> Run]
  BY <1>1, Numbers DEF WorkTypes
<1>4. r.disturbed = ver[w].disturbed  BY <1>2, <1>3, ReadTypes
<1>5. ASSUME ~ver[w].disturbed PROVE Sound(r, chain', floor', Bad', Owed', ts')
  <2>1. Sound(ver[w], chain', floor', Bad, Owed, ts)  BY <1>2, <1>5 DEF Inv3, Justified
  <2>2. \A i \in chain' : link[i] = Before(i, chain', floor')  BY <1>1, <1>2 DEF ChainIsWhole
  <2>3. Sound(Read(ver[w], chain', link), chain', floor', Bad', Owed', ts')
    BY <1>1, <1>2, <1>3, <2>1, <2>2, ReadOnward
  <2>4. QED  BY <1>2, <2>3
<1> HIDE DEF r
<1>6. ASSUME NEW v \in Verifiers, ~ver'[v].disturbed
      PROVE  Sound(ver'[v], chain', floor', Bad', Owed', ts')
  <2>1. CASE v = w
    <3>1. ver'[v] = r  BY <1>2, <1>3, <2>1
    <3>2. QED  BY <1>4, <1>5, <1>6, <3>1
  <2>2. CASE v # w
    <3>1. ver'[v] = ver[v]  BY <1>2, <1>3, <2>2
    <3>2. QED  BY <1>1, <1>2, <1>6, <3>1, NotPruning, KeptSound
  <2>3. QED  BY <2>1, <2>2
<1>7. QED  BY <1>6 DEF Justified

LEMMA StaysJustified ==
  ASSUME Inv3, [Next]_vars
  PROVE  Justified'
<1>1. WorkTypes  BY ToGroups DEF Inv3
<1>2. ver \in [Verifiers -> Run] /\ \A v \in Verifiers : ver[v].disturbed \in BOOLEAN
  BY <1>1 DEF WorkTypes, Run
<1>3. CASE \/ Tick \/ Record \/ SetRetention \/ Restart \/ PruneBegins \/ PruneBatch
           \/ (\E i \in Ids : Hands(i)) \/ (\E verify \in BOOLEAN : JobTick(verify))
           \/ JobSeals \/ ManualSeals \/ UNCHANGED vars
  <2>1. chain \subseteq chain' /\ floor' = floor
    BY <1>3 DEF Tick, Record, SetRetention, Restart, PruneBegins, PruneBatch, Hands, JobTick, JobSeals, ManualSeals,
                vars, store, SealsBatch, Sealed
  <2>2. ASSUME NEW v \in Verifiers, ~ver'[v].disturbed
        PROVE  Sound(ver'[v], chain', floor', Bad', Owed', ts')
    <3>1. CASE PruneBegins
      <4> DEFINE d == ver[v].disturbed \/ ver[v].at = "reading" \/ (v = "job" /\ job.at = "compacting")
      <4>1. ver'[v] = [ver[v] EXCEPT !.disturbed = d]  BY <3>1 DEF PruneBegins
      <4>2. d \in BOOLEAN /\ (ver[v].disturbed => d)  BY <1>2
      <4>3. ver'[v].disturbed = d  BY <1>2, <4>1, <4>2 DEF Run
      <4>4. ver[v].at # "reading"  BY <2>2, <4>3
      <4> HIDE DEF d
      <4>5. QED  BY <2>1, <2>2, <4>1, <4>2, <4>4, KeptSound
    <3>2. CASE ~PruneBegins
      <4>1. \/ ver' = ver \/ ver' = [x \in Verifiers |-> NoRun]
            \/ ver' = TickReports /\ job.at \in {"idle", "sealing"}
        BY <1>3, <3>2 DEF Tick, Record, SetRetention, Restart, PruneBatch, Hands, JobSeals, JobTick,
                          ManualSeals, vars
      <4>2. ver'[v] \in {ver[v], NoRun}  BY <4>1, TickFacts DEF Inv3
      <4>3. QED  BY <2>1, <2>2, <3>2, <4>2, KeptSound
    <3>3. QED  BY <3>1, <3>2
  <2>3. QED  BY <2>2 DEF Justified
<1>4. QED
  BY <1>3, JobVerifiesJustified, ManualVerifyJustified, VerifyBatchJustified DEF Next

\* A verification that no prune and no compaction ran into reports only rows that hands
\* have touched or that went before their window was signed for: shortening, lengthening,
\* pruning, compacting and restarts in any order raise no alarm (verifyChain).
THEOREM NoAlarmIsFalse == Spec => []NoFalseAlarm
<1>1. Init => Inv3
  <2> SUFFICES ASSUME Init PROVE Inv3  OBVIOUS
  <2>1. Inv1  BY StartsInv1
  <2>2. /\ \A i \in Ids : row[i] = "none" /\ ts[i] = 0
        /\ prune = NoPrune /\ job.at = "idle" /\ ver = [v \in Verifiers |-> NoRun]
    BY DEF Init, NoJob
  <2>3. Live = {}  BY <2>2 DEF Live
  <2>4. Owed = {}  BY <2>2, <2>3 DEF Owed
  <2>5. Justified  BY <2>2 DEF Justified, Sound, NoRun
  <2>6. QED  BY <2>1, <2>2, <2>3, <2>4, <2>5 DEF Inv3, EditsShow, CoveredBy, Excused
<1>2. Inv3 /\ [Next]_vars => Inv3'
  <2> SUFFICES ASSUME Inv3, [Next]_vars PROVE Inv3'  OBVIOUS
  <2>1. Inv1' /\ EditsShow'  BY StaysInv1, RowsOnward DEF Inv3
  <2>2. CoveredBy(chain, floor)'
    <3>1. /\ CoveredBy(chain', floor') /\ \A h \in chain' \cup {floor'} : h \in Nat /\ h <= n
      BY CoverOnward DEF Inv3
    <3>2. \A i \in Live' : i \in Nat /\ (i \in Live \/ n < i)
      BY RowsOnward, RowIds DEF Inv3, Live
    <3>3. n \in Nat  BY ToGroups DEF Inv3
    <3>4. ASSUME NEW i \in Live', NEW h \in chain' \cup {floor'}, i <= h PROVE i \in chain'
      BY <3>1, <3>2, <3>3, <3>4 DEF CoveredBy
    <3>5. QED  BY <3>4 DEF CoveredBy
  <2>3. Excused' /\ Justified'  BY ExcusedStays, StaysJustified
  <2>4. QED  BY <2>1, <2>2, <2>3 DEF Inv3
<1>3. Inv3 => NoFalseAlarm
  BY DEF Inv3, Justified, Sound, Bad, NoFalseAlarm, Undisturbed
<1>4. QED  BY <1>1, <1>2, <1>3, PTL DEF Spec
=============================================================================
