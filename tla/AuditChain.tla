----------------------------- MODULE AuditChain -----------------------------
(***************************************************************************)
(* services/auditChain.js over the events table of services/eventStore.js, *)
(* with the retention job of services/eventRetention.js beside it.         *)
(*                                                                         *)
(* Rows get ascending ids and are never updated.  A chain entry holds a    *)
(* row's hash and the hash of the entry before it: here the predecessor    *)
(* its hash was computed from.  Signed checkpoints name a sealed head, the *)
(* floor below which the chain was compacted, or a retention window.       *)
(* Sealing and verification go by batches and let other work in between.   *)
(*                                                                         *)
(* `Hands' on the table, which bypass the program, are what the chain is   *)
(* there to notice: they edit or delete rows.  Entries and checkpoints are *)
(* left alone by them.  Left out: the audit_log chain (the same code, with *)
(* no retention), and severities beyond one.                               *)
(***************************************************************************)
EXTENDS Integers, FiniteSets, Sequences

CONSTANTS MaxRows,     \* bound on events
          MaxTime,     \* bound on the clock, in days
          Days,        \* retention windows an admin may set
          DefaultDays, \* the one that holds until then
          Batch,       \* BATCH: rows sealed, and entries verified, at once
          MinCompact,  \* COMPACT_MIN: entries worth compacting
          MaxHands,    \* bound on rows touched by hand
          MaxSets      \* bound on changes of the retention setting

ASSUME AuditConstants ==
  /\ MaxRows \in Nat /\ MaxTime \in Nat /\ MaxHands \in Nat
  /\ MaxSets \in Nat
  /\ Batch \in Nat \ {0} /\ MinCompact \in Nat \ {0}
  /\ Days \subseteq Nat \ {0} /\ DefaultDays \in Days

Ids == 1..MaxRows

\* Verifications: the job's, and POST /audit-chain/verify.
Verifiers == {"job", "manual"}

VARIABLES
  now,      \* the clock
  n,        \* rows inserted in events
  row,      \* a row: "none" yet, "live", "edited" by hand, or "gone"
  ts,       \* events.ts
  days,     \* the retention setting
  chain,    \* row ids with an entry in audit_chain
  link,     \* an entry: the entry whose hash its own was computed from
  signed,   \* retention checkpoints, oldest first: the window and when it was signed
  seals,    \* upto_row_id of the seal checkpoints
  floor,    \* upto_row_id of the newest compaction checkpoint, 0 when there is none
  job,      \* the audit job: "idle", between two batches that it seals, between its
            \* seals and its verification, or verifying; and the time its tick began
  prune,    \* the retention job: the time it began, its window and whether what it
            \* removes is signed for; NoPrune
  ver,      \* verifications: see NoRun
  byHand,   \* history: rows hands have touched once they were sealed
  odd,      \* history: rows pruned for a window no checkpoint had been signed for, or
            \* when a tick that was sealing went by an older clock
  hands, sets

events == <<n, row, ts>>
store == <<chain, link, signed, seals, floor>>
history == <<byHand, odd>>
bounds == <<hands, sets>>
vars == <<now, events, days, store, job, prune, ver, history, bounds>>

\* A verification: what it read first (windows, floor, seals, head);
\* how far it got, the seals it has not met yet, the rows it reports; history:
\* the rows hands had touched when it began that no window explains, and whether
\* a prune or a compaction began under it, unknown to its first reads.
NoRun == [at |-> "off", windows |-> {}, floor |-> 0, head |-> 0, after |-> 0,
          seals |-> {}, found |-> {}, hurt |-> {}, disturbed |-> FALSE]

NoJob == [at |-> "idle", now |-> 0]

NoPrune == [days |-> 0, now |-> 0, signed |-> TRUE]

MaxOf(S) == CHOOSE i \in S : \A j \in S : j <= i

HeadRow == IF chain = {} THEN floor ELSE MaxOf(chain)

TypeOK ==
  /\ now \in 0..MaxTime
  /\ n \in 0..MaxRows
  /\ row \in [Ids -> {"none", "live", "edited", "gone"}]
  /\ \A i \in Ids : row[i] = "none" <=> i > n
  /\ ts \in [Ids -> 0..now]
  /\ days \in Days
  /\ chain \in SUBSET ((floor + 1)..n)
  /\ link \in [Ids -> 0..n] /\ \A i \in chain : link[i] < i
  /\ \A k \in 1..Len(signed) : signed[k].days \in Days /\ signed[k].at <= now
  /\ \A k \in 2..Len(signed) : signed[k].days # signed[k - 1].days
  /\ seals \in SUBSET (1..n) /\ floor \in 0..n
  /\ job \in [at : {"idle", "sealing", "compacting", "verifying"}, now : 0..now]
  /\ prune \in [days : Days \cup {0}, now : 0..now, signed : BOOLEAN]
  /\ \A v \in Verifiers : ver[v].at \in {"off", "reading", "done"}
  /\ ver["job"].at = "reading" <=> job.at = "verifying"
  /\ byHand \in SUBSET Ids /\ odd \in SUBSET Ids

Init ==
  /\ now = 0
  /\ n = 0
  /\ row = [i \in Ids |-> "none"]
  /\ ts = [i \in Ids |-> 0]
  /\ days = DefaultDays
  /\ chain = {} /\ link = [i \in Ids |-> 0]
  /\ signed = <<>> /\ seals = {} /\ floor = 0
  /\ job = NoJob
  /\ prune = NoPrune
  /\ ver = [v \in Verifiers |-> NoRun]
  /\ byHand = {} /\ odd = {}
  /\ hands = 0 /\ sets = 0

Live == {i \in Ids : row[i] \in {"live", "edited"}}

-----------------------------------------------------------------------------
(* The table and the settings *)

\* A day goes by.
Tick ==
  /\ now < MaxTime
  /\ now' = now + 1
  /\ UNCHANGED <<events, days, store, job, prune, ver, history, bounds>>

\* The tables after one event more, within the bound.
Appended ==
  IF n = MaxRows THEN UNCHANGED events
  ELSE /\ n' = n + 1
       /\ row' = [row EXCEPT ![n + 1] = "live"]
       /\ ts' = [ts EXCEPT ![n + 1] = now]

\* recordEvent.
Record ==
  /\ n < MaxRows
  /\ Appended
  /\ UNCHANGED <<now, days, store, job, prune, ver, history, bounds>>

\* setRetention.
SetRetention ==
  /\ sets < MaxSets
  /\ sets' = sets + 1
  /\ days' \in Days \ {days}
  /\ UNCHANGED <<now, events, store, job, prune, ver, history, hands>>

\* Somebody edits or deletes a sealed row in the database file (of one not sealed
\* yet nothing is known that could be compared).
Hands(i) ==
  /\ hands < MaxHands /\ row[i] = "live" /\ i \in chain
  /\ hands' = hands + 1
  /\ byHand' = byHand \cup {i}
  /\ \E r \in {"edited", "gone"} : row' = [row EXCEPT ![i] = r]
  /\ UNCHANGED <<now, n, ts, days, store, job, prune, ver, odd, sets>>

-----------------------------------------------------------------------------
(* pruneEvents *)

Prunable(days_, t) == {i \in Live : ts[i] < t - days_}

\* The window in force when it starts; `signed' when the last checkpoint has it, and
\* no tick is sealing that may still sign the next one by an older clock.
\* Verifications on their way are run into.  (With nothing to delete it does
\* nothing, and no row gets old enough later.)
PruneBegins ==
  /\ prune = NoPrune /\ Prunable(days, now) # {}
  /\ prune' = [days |-> days, now |-> now,
               signed |-> /\ signed # <<>> /\ signed[Len(signed)].days = days
                          /\ job.at = "sealing" => job.now = now]
  /\ ver' = [v \in Verifiers |-> [ver[v] EXCEPT !.disturbed =
              @ \/ ver[v].at = "reading" \/ (v = "job" /\ job.at = "compacting")]]
  /\ UNCHANGED <<now, events, days, store, job, history, bounds>>

\* The oldest of the old rows goes, or none is left.
PruneBatch ==
  /\ prune # NoPrune
  /\ LET old == Prunable(prune.days, prune.now)
     IN  \/ /\ old = {}
            /\ prune' = NoPrune
            /\ UNCHANGED <<row, odd>>
         \/ \E i \in old :
              /\ \A j \in old : ts[i] <= ts[j]
              /\ row' = [row EXCEPT ![i] = "gone"]
              /\ odd' = IF prune.signed THEN odd ELSE odd \cup {i}
              /\ prune' = IF old = {i} THEN NoPrune ELSE prune
  /\ UNCHANGED <<now, n, ts, days, store, job, ver, byHand, bounds>>

-----------------------------------------------------------------------------
(* Sealing and checkpoints *)

Unsealed == LET head == HeadRow IN {i \in Live : i > head}

\* The next batch of them, and what is sealed with it.
Fresh == LET rows == Unsealed IN {i \in rows : Cardinality({j \in rows : j < i}) < Batch}
Sealed == chain \cup Fresh

\* A full batch: sealNew lets other work in and looks again.
More == Cardinality(Fresh) = Batch

\* The entry before i among c, or the floor under them.
Before(i, c, low) == MaxOf({low} \cup {j \in c : j < i})

\* Mutant: the first entry after a compaction starts the chain anew.
Linked_FromGenesis ==
  [i \in Ids |-> IF i \in Fresh THEN Before(i, Sealed, 0) ELSE link[i]]

\* The rows of a batch get an entry each, linked from the head on.
Linked ==
  LET fresh == Fresh
  IN  [i \in Ids |-> IF i \in fresh THEN Before(i, chain \cup fresh, HeadRow) ELSE link[i]]

\* Mutant: every checkpoint signs the setting.
Signed_Always(t) == Append(signed, [days |-> days, at |-> t])

\* Mutant: only the newest window is kept.
Signed_Replaces(t) ==
  IF signed # <<>> /\ signed[Len(signed)].days = days THEN signed
  ELSE <<[days |-> days, at |-> t]>>

\* checkpointNow signs the retention setting when it is not the one signed last ...
Signed(t) ==
  IF signed # <<>> /\ signed[Len(signed)].days = days THEN signed
  ELSE Append(signed, [days |-> days, at |-> t])

\* ... and the head when it moved, which it records as an event.
CheckpointNow(t) ==
  /\ signed' = Signed(t)
  /\ IF Sealed = {} \/ MaxOf(Sealed) \in seals
     THEN UNCHANGED <<seals, events>>
     ELSE seals' = seals \cup {MaxOf(Sealed)} /\ Appended

\* sealNew seals a batch.
SealsBatch == chain' = Sealed /\ link' = Linked

\* The time of the tick that is under way, or begins, and the report it starts with.
TickTime == IF job.at = "idle" THEN now ELSE job.now
TickReports == IF job.at = "idle" THEN [ver EXCEPT !["job"] = NoRun] ELSE ver

\* runAuditChainTick reads the clock and seals, batch by batch, ...
JobSeals ==
  /\ job.at \in {"idle", "sealing"} /\ More
  /\ SealsBatch
  /\ job' = [at |-> "sealing", now |-> TickTime]
  /\ ver' = TickReports
  /\ UNCHANGED <<now, events, days, signed, seals, floor, prune, history, bounds>>

\* ... and after the last batch signs when a checkpoint is due, by the clock it read
\* first, and is done or goes on to verify.
JobTick(verify) ==
  /\ job.at \in {"idle", "sealing"} /\ ~More
  /\ SealsBatch
  /\ \/ CheckpointNow(TickTime)
     \/ UNCHANGED <<signed, seals, events>>
  /\ job' = IF verify THEN [at |-> "compacting", now |-> TickTime] ELSE NoJob
  /\ ver' = TickReports
  /\ UNCHANGED <<now, days, floor, prune, history, bounds>>

-----------------------------------------------------------------------------
(* Verification *)

\* retentionWindows: each signed window with the time it stopped applying.
Windows(t) ==
  {[days |-> signed[k].days,
    until |-> IF k = Len(signed) THEN t ELSE signed[k + 1].at] : k \in 1..Len(signed)}

\* prunedByRetention.
Explained(i, windows) == \E w \in windows : ts[i] < w.until - w.days

\* verifyChain's first reads, at time t, of the chain c over the floor low.
Begun(t, c, low) ==
  [at |-> "reading", windows |-> Windows(t), floor |-> low, head |-> MaxOf({low} \cup c),
   after |-> low, seals |-> {s \in seals : s > low}, found |-> {},
   hurt |-> {i \in byHand : ~Explained(i, Windows(t))}, disturbed |-> FALSE]

\* Mutant: a row is looked for only by its id.
Wrong_IdOnly(i, windows) == row[i] = "gone" /\ ~Explained(i, windows)

\* An entry whose row is not what was sealed.
Wrong(i, windows) ==
  \/ row[i] = "edited"
  \/ row[i] = "gone" /\ ~Explained(i, windows)

\* The next entries of the chain c, linked by l: they follow one another, no row
\* is missing from among them, their rows are what was sealed.
Read(r, c, l) ==
  LET ahead == {i \in c : r.after < i /\ i <= r.head}
      next == {i \in ahead : Cardinality({j \in ahead : j < i}) < Batch}
      hi == MaxOf({r.after} \cup next)
      broken == {i \in next : l[i] # Before(i, next, r.after)}
      unsealed == {i \in Live \ c : r.after < i /\ i <= hi}
      wrong == {i \in next : Wrong(i, r.windows)}
      left == r.seals \ next
      done == Cardinality(next) < Batch
      below == {i \in Live : i <= r.floor}
      found == r.found \cup broken \cup unsealed \cup wrong
  IN  IF done
      THEN [NoRun EXCEPT !.at = "done", !.hurt = r.hurt, !.disturbed = r.disturbed,
                         !.found = found \cup below \cup left]
      ELSE [r EXCEPT !.after = hi, !.seals = left, !.found = found]

\* A failed verification records an event, unless it did so lately.
Alarm(r) ==
  \/ UNCHANGED events
  \/ r.at = "done" /\ r.found # {} /\ Appended

\* Entries up to k are of rows that a signed retention window has removed.
Compactable(k, windows) ==
  \A i \in chain : i <= k => row[i] = "gone" /\ Explained(i, windows)

\* compact looked at entries up to k, in batches; it signs a floor and drops them,
\* or finds too few.
Compact(k) ==
  /\ k \in chain \cup {0}
  /\ Compactable(k, Windows(job.now))
  /\ floor' = IF Cardinality({i \in chain : i <= k}) < MinCompact THEN floor ELSE k
  /\ chain' = {i \in chain : i > floor'}

\* The job compacts and starts to verify, its time still that of the tick.
JobVerifies(k) ==
  /\ job.at = "compacting"
  /\ Compact(k)
  /\ LET r == Read([Begun(job.now, chain', floor') EXCEPT !.disturbed = ver["job"].disturbed],
                   chain', link)
     IN  /\ ver' = [ver EXCEPT !["job"] = r,
                              !["manual"].disturbed = @ \/ chain' # chain]
         /\ job' = IF r.at = "done" THEN NoJob ELSE [job EXCEPT !.at = "verifying"]
         /\ Alarm(r)
  /\ UNCHANGED <<now, days, link, signed, seals, prune, history, bounds>>

\* POST /audit-chain/verify seals, batch by batch, ...
ManualSeals ==
  /\ More
  /\ SealsBatch
  /\ UNCHANGED <<now, events, days, signed, seals, floor, job, prune, ver, history, bounds>>

\* ... and after the last batch reads the clock and starts to verify.
ManualVerify ==
  /\ ver["manual"].at # "reading" /\ ~More
  /\ SealsBatch
  /\ LET r == Read(Begun(now, Sealed, floor), Sealed, Linked)
     IN  ver' = [ver EXCEPT !["manual"] = r] /\ Alarm(r)
  /\ UNCHANGED <<now, days, signed, seals, floor, job, prune, history, bounds>>

\* The next batch of a verification.
VerifyBatch(v) ==
  /\ ver[v].at = "reading"
  /\ LET r == Read(ver[v], chain, link)
     IN  /\ ver' = [ver EXCEPT ![v] = r]
         /\ job' = IF v = "job" /\ r.at = "done" THEN NoJob ELSE job
         /\ Alarm(r)
  /\ UNCHANGED <<now, days, store, prune, history, bounds>>

\* The server dies and boots.
Restart ==
  /\ job' = NoJob
  /\ prune' = NoPrune
  /\ ver' = [v \in Verifiers |-> NoRun]
  /\ UNCHANGED <<now, events, days, store, history, bounds>>

Next ==
  \/ Tick \/ Record \/ SetRetention \/ Restart
  \/ \E i \in Ids : Hands(i)
  \/ PruneBegins \/ PruneBatch
  \/ JobSeals
  \/ \E verify \in BOOLEAN : JobTick(verify)
  \/ \E k \in 0..MaxRows : JobVerifies(k)
  \/ ManualSeals \/ ManualVerify
  \/ \E v \in Verifiers : VerifyBatch(v)

Spec == Init /\ [][Next]_vars

-----------------------------------------------------------------------------
(* Properties *)

\* Every signed head above the floor still has its entry and the entries link to
\* one another down to the floor, whatever was sealed, compacted and sealed again
\* by the job and the route, also after a restart between two of their steps.
ChainIsWhole ==
  /\ \A s \in seals : s > floor => s \in chain
  /\ \A i \in chain : link[i] = Before(i, chain, floor)

\* Verifications that nothing ran into.
Undisturbed == {v \in Verifiers : ver[v].at = "done" /\ ~ver[v].disturbed}

\* A verification reports only rows that hands have touched, or that retention
\* removed before a checkpoint was signed for its window, or while a tick was sealing
\* that went by an older clock; retention that shortens, lengthens and prunes between
\* the checkpoints, and compaction, raise no alarm (unless they run into the
\* verification or, for the job's, into the compaction before it).
NoFalseAlarm == \A v \in Undisturbed : ver[v].found \subseteq byHand \cup odd

\* A sealed row edited or deleted by hand before a verification begins is in its
\* report, unless it was old enough for a signed window to have removed it.
TamperIsReported ==
  \A v \in Verifiers : ver[v].at = "done" =>
    \A i \in ver[v].hurt \ ver[v].found : Explained(i, Windows(now))
=============================================================================
