---------------------------- MODULE FanOutProofs ----------------------------
(***************************************************************************)
(* Theorems about FanOut, for every number of notices, workers and         *)
(* partitions: a notice is held by one fan-out, reaches a target once, and *)
(* what is over stays over; and, where a cross-partition notice names no   *)
(* subject's partition and a shard is tried twice or more, no partition of *)
(* its audience is lost and MAX_ATTEMPTS bounds the tries, but for claims  *)
(* made with a stale reading of the clock.                                 *)
(***************************************************************************)
EXTENDS FanOut, FiniteSetTheorems, TLAPS

(* Where a worker has a shard.                                             *)
Places  == {"idle", "fanning", "claiming"} \union AtWork
OnShard == {"claiming"} \union AtWork

(* Of the types, what the rest needs.                                      *)
Typed ==
  /\ fanned_out \subseteq Notices /\ tasks \subseteq DOMAIN shards
  /\ shards = [s \in DOMAIN shards |-> shards[s]] /\ DOMAIN shards \subseteq ShardIds
  /\ \A s \in DOMAIN shards : shards[s] \in ShardRecords /\ s.notice \in fanned_out
  /\ pc \in [Workers -> Places]
  /\ batch \in [Workers -> SUBSET Notices]
  /\ DOMAIN job = Workers /\ DOMAIN plan = Workers
  /\ \A w \in Workers : pc[w] \in OnShard => job[w] \in DOMAIN shards

IInv == Typed /\ HeldOnce

-----------------------------------------------------------------------------
LEMMA ReturnIs ==
  ASSUME Typed, NEW w \in Workers, Leaves(w)
  PROVE  /\ pc' \in [Workers -> Places]
         /\ batch' \in [Workers -> SUBSET Notices]
         /\ DOMAIN job' = Workers /\ DOMAIN plan' = Workers
         /\ pc'[w] = "idle" /\ batch'[w] = {} /\ plan'[w] = {}
         /\ \A v \in Workers \ {w} : /\ pc'[v] = pc[v] /\ batch'[v] = batch[v]
                                     /\ job'[v] = job[v] /\ plan'[v] = plan[v]
BY DEF Leaves, Typed, Places

(* A row of a shard, with a column of it changed.                          *)
LEMMA RowTyped ==
  ASSUME NEW row \in ShardRecords
  PROVE  /\ row.state \in ShardStates /\ row.attempt_count \in Nat /\ row.stale \in Nat
         /\ \A state \in ShardStates : /\ [row EXCEPT !.state = state] \in ShardRecords
                                      /\ [row EXCEPT !.state = state].state = state
                                      /\ [row EXCEPT !.state = state].attempt_count = row.attempt_count
                                      /\ [row EXCEPT !.state = state].stale = row.stale
         /\ \A due \in {"later", "due", "overdue"} :
                [row EXCEPT !.due = due] \in ShardRecords
BY DEF ShardRecords

LEMMA ClaimedTyped ==
  ASSUME Typed, NEW w \in Workers, NEW s \in DOMAIN shards
  PROVE  /\ ClaimedRow(s, w) \in ShardRecords /\ ClaimedRow(s, w).state = "CLAIMED"
         /\ ClaimedRow(s, w).attempt_count = shards[s].attempt_count + 1
         /\ \/ ~ClaimedRow(s, w).old /\ ClaimedRow(s, w).stale = shards[s].stale
            \/ ClaimedRow(s, w).stale = shards[s].stale + 1
<1>1. PICK row \in ShardRecords : row = shards[s]
  BY DEF Typed
<1>2. row.attempt_count + 1 \in Nat /\ row.stale + 1 \in Nat /\ row.stale \in Nat
  <2>1. row.attempt_count \in Nat /\ row.stale \in Nat
    BY RowTyped
  <2> QED BY <2>1
<1>3. ClaimedRow(s, w) = [row EXCEPT !.state = "CLAIMED", !.attempt_count = @ + 1,
                                     !.claimed_by = w, !.old = (reading[w] = "old"),
                                     !.stale = IF reading[w] = "old" THEN @ + 1 ELSE @]
  BY <1>1 DEF ClaimedRow
<1>4. CASE reading[w] = "old"
  <2>1. ClaimedRow(s, w) = [row EXCEPT !.state = "CLAIMED", !.attempt_count = @ + 1,
                                       !.claimed_by = w, !.old = TRUE, !.stale = @ + 1]
    BY <1>3, <1>4
  <2> QED BY <1>1, <1>2, <2>1 DEF ShardRecords, ShardStates
<1>5. CASE reading[w] # "old"
  <2>1. ClaimedRow(s, w) = [row EXCEPT !.state = "CLAIMED", !.attempt_count = @ + 1,
                                       !.claimed_by = w, !.old = FALSE]
    BY <1>1, <1>3, <1>5 DEF ShardRecords
  <2> QED BY <1>1, <1>2, <2>1 DEF ShardRecords, ShardStates
<1> QED BY <1>4, <1>5

(* What a shard's new row may be.                                          *)
LEMMA RowsTyped ==
  /\ FreshRow \in ShardRecords
  /\ \A failure : AsideRow(failure) \in ShardRecords
BY DEF FreshRow, AsideRow, ShardRecords, ShardStates

LEMMA FirstCopy ==
  ASSUME Typed, NEW n \in Notices \ fanned_out
  PROVE  NextCopy(n) = 0
<1>1. {s \in DOMAIN shards : s.notice = n /\ s.partition = None} = {}
  BY DEF Typed
<1> QED BY <1>1, FS_EmptySet DEF NextCopy

(* What a fan-out's transaction leaves.                                    *)
LEMMA BatchIs ==
  ASSUME NEW w \in Workers, FanOutBatch(w)
  PROVE  \E aside, asideRows, new :
           /\ aside \subseteq batch[w]
           /\ shards' = Joined(shards, Joined(asideRows, [s \in new |-> FreshRow]))
           /\ deliveries' = deliveries \union UNION {Written(n) : n \in batch[w] \ aside}
           /\ tasks' = tasks \union new
           /\ fanned_out' = fanned_out \union batch[w]
           /\ new = UNION {ScatteredBy(n) : n \in batch[w] \ aside}
           /\ DOMAIN asideRows = {AsideShard(n) : n \in aside}
           /\ \A s \in DOMAIN asideRows : \E failure : asideRows[s] = AsideRow(failure)
           /\ \A n \in batch[w] \ aside : Refusal(n) = "none"
<1>1. PICK failed \in SUBSET batch[w] :
       LET failure(n) == IF n \in failed THEN "error" ELSE Refusal(n)
           aside == {n \in batch[w] : failure(n) # "none"}
           done  == batch[w] \ aside
           new   == UNION {ScatteredBy(n) : n \in done}
           asideRows == [s \in {AsideShard(n) : n \in aside} |-> AsideRow(failure(s.notice))]
       IN /\ shards'     = Joined(shards, Joined(asideRows, [s \in new |-> FreshRow]))
          /\ deliveries' = deliveries \union UNION {Written(n) : n \in done}
          /\ tasks'      = tasks \union new
          /\ fanned_out' = fanned_out \union done \union AsideStamps(aside)
  BY DEF FanOutBatch
<1> DEFINE failure(n) == IF n \in failed THEN "error" ELSE Refusal(n)
           aside == {n \in batch[w] : failure(n) # "none"}
           new   == UNION {ScatteredBy(n) : n \in batch[w] \ aside}
           asideRows == [s \in {AsideShard(n) : n \in aside} |-> AsideRow(failure(s.notice))]
<1>2. /\ aside \subseteq batch[w]
      /\ shards' = Joined(shards, Joined(asideRows, [s \in new |-> FreshRow]))
      /\ deliveries' = deliveries \union UNION {Written(n) : n \in batch[w] \ aside}
      /\ tasks' = tasks \union new
  BY <1>1
<1>3. fanned_out' = fanned_out \union batch[w]
  BY <1>1 DEF AsideStamps
<1>4. DOMAIN asideRows = {AsideShard(n) : n \in aside}
  OBVIOUS
<1>5. \A s \in DOMAIN asideRows : \E f : asideRows[s] = AsideRow(f)
  OBVIOUS
<1>6. \A n \in batch[w] \ aside : Refusal(n) = "none"
  OBVIOUS
<1>7. new = UNION {ScatteredBy(n) : n \in batch[w] \ aside}
  OBVIOUS
<1> HIDE DEF aside, new, asideRows
<1> QED BY <1>2, <1>3, <1>4, <1>5, <1>6, <1>7

-----------------------------------------------------------------------------
(* A worker's step that leaves the shards, and those another holds.        *)
LEMMA InitHolds == Init => IInv
BY DEF Init, IInv, Typed, HeldOnce, Places, OnShard, AtWork

LEMMA HeldOnceStays ==
  ASSUME IInv, fanned_out' = fanned_out, \A v \in Workers : batch'[v] \in {batch[v], {}}
  PROVE  HeldOnce'
BY DEF IInv, HeldOnce

(* A step that changes rows of the shards, in their types, and no more.    *)
LEMMA RowsKeep ==
  ASSUME IInv, DOMAIN shards' = DOMAIN shards,
         shards' = [s \in DOMAIN shards' |-> shards'[s]],
         \A s \in DOMAIN shards : shards'[s] \in ShardRecords,
         UNCHANGED <<fanned_out, pc, batch, job, plan>>, tasks' \subseteq DOMAIN shards
  PROVE  IInv'
<1>1. Typed'
  BY DEF IInv, Typed
<1> QED BY <1>1, HeldOnceStays DEF IInv

LEMMA TakeBatchKeeps == ASSUME IInv, NEW w \in Workers, TakeBatch(w) PROVE IInv'
<1> DEFINE taken == {n \in Waiting : Cardinality({m \in Waiting : m < n}) < BatchSize}
<1>1. /\ batch' = [batch EXCEPT ![w] = taken] /\ pc' = [pc EXCEPT ![w] = "fanning"]
      /\ pc[w] = "idle"
      /\ UNCHANGED <<fanned_out, shards, tasks, job, plan>>
  BY DEF TakeBatch
<1>2. taken \subseteq Notices \ fanned_out /\ \A v \in Workers : taken \intersect batch[v] = {}
  BY DEF Waiting
<1> HIDE DEF taken
<1>3. Typed'
  BY <1>1, <1>2 DEF IInv, Typed, Places, OnShard, AtWork
<1>4. batch'[w] = taken /\ \A v \in Workers \ {w} : batch'[v] = batch[v]
  BY <1>1 DEF IInv, Typed
<1>5. HeldOnce'
  BY <1>1, <1>2, <1>4 DEF IInv, HeldOnce
<1> QED BY <1>3, <1>5 DEF IInv

(* The shards a fan-out adds.                                              *)
LEMMA AddedTyped ==
  ASSUME IInv, NEW n \in Notices \ fanned_out
  PROVE  /\ AsideShard(n) \in ShardIds /\ AsideShard(n).notice = n
         /\ \A s \in ScatteredBy(n) : s \in ShardIds /\ s.notice = n
<1>1. NextCopy(n) = 0
  BY FirstCopy DEF IInv
<1>2. \A p \in Keys : Shard(n, p, 0) \in ShardIds /\ Shard(n, p, 0).notice = n
  BY FanOutAssumption DEF Shard, ShardIds
<1>3. Subject[n] \in Keys /\ Audience[n] \subseteq Keys
  BY FanOutAssumption
<1> QED BY <1>1, <1>2, <1>3 DEF AsideShard, ScatteredBy, Scattered

LEMMA FanOutBatchKeeps == ASSUME IInv, NEW w \in Workers, FanOutBatch(w) PROVE IInv'
<1>1. PICK aside, asideRows, new :
           /\ aside \subseteq batch[w]
           /\ shards' = Joined(shards, Joined(asideRows, [s \in new |-> FreshRow]))
           /\ deliveries' = deliveries \union UNION {Written(n) : n \in batch[w] \ aside}
           /\ tasks' = tasks \union new
           /\ fanned_out' = fanned_out \union batch[w]
           /\ new = UNION {ScatteredBy(n) : n \in batch[w] \ aside}
           /\ DOMAIN asideRows = {AsideShard(n) : n \in aside}
           /\ \A s \in DOMAIN asideRows : \E failure : asideRows[s] = AsideRow(failure)
           /\ \A n \in batch[w] \ aside : Refusal(n) = "none"
  BY BatchIs
<1> DEFINE added == Joined(asideRows, [s \in new |-> FreshRow])
<1>2. batch[w] \subseteq Notices \ fanned_out
  BY DEF IInv, Typed, HeldOnce
<1>3. /\ \A s \in DOMAIN asideRows : s \in ShardIds /\ s.notice \in batch[w]
      /\ \A s \in new : s \in ShardIds /\ s.notice \in batch[w]
  BY <1>1, <1>2, AddedTyped
<1>4. /\ DOMAIN added = DOMAIN asideRows \union new
      /\ \A s \in DOMAIN added : added[s] \in ShardRecords
  <2>1. /\ DOMAIN added = DOMAIN asideRows \union new
        /\ \A s \in DOMAIN asideRows : added[s] = asideRows[s]
        /\ \A s \in new \ DOMAIN asideRows : added[s] = FreshRow
    BY DEF Joined
  <2> HIDE DEF added
  <2> QED BY <1>1, <2>1, RowsTyped
<1> HIDE DEF added
<1>5. /\ DOMAIN shards' = DOMAIN shards \union DOMAIN added
      /\ shards' = [s \in DOMAIN shards' |-> shards'[s]]
      /\ \A s \in DOMAIN shards' : shards'[s] \in ShardRecords
  <2>1. shards' = Joined(shards, added)
    BY <1>1 DEF added
  <2>2. \A s \in DOMAIN shards : shards[s] \in ShardRecords
    BY DEF IInv, Typed
  <2>3. /\ DOMAIN shards' = DOMAIN shards \union DOMAIN added
        /\ \A s \in DOMAIN shards : shards'[s] = shards[s]
        /\ \A s \in DOMAIN added \ DOMAIN shards : shards'[s] = added[s]
        /\ shards' = [s \in DOMAIN shards' |-> shards'[s]]
    BY <2>1 DEF Joined
  <2> QED BY <2>2, <2>3, <1>4
<1>6. Typed'
  <2>1. \A s \in DOMAIN shards' : s \in ShardIds /\ s.notice \in fanned_out'
    BY <1>1, <1>3, <1>4, <1>5 DEF IInv, Typed
  <2>2. \A v \in Workers : pc'[v] \in OnShard => job'[v] \in DOMAIN shards'
    BY <1>5, ReturnIs DEF FanOutBatch, Return, IInv, Typed, OnShard, AtWork
  <2>3. fanned_out' \subseteq Notices /\ tasks' \subseteq DOMAIN shards'
    BY <1>1, <1>2, <1>4, <1>5 DEF IInv, Typed
  <2> QED BY <1>5, <2>1, <2>2, <2>3, ReturnIs DEF FanOutBatch, Return, IInv, Typed
<1>7. HeldOnce'
  BY <1>1, ReturnIs DEF FanOutBatch, Return, IInv, HeldOnce
<1> QED BY <1>6, <1>7 DEF IInv

LEMMA RunShardKeeps ==
  ASSUME IInv, NEW w \in Workers, NEW s \in ShardIds, RunShard(w, s)
  PROVE  IInv'
<1>1. /\ pc[w] = "idle" /\ s \in DOMAIN shards /\ tasks' \subseteq DOMAIN shards
      /\ UNCHANGED <<fanned_out, shards, batch, plan>>
      /\ \/ UNCHANGED <<pc, job>>
         \/ pc' = [pc EXCEPT ![w] = "claiming"] /\ job' = [job EXCEPT ![w] = s]
  BY DEF RunShard, IInv, Typed
<1>2. Typed'
  BY <1>1 DEF IInv, Typed, Places, OnShard, AtWork
<1> QED BY <1>1, <1>2, HeldOnceStays DEF IInv

(* The shard that is claimed, and no other, gets its claim.                *)
LEMMA ClaimIs ==
  ASSUME IInv, NEW w \in Workers, ClaimShard(w)
  PROVE  /\ job[w] \in DOMAIN shards /\ shards[job[w]].state = "PENDING"
         /\ DOMAIN shards' = DOMAIN shards /\ shards' = [s \in DOMAIN shards' |-> shards'[s]]
         /\ shards'[job[w]] = ClaimedRow(job[w], w)
         /\ \A s \in DOMAIN shards \ {job[w]} : shards'[s] = shards[s]
         /\ UNCHANGED <<fanned_out, batch, job, plan, tasks>>
         /\ pc' = [pc EXCEPT ![w] = "working"]
BY DEF ClaimShard, Claimable, IInv, Typed, OnShard

LEMMA ClaimKeeps == ASSUME IInv, NEW w \in Workers, ClaimShard(w) PROVE IInv'
<1>1. \A s \in DOMAIN shards : shards'[s] \in ShardRecords
  BY ClaimIs, ClaimedTyped DEF IInv, Typed
<1>2. Typed'
  BY <1>1, ClaimIs DEF IInv, Typed, Places, OnShard, AtWork
<1> QED BY <1>2, ClaimIs, HeldOnceStays DEF IInv

LEMMA ReadKeeps == ASSUME IInv, NEW w \in Workers, Read(w) \/ Fails(w) PROVE IInv'
<1>1. /\ pc[w] \in OnShard /\ UNCHANGED <<fanned_out, shards, tasks, batch, job>>
      /\ \E at \in {"writing", "failing"} : pc' = [pc EXCEPT ![w] = at]
      /\ DOMAIN plan' = Workers
  BY DEF Read, Fails, OnShard, AtWork, IInv, Typed
<1>2. Typed'
  BY <1>1 DEF IInv, Typed, Places, OnShard, AtWork
<1> QED BY <1>1, <1>2, HeldOnceStays DEF IInv

(* A worker that returns, with rows of the shards changed or added.        *)
LEMMA ReturnKeeps ==
  ASSUME IInv, NEW w \in Workers, Leaves(w), fanned_out' = fanned_out,
         DOMAIN shards \subseteq DOMAIN shards', DOMAIN shards' \subseteq ShardIds,
         shards' = [s \in DOMAIN shards' |-> shards'[s]],
         \A s \in DOMAIN shards' : shards'[s] \in ShardRecords /\ s.notice \in fanned_out,
         tasks' \subseteq DOMAIN shards'
  PROVE  IInv'
<1>1. Typed'
  BY ReturnIs DEF IInv, Typed, OnShard, AtWork
<1>2. \A v \in Workers : batch'[v] \in {batch[v], {}}
  BY ReturnIs DEF IInv
<1> QED BY <1>1, <1>2, HeldOnceStays DEF IInv

(* A finished shard's row, and the shards it names.                        *)
LEMMA FinishIs ==
  ASSUME IInv, NEW w \in Workers, FinishShard(w)
  PROVE  /\ job[w] \in DOMAIN shards /\ shards[job[w]].state = "CLAIMED"
         /\ NewShards(w) \subseteq ShardIds
         /\ \A s \in NewShards(w) : s.notice = job[w].notice /\ s \notin DOMAIN shards
         /\ DOMAIN shards' = DOMAIN shards \union NewShards(w)
         /\ shards' = [s \in DOMAIN shards' |-> shards'[s]]
         /\ shards'[job[w]] = [shards[job[w]] EXCEPT !.state = "FINISHED"]
         /\ \A s \in DOMAIN shards \ {job[w]} : shards'[s] = shards[s]
         /\ \A s \in NewShards(w) : shards'[s] = FreshRow
<1>1. job[w] \in DOMAIN shards /\ shards[job[w]].state = "CLAIMED"
  BY DEF FinishShard, Mine, IInv, Typed, OnShard, AtWork
<1>2. NewShards(w) \subseteq ShardIds /\ NewShards(w) \intersect DOMAIN shards = {}
  BY DEF FinishShard, Collides
<1>3. \A s \in NewShards(w) : s.notice = job[w].notice
  BY DEF NewShards, Scattered, Shard
<1> DEFINE f == [shards EXCEPT ![job[w]].state = "FINISHED"]
           g == [s \in NewShards(w) |-> FreshRow]
<1>4. /\ DOMAIN f = DOMAIN shards
      /\ f[job[w]] = [shards[job[w]] EXCEPT !.state = "FINISHED"]
      /\ \A s \in DOMAIN shards \ {job[w]} : f[s] = shards[s]
  BY <1>1 DEF IInv, Typed
<1>5. DOMAIN g = NewShards(w) /\ \A s \in NewShards(w) : g[s] = FreshRow
  OBVIOUS
<1>6. shards' = Joined(f, g)
  BY DEF FinishShard
<1> HIDE DEF f, g
<1>7. /\ DOMAIN shards' = DOMAIN shards \union NewShards(w)
      /\ shards' = [s \in DOMAIN shards' |-> shards'[s]]
      /\ \A s \in DOMAIN shards : shards'[s] = f[s]
      /\ \A s \in NewShards(w) : shards'[s] = FreshRow
  <2>1. /\ DOMAIN shards' = DOMAIN f \union DOMAIN g
        /\ shards' = [s \in DOMAIN shards' |-> shards'[s]]
        /\ \A s \in DOMAIN f : shards'[s] = f[s]
        /\ \A s \in DOMAIN g \ DOMAIN f : shards'[s] = g[s]
    BY <1>6 DEF Joined
  <2> QED BY <2>1, <1>2, <1>4, <1>5
<1> QED BY <1>1, <1>2, <1>3, <1>4, <1>7

LEMMA FinishKeeps == ASSUME IInv, NEW w \in Workers, FinishShard(w) PROVE IInv'
<1>1. \A s \in DOMAIN shards' : shards'[s] \in ShardRecords /\ s.notice \in fanned_out
  <2>1. [shards[job[w]] EXCEPT !.state = "FINISHED"] \in ShardRecords
    BY FinishIs, RowTyped DEF IInv, Typed, ShardStates
  <2>2. FreshRow \in ShardRecords /\ job[w].notice \in fanned_out
    BY FinishIs, RowsTyped DEF IInv, Typed
  <2> SUFFICES ASSUME NEW s \in DOMAIN shards'
               PROVE  shards'[s] \in ShardRecords /\ s.notice \in fanned_out
    OBVIOUS
  <2>3. CASE s = job[w]
    BY <2>1, <2>2, <2>3, FinishIs
  <2>4. CASE s \in DOMAIN shards \ {job[w]}
    BY <2>4, FinishIs DEF IInv, Typed
  <2>5. CASE s \in NewShards(w)
    BY <2>2, <2>5, FinishIs
  <2> QED BY <2>3, <2>4, <2>5, FinishIs
<1>2. tasks' \subseteq DOMAIN shards' /\ DOMAIN shards' \subseteq ShardIds
  <2>1. tasks \subseteq DOMAIN shards /\ DOMAIN shards \subseteq ShardIds
    BY DEF IInv, Typed
  <2>2. NewShards(w) \subseteq ShardIds /\ DOMAIN shards' = DOMAIN shards \union NewShards(w)
    BY FinishIs
  <2>3. tasks' = tasks \union NewShards(w)
    BY DEF FinishShard
  <2> QED BY <2>1, <2>2, <2>3
<1> QED BY <1>1, <1>2, FinishIs, ReturnKeeps DEF FinishShard, Return

LEMMA FailShardKeeps == ASSUME IInv, NEW w \in Workers, FailShard(w) PROVE IInv'
<1>1. /\ job[w] \in DOMAIN shards /\ UNCHANGED <<fanned_out, tasks>> /\ Leaves(w)
  BY DEF FailShard, IInv, Typed, OnShard, AtWork
<1>2. /\ DOMAIN shards' = DOMAIN shards /\ shards' = [s \in DOMAIN shards' |-> shards'[s]]
      /\ \A s \in DOMAIN shards : shards'[s] \in ShardRecords
  <2>1. CASE ~Mine(w)
    BY <2>1 DEF FailShard, IInv, Typed
  <2>2. CASE shards' = [shards EXCEPT ![job[w]].state = "ABANDONED"]
    <3>1. [shards[job[w]] EXCEPT !.state = "ABANDONED"] \in ShardRecords
      BY <1>1, RowTyped DEF IInv, Typed, ShardStates
    <3> QED BY <1>1, <2>2, <3>1 DEF IInv, Typed
  <2>3. CASE shards' = [shards EXCEPT ![job[w]].state = "PENDING", ![job[w]].due = "later"]
    <3>1. [[shards[job[w]] EXCEPT !.state = "PENDING"] EXCEPT !.due = "later"] \in ShardRecords
      BY <1>1, RowTyped DEF IInv, Typed, ShardStates
    <3> QED BY <1>1, <2>3, <3>1 DEF IInv, Typed
  <2> QED BY <2>1, <2>2, <2>3 DEF FailShard
<1> QED BY <1>1, <1>2, ReturnKeeps DEF IInv, Typed

LEMMA GivesUpKeeps ==
  ASSUME IInv, NEW w \in Workers, NothingToClaim(w) \/ Superseded(w) \/ Crash(w)
  PROVE  IInv'
BY ReturnKeeps DEF NothingToClaim, Superseded, Crash, Return, IInv, Typed

LEMMA RestatedIs ==
  ASSUME IInv, NEW taken, NEW to \in ShardStates, shards' = Restated(taken, to)
  PROVE  /\ DOMAIN shards' = DOMAIN shards /\ shards' = [s \in DOMAIN shards' |-> shards'[s]]
         /\ \A s \in DOMAIN shards : shards'[s] \in ShardRecords
         /\ \A s \in DOMAIN shards : s \in taken =>
                /\ shards'[s].state = to /\ shards'[s].stale = shards[s].stale
                /\ shards'[s].attempt_count = shards[s].attempt_count
         /\ \A s \in DOMAIN shards : s \notin taken => shards'[s] = shards[s]
<1>1. \A s \in DOMAIN shards : shards[s] \in ShardRecords
  BY DEF IInv, Typed
<1>2. \A s \in DOMAIN shards :
        /\ [shards[s] EXCEPT !.state = to] \in ShardRecords
        /\ [shards[s] EXCEPT !.state = to].state = to
        /\ [shards[s] EXCEPT !.state = to].attempt_count = shards[s].attempt_count
        /\ [shards[s] EXCEPT !.state = to].stale = shards[s].stale
  BY <1>1, RowTyped
<1>3. shards' = [s \in DOMAIN shards |->
                   IF s \in taken THEN [shards[s] EXCEPT !.state = to] ELSE shards[s]]
  BY DEF Restated
<1> QED BY <1>1, <1>2, <1>3

LEMMA LaterIs ==
  ASSUME NEW row \in ShardRecords
  PROVE  /\ Later(row) \in ShardRecords /\ Later(row).state = row.state
         /\ Later(row).attempt_count = row.attempt_count /\ Later(row).stale = row.stale
<1>1. CASE row.state = "CLAIMED"
  <2>1. Later(row) = [row EXCEPT !.old = TRUE, !.due = "overdue"]
    BY <1>1 DEF Later
  <2> QED BY <2>1 DEF ShardRecords
<1>2. CASE row.state # "CLAIMED"
  <2>1. \E due \in {"due", "overdue"} : Later(row) = [row EXCEPT !.due = due]
    BY <1>2 DEF Later
  <2> QED BY <2>1 DEF ShardRecords
<1> QED BY <1>1, <1>2

LEMMA ReaperKeeps ==
  ASSUME IInv, ReapAbandon \/ ReapRelease \/ ReapAsk \/ ReaperCrash
  PROVE  IInv'
<1>1. CASE ReapAbandon
  BY <1>1, RestatedIs, RowsKeep DEF ReapAbandon, workerVars, ShardStates, IInv, Typed
<1>2. CASE ReapRelease
  BY <1>2, RestatedIs, RowsKeep DEF ReapRelease, workerVars, ShardStates, IInv, Typed
<1>3. CASE ReapAsk \/ ReaperCrash
  <2>1. shards' = shards /\ tasks' \subseteq DOMAIN shards
        /\ UNCHANGED <<fanned_out, pc, batch, job, plan>>
    BY <1>3 DEF ReapAsk, ReaperCrash, Overdue, workerVars, IInv, Typed
  <2> QED BY <2>1, RowsKeep DEF IInv, Typed
<1> QED BY <1>1, <1>2, <1>3

LEMMA WorldKeeps ==
  ASSUME IInv, LoseTask \/ (\E p \in Partitions : DropPartition(p)) \/ Tick
  PROVE  IInv'
<1>1. CASE LoseTask \/ (\E p \in Partitions : DropPartition(p))
  <2>1. shards' = shards /\ tasks' \subseteq DOMAIN shards
        /\ UNCHANGED <<fanned_out, pc, batch, job, plan>>
    BY <1>1 DEF LoseTask, DropPartition, workerVars, IInv, Typed
  <2> QED BY <2>1, RowsKeep DEF IInv, Typed
<1>2. CASE Tick
  <2>1. PICK aged : shards' = [s \in DOMAIN shards |->
                                 IF s \in aged THEN Later(shards[s]) ELSE shards[s]]
    BY <1>2 DEF Tick, PassFor
  <2>2. tasks' \subseteq DOMAIN shards /\ UNCHANGED <<fanned_out, pc, batch, job, plan>>
    BY <1>2 DEF Tick, PassFor, IInv, Typed
  <2> QED BY <2>1, <2>2, LaterIs, RowsKeep DEF IInv, Typed
<1> QED BY <1>1, <1>2

LEMMA NextHolds == IInv /\ [Next]_vars => IInv'
<1> SUFFICES ASSUME IInv, [Next]_vars PROVE IInv'
  OBVIOUS
<1>1. CASE UNCHANGED vars
  BY <1>1, RowsKeep DEF vars, workerVars, IInv, Typed
<1>2. ASSUME NEW w \in Workers, TakeBatch(w) \/ FanOutBatch(w) PROVE IInv'
  BY <1>2, TakeBatchKeeps, FanOutBatchKeeps
<1>3. ASSUME NEW w \in Workers,
             ClaimShard(w) \/ NothingToClaim(w) \/ Work(w) \/ Fails(w) \/ Crash(w)
      PROVE  IInv'
  BY <1>3, ClaimKeeps, ReadKeeps, FinishKeeps, FailShardKeeps, GivesUpKeeps DEF Work
<1>4. ASSUME NEW w \in Workers, NEW s \in ShardIds, RunShard(w, s) PROVE IInv'
  BY <1>4, RunShardKeeps
<1>5. CASE ReapAbandon \/ ReapRelease \/ ReapAsk \/ ReaperCrash
  BY <1>5, ReaperKeeps
<1>6. CASE LoseTask \/ (\E p \in Partitions : DropPartition(p)) \/ Tick
  BY <1>6, WorldKeeps
<1> QED BY <1>1, <1>2, <1>3, <1>4, <1>5, <1>6 DEF Next

LEMMA Inductive == Spec => []IInv
BY InitHolds, NextHolds, PTL DEF Spec

(* Fan-outs never hold the same notice, nor one that has been stamped,     *)
(* however many run at once.                                               *)
THEOREM HeldOnceHolds == Spec => []HeldOnce
<1>1. IInv => HeldOnce
  BY DEF IInv
<1> QED BY <1>1, Inductive, PTL

-----------------------------------------------------------------------------
(***************************************************************************)
(* One delivery per target: what a shard is to write names each once, and  *)
(* what runs into a row written since is not written.                      *)
(***************************************************************************)
OneTarget(rows) == \A d, e \in rows : d.notice = e.notice /\ d.target = e.target => d = e

PlansOne == \A w \in Workers : OneTarget(plan[w])

LEMMA RowsOne ==
  ASSUME NEW n, NEW p
  PROVE  /\ OneTarget(Rows(n, p))
         /\ \A r \in Rows(n, p) : r.notice = n
         /\ Unwritten(n, p) \subseteq Rows(n, p)
         /\ \A r \in Unwritten(n, p), d \in deliveries : ~(d.notice = n /\ d.target = r.target)
BY DEF OneTarget, Rows, Unwritten

(* A single partition's audience, when it is not refused, is one partition.*)
LEMMA SingleIs ==
  ASSUME NEW n \in Notices, SingleRefusal(n) = "none"
  PROVE  \E p : Audience[n] = {p}
<1>1. Cardinality(Audience[n]) = 1
  BY DEF SingleRefusal
<1>2. IsFiniteSet(Audience[n])
  <2>1. IsFiniteSet(Keys)
    BY FanOutAssumption, FS_AddElement DEF Keys
  <2>2. Audience[n] \in SUBSET Keys
    BY FanOutAssumption
  <2> QED BY <2>1, <2>2, FS_Subset
<1> QED BY <1>1, <1>2, FS_Singleton

LEMMA SingleOne ==
  ASSUME NEW n \in Notices, SingleRefusal(n) = "none"
  PROVE  /\ OneTarget(SingleRows(n))
         /\ \A r \in SingleRows(n) : r.notice = n
         /\ \A r \in SingleRows(n), d \in deliveries : ~(d.notice = n /\ d.target = r.target)
<1>1. PICK p : Audience[n] = {p}
  BY SingleIs
<1>2. SingleRows(n) \subseteq Unwritten(n, p)
  BY <1>1 DEF SingleRows
<1> QED BY <1>2, RowsOne DEF OneTarget

LEMMA ShardRowsOne ==
  ASSUME NEW s, s.notice \in Notices, ShardRefusal(s) = "none"
  PROVE  OneTarget(ShardRows(s))
<1>1. CASE Scope[s.notice] = "single"
  BY <1>1, SingleOne DEF ShardRefusal, ShardRows
<1>2. CASE Scope[s.notice] # "single"
  BY <1>2, RowsOne DEF ShardRows, OneTarget
<1> QED BY <1>1, <1>2

LEMMA OneInit == Init => OnePerTarget /\ PlansOne
BY DEF Init, OnePerTarget, PlansOne, OneTarget

LEMMA OneBatch ==
  ASSUME IInv, OnePerTarget, NEW w \in Workers, FanOutBatch(w)
  PROVE  OnePerTarget'
<1>1. PICK done \in SUBSET batch[w] :
        /\ deliveries' = deliveries \union UNION {Written(n) : n \in done}
        /\ \A n \in done : Refusal(n) = "none"
  <2>1. PICK aside :
          /\ aside \subseteq batch[w]
          /\ deliveries' = deliveries \union UNION {Written(n) : n \in batch[w] \ aside}
          /\ \A n \in batch[w] \ aside : Refusal(n) = "none"
    BY BatchIs
  <2> QED BY <2>1
<1>2. ASSUME NEW n \in done
      PROVE  /\ OneTarget(Written(n))
             /\ \A r \in Written(n) : r.notice = n
             /\ \A r \in Written(n), d \in deliveries : ~(d.notice = n /\ d.target = r.target)
  <2>1. n \in Notices
    BY DEF IInv, Typed
  <2>2. CASE Scope[n] = "single"
    BY <1>1, <2>1, <2>2, SingleOne DEF Refusal, Written
  <2>3. CASE Scope[n] # "single"
    BY <2>3 DEF Written, OneTarget
  <2> QED BY <2>2, <2>3
<1> SUFFICES ASSUME NEW d \in deliveries', NEW e \in deliveries',
                    d.notice = e.notice, d.target = e.target
             PROVE  d = e
  BY DEF OnePerTarget
<1>3. CASE d \in deliveries /\ e \in deliveries
  BY <1>3 DEF OnePerTarget
<1>4. ASSUME NEW n \in done, d \in Written(n) PROVE d = e
  <2>1. e \notin deliveries
    BY <1>2, <1>4
  <2>2. PICK m \in done : e \in Written(m)
    BY <1>1, <2>1
  <2>3. m = n
    BY <1>2, <1>4, <2>2
  <2> QED BY <1>2, <1>4, <2>2, <2>3 DEF OneTarget
<1>5. ASSUME NEW n \in done, e \in Written(n) PROVE d = e
  <2>1. d \notin deliveries
    BY <1>2, <1>5
  <2>2. PICK m \in done : d \in Written(m)
    BY <1>1, <2>1
  <2> QED BY <1>4, <2>2
<1> QED BY <1>1, <1>3, <1>4, <1>5

LEMMA OneFinish ==
  ASSUME IInv, OnePerTarget, PlansOne, NEW w \in Workers, FinishShard(w)
  PROVE  OnePerTarget'
<1>1. /\ deliveries' = deliveries \union plan[w] /\ OneTarget(plan[w])
      /\ \A r \in plan[w], d \in deliveries : ~(d.notice = r.notice /\ d.target = r.target)
  BY DEF FinishShard, Collides, PlansOne
<1> QED BY <1>1 DEF OnePerTarget, OneTarget

LEMMA OneNext == IInv /\ OnePerTarget /\ PlansOne /\ [Next]_vars => OnePerTarget' /\ PlansOne'
<1> SUFFICES ASSUME IInv, OnePerTarget, PlansOne, [Next]_vars PROVE OnePerTarget' /\ PlansOne'
  OBVIOUS
<1>1. ASSUME NEW w \in Workers, Leaves(w) PROVE PlansOne'
  BY <1>1, ReturnIs DEF IInv, PlansOne, OneTarget
<1>2. ASSUME UNCHANGED <<deliveries, plan>> PROVE OnePerTarget' /\ PlansOne'
  BY <1>2 DEF OnePerTarget, PlansOne, OneTarget
<1>3. CASE UNCHANGED vars
  BY <1>2, <1>3 DEF vars, workerVars
<1>4. ASSUME NEW w \in Workers, TakeBatch(w) PROVE OnePerTarget' /\ PlansOne'
  BY <1>2, <1>4 DEF TakeBatch
<1>5. ASSUME NEW w \in Workers, FanOutBatch(w) PROVE OnePerTarget' /\ PlansOne'
  BY <1>1, <1>5, OneBatch DEF FanOutBatch, Return
<1>6. ASSUME NEW w \in Workers, FinishShard(w) PROVE OnePerTarget' /\ PlansOne'
  BY <1>1, <1>6, OneFinish DEF FinishShard, Return
<1>7. ASSUME NEW w \in Workers, NothingToClaim(w) \/ Superseded(w) \/ FailShard(w) \/ Crash(w)
      PROVE  OnePerTarget' /\ PlansOne'
  BY <1>1, <1>7 DEF NothingToClaim, Superseded, FailShard, Crash, Return, OnePerTarget
<1>8. ASSUME NEW w \in Workers, Read(w) PROVE OnePerTarget' /\ PlansOne'
  <2>1. job[w].notice \in Notices
    BY <1>8 DEF Read, IInv, Typed, OnShard, AtWork, ShardIds
  <2>2. deliveries' = deliveries /\ (\A v \in Workers \ {w} : plan'[v] = plan[v])
    BY <1>8 DEF Read, IInv, Typed
  <2>3. plan'[w] = plan[w] \/ (plan'[w] = ShardRows(job[w]) /\ ShardRefusal(job[w]) = "none")
    BY <1>8 DEF Read, IInv, Typed
  <2>4. OneTarget(plan'[w])
    BY <2>1, <2>3, ShardRowsOne DEF PlansOne
  <2> QED BY <2>2, <2>4 DEF OnePerTarget, PlansOne, OneTarget
<1>9. ASSUME NEW w \in Workers, Fails(w) PROVE OnePerTarget' /\ PlansOne'
  BY <1>9 DEF Fails, IInv, Typed, OnePerTarget, PlansOne, OneTarget
<1>10. ASSUME NEW w \in Workers, NEW s \in ShardIds, RunShard(w, s)
       PROVE  OnePerTarget' /\ PlansOne'
  BY <1>2, <1>10 DEF RunShard
<1>13. ASSUME NEW w \in Workers, ClaimShard(w) PROVE OnePerTarget' /\ PlansOne'
  BY <1>2, <1>13 DEF ClaimShard
<1>11. CASE ReapAbandon \/ ReapRelease \/ ReapAsk \/ ReaperCrash
  BY <1>2, <1>11 DEF ReapAbandon, ReapRelease, ReapAsk, ReaperCrash, workerVars
<1>12. CASE LoseTask \/ (\E p \in Partitions : DropPartition(p)) \/ Tick
  BY <1>2, <1>12 DEF LoseTask, DropPartition, Tick, PassFor, workerVars
<1> QED BY <1>3, <1>4, <1>5, <1>6, <1>7, <1>8, <1>9, <1>10, <1>11, <1>12, <1>13 DEF Next, Work

(* A notice reaches a target once, however many of its shards reach it,    *)
(* run at once or run again.                                               *)
THEOREM OnePerTargetHolds == Spec => []OnePerTarget
BY OneInit, OneNext, Inductive, PTL DEF Spec

-----------------------------------------------------------------------------
(***************************************************************************)
(* What a step does to the shards there are: none goes, what is over stays *)
(* as it is, and only a worker with the claim finishes one.                *)
(***************************************************************************)
LEMMA OverStays ==
  ASSUME IInv, [Next]_vars, NEW s \in DOMAIN shards
  PROVE  /\ s \in DOMAIN shards'
         /\ Over(s) => shards'[s] = shards[s]
         /\ shards'[s].state = "FINISHED" =>
                shards[s].state = "FINISHED" \/ \E w \in Workers : FinishShard(w) /\ s = job[w]
<1>0. shards[s] \in ShardRecords
  BY DEF IInv, Typed
<1>1. ASSUME shards' = shards PROVE s \in DOMAIN shards' /\ shards'[s] = shards[s]
  BY <1>1
<1>2. CASE UNCHANGED vars
  BY <1>1, <1>2 DEF vars
<1>3. ASSUME NEW w \in Workers, \/ TakeBatch(w) \/ NothingToClaim(w) \/ Read(w)
                               \/ Superseded(w) \/ Fails(w) \/ Crash(w)
      PROVE  s \in DOMAIN shards' /\ shards'[s] = shards[s]
  BY <1>1, <1>3 DEF TakeBatch, NothingToClaim, Read, Superseded, Fails, Crash
<1>4. ASSUME NEW w \in Workers, FanOutBatch(w)
      PROVE  s \in DOMAIN shards' /\ shards'[s] = shards[s]
  <2>1. PICK added : shards' = Joined(shards, added)
    BY <1>4, BatchIs
  <2> QED BY <2>1 DEF Joined
<1>5. ASSUME NEW w \in Workers, FinishShard(w)
      PROVE  s \in DOMAIN shards' /\ (s # job[w] => shards'[s] = shards[s]) /\ ~(s = job[w] /\ Over(s))
  BY <1>5, FinishIs DEF Over
<1>6. ASSUME NEW w \in Workers, FailShard(w)
      PROVE  /\ s \in DOMAIN shards' /\ (Over(s) => shards'[s] = shards[s])
             /\ shards'[s].state = "FINISHED" => shards[s].state = "FINISHED"
  <2>1. CASE ~Mine(w)
    BY <1>1, <1>6, <2>1 DEF FailShard
  <2>2. CASE Mine(w)
    <3>1. job[w] \in DOMAIN shards /\ shards[job[w]].state = "CLAIMED"
      BY <1>6, <2>2 DEF FailShard, Mine, IInv, Typed, OnShard, AtWork
    <3>2. \E row : /\ shards' = [shards EXCEPT ![job[w]] = row]
                   /\ row.state \in {"ABANDONED", "PENDING"}
      <4>1. CASE shards' = [shards EXCEPT ![job[w]].state = "ABANDONED"]
        <5>1. [shards[job[w]] EXCEPT !.state = "ABANDONED"].state = "ABANDONED"
          BY <3>1, RowTyped DEF IInv, Typed, ShardStates
        <5> QED BY <4>1, <5>1
      <4>2. CASE shards' = [shards EXCEPT ![job[w]].state = "PENDING", ![job[w]].due = "later"]
        <5> DEFINE row == [[shards[job[w]] EXCEPT !.state = "PENDING"] EXCEPT !.due = "later"]
        <5>1. row.state = "PENDING"
          BY <3>1 DEF IInv, Typed, ShardRecords
        <5>2. shards' = [shards EXCEPT ![job[w]] = row]
          BY <3>1, <4>2 DEF IInv, Typed
        <5> QED BY <5>1, <5>2
      <4> QED BY <1>6, <2>2, <4>1, <4>2 DEF FailShard
    <3> QED BY <3>1, <3>2 DEF Over, IInv, Typed
  <2> QED BY <2>1, <2>2
<1>7. ASSUME NEW w \in Workers, ClaimShard(w)
      PROVE  /\ s \in DOMAIN shards' /\ (Over(s) => shards'[s] = shards[s])
             /\ shards'[s].state = "FINISHED" => shards[s].state = "FINISHED"
  BY <1>7, ClaimIs, ClaimedTyped DEF IInv, Over
<1>11. ASSUME NEW w \in Workers, NEW t \in ShardIds, RunShard(w, t)
       PROVE  s \in DOMAIN shards' /\ shards'[s] = shards[s]
  BY <1>1, <1>11 DEF RunShard
<1>8. CASE ReapAbandon \/ ReapRelease
  <2>1. PICK taken, to : /\ to \in {"ABANDONED", "PENDING"} /\ shards' = Restated(taken, to)
                         /\ \A t \in taken : Stranded(t)
    <3> DEFINE spent == {t \in DOMAIN shards : Stranded(t) /\ Spent(t)}
               stranded == {t \in DOMAIN shards : Stranded(t)}
    <3>1. (\A t \in spent : Stranded(t)) /\ (\A t \in stranded : Stranded(t))
      OBVIOUS
    <3>2. ReapAbandon => shards' = Restated(spent, "ABANDONED")
      BY DEF ReapAbandon
    <3>3. ReapRelease => shards' = Restated(stranded, "PENDING")
      BY DEF ReapRelease
    <3> HIDE DEF spent, stranded
    <3> QED BY <1>8, <3>1, <3>2, <3>3
  <2> QED BY <2>1, RestatedIs DEF Stranded, Over, ShardStates
<1>9. CASE ReapAsk \/ ReaperCrash \/ LoseTask \/ (\E p \in Partitions : DropPartition(p))
  BY <1>1, <1>9 DEF ReapAsk, ReaperCrash, LoseTask, DropPartition
<1>10. CASE Tick
  <2>1. PICK aged \in SUBSET Timed :
          shards' = [t \in DOMAIN shards |-> IF t \in aged THEN Later(shards[t]) ELSE shards[t]]
    BY <1>10 DEF Tick, PassFor
  <2> QED BY <1>0, <2>1, LaterIs DEF Timed, Over
<1> QED BY <1>2, <1>3, <1>4, <1>5, <1>6, <1>7, <1>8, <1>9, <1>10, <1>11 DEF Next, Work

LEMMA StampsStay == ASSUME [Next]_vars PROVE fanned_out \subseteq fanned_out'
<1>1. ASSUME NEW w \in Workers, FanOutBatch(w) PROVE fanned_out \subseteq fanned_out'
  BY <1>1, BatchIs
<1> QED BY <1>1 DEF Next, vars, TakeBatch, RunShard, ClaimShard, NothingToClaim, Work, Read, FinishShard,
       Superseded, FailShard, Fails, Crash, ReapAbandon, ReapRelease, ReapAsk, ReaperCrash,
       DropPartition, LoseTask, Tick, PassFor

(* A shard that finished or was abandoned stays so, and a notice that was  *)
(* stamped stays stamped: no worker that lost its claim, no fan-out that   *)
(* fails, and no reap, changes either.                                     *)
THEOREM OverIsFinal == Spec => OverStaysOver
<1>1. IInv /\ [Next]_vars =>
        [/\ \A s \in DOMAIN shards : Over(s) => s \in DOMAIN shards' /\ shards'[s] = shards[s]
         /\ fanned_out \subseteq fanned_out']_vars
  BY OverStays, StampsStay
<1> QED BY <1>1, Inductive, PTL DEF Spec, OverStaysOver

-----------------------------------------------------------------------------
(***************************************************************************)
(* MAX_ATTEMPTS. A shard that waits has a try left, and what the reaper is *)
(* to release too: but for the first, a failed fan-out counting as one. A  *)
(* stale claim brings with it the try it may cost.                         *)
(***************************************************************************)
TryLeft(row)  == row.attempt_count < MaxAttempts + row.stale
Bounded(row)  == row.attempt_count <= MaxAttempts + row.stale
Released(row) == row.state = "PENDING" => TryLeft(row)
TakenBack(row) == row.state = "CLAIMED" /\ row.old => TryLeft(row)

TriesLeft ==
  /\ \A s \in DOMAIN shards : Bounded(shards[s]) /\ Released(shards[s])
  /\ reaper = "release" => \A s \in DOMAIN shards : TakenBack(shards[s])

TriesInv == MaxAttempts > 1 => TriesLeft

LEMMA CountIs ==
  ASSUME IInv, NEW s \in DOMAIN shards
  PROVE  shards[s].attempt_count \in Nat /\ shards[s].stale \in Nat /\ MaxAttempts \in Nat
BY RowTyped, FanOutAssumption DEF IInv, Typed

LEMMA TriesInit == Init => TriesInv
BY DEF Init, TriesInv, TriesLeft

(* A step that changes one row, at most, and not to a claim that is old -  *)
(* or to one that has a try left.                                          *)
LEMMA TriesOne ==
  ASSUME TriesLeft, reaper' = reaper, NEW s, DOMAIN shards \subseteq DOMAIN shards',
         \A t \in DOMAIN shards \ {s} : shards'[t] = shards[t],
         \A t \in DOMAIN shards' \ (DOMAIN shards \ {s}) :
            Bounded(shards'[t]) /\ Released(shards'[t]) /\ TakenBack(shards'[t])
  PROVE  TriesLeft'
BY DEF TriesLeft

(* A row restated keeps its counts.                                        *)
LEMMA TriesKept ==
  ASSUME NEW row, NEW new, new.attempt_count = row.attempt_count, new.stale = row.stale
  PROVE  /\ Bounded(row) => Bounded(new)
         /\ TryLeft(row) => TryLeft(new)
         /\ new.state # "PENDING" => Released(new)
         /\ new.state # "CLAIMED" => TakenBack(new)
BY DEF Bounded, TryLeft, Released, TakenBack

LEMMA TriesNext == IInv /\ TriesInv /\ [Next]_vars => TriesInv'
<1> SUFFICES ASSUME IInv, TriesLeft, MaxAttempts > 1, [Next]_vars PROVE TriesLeft'
  BY DEF TriesInv
<1>0. MaxAttempts \in Nat
  BY FanOutAssumption
<1>1. ASSUME shards' = shards, reaper' \in {reaper, "idle", "ask"} PROVE TriesLeft'
  BY <1>1 DEF TriesLeft
<1>2. CASE UNCHANGED vars
  BY <1>1, <1>2 DEF vars
<1>3. ASSUME NEW w \in Workers, \/ TakeBatch(w) \/ NothingToClaim(w) \/ Read(w)
                               \/ Superseded(w) \/ Fails(w) \/ Crash(w)
      PROVE  TriesLeft'
  BY <1>1, <1>3 DEF TakeBatch, NothingToClaim, Read, Superseded, Fails, Crash
<1>4. ASSUME NEW w \in Workers, FanOutBatch(w) PROVE TriesLeft'
  <2>1. PICK aside, asideRows, new :
           /\ aside \subseteq batch[w]
           /\ shards' = Joined(shards, Joined(asideRows, [s \in new |-> FreshRow]))
           /\ deliveries' = deliveries \union UNION {Written(n) : n \in batch[w] \ aside}
           /\ tasks' = tasks \union new
           /\ fanned_out' = fanned_out \union batch[w]
           /\ new = UNION {ScatteredBy(n) : n \in batch[w] \ aside}
           /\ DOMAIN asideRows = {AsideShard(n) : n \in aside}
           /\ \A s \in DOMAIN asideRows : \E failure : asideRows[s] = AsideRow(failure)
           /\ \A n \in batch[w] \ aside : Refusal(n) = "none"
    BY <1>4, BatchIs
  <2>2. \A s \in DOMAIN shards' \ DOMAIN shards :
          shards'[s] = FreshRow \/ \E failure : shards'[s] = AsideRow(failure)
    BY <2>1 DEF Joined
  <2>3. \A s \in DOMAIN shards : s \in DOMAIN shards' /\ shards'[s] = shards[s]
    BY <2>1 DEF Joined
  <2>4. /\ FreshRow.attempt_count = 0 /\ FreshRow.stale = 0 /\ FreshRow.state = "PENDING"
        /\ \A failure : /\ AsideRow(failure).attempt_count = 1 /\ AsideRow(failure).stale = 0
                        /\ AsideRow(failure).state \in {"ABANDONED", "PENDING"}
    BY DEF FreshRow, AsideRow
  <2>5. reaper' = reaper
    BY <1>4 DEF FanOutBatch
  <2>7. \A s \in DOMAIN shards' :
          \/ s \in DOMAIN shards /\ shards'[s] = shards[s]
          \/ /\ shards'[s].attempt_count \in {0, 1} /\ shards'[s].stale = 0
             /\ shards'[s].state # "CLAIMED"
    BY <2>2, <2>3, <2>4
  <2>8. 0 < MaxAttempts + 0 /\ 1 < MaxAttempts + 0 /\ 0 <= MaxAttempts + 0 /\ 1 <= MaxAttempts + 0
    BY <1>0
  <2>9. \A s \in DOMAIN shards' : Bounded(shards'[s]) /\ Released(shards'[s])
    BY <2>7, <2>8 DEF TriesLeft, Bounded, Released, TryLeft
  <2>10. reaper' = "release" => \A s \in DOMAIN shards' : TakenBack(shards'[s])
    BY <2>5, <2>7 DEF TriesLeft, TakenBack
  <2> QED BY <2>9, <2>10 DEF TriesLeft
<1>5. ASSUME NEW w \in Workers, FinishShard(w) PROVE TriesLeft'
  <2>1. Bounded(FreshRow) /\ Released(FreshRow) /\ TakenBack(FreshRow)
    BY <1>0 DEF FreshRow, Bounded, Released, TakenBack, TryLeft
  <2>2. Bounded(shards'[job[w]]) /\ Released(shards'[job[w]]) /\ TakenBack(shards'[job[w]])
    <3>1. job[w] \in DOMAIN shards /\ shards[job[w]] \in ShardRecords
      BY <1>5, FinishIs DEF IInv, Typed
    <3>2. shards'[job[w]] = [shards[job[w]] EXCEPT !.state = "FINISHED"]
      BY <1>5, FinishIs
    <3>3. /\ shards'[job[w]].state = "FINISHED" /\ shards'[job[w]].stale = shards[job[w]].stale
          /\ shards'[job[w]].attempt_count = shards[job[w]].attempt_count
      BY <3>1, <3>2, RowTyped DEF ShardStates
    <3> QED BY <3>1, <3>3, TriesKept DEF TriesLeft
  <2>3. reaper' = reaper
    BY <1>5 DEF FinishShard
  <2>4. \A t \in DOMAIN shards' \ (DOMAIN shards \ {job[w]}) : t = job[w] \/ shards'[t] = FreshRow
    BY <1>5, FinishIs
  <2>5. /\ DOMAIN shards \subseteq DOMAIN shards'
        /\ \A t \in DOMAIN shards \ {job[w]} : shards'[t] = shards[t]
    BY <1>5, FinishIs
  <2> QED BY <2>1, <2>2, <2>3, <2>4, <2>5, TriesOne
<1>6. ASSUME NEW w \in Workers, FailShard(w) PROVE TriesLeft'
  <2>1. job[w] \in DOMAIN shards /\ reaper' = reaper
    BY <1>6 DEF FailShard, IInv, Typed, OnShard, AtWork
  <2>2. CASE ~Mine(w)
    BY <1>1, <1>6, <2>1, <2>2 DEF FailShard
  <2>3. CASE shards' = [shards EXCEPT ![job[w]].state = "ABANDONED"]
    <3>1. /\ shards'[job[w]].state = "ABANDONED" /\ DOMAIN shards' = DOMAIN shards
          /\ shards'[job[w]].stale = shards[job[w]].stale
          /\ shards'[job[w]].attempt_count = shards[job[w]].attempt_count
          /\ \A t \in DOMAIN shards \ {job[w]} : shards'[t] = shards[t]
      BY <2>1, <2>3, RowTyped DEF IInv, Typed, ShardStates
    <3>2. Bounded(shards'[job[w]]) /\ Released(shards'[job[w]]) /\ TakenBack(shards'[job[w]])
      BY <2>1, <3>1, TriesKept DEF TriesLeft
    <3> QED BY <2>1, <3>1, <3>2, TriesOne
  <2>4. CASE /\ shards[job[w]].attempt_count < MaxAttempts
             /\ shards' = [shards EXCEPT ![job[w]].state = "PENDING", ![job[w]].due = "later"]
    <3> DEFINE row == [[shards[job[w]] EXCEPT !.state = "PENDING"] EXCEPT !.due = "later"]
    <3>1. /\ row.state = "PENDING" /\ row.attempt_count = shards[job[w]].attempt_count
          /\ row.stale = shards[job[w]].stale
      BY <2>1 DEF IInv, Typed, ShardRecords
    <3>2. shards' = [shards EXCEPT ![job[w]] = row]
      BY <2>1, <2>4 DEF IInv, Typed
    <3> HIDE DEF row
    <3>3. /\ shards'[job[w]] = row /\ DOMAIN shards' = DOMAIN shards
          /\ \A t \in DOMAIN shards \ {job[w]} : shards'[t] = shards[t]
      BY <2>1, <3>2
    <3>4. TryLeft(shards[job[w]])
      BY <2>1, <2>4, CountIs DEF TryLeft
    <3>5. Bounded(row) /\ Released(row) /\ TakenBack(row)
      BY <2>1, <3>1, <3>4, TriesKept DEF TriesLeft, Released
    <3> QED BY <2>1, <3>3, <3>5, TriesOne
  <2>5. ~(shards[job[w]].attempt_count >= MaxAttempts) => shards[job[w]].attempt_count < MaxAttempts
    BY <2>1, CountIs
  <2> QED BY <1>6, <2>2, <2>3, <2>4, <2>5 DEF FailShard
<1>7. ASSUME NEW w \in Workers, ClaimShard(w) PROVE TriesLeft'
  <2>1. reaper' = reaper
    BY <1>7 DEF ClaimShard
  <2> DEFINE row == ClaimedRow(job[w], w)
  <2>2. /\ row.state = "CLAIMED" /\ row.attempt_count = shards[job[w]].attempt_count + 1
        /\ \/ ~row.old /\ row.stale = shards[job[w]].stale
           \/ row.stale = shards[job[w]].stale + 1
        /\ shards[job[w]].attempt_count \in Nat /\ shards[job[w]].stale \in Nat
        /\ shards[job[w]].attempt_count < MaxAttempts + shards[job[w]].stale
    BY <1>7, ClaimIs, ClaimedTyped, CountIs DEF IInv, TriesLeft, Released, TryLeft
  <2> HIDE DEF row
  <2>3. Bounded(row) /\ TakenBack(row)
    BY <1>0, <2>2 DEF Bounded, TakenBack, TryLeft
  <2>4. Released(row)
    BY <2>2 DEF Released
  <2>5. /\ shards'[job[w]] = row /\ DOMAIN shards' = DOMAIN shards
        /\ \A t \in DOMAIN shards \ {job[w]} : shards'[t] = shards[t]
    BY <1>7, ClaimIs DEF row
  <2> QED BY <2>1, <2>3, <2>4, <2>5, TriesOne
<1>8. CASE ReapAbandon
  <2> DEFINE spent == {t \in DOMAIN shards : Stranded(t) /\ Spent(t)}
  <2>1. shards' = Restated(spent, "ABANDONED")
    BY <1>8 DEF ReapAbandon
  <2>2. \A t \in DOMAIN shards : t \notin spent => TakenBack(shards[t])
    <3> SUFFICES ASSUME NEW t \in DOMAIN shards, Stranded(t), ~Spent(t) PROVE TryLeft(shards[t])
      BY DEF Stranded, TakenBack
    <3> QED BY CountIs DEF Spent, TryLeft
  <2> HIDE DEF spent
  <2>3. /\ DOMAIN shards' = DOMAIN shards
        /\ \A t \in DOMAIN shards : \/ t \notin spent /\ shards'[t] = shards[t]
                                   \/ /\ shards'[t].state = "ABANDONED"
                                      /\ shards'[t].attempt_count = shards[t].attempt_count
                                      /\ shards'[t].stale = shards[t].stale
    BY <2>1, RestatedIs DEF ShardStates
  <2>4. \A t \in DOMAIN shards : /\ Bounded(shards'[t]) /\ Released(shards'[t])
                                 /\ TakenBack(shards'[t])
    BY <2>2, <2>3, TriesKept DEF TriesLeft
  <2> QED BY <2>3, <2>4 DEF TriesLeft
<1>9. CASE ReapRelease
  <2> DEFINE stranded == {t \in DOMAIN shards : Stranded(t)}
  <2>1. shards' = Restated(stranded, "PENDING") /\ reaper = "release" /\ reaper' = "ask"
    BY <1>9 DEF ReapRelease
  <2>2. \A t \in DOMAIN shards : t \in stranded => TryLeft(shards[t])
    BY <2>1 DEF TriesLeft, TakenBack, Stranded
  <2> HIDE DEF stranded
  <2>3. /\ DOMAIN shards' = DOMAIN shards
        /\ \A t \in DOMAIN shards :
              \/ shards'[t] = shards[t]
              \/ /\ t \in stranded /\ shards'[t].stale = shards[t].stale
                 /\ shards'[t].attempt_count = shards[t].attempt_count
    BY <2>1, RestatedIs DEF ShardStates
  <2>4. \A t \in DOMAIN shards : Bounded(shards'[t]) /\ Released(shards'[t])
    BY <2>2, <2>3, TriesKept DEF TriesLeft, Released
  <2> QED BY <2>1, <2>3, <2>4 DEF TriesLeft
<1>10. CASE ReapAsk \/ ReaperCrash \/ LoseTask \/ (\E p \in Partitions : DropPartition(p))
  BY <1>1, <1>10 DEF ReapAsk, ReaperCrash, LoseTask, DropPartition
<1>11. CASE Tick
  <2>1. PICK aged :
          shards' = [t \in DOMAIN shards |-> IF t \in aged THEN Later(shards[t]) ELSE shards[t]]
    BY <1>11 DEF Tick, PassFor
  <2>2. reaper' = "idle"
    BY <1>11 DEF Tick, PassFor
  <2>3. \A t \in DOMAIN shards : /\ shards'[t].state = shards[t].state
                                 /\ shards'[t].attempt_count = shards[t].attempt_count
                                 /\ shards'[t].stale = shards[t].stale
    BY <2>1, LaterIs DEF IInv, Typed
  <2>4. DOMAIN shards' = DOMAIN shards
    BY <2>1
  <2>5. \A t \in DOMAIN shards : Bounded(shards'[t]) /\ Released(shards'[t])
    BY <2>3, TriesKept DEF TriesLeft, Released
  <2> QED BY <2>2, <2>4, <2>5 DEF TriesLeft
<1>12. ASSUME NEW w \in Workers, NEW t \in ShardIds, RunShard(w, t) PROVE TriesLeft'
  BY <1>1, <1>12 DEF RunShard
<1> QED BY <1>2, <1>3, <1>4, <1>5, <1>6, <1>7, <1>8, <1>9, <1>10, <1>11, <1>12 DEF Next, Work

(* A shard is tried MAX_ATTEMPTS times at most, crashes counted, and once  *)
(* more at most for each of its claims that was stale as it was stamped -  *)
(* where MAX_ATTEMPTS is more than one: of one, _set_aside() has spent the *)
(* first already.                                                          *)
THEOREM TriesAreBounded == Spec => [](MaxAttempts > 1 => TriesBounded)
<1>1. TriesInv => (MaxAttempts > 1 => TriesBounded)
  BY DEF TriesInv, TriesLeft, Bounded, TriesBounded
<1>2. Spec => []TriesInv
  BY TriesInit, TriesNext, Inductive, PTL DEF Spec
<1> QED BY <1>1, <1>2, PTL

-----------------------------------------------------------------------------
(***************************************************************************)
(* Nothing is lost where a cross-partition notice's subject is in no       *)
(* partition: _set_aside() then leaves a shard that names them all. What a *)
(* worker is to write reaches, with what is written already, whatever its  *)
(* shard stands for.                                                       *)
(***************************************************************************)
SubjectsApart == \A n \in Notices : Scope[n] = "cross" => Subject[n] = None

(* A partition that the finishing of a shard would say is reached.         *)
StandsFor(s, p) == Scope[s.notice] = "single" \/ (Scope[s.notice] = "cross" /\ s.partition = p)

Reaches(rows, n, p) == \A t \in Reach[p] : \E d \in rows : d.notice = n /\ d.target = t

PlansReach ==
  \A w \in Workers : pc[w] = "writing" =>
    \A p \in Audience[job[w].notice] \ {None} :
      StandsFor(job[w], p) => Reaches(deliveries \union plan[w], job[w].notice, p)

LostInv == SubjectsApart => NothingLost /\ PlansReach

LEMMA UnwrittenReaches ==
  ASSUME NEW n, NEW p
  PROVE  Reaches(deliveries \union Unwritten(n, p), n, p)
<1> SUFFICES ASSUME NEW t \in Reach[p]
             PROVE  \E d \in deliveries \union Unwritten(n, p) : d.notice = n /\ d.target = t
  BY DEF Reaches
<1> DEFINE r == [notice |-> n, target |-> t, partition |-> p]
<1>1. r \in Rows(n, p) /\ r.notice = n /\ r.target = t
  BY DEF Rows
<1>2. CASE \E d \in deliveries : d.notice = n /\ d.target = t
  BY <1>2
<1>3. CASE ~\E d \in deliveries : d.notice = n /\ d.target = t
  <2>1. r \in Unwritten(n, p)
    BY <1>1, <1>3 DEF Unwritten
  <2> QED BY <1>1, <2>1
<1> QED BY <1>2, <1>3

LEMMA ReachesMore ==
  ASSUME NEW rows, NEW more, rows \subseteq more, NEW n, NEW p, Reaches(rows, n, p)
  PROVE  Reaches(more, n, p)
BY DEF Reaches

LEMMA SingleReaches ==
  ASSUME NEW n \in Notices, NEW p \in Audience[n] \ {None}
  PROVE  Reaches(deliveries \union SingleRows(n), n, p)
<1>1. Unwritten(n, p) \subseteq SingleRows(n)
  BY DEF SingleRows
<1>2. deliveries \union Unwritten(n, p) \subseteq deliveries \union SingleRows(n)
  BY <1>1
<1> QED BY <1>2, UnwrittenReaches, ReachesMore

LEMMA ReachedIs == ASSUME NEW n, NEW p PROVE ReachedIn(n, p) <=> Reaches(deliveries, n, p)
BY DEF ReachedIn, Reaches

LEMMA ReachedNext == ASSUME NEW n, NEW p PROVE ReachedIn(n, p)' <=> Reaches(deliveries', n, p)
BY DEF ReachedIn, Reaches

LEMMA DeliveriesGrow == ASSUME [Next]_vars PROVE deliveries \subseteq deliveries'
BY DEF Next, vars, TakeBatch, FanOutBatch, Work, Read, FinishShard, Superseded, FailShard, Fails,
       Crash, RunShard, ClaimShard, NothingToClaim, ReapAbandon, ReapRelease, ReapAsk, ReaperCrash, DropPartition, LoseTask,
       Tick, PassFor

(* What a notice stamped already still lacks, unless a worker finishes the *)
(* shard that stands for it, has a shard that stands for it still.         *)
LEMMA StampedKeeps ==
  ASSUME IInv, [Next]_vars, SubjectsApart, NothingLost, PlansReach,
         NEW n \in fanned_out, Scope[n] # "undeclared", NEW p \in Audience[n] \ {None}
  PROVE  (ReachedIn(n, p) \/ Outstanding(n, p) # {})'
<1>1. CASE ReachedIn(n, p)
  BY <1>1, ReachedIs, ReachedNext, DeliveriesGrow, ReachesMore
<1>2. ASSUME NEW s \in Outstanding(n, p) PROVE (ReachedIn(n, p) \/ Outstanding(n, p) # {})'
  <2>0. /\ s \in DOMAIN shards /\ s.notice = n /\ shards[s].state # "FINISHED"
        /\ Scope[n] = "cross" => s.partition \in {p, None}
    BY <1>2 DEF Outstanding
  <2>1. CASE shards'[s].state # "FINISHED"
    <3>1. s \in DOMAIN shards'
      BY <2>0, OverStays
    <3>2. \E t \in DOMAIN shards' : /\ t.notice = n /\ shards'[t].state # "FINISHED"
                                    /\ Scope[n] = "cross" => t.partition \in {p, None}
      BY <2>0, <2>1, <3>1
    <3> QED BY <3>2 DEF Outstanding
  <2>2. CASE shards'[s].state = "FINISHED"
    <3>1. PICK w \in Workers : FinishShard(w) /\ s = job[w]
      BY <2>0, <2>2, OverStays
    <3>2. CASE StandsFor(s, p)
      <4>1. pc[w] = "writing" /\ deliveries' = deliveries \union plan[w]
        BY <3>1 DEF FinishShard
      <4>2. Reaches(deliveries', n, p)
        BY <2>0, <3>1, <3>2, <4>1 DEF PlansReach
      <4> QED BY <4>2, ReachedNext
    <3>3. CASE ~StandsFor(s, p)
      <4>0. Scope[n] \in {"single", "cross", "undeclared"}
        BY FanOutAssumption DEF IInv, Typed
      <4>1. Scope[n] = "cross" /\ s.partition = None
        BY <2>0, <3>3, <4>0 DEF StandsFor
      <4> DEFINE new == Shard(n, p, 0)
      <4>2. new \in NewShards(w) /\ new.notice = n /\ new.partition = p
        BY <2>0, <3>1, <4>1 DEF NewShards, ToScatter, Scattered, Shard
      <4>3. new \in DOMAIN shards' /\ shards'[new] = FreshRow
        <5>1. /\ DOMAIN shards' = DOMAIN shards \union NewShards(w)
              /\ \A t \in NewShards(w) : shards'[t] = FreshRow
          BY <3>1, FinishIs
        <5> HIDE DEF new
        <5> QED BY <4>2, <5>1
      <4>4. FreshRow.state # "FINISHED"
        BY DEF FreshRow
      <4> HIDE DEF new
      <4>5. \E t \in DOMAIN shards' : /\ t.notice = n /\ shards'[t].state # "FINISHED"
                                      /\ Scope[n] = "cross" => t.partition \in {p, None}
        BY <4>2, <4>3, <4>4
      <4> QED BY <4>5 DEF Outstanding
    <3> QED BY <3>2, <3>3
  <2> QED BY <2>1, <2>2
<1> QED BY <1>1, <1>2 DEF NothingLost

(* A fan-out reaches what it writes, and leaves a shard for the rest.      *)
LEMMA BatchReaches ==
  ASSUME IInv, SubjectsApart, NEW w \in Workers, FanOutBatch(w), NEW n \in batch[w],
         Scope[n] # "undeclared", NEW p \in Audience[n] \ {None}
  PROVE  (ReachedIn(n, p) \/ Outstanding(n, p) # {})'
<1>1. PICK aside, asideRows, new :
           /\ aside \subseteq batch[w]
           /\ shards' = Joined(shards, Joined(asideRows, [s \in new |-> FreshRow]))
           /\ deliveries' = deliveries \union UNION {Written(m) : m \in batch[w] \ aside}
           /\ tasks' = tasks \union new
           /\ fanned_out' = fanned_out \union batch[w]
           /\ new = UNION {ScatteredBy(m) : m \in batch[w] \ aside}
           /\ DOMAIN asideRows = {AsideShard(m) : m \in aside}
           /\ \A s \in DOMAIN asideRows : \E failure : asideRows[s] = AsideRow(failure)
           /\ \A m \in batch[w] \ aside : Refusal(m) = "none"
  BY BatchIs
<1>2. n \in Notices \ fanned_out /\ Scope[n] \in {"single", "cross", "undeclared"}
  BY FanOutAssumption DEF IInv, Typed, HeldOnce
<1>3. \A s \in (DOMAIN asideRows \union new) \ DOMAIN shards :
        s \in DOMAIN shards' /\ shards'[s].state # "FINISHED"
  <2>1. \A s \in (DOMAIN asideRows \union new) \ DOMAIN shards :
          /\ s \in DOMAIN shards'
          /\ shards'[s] = FreshRow \/ \E failure : shards'[s] = AsideRow(failure)
    BY <1>1 DEF Joined
  <2>2. FreshRow.state # "FINISHED" /\ \A failure : AsideRow(failure).state # "FINISHED"
    BY DEF FreshRow, AsideRow
  <2> QED BY <2>1, <2>2
<1>4. \A s \in DOMAIN shards : s.notice # n
  BY <1>2 DEF IInv, Typed
<1>5. ASSUME NEW s \in DOMAIN asideRows \union new, s.notice = n,
             Scope[n] = "cross" => s.partition \in {p, None}
      PROVE  (Outstanding(n, p) # {})'
  <2>1. \E t \in DOMAIN shards' : /\ t.notice = n /\ shards'[t].state # "FINISHED"
                                  /\ Scope[n] = "cross" => t.partition \in {p, None}
    BY <1>3, <1>4, <1>5
  <2> QED BY <2>1 DEF Outstanding
<1>6. CASE n \in aside
  <2>1. /\ AsideShard(n) \in DOMAIN asideRows /\ AsideShard(n).notice = n
        /\ Scope[n] = "cross" => AsideShard(n).partition = None
    BY <1>1, <1>2, <1>6 DEF AsideShard, Shard, SubjectsApart
  <2> QED BY <1>5, <2>1
<1>7. CASE n \notin aside /\ Scope[n] = "cross"
  <2>1. Shard(n, p, 0) \in ScatteredBy(n)
    BY <1>7 DEF ScatteredBy, Scattered
  <2>2. Shard(n, p, 0) \in new
    BY <1>1, <1>7, <2>1
  <2>3. Shard(n, p, 0).notice = n /\ Shard(n, p, 0).partition = p
    BY DEF Shard
  <2> QED BY <1>5, <2>2, <2>3
<1>8. CASE n \notin aside /\ Scope[n] = "single"
  <2>1. SingleRows(n) \subseteq UNION {Written(m) : m \in batch[w] \ aside}
    BY <1>8 DEF Written
  <2>2. deliveries \union SingleRows(n) \subseteq deliveries'
    BY <1>1, <2>1
  <2>3. Reaches(deliveries', n, p)
    BY <1>2, <2>2, SingleReaches, ReachesMore
  <2> QED BY <2>3, ReachedNext
<1> QED BY <1>2, <1>6, <1>7, <1>8

(* What a worker plans from what it read, and what is written meanwhile.   *)
LEMMA PlansNext ==
  ASSUME IInv, [Next]_vars, PlansReach
  PROVE  PlansReach'
<1> SUFFICES ASSUME NEW v \in Workers, pc'[v] = "writing",
                    NEW p \in Audience[job'[v].notice] \ {None}, StandsFor(job'[v], p)
             PROVE  Reaches(deliveries' \union plan'[v], job'[v].notice, p)
  BY DEF PlansReach, StandsFor, Reaches
<1>1. CASE pc[v] = "writing" /\ job'[v] = job[v] /\ plan'[v] = plan[v]
  <2>1. deliveries \union plan[v] \subseteq deliveries' \union plan'[v]
    BY <1>1, DeliveriesGrow
  <2>2. Reaches(deliveries \union plan[v], job[v].notice, p)
    BY <1>1 DEF PlansReach
  <2> QED BY <1>1, <2>1, <2>2, ReachesMore
<1>2. CASE Read(v)
  <2>1. /\ job'[v] = job[v] /\ deliveries' = deliveries /\ plan'[v] = ShardRows(job[v])
        /\ job[v].notice \in Notices
    BY <1>2 DEF Read, IInv, Typed, OnShard, AtWork, ShardIds
  <2>2. CASE Scope[job[v].notice] = "single"
    BY <2>1, <2>2, SingleReaches DEF ShardRows
  <2>3. CASE Scope[job[v].notice] = "cross" /\ job[v].partition = p
    <3>1. ShardRows(job[v]) = Unwritten(job[v].notice, p)
      BY <2>1, <2>3 DEF ShardRows, ToScatter
    <3> QED BY <2>1, <3>1, UnwrittenReaches
  <2> QED BY <2>1, <2>2, <2>3 DEF StandsFor
<1>3. ASSUME NEW w \in Workers, Leaves(w), w # v PROVE <1>1!1
  BY <1>3, ReturnIs DEF IInv
<1>4. ASSUME NEW w \in Workers, Leaves(w), w = v PROVE FALSE
  BY <1>4, ReturnIs DEF IInv
<1>5. ASSUME NEW w \in Workers, \/ FanOutBatch(w) \/ NothingToClaim(w) \/ FinishShard(w)
                               \/ Superseded(w) \/ FailShard(w) \/ Crash(w)
      PROVE  <1>1!1
  BY <1>3, <1>4, <1>5 DEF FanOutBatch, NothingToClaim, FinishShard, Superseded, FailShard, Crash, Return
<1>6. ASSUME NEW w \in Workers, TakeBatch(w) \/ Fails(w) \/ (Read(w) /\ w # v) PROVE <1>1!1
  BY <1>6 DEF TakeBatch, Fails, Read, IInv, Typed
<1>7. ASSUME NEW w \in Workers, NEW s \in ShardIds, RunShard(w, s) PROVE <1>1!1
  BY <1>7 DEF RunShard, IInv, Typed
<1>10. ASSUME NEW w \in Workers, ClaimShard(w) PROVE <1>1!1
  BY <1>10, ClaimIs DEF IInv, Typed
<1>8. CASE UNCHANGED <<pc, job, plan>>
  BY <1>1, <1>8
<1>9. UNCHANGED vars \/ ReapAbandon \/ ReapRelease \/ ReapAsk \/ ReaperCrash \/ LoseTask \/ Tick
        \/ (\E q \in Partitions : DropPartition(q)) => UNCHANGED <<pc, job, plan>>
  BY DEF vars, workerVars, ReapAbandon, ReapRelease, ReapAsk, ReaperCrash, LoseTask, Tick, PassFor,
         DropPartition
<1> QED BY <1>1, <1>2, <1>5, <1>6, <1>7, <1>8, <1>9, <1>10 DEF Next, Work

LEMMA LostNext == IInv /\ LostInv /\ [Next]_vars => LostInv'
<1> SUFFICES ASSUME IInv, SubjectsApart, NothingLost, PlansReach, [Next]_vars
             PROVE  NothingLost' /\ PlansReach'
  BY DEF LostInv, SubjectsApart
<1>1. ASSUME NEW n \in fanned_out', Scope[n] # "undeclared", NEW p \in Audience[n] \ {None}
      PROVE  (ReachedIn(n, p) \/ Outstanding(n, p) # {})'
  <2>1. CASE n \in fanned_out
    BY <1>1, <2>1, StampedKeeps
  <2>2. CASE n \notin fanned_out
    <3>1. fanned_out' # fanned_out
      BY <2>2
    <3>2. PICK w \in Workers : FanOutBatch(w)
      BY <3>1 DEF Next, vars, TakeBatch, Work, Read, FinishShard, Superseded, FailShard, Fails,
         Crash, RunShard, ClaimShard, NothingToClaim, ReapAbandon, ReapRelease, ReapAsk, ReaperCrash, DropPartition, LoseTask,
         Tick, PassFor
    <3>3. n \in batch[w]
      BY <2>2, <3>2, BatchIs
    <3> QED BY <1>1, <3>2, <3>3, BatchReaches
  <2> QED BY <2>1, <2>2
<1>2. NothingLost'
  BY <1>1 DEF NothingLost
<1> QED BY <1>2, PlansNext

LEMMA LostInit == Init => LostInv
BY DEF Init, LostInv, NothingLost, PlansReach

(* Once a notice is stamped, each partition its audience names has been    *)
(* reached or has a shard that says it has not - where no cross-partition  *)
(* notice is about a row of a partition, whatever is dropped, lost or dies.*)
THEOREM NothingIsLost == Spec => [](SubjectsApart => NothingLost)
<1>1. LostInv => (SubjectsApart => NothingLost)
  BY DEF LostInv
<1>2. Spec => []LostInv
  BY LostInit, LostNext, Inductive, PTL DEF Spec
<1> QED BY <1>1, <1>2, PTL

(* So a notice all of whose shards have finished has reached every         *)
(* partition its audience names: what the set-aside shard breaks when its  *)
(* subject is in a partition.                                              *)
THEOREM FinishedReaches == Spec => [](SubjectsApart => FinishedReachesAll)
<1>1. NothingLost => FinishedReachesAll
  BY DEF NothingLost, FinishedReachesAll, Outstanding
<1> QED BY <1>1, NothingIsLost, PTL
=============================================================================
