------------------------------- MODULE FanOut -------------------------------
(***************************************************************************)
(* How a notice becomes deliveries                                         *)
(* (isik/django/apps/notifications/pipeline.py).                           *)
(*                                                                         *)
(*   - fan_out() holds a batch of the waiting notices - skipping those     *)
(*     another fan-out holds - and in one transaction writes each one's    *)
(*     deliveries, or a shard per partition, and stamps it. One that fails *)
(*     is set aside as a shard of its own;                                 *)
(*   - run_shard() claims a shard with the reading of the clock it took    *)
(*     when it began, works out what to write and writes it in the         *)
(*     transaction that finishes the shard, if the claim is still its own; *)
(*   - reap_stranded() takes back old claims and asks for overdue shards;  *)
(*   - tasks are lost, workers die, work fails, partitions are dropped.    *)
(*                                                                         *)
(* Time is only what the code asks of it: whether a shard is due, or       *)
(* overdue by STRANDED_AFTER, and whether a claim, or the reading it is to *)
(* be stamped with, is older than that.                                    *)
(* Delivery has the clock itself, and the reaper's batches. Deliveries are *)
(* rows that are written here, and sent there.                             *)
(*                                                                         *)
(* An operator whose name ends in _ and what is wrong with it is a mutant: *)
(* no action uses one, and each property is seen to fail under its own.    *)
(***************************************************************************)
EXTENDS Integers, FiniteSets

CONSTANTS
  Notices,        \* numbers, in the order the notices occurred
  Partitions,     \* the partitions the project lists; none, when it has none
  Targets,        \* the target keys the channels reach
  Workers,        \* the worker processes
  Scope,          \* each notice's kind's scope: "single", "cross", or "undeclared"
  Subject,        \* each notice's subject_partition
  Audience,       \* the partitions each notice's audience names
  Reach,          \* the targets its channels reach in each partition
  Droppable,      \* the partitions that may be dropped
  MaxAttempts,    \* MAX_ATTEMPTS
  BatchSize,      \* BATCH_SIZE
  MaxCopies,      \* bound: how often a notice's shard with no partition scatters to one more
  MaxStale,       \* bound: claims of a shard stamped long after their reading, past
                  \* which no worker that is to claim it pauses for so long
  None            \* no partition, no worker, no shard

Keys == Partitions \union {None}

(* conf.partitioned(), and the checks on a kind that need it.              *)
Partitioned == Partitions # {}

ASSUME FanOutAssumption ==
  /\ Notices \subseteq Nat /\ IsFiniteSet(Notices) /\ IsFiniteSet(Partitions)
  /\ None \notin Partitions \union Workers
  /\ Scope \in [Notices -> {"single", "cross", "undeclared"}]
  /\ Subject \in [Notices -> Keys]
  /\ Audience \in [Notices -> SUBSET Keys]
  /\ Reach \in [Keys -> SUBSET Targets]
  /\ \A n \in Notices : Scope[n] = "cross" => Partitioned
  /\ Droppable \subseteq Partitions
  /\ MaxAttempts \in Nat \ {0}
  /\ BatchSize \in Nat \ {0}
  /\ MaxCopies \in Nat
  /\ MaxStale \in Nat

VARIABLES
  fanned_out,     \* the notices with a fanned_out_at
  shards,         \* the FanOutShard rows, by shard
  deliveries,     \* the Delivery rows
  tasks,          \* the shards the broker holds a task for
  existing,       \* the partitions that exist
  pc,             \* where each worker is
  batch,          \* the notices its fan_out() holds
  job,            \* the shard its run_shard() is for
  reading,        \* run_shard()'s local `now`, until it is stamped: "early" for that
                  \* shard, "due", or "old" - due, and older than STRANDED_AFTER
  plan,           \* the deliveries it is to write
  error,          \* why its work failed
  reaper          \* which statement reap_stranded() is at

workerVars == <<pc, batch, job, reading, plan, error>>
vars       == <<fanned_out, shards, deliveries, tasks, existing, workerVars, reaper>>

(***************************************************************************)
(* Rows. The shards of a notice are unique by partition, but Postgres      *)
(* holds two with none to be distinct: those are told apart by `copy`.     *)
(***************************************************************************)
Shard(n, p, c) == [notice |-> n, partition |-> p, copy |-> c]
ShardIds       == [notice : Notices, partition : Keys, copy : 0..MaxCopies]

ShardStates == {"PENDING", "CLAIMED", "FINISHED", "ABANDONED"}

(* due: next_attempt_at, as "later", "due", or "overdue" by STRANDED_AFTER *)
(* claimed_by: the worker whose claimed_at is on the row                   *)
(* old: whether that claimed_at is older than STRANDED_AFTER               *)
(* stale: how many of its claims were that old as they were stamped; no    *)
(* column, and read by properties and the bound alone                      *)
ShardRecords ==
  [state : ShardStates, attempt_count : Nat, due : {"later", "due", "overdue"},
   claimed_by : Workers \union {None}, old : BOOLEAN, stale : Nat]

Over(s) == shards[s].state \in {"FINISHED", "ABANDONED"}

DeliveryRecords == [notice : Notices, target : Targets, partition : Keys]

FreshRow ==
  [state |-> "PENDING", attempt_count |-> 0, due |-> "due", claimed_by |-> None, old |-> FALSE,
   stale |-> 0]

AsideRow(failure) ==
  [state |-> IF failure = "gone" THEN "ABANDONED" ELSE "PENDING", attempt_count |-> 1,
   due |-> "later", claimed_by |-> None, old |-> FALSE, stale |-> 0]

Init ==
  /\ fanned_out = {}
  /\ shards     = [s \in {} |-> FreshRow]
  /\ deliveries = {}
  /\ tasks      = {}
  /\ existing   = Partitions
  /\ pc         = [w \in Workers |-> "idle"]
  /\ batch      = [w \in Workers |-> {}]
  /\ job        = [w \in Workers |-> None]
  /\ reading    = [w \in Workers |-> "none"]
  /\ plan       = [w \in Workers |-> {}]
  /\ error      = [w \in Workers |-> "none"]
  /\ reaper     = "idle"

-----------------------------------------------------------------------------
(***************************************************************************)
(* What a notice's work comes to.                                          *)
(***************************************************************************)
Joined(f, g) == [x \in DOMAIN f \union DOMAIN g |-> IF x \in DOMAIN f THEN f[x] ELSE g[x]]

(* in_partition(): entering one that no longer exists raises PartitionGone *)
Enters(p) == ~Partitioned \/ p \in existing

Rows(n, p) == {[notice |-> n, target |-> t, partition |-> p] : t \in Reach[p]}

Unwritten_OncePerNotice(n, p) == {r \in Rows(n, p) : \A d \in deliveries : d.notice # n}

(* write_deliveries() writes those targets the notice has no row for yet.  *)
Unwritten(n, p) ==
  {r \in Rows(n, p) : \A d \in deliveries : d.notice = n => d.target # r.target}

(* _deliver_single() refuses an audience that names other than one         *)
(* partition; the only one it may name and not enter is none at all, which *)
(* reaches nobody.                                                         *)
SingleRefusal(n) ==
  IF Cardinality(Audience[n]) # 1 THEN "error"
  ELSE IF \A p \in Audience[n] : Enters(p) \/ p = None THEN "none"
  ELSE "gone"

SingleRows(n) ==
  UNION {Unwritten(n, p) : p \in {q \in Audience[n] : Partitioned => q # None}}

(* _scatter(): a new row per partition named.                              *)
NextCopy(n) == Cardinality({s \in DOMAIN shards : s.notice = n /\ s.partition = None})

Scattered(n) ==
  {Shard(n, p, 0) : p \in Audience[n] \ {None}}
    \union {Shard(n, p, NextCopy(n)) : p \in Audience[n] \intersect {None}}

(***************************************************************************)
(* fan_out(): a batch held, then written, in one transaction.              *)
(***************************************************************************)
Waiting_HeldByAnother == Notices \ fanned_out

Waiting == Notices \ (fanned_out \union UNION {batch[w] : w \in Workers})

TakeBatch(w) ==
  /\ pc[w] = "idle"
  /\ Waiting # {}
  /\ batch' = [batch EXCEPT ![w] =
                 {n \in Waiting : Cardinality({m \in Waiting : m < n}) < BatchSize}]
  /\ pc' = [pc EXCEPT ![w] = "fanning"]
  /\ UNCHANGED <<fanned_out, shards, deliveries, tasks, existing, job, reading, plan, error,
                 reaper>>

(* A worker's locals but its reading of the clock, as run_shard() returns. *)
Leaves(w) ==
  /\ pc'    = [pc EXCEPT ![w] = "idle"]
  /\ batch' = [batch EXCEPT ![w] = {}]
  /\ job'   = [job EXCEPT ![w] = None]
  /\ plan'  = [plan EXCEPT ![w] = {}]
  /\ error' = [error EXCEPT ![w] = "none"]

Return(w) == Leaves(w) /\ reading' = [reading EXCEPT ![w] = "none"]

(* _fan_out_one(), as it goes when nothing else fails.                     *)
Refusal(n)     == IF Scope[n] = "single" THEN SingleRefusal(n) ELSE "none"
Written(n)     == IF Scope[n] = "single" THEN SingleRows(n) ELSE {}
ScatteredBy(n) == IF Scope[n] = "cross" THEN Scattered(n) ELSE {}

AsideShard(n) == Shard(n, Subject[n], 0)

AsideStamps_Nothing(aside) == {}

(* _set_aside() stamps the notice as the fan-out would have.               *)
AsideStamps(aside) == aside

(* Each notice of the batch in a savepoint of its own: those that fail -   *)
(* for a reason of their own, or because anything in it may - are set      *)
(* aside, the others written, and all of it committed at once.             *)
FanOutBatch(w) ==
  /\ pc[w] = "fanning"
  /\ \E failed \in SUBSET batch[w] :
       LET failure(n) == IF n \in failed THEN "error" ELSE Refusal(n)
           aside == {n \in batch[w] : failure(n) # "none"}
           done  == batch[w] \ aside
           new   == UNION {ScatteredBy(n) : n \in done}
           asideRows == [s \in {AsideShard(n) : n \in aside} |-> AsideRow(failure(s.notice))]
       IN /\ shards'     = Joined(shards, Joined(asideRows, [s \in new |-> FreshRow]))
          /\ deliveries' = deliveries \union UNION {Written(n) : n \in done}
          /\ tasks'      = tasks \union new
          /\ fanned_out' = fanned_out \union done \union AsideStamps(aside)
  /\ Return(w)
  /\ UNCHANGED <<existing, reaper>>

(***************************************************************************)
(* run_shard().                                                            *)
(***************************************************************************)
(* A task taken, and the clock read. Read before the shard is due, or of   *)
(* one that is over, it is a reading no claim will be made with.           *)
RunShard(w, s) ==
  /\ pc[w] = "idle"
  /\ s \in tasks
  /\ tasks' = tasks \ {s}
  /\ IF shards[s].due = "later" \/ Over(s)
       THEN UNCHANGED <<pc, job, reading>>
       ELSE /\ pc'      = [pc EXCEPT ![w] = "claiming"]
            /\ job'     = [job EXCEPT ![w] = s]
            /\ reading' = [reading EXCEPT ![w] = "due"]
  /\ UNCHANGED <<fanned_out, shards, deliveries, existing, batch, plan, error, reaper>>

(* _claim()'s filter, at the worker's reading of the clock.                *)
Claimable(w, s) == shards[s].state = "PENDING" /\ reading[w] # "early"

ClaimedRow(s, w) ==
  [shards[s] EXCEPT !.state = "CLAIMED", !.attempt_count = @ + 1, !.claimed_by = w,
                    !.old = (reading[w] = "old"),
                    !.stale = IF reading[w] = "old" THEN @ + 1 ELSE @]

ClaimShard(w) ==
  LET s == job[w] IN
  /\ pc[w] = "claiming"
  /\ Claimable(w, s)
  /\ shards'  = [shards EXCEPT ![s] = ClaimedRow(s, w)]
  /\ pc'      = [pc EXCEPT ![w] = "working"]
  /\ reading' = [reading EXCEPT ![w] = "none"]
  /\ UNCHANGED <<fanned_out, deliveries, tasks, existing, batch, job, plan, error, reaper>>

NothingToClaim(w) ==
  /\ pc[w] = "claiming"
  /\ ~Claimable(w, job[w])
  /\ Return(w)
  /\ UNCHANGED <<fanned_out, shards, deliveries, tasks, existing, reaper>>

(* Whether _shard_work() is to scatter: a cross-partition notice set aside *)
(* before it did.                                                          *)
ToScatter(s) == Scope[s.notice] = "cross" /\ s.partition = None

ShardRefusal(s) ==
  IF Scope[s.notice] = "single" THEN SingleRefusal(s.notice)
  ELSE IF Scope[s.notice] = "cross" /\ ~ToScatter(s) /\ ~Enters(s.partition) THEN "gone"
  ELSE "none"

ShardRows(s) ==
  IF Scope[s.notice] = "single" THEN SingleRows(s.notice)
  ELSE IF Scope[s.notice] = "cross" /\ ~ToScatter(s) THEN Unwritten(s.notice, s.partition)
  ELSE {}

(* The reads of _shard_work(): whom it reaches, and what is written yet.   *)
Read(w) ==
  /\ pc[w] = "working"
  /\ error' = [error EXCEPT ![w] = ShardRefusal(job[w])]
  /\ IF ShardRefusal(job[w]) = "none"
       THEN /\ plan' = [plan EXCEPT ![w] = ShardRows(job[w])]
            /\ pc'   = [pc EXCEPT ![w] = "writing"]
       ELSE /\ pc' = [pc EXCEPT ![w] = "failing"]
            /\ UNCHANGED plan
  /\ UNCHANGED <<fanned_out, shards, deliveries, tasks, existing, batch, job, reading, reaper>>

NewShards(w) == IF ToScatter(job[w]) THEN Scattered(job[w].notice) ELSE {}

Collides_Never(w) == FALSE

(* What it writes runs into a unique constraint: another shard of the      *)
(* notice has written that target, or that partition's shard, since.       *)
Collides(w) ==
  \/ \E r \in plan[w], d \in deliveries : d.notice = r.notice /\ d.target = r.target
  \/ NewShards(w) \intersect DOMAIN shards # {}

Mine_WhateverState(w) == shards[job[w]].claimed_by = w

(* The rows `mine` updates: the shard, while this claim is still on it.    *)
Mine(w) == shards[job[w]].state = "CLAIMED" /\ shards[job[w]].claimed_by = w

(* The rows written, and the shard finished with them.                     *)
FinishShard(w) ==
  /\ pc[w] = "writing"
  /\ ~Collides(w)
  /\ Mine(w)
  /\ NewShards(w) \subseteq ShardIds
  /\ deliveries' = deliveries \union plan[w]
  /\ shards' = Joined([shards EXCEPT ![job[w]].state = "FINISHED"],
                      [s \in NewShards(w) |-> FreshRow])
  /\ tasks' = tasks \union NewShards(w)
  /\ Return(w)
  /\ UNCHANGED <<fanned_out, existing, reaper>>

(* The claim was taken back while it worked: all of it is dropped.         *)
Superseded(w) ==
  /\ pc[w] = "writing"
  /\ ~Collides(w)
  /\ ~Mine(w)
  /\ Return(w)
  /\ UNCHANGED <<fanned_out, shards, deliveries, tasks, existing, reaper>>

(* The transaction rolls back: a collision, a deadlock, or anything else.  *)
Fails(w) ==
  /\ pc[w] \in {"working", "writing"}
  /\ pc'    = [pc EXCEPT ![w] = "failing"]
  /\ plan'  = [plan EXCEPT ![w] = {}]
  /\ error' = [error EXCEPT ![w] = "error"]
  /\ UNCHANGED <<fanned_out, shards, deliveries, tasks, existing, batch, job, reading, reaper>>

(* The failure written down, if the claim is still its own. The claim's    *)
(* copy of attempt_count is then the row's. No task is sent for the next   *)
(* try: the reaper asks for it. Whoever read the clock before that try was *)
(* put off has read it before it is due.                                   *)
Misread(s) ==
  [v \in Workers |-> IF pc[v] = "claiming" /\ job[v] = s THEN "early" ELSE reading[v]]

FailShard(w) ==
  LET s    == job[w]
      over == error[w] = "gone" \/ shards[s].attempt_count >= MaxAttempts
  IN
  /\ pc[w] = "failing"
  /\ IF Mine(w) /\ ~over
       THEN /\ shards'  = [shards EXCEPT ![s].state = "PENDING", ![s].due = "later"]
            /\ reading' = Misread(s)
       ELSE /\ shards'  = IF Mine(w) THEN [shards EXCEPT ![s].state = "ABANDONED"] ELSE shards
            /\ UNCHANGED reading
  /\ Leaves(w)
  /\ UNCHANGED <<fanned_out, deliveries, tasks, existing, reaper>>

(* A worker dies; what it held uncommitted is rolled back.                 *)
Crash(w) ==
  /\ pc[w] # "idle"
  /\ Return(w)
  /\ UNCHANGED <<fanned_out, shards, deliveries, tasks, existing, reaper>>

(***************************************************************************)
(* reap_stranded(), a statement at a time.                                 *)
(***************************************************************************)
Spent_OneTooMany(s) == shards[s].attempt_count > MaxAttempts

Stranded(s) == shards[s].state = "CLAIMED" /\ shards[s].old
Spent(s)    == shards[s].attempt_count >= MaxAttempts

Restated(taken, to) ==
  [s \in DOMAIN shards |-> IF s \in taken THEN [shards[s] EXCEPT !.state = to] ELSE shards[s]]

ReapAbandon ==
  /\ reaper = "idle"
  /\ shards' = Restated({s \in DOMAIN shards : Stranded(s) /\ Spent(s)}, "ABANDONED")
  /\ reaper' = "release"
  /\ UNCHANGED <<fanned_out, deliveries, tasks, existing, workerVars>>

ReapRelease ==
  /\ reaper = "release"
  /\ shards' = Restated({s \in DOMAIN shards : Stranded(s)}, "PENDING")
  /\ reaper' = "ask"
  /\ UNCHANGED <<fanned_out, deliveries, tasks, existing, workerVars>>

Overdue_NeverTried ==
  {s \in DOMAIN shards : /\ shards[s].state = "PENDING"
                         /\ shards[s].due = "overdue"
                         /\ shards[s].attempt_count = 0}

Overdue == {s \in DOMAIN shards : shards[s].state = "PENDING" /\ shards[s].due = "overdue"}

ReapAsk ==
  /\ reaper = "ask"
  /\ tasks'  = tasks \union Overdue
  /\ reaper' = "idle"
  /\ UNCHANGED <<fanned_out, shards, deliveries, existing, workerVars>>

ReaperCrash ==
  /\ reaper # "idle"
  /\ reaper' = "idle"
  /\ UNCHANGED <<fanned_out, shards, deliveries, tasks, existing, workerVars>>

(***************************************************************************)
(* The world: a task is lost, a partition dropped, and time passes for     *)
(* some of the shards - between two reaps, as in Delivery.                 *)
(***************************************************************************)
LoseTask ==
  /\ \E s \in tasks : tasks' = tasks \ {s}
  /\ UNCHANGED <<fanned_out, shards, deliveries, existing, workerVars, reaper>>

DropPartition(p) ==
  /\ p \in existing \intersect Droppable
  /\ existing' = existing \ {p}
  /\ UNCHANGED <<fanned_out, shards, deliveries, tasks, workerVars, reaper>>

Timed == {s \in DOMAIN shards : \/ shards[s].state = "PENDING" /\ shards[s].due # "overdue"
                                \/ shards[s].state = "CLAIMED" /\ ~shards[s].old}

(* A claimed shard was due when the clock was read for the claim: by the   *)
(* time that reading is old, the shard is overdue.                         *)
Later(row) ==
  IF row.state = "CLAIMED" THEN [row EXCEPT !.old = TRUE, !.due = "overdue"]
  ELSE [row EXCEPT !.due = IF @ = "later" THEN "due" ELSE "overdue"]

(* The workers that read the clock and are yet to claim, as far as the     *)
(* bound lets them take longer over it than STRANDED_AFTER.                *)
LongPauses ==
  Cardinality({w \in Workers : reading[w] = "old"})
    + Cardinality({l \in (DOMAIN shards) \X (1..MaxStale) : l[2] <= shards[l[1]].stale})

Pausable == {w \in Workers : reading[w] = "due" /\ LongPauses < MaxStale}

(* Time enough to age these shards and these workers' readings: a shard    *)
(* that was due at such a reading, and still waits, is among them.         *)
PassFor(aged, slow) ==
  /\ reaper = "idle"
  /\ aged # {} \/ slow # {}
  /\ \A w \in slow : shards[job[w]].state = "PENDING" => job[w] \notin Timed \ aged
  /\ shards'  = [s \in DOMAIN shards |-> IF s \in aged THEN Later(shards[s]) ELSE shards[s]]
  /\ reading' = [w \in Workers |-> IF w \in slow THEN "old" ELSE reading[w]]
  /\ UNCHANGED <<fanned_out, deliveries, tasks, existing, pc, batch, job, plan, error, reaper>>

Tick == \E aged \in SUBSET Timed, slow \in SUBSET Pausable : PassFor(aged, slow)

Work(w) == Read(w) \/ FinishShard(w) \/ Superseded(w) \/ FailShard(w)

Next ==
  \/ \E w \in Workers : TakeBatch(w) \/ FanOutBatch(w) \/ Fails(w) \/ Crash(w)
  \/ \E w \in Workers : ClaimShard(w) \/ NothingToClaim(w) \/ Work(w)
  \/ \E w \in Workers, s \in ShardIds : RunShard(w, s)
  \/ ReapAbandon \/ ReapRelease \/ ReapAsk \/ ReaperCrash
  \/ \E p \in Partitions : DropPartition(p)
  \/ LoseTask
  \/ Tick

Spec == Init /\ [][Next]_vars

(***************************************************************************)
(* What the scheduling gives: time passes for every row alike; beat keeps  *)
(* fanning out and reaping, and not every one of them dies half-way; the   *)
(* broker does not lose every task it is ever handed for one shard, nor do *)
(* the workers die between each of them and its claim; and one that has    *)
(* claimed a shard goes on with it or dies.                                *)
(***************************************************************************)
Taken(n, p) == \E w \in Workers, s \in ShardIds :
                 s.notice = n /\ s.partition = p /\ RunShard(w, s)

Looked(n, p) == \E w \in Workers : /\ pc[w] = "claiming" /\ job[w].notice = n /\ job[w].partition = p
                                   /\ ClaimShard(w) \/ NothingToClaim(w)

AtWork == {"working", "writing", "failing"}

Fairness ==
  /\ SF_vars(PassFor(Timed, {}))
  /\ WF_vars(ReapAbandon) /\ SF_vars(ReapRelease) /\ SF_vars(ReapAsk)
  /\ SF_vars(\E w \in Workers : TakeBatch(w))
  /\ SF_vars(\E w \in Workers : FanOutBatch(w))
  /\ \A w \in Workers : WF_vars(Work(w) \/ Fails(w) \/ (pc[w] \in AtWork /\ Crash(w)))
  /\ \A n \in Notices : \A p \in {Subject[n]} \union Audience[n] : SF_vars(Taken(n, p)) /\ SF_vars(Looked(n, p))

FairSpec == Spec /\ Fairness

-----------------------------------------------------------------------------
(* Every variable holds what its column or local variable may hold; only a *)
(* stamped notice has shards or deliveries; a claimed shard has its worker *)
(* and its tries, and a worker at one holds no batch.                      *)
TypeOK ==
  /\ fanned_out \subseteq Notices
  /\ DOMAIN shards \subseteq ShardIds
  /\ \A s \in DOMAIN shards :
       /\ shards[s] \in ShardRecords
       /\ s.notice \in fanned_out
       /\ shards[s].state = "CLAIMED" => shards[s].attempt_count > 0 /\ shards[s].claimed_by # None
  /\ deliveries \subseteq {r \in DeliveryRecords : r.notice \in fanned_out}
  /\ tasks \subseteq DOMAIN shards
  /\ existing \subseteq Partitions
  /\ pc \in [Workers -> {"idle", "fanning", "claiming"} \union AtWork]
  /\ batch \in [Workers -> SUBSET Notices]
  /\ job \in [Workers -> DOMAIN shards \union {None}]
  /\ reading \in [Workers -> {"none", "early", "due", "old"}]
  /\ \A w \in Workers : /\ pc[w] \in AtWork \union {"claiming"} <=> job[w] # None
                        /\ pc[w] = "claiming" <=> reading[w] # "none"
                        /\ reading[w] \in {"due", "old"} => shards[job[w]].due # "later"
                        /\ pc[w] # "fanning" => batch[w] = {}
  /\ plan \in [Workers -> SUBSET DeliveryRecords]
  /\ error \in [Workers -> {"none", "error", "gone"}]
  /\ reaper \in {"idle", "release", "ask"}

(* Fan-outs never hold the same notice, nor one that has been stamped: it  *)
(* is fanned out once, and the trigger that refuses a second stamp - which *)
(* would take the batch down with it - never has to.                       *)
HeldOnce ==
  \A v \in Workers : /\ batch[v] \intersect fanned_out = {}
                     /\ \A w \in Workers \ {v} : batch[v] \intersect batch[w] = {}

(* A notice reaches a target once, however many of its shards reach it,    *)
(* run at once or run again.                                               *)
OnePerTarget ==
  \A d, e \in deliveries : d.notice = e.notice /\ d.target = e.target => d = e

ReachedIn(n, p) == \A t \in Reach[p] : \E d \in deliveries : d.notice = n /\ d.target = t

(* The shards that say a partition of a notice's has not been reached: its *)
(* own, or one that is to name them all.                                   *)
Outstanding(n, p) ==
  {s \in DOMAIN shards : /\ s.notice = n
                         /\ shards[s].state # "FINISHED"
                         /\ Scope[n] = "cross" => s.partition \in {p, None}}

(* Once a notice is stamped, each partition its audience names has been    *)
(* reached, or a shard stands for it that has yet to run or was abandoned: *)
(* "which partitions weren't reached" is a query over the shards.          *)
NothingLost ==
  \A n \in fanned_out : Scope[n] # "undeclared" =>
    \A p \in Audience[n] \ {None} : ReachedIn(n, p) \/ Outstanding(n, p) # {}

(* A notice all of whose shards have finished has reached every partition  *)
(* its audience names.                                                     *)
FinishedReachesAll ==
  \A n \in fanned_out :
    Scope[n] = "cross" /\ (\A s \in DOMAIN shards : s.notice = n => shards[s].state = "FINISHED")
      => \A p \in Audience[n] \ {None} : ReachedIn(n, p)

(* A shard is tried MAX_ATTEMPTS times at most, crashes counted - and once *)
(* more for each of its claims that was older than STRANDED_AFTER when it  *)
(* was stamped: such a one may come between the statement that abandons    *)
(* what is spent and the one that takes the others back.                   *)
TriesBounded ==
  \A s \in DOMAIN shards : shards[s].attempt_count <= MaxAttempts + shards[s].stale

(* A notice has one shard per partition it reaches, none at all being one. *)
OneShardPerPartition ==
  \A s, t \in DOMAIN shards : s.notice = t.notice /\ s.partition = t.partition => s = t

(* A shard that finished or was abandoned stays so, and a notice that was  *)
(* stamped stays stamped: no worker that lost its claim, no fan-out that   *)
(* fails, and no reap, changes either.                                     *)
OverStaysOver ==
  [][/\ \A s \in DOMAIN shards : Over(s) => s \in DOMAIN shards' /\ shards'[s] = shards[s]
     /\ fanned_out \subseteq fanned_out']_vars

(* Every notice is fanned out or set aside, whatever fails before it.      *)
EventuallyFannedOut == \A n \in Notices : n \notin fanned_out ~> n \in fanned_out

(* Every shard finishes or is abandoned, whatever dies and whatever is     *)
(* lost.                                                                   *)
EventuallyRun ==
  \A s \in ShardIds : s \in DOMAIN shards ~> (s \in DOMAIN shards /\ Over(s))

=============================================================================
