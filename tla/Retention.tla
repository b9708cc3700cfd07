------------------------------ MODULE Retention -----------------------------
(***************************************************************************)
(* Pruning beside retrying by hand: prune_notices() and retry_delivery()   *)
(* (isik/django/apps/notifications/pipeline.py), a row lock at a time.     *)
(*                                                                         *)
(* Postgres runs each statement at READ COMMITTED. prune_notices() selects *)
(* FOR UPDATE SKIP LOCKED: which notices are done with is decided by what  *)
(* was committed when the statement began, and each is locked as the scan  *)
(* gets to it. Its condition is looked at again only for a notice whose    *)
(* own row was updated meanwhile - a retry locks that row, and updates the *)
(* delivery's. What a transaction deletes is gone once it commits; until   *)
(* then it holds the rows, and who needs one waits.                        *)
(*                                                                         *)
(* The rest of the pipeline is what it does to these rows, each            *)
(* transaction of it a step: see FanOut and Delivery.                      *)
(*                                                                         *)
(* An operator whose name ends in _ and what is wrong with it is a mutant: *)
(* no action uses one, and each property is seen to fail under its own.    *)
(***************************************************************************)
EXTENDS Integers, FiniteSets

CONSTANTS
  Notices,            \* the rows of the notice table
  Deliveries,         \* the deliveries they may have
  NoticeOf,           \* each delivery's notice
  Retriers,           \* those retrying a delivery by hand
  Pruners,            \* the workers pruning
  HousekeepingBatch,  \* HOUSEKEEPING_BATCH
  MaxRetries,         \* bound: retries by hand of one delivery
  None                \* nobody, no delivery

ASSUME RetentionAssumption ==
  /\ NoticeOf \in [Deliveries -> Notices]
  /\ Retriers \intersect Pruners = {}
  /\ None \notin Retriers \union Pruners \union Deliveries
  /\ Notices \intersect Deliveries = {}
  /\ HousekeepingBatch \in Nat \ {0}
  /\ MaxRetries \in Nat

VARIABLES
  stamped,    \* the notices with a fanned_out_at
  old,        \* the notices older than NOTICE_RETENTION
  shard,      \* the state of each notice's shard, or "none"
  state,      \* the state of each delivery, or "none"
  pruned,     \* the notices deleted
  retries,    \* how often each delivery was retried
  holder_of,       \* who holds the lock on each row
  pc,         \* where each transaction is
  job,        \* the delivery a retry is for
  scan,       \* the notices a prune found done with, and has not got to
  doomed,     \* those it has locked, and will delete
  slipped     \* history: the deliveries retried after a prune found their notice done
              \* with, and before it got to it

db    == <<stamped, old, shard, state, pruned, retries>>
local == <<pc, job, scan, doomed, slipped>>
retentionVars  == <<db, holder_of, local>>

Users == Retriers \union Pruners
DeliveriesOf(n) == {d \in Deliveries : NoticeOf[d] = n /\ state[d] # "none"}

RetentionInit ==
  /\ stamped = {}
  /\ old     = {}
  /\ shard   = [n \in Notices |-> "none"]
  /\ state   = [d \in Deliveries |-> "none"]
  /\ pruned  = {}
  /\ retries = [d \in Deliveries |-> 0]
  /\ holder_of    = [r \in Notices \union Deliveries |-> None]
  /\ pc      = [u \in Users |-> "idle"]
  /\ job     = [r \in Retriers |-> None]
  /\ scan    = [p \in Pruners |-> {}]
  /\ doomed  = [p \in Pruners |-> {}]
  /\ slipped = [p \in Pruners |-> {}]

(* A transaction ends, whatever it leaves of the rows: it holds nothing    *)
(* any more, and a delivery it has retried slipped past who looked before. *)
End(u) ==
  /\ holder_of'   = [r \in DOMAIN holder_of |-> IF holder_of[r] = u THEN None ELSE holder_of[r]]
  /\ pc'     = [pc EXCEPT ![u] = "idle"]
  /\ job'    = [r \in Retriers |-> IF r = u THEN None ELSE job[r]]
  /\ scan'   = [p \in Pruners |-> IF p = u THEN {} ELSE scan[p]]
  /\ doomed' = [p \in Pruners |-> IF p = u THEN {} ELSE doomed[p]]
  /\ slipped' = [p \in Pruners |->
                   IF p = u THEN {}
                   ELSE slipped[p] \union {d \in Deliveries : /\ retries'[d] > retries[d]
                                                              /\ NoticeOf[d] \in scan[p]}]

(***************************************************************************)
(* retry_delivery(): the delivery locked, then its notice, then the retry  *)
(* written or refused.                                                     *)
(***************************************************************************)
RetryHold(r, d) ==
  /\ pc[r] = "idle"
  /\ retries[d] < MaxRetries
  /\ state[d] # "none"
  /\ holder_of[d] = None
  /\ holder_of' = [holder_of EXCEPT ![d] = r]
  /\ pc'   = [pc EXCEPT ![r] = "holding"]
  /\ job'  = [job EXCEPT ![r] = d]
  /\ UNCHANGED <<db, scan, doomed, slipped>>

NoticeFree_WhoeverHasIt(n) == TRUE

(* Whether a retry may lock the notice, or waits for whoever has it.       *)
NoticeFree(n) == holder_of[n] = None

RetryHoldNotice(r) ==
  LET n == NoticeOf[job[r]] IN
  /\ pc[r] = "holding"
  /\ NoticeFree(n)
  /\ holder_of' = [holder_of EXCEPT ![n] = IF @ = None THEN r ELSE @]
  /\ pc'   = [pc EXCEPT ![r] = "deciding"]
  /\ UNCHANGED <<db, job, scan, doomed, slipped>>

RetryAccepted(r) ==
  /\ pc[r] = "deciding"
  /\ state[job[r]] = "ABANDONED"
  /\ state'   = [state EXCEPT ![job[r]] = "PENDING"]
  /\ retries' = [retries EXCEPT ![job[r]] = @ + 1]
  /\ End(r)
  /\ UNCHANGED <<stamped, old, shard, pruned>>

(* Not abandoned - or sent by its caller, or out of its channel's reach.   *)
RetryRefused(r) ==
  /\ pc[r] = "deciding"
  /\ UNCHANGED db
  /\ End(r)

(***************************************************************************)
(* prune_notices().                                                        *)
(***************************************************************************)
Unsent(d) == state[d] \in {"PENDING", "SENDING"}

(* Its select's filter: done with, and past its retention.                 *)
Done(n) ==
  /\ n \in (stamped \intersect old) \ pruned
  /\ \A d \in DeliveriesOf(n) : ~Unsent(d)
  /\ shard[n] \notin {"PENDING", "CLAIMED"}

PruneSelect(p) ==
  /\ pc[p] = "idle"
  /\ {n \in Notices : Done(n)} # {}
  /\ scan' = [scan EXCEPT ![p] = {n \in Notices : Done(n)}]
  /\ pc'   = [pc EXCEPT ![p] = "scanning"]
  /\ UNCHANGED <<db, holder_of, job, doomed, slipped>>

(* The scan gets to a notice: locked, unless somebody has it or it is gone *)
PruneScan(p, n) ==
  /\ pc[p] = "scanning"
  /\ n \in scan[p]
  /\ Cardinality(doomed[p]) < HousekeepingBatch
  /\ scan' = [scan EXCEPT ![p] = @ \ {n}]
  /\ IF holder_of[n] = None /\ n \notin pruned
       THEN /\ holder_of'   = [holder_of EXCEPT ![n] = p]
            /\ doomed' = [doomed EXCEPT ![p] = @ \union {n}]
       ELSE UNCHANGED <<holder_of, doomed>>
  /\ UNCHANGED <<db, pc, job, slipped>>

PruneScanned(p) ==
  /\ pc[p] = "scanning"
  /\ scan[p] = {} \/ Cardinality(doomed[p]) = HousekeepingBatch
  /\ scan' = [scan EXCEPT ![p] = {}]
  /\ pc'   = [pc EXCEPT ![p] = "deleting"]
  /\ UNCHANGED <<db, holder_of, job, doomed, slipped>>

(* The deliveries go before their notices, a row at a time.                *)
Doomed(p) == UNION {DeliveriesOf(n) : n \in doomed[p]}

PruneDelete(p, d) ==
  /\ pc[p] = "deleting"
  /\ d \in Doomed(p)
  /\ holder_of[d] = None
  /\ holder_of' = [holder_of EXCEPT ![d] = p]
  /\ UNCHANGED <<db, local>>

PruneCommit(p) ==
  /\ pc[p] = "deleting"
  /\ \A d \in Doomed(p) : holder_of[d] = p
  /\ pruned' = pruned \union doomed[p]
  /\ state'  = [d \in Deliveries |-> IF d \in Doomed(p) THEN "none" ELSE state[d]]
  /\ shard'  = [n \in Notices |-> IF n \in doomed[p] THEN "none" ELSE shard[n]]
  /\ UNCHANGED <<stamped, old, retries>>
  /\ End(p)

(***************************************************************************)
(* Postgres: of a retry and a prune that wait for each other, one is ended *)
(* and what it did undone. So is what a process that dies had not          *)
(* committed.                                                              *)
(***************************************************************************)
WaitsFor(u) ==
  IF pc[u] = "holding" THEN {holder_of[NoticeOf[job[u]]]} \ {None}
  ELSE IF pc[u] = "deleting" THEN {holder_of[d] : d \in Doomed(u)} \ {None, u}
  ELSE {}

DeadlockVictim(u) ==
  /\ \E v \in WaitsFor(u) : u \in WaitsFor(v)
  /\ UNCHANGED db
  /\ End(u)

ProcessDies(u) ==
  /\ pc[u] # "idle"
  /\ UNCHANGED db
  /\ End(u)

(***************************************************************************)
(* The rest of the pipeline, waiting for the rows it writes.               *)
(***************************************************************************)
Wrote(n, to) ==
  state' = [d \in Deliveries |-> IF NoticeOf[d] = n THEN to ELSE state[d]]

FanOut(n) ==
  /\ n \notin stamped
  /\ holder_of[n] = None
  /\ stamped' = stamped \union {n}
  /\ \/ Wrote(n, "PENDING") /\ UNCHANGED shard
     \/ shard' = [shard EXCEPT ![n] = "PENDING"] /\ UNCHANGED state
  /\ UNCHANGED <<old, pruned, retries, holder_of, local>>

(* Writing a delivery needs its notice's row, which its key refers to.     *)
RunShard(n) ==
  /\ \/ shard[n] = "PENDING" /\ shard' = [shard EXCEPT ![n] = "CLAIMED"] /\ UNCHANGED state
     \/ /\ shard[n] = "CLAIMED" /\ holder_of[n] = None
        /\ shard' = [shard EXCEPT ![n] = "FINISHED"] /\ Wrote(n, "PENDING")
     \/ /\ shard[n] = "CLAIMED"
        /\ \E to \in {"PENDING", "ABANDONED"} : shard' = [shard EXCEPT ![n] = to]
        /\ UNCHANGED state
  /\ UNCHANGED <<stamped, old, pruned, retries, holder_of, local>>

Send(d) ==
  /\ holder_of[d] = None
  /\ \/ state[d] = "PENDING" /\ state' = [state EXCEPT ![d] = "SENDING"]
     \/ /\ state[d] = "SENDING"
        /\ \E to \in {"PENDING", "SENT", "ABANDONED"} : state' = [state EXCEPT ![d] = to]
  /\ UNCHANGED <<stamped, old, shard, pruned, retries, holder_of, local>>

GrowOld(n) ==
  /\ n \notin old
  /\ old' = old \union {n}
  /\ UNCHANGED <<stamped, shard, state, pruned, retries, holder_of, local>>

RetentionNext ==
  \/ \E r \in Retriers : \/ \E d \in Deliveries : RetryHold(r, d)
                         \/ RetryHoldNotice(r) \/ RetryAccepted(r) \/ RetryRefused(r)
  \/ \E p \in Pruners : \/ PruneSelect(p) \/ PruneScanned(p) \/ PruneCommit(p)
                        \/ \E n \in Notices : PruneScan(p, n)
                        \/ \E d \in Deliveries : PruneDelete(p, d)
  \/ \E u \in Users : DeadlockVictim(u) \/ ProcessDies(u)
  \/ \E n \in Notices : FanOut(n) \/ RunShard(n) \/ GrowOld(n)
  \/ \E d \in Deliveries : Send(d)

RetentionSpec == RetentionInit /\ [][RetentionNext]_retentionVars

-----------------------------------------------------------------------------
(* A notice is pruned only when it is done with, as it is deleted and not  *)
(* only as it was when the prune looked: fanned out, with no shard to run, *)
(* and no delivery to send - one retried since included, unless the retry  *)
(* committed after this prune found the notice and before it locked it. A  *)
(* retry that the lock keeps waiting comes too late to put any back.       *)
UnfinishedKept ==
  [][\A n \in pruned' \ pruned :
       /\ n \in stamped
       /\ shard[n] \notin {"PENDING", "CLAIMED"}
       /\ \E p \in Pruners :
            /\ n \in doomed[p]
            /\ \A d \in DeliveriesOf(n) : Unsent(d) => d \in slipped[p]]_retentionVars

(* A delivery retried by hand is not deleted before it has been sent.      *)
RetriedKept ==
  [][\A d \in Deliveries : retries[d] > 0 /\ Unsent(d) => state'[d] # "none"]_retentionVars

=============================================================================
