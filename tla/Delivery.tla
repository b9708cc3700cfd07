------------------------------ MODULE Delivery ------------------------------
(***************************************************************************)
(* The life of a delivery (isik/django/apps/notifications/pipeline.py):    *)
(* the row is the queue, a task is only a hint that it is due.             *)
(*                                                                         *)
(*   - send() claims a due row by stamping claimed_at with the reading of  *)
(*     the clock it took when it began, sends outside any transaction, and *)
(*     writes the result only while that stamp is still on the row;        *)
(*   - reap_stranded() takes back rows claimed longer than STRANDED_AFTER, *)
(*     in two statements of their own, then asks again for overdue rows;   *)
(*   - retry_delivery() starts a new run of an abandoned row;              *)
(*   - a task may be lost, run late or run twice; a worker may die at any  *)
(*     point, or be so slow that its claim is taken back while it sends.   *)
(*                                                                         *)
(* Time: every stored instant is relative to the present, which is 0. Tick *)
(* moves all of them one into the past, and Horizon ticks ago is as far    *)
(* back as the code can tell instants apart.                               *)
(*                                                                         *)
(* An operator whose name ends in _ and what is wrong with it is a mutant: *)
(* the form a plausible mistake would give the operator it is named after. *)
(* No action uses one; each property is seen to fail under its mutant.     *)
(***************************************************************************)
EXTENDS Integers, FiniteSets

CONSTANTS
  Deliveries,         \* the rows of the delivery table
  Workers,            \* the worker processes
  MaxAttempts,        \* MAX_ATTEMPTS
  StrandedAfter,      \* STRANDED_AFTER, in ticks
  MaxBackoff,         \* the longest BACKOFF entry with its jitter, in ticks
  HousekeepingBatch,  \* HOUSEKEEPING_BATCH
  RecordAttempts,     \* RECORD_ATTEMPTS: "all", "failures" or "none"
  PauseBound,         \* bound: ticks a worker takes from reading the clock to claiming
  MaxRetries,         \* bound: retries by hand of one delivery
  None                \* no worker, no delivery

ASSUME DeliveryAssumption ==
  /\ MaxAttempts \in Nat \ {0}
  /\ StrandedAfter \in Nat \ {0}
  /\ MaxBackoff \in Nat \ {0}
  /\ HousekeepingBatch \in Nat \ {0}
  /\ RecordAttempts \in {"all", "failures", "none"}
  /\ PauseBound \in Nat
  /\ MaxRetries \in Nat
  /\ None \notin Deliveries \union Workers

VARIABLES
  state,                \* the row's columns, by delivery
  attempt_count,
  attempts_before_run,
  retry_trigger,
  next_attempt_at,
  claimed_at,           \* a reading of the clock: whose, and when
  attempts,             \* the DeliveryAttempt rows
  retries,              \* how often it has been retried by hand
  tasks,                \* the send tasks the broker holds
  pc,                   \* where each worker is in send()
  job,                  \* the delivery its task names
  now,                  \* send()'s local `now`
  row,                  \* send()'s local `delivery`, as it claimed it
  outcome,              \* what the channel answered
  reaper                \* which statement reap_stranded() is at

rowVars    == <<state, attempt_count, attempts_before_run, retry_trigger,
                next_attempt_at, claimed_at>>
workerVars == <<pc, job, now, row, outcome>>
vars       == <<rowVars, attempts, retries, tasks, workerVars, reaper>>

States   == {"PENDING", "SENDING", "SENT", "ABANDONED"}
Outcomes == {"ok", "failed", "permanent"}

(***************************************************************************)
(* Instants.                                                               *)
(***************************************************************************)
Horizon  == StrandedAfter + 1
Instants == (-Horizon)..MaxBackoff

(* An instant, one tick later.                                             *)
Past(t) == IF t > -Horizon THEN t - 1 ELSE t

(* A worker's reading of the clock. Clocks read microseconds: readings by  *)
(* two workers never coincide, whatever the tick they fall in.             *)
Reading(w) == [by |-> w, at |-> 0]
NoReading  == [by |-> None, at |-> 0]
Readings   == [by : Workers \union {None}, at : (-Horizon)..0]
Aged(r)    == [r EXCEPT !.at = Past(@)]

Task(d, due) == [delivery |-> d, due |-> due]
Tasks        == [delivery : Deliveries, due : 0..MaxBackoff]

(* send()'s copy of the row, and what its attempt will be recorded as.     *)
Triggers == {"task", "manual"}
Rows     == [attempt_count : Nat, attempts_before_run : Nat, triggered_by : Triggers]
NoRow    == [attempt_count |-> 0, attempts_before_run |-> 0, triggered_by |-> "task"]

(***************************************************************************)
(* write_deliveries() and the tasks it dispatches have run.                *)
(***************************************************************************)
Init ==
  /\ state               = [d \in Deliveries |-> "PENDING"]
  /\ attempt_count       = [d \in Deliveries |-> 0]
  /\ attempts_before_run = [d \in Deliveries |-> 0]
  /\ retry_trigger       = [d \in Deliveries |-> "none"]
  /\ next_attempt_at     = [d \in Deliveries |-> 0]
  /\ claimed_at          = [d \in Deliveries |-> NoReading]
  /\ attempts            = [d \in Deliveries |-> {}]
  /\ retries             = [d \in Deliveries |-> 0]
  /\ tasks               = {Task(d, 0) : d \in Deliveries}
  /\ pc                  = [w \in Workers |-> "idle"]
  /\ job                 = [w \in Workers |-> None]
  /\ now                 = [w \in Workers |-> NoReading]
  /\ row                 = [w \in Workers |-> NoRow]
  /\ outcome             = [w \in Workers |-> "none"]
  /\ reaper              = "idle"

(***************************************************************************)
(* send(), step by step.                                                   *)
(***************************************************************************)
Return(w) ==
  /\ pc'      = [pc EXCEPT ![w] = "idle"]
  /\ job'     = [job EXCEPT ![w] = None]
  /\ now'     = [now EXCEPT ![w] = NoReading]
  /\ row'     = [row EXCEPT ![w] = NoRow]
  /\ outcome' = [outcome EXCEPT ![w] = "none"]

(* A task is acknowledged as it is taken; send() reads the clock first.    *)
Begin(w, d) ==
  /\ pc[w] = "idle"
  /\ \E t \in tasks :
       /\ t.delivery = d
       /\ t.due <= 0
       /\ tasks' = tasks \ {t}
  /\ pc'  = [pc EXCEPT ![w] = "claiming"]
  /\ job' = [job EXCEPT ![w] = d]
  /\ now' = [now EXCEPT ![w] = Reading(w)]
  /\ UNCHANGED <<rowVars, attempts, retries, row, outcome, reaper>>

Claimable_EvenEarly(w, d) == state[d] = "PENDING"

(* _claim()'s filter, at the worker's reading of the clock.                *)
Claimable(w, d) == state[d] = "PENDING" /\ next_attempt_at[d] <= now[w].at

TriggeredBy(d) == IF retry_trigger[d] = "none" THEN "task" ELSE retry_trigger[d]

(* The row as the worker that claims it keeps it.                          *)
ClaimedCopy(d) ==
  [attempt_count       |-> attempt_count[d] + 1,
   attempts_before_run |-> attempts_before_run[d],
   triggered_by        |-> TriggeredBy(d)]

ClearTrigger_Forgotten(d) == UNCHANGED retry_trigger

(* What asked for this attempt is the attempt's to record: it is taken off *)
(* the row as the row is claimed.                                          *)
ClearTrigger(d) == retry_trigger' = [retry_trigger EXCEPT ![d] = "none"]

Claim(w) ==
  LET d == job[w] IN
  /\ pc[w] = "claiming"
  /\ Claimable(w, d)
  /\ state'         = [state EXCEPT ![d] = "SENDING"]
  /\ claimed_at'    = [claimed_at EXCEPT ![d] = now[w]]
  /\ attempt_count' = [attempt_count EXCEPT ![d] = @ + 1]
  /\ ClearTrigger(d)
  /\ row' = [row EXCEPT ![w] = ClaimedCopy(d)]
  /\ pc'  = [pc EXCEPT ![w] = "sending"]
  /\ UNCHANGED <<attempts_before_run, next_attempt_at, attempts, retries, tasks,
                 job, now, outcome, reaper>>

NothingToClaim(w) ==
  /\ pc[w] = "claiming"
  /\ ~Claimable(w, job[w])
  /\ Return(w)
  /\ UNCHANGED <<rowVars, attempts, retries, tasks, reaper>>

(* The channel answers, outside any transaction.                           *)
Attempt(w, said) ==
  /\ pc[w] = "sending"
  /\ outcome' = [outcome EXCEPT ![w] = said]
  /\ pc'      = [pc EXCEPT ![w] = "finishing"]
  /\ UNCHANGED <<rowVars, attempts, retries, tasks, job, now, row, reaper>>

Mine_WhoeverClaimed(w) == state[job[w]] = "SENDING"

(* The rows `mine` updates: the delivery, while this claim is still on it. *)
Mine(w) == state[job[w]] = "SENDING" /\ claimed_at[job[w]] = now[w]

After_CountsEveryRun(w) ==
  IF outcome[w] = "ok" THEN "SENT"
  ELSE IF outcome[w] = "permanent" \/ row[w].attempt_count >= MaxAttempts THEN "ABANDONED"
  ELSE "PENDING"

(* _after(): where the attempt leaves the delivery.                        *)
After(w) ==
  LET run == row[w].attempt_count - row[w].attempts_before_run IN
  IF outcome[w] = "ok" THEN "SENT"
  ELSE IF outcome[w] = "permanent" \/ run >= MaxAttempts THEN "ABANDONED"
  ELSE "PENDING"

(* _record(): the attempt, as RECORD_ATTEMPTS asks. Its savepoint may be   *)
(* lost to a database error - an attempt_no the delivery already has, say  *)
(* - and the rest of the transaction goes on.                              *)
Recordable(w) ==
  /\ \/ RecordAttempts = "all"
     \/ RecordAttempts = "failures" /\ outcome[w] # "ok"
  /\ \A a \in attempts[job[w]] : a.attempt_no # row[w].attempt_count

AttemptRow(w) ==
  [attempt_no   |-> row[w].attempt_count,
   succeeded    |-> outcome[w] = "ok",
   triggered_by |-> row[w].triggered_by]

Record(w) ==
  \/ /\ Recordable(w)
     /\ attempts' = [attempts EXCEPT ![job[w]] = @ \union {AttemptRow(w)}]
  \/ UNCHANGED attempts

(* The finishing transaction, and _send_at() once it commits.              *)
Finish(w) ==
  LET d == job[w] IN
  /\ pc[w] = "finishing"
  /\ Mine(w)
  /\ state' = [state EXCEPT ![d] = After(w)]
  /\ Record(w)
  /\ IF After(w) = "PENDING"
       THEN \E due \in 1..MaxBackoff :
              /\ next_attempt_at' = [next_attempt_at EXCEPT ![d] = due]
              /\ tasks' = tasks \union {Task(d, due)}
       ELSE UNCHANGED <<next_attempt_at, tasks>>
  /\ Return(w)
  /\ UNCHANGED <<attempt_count, attempts_before_run, retry_trigger, claimed_at, retries, reaper>>

(* The claim was taken back while the worker sent: the attempt is dropped. *)
Superseded(w) ==
  /\ pc[w] = "finishing"
  /\ ~Mine(w)
  /\ Return(w)
  /\ UNCHANGED <<rowVars, attempts, retries, tasks, reaper>>

(* The worker dies - or channel.attempted() raises, which rolls the        *)
(* finishing transaction back and leaves the row as its claim left it.     *)
Crash(w) ==
  /\ pc[w] # "idle"
  /\ Return(w)
  /\ UNCHANGED <<rowVars, attempts, retries, tasks, reaper>>

(***************************************************************************)
(* reap_stranded(), a statement at a time, each committed by itself.       *)
(***************************************************************************)
Stranded_OneTickEarly(d) == state[d] = "SENDING" /\ claimed_at[d].at <= -StrandedAfter
Spent_OneTooMany(d) == attempt_count[d] > attempts_before_run[d] + MaxAttempts

Stranded(d) == state[d] = "SENDING" /\ claimed_at[d].at < -StrandedAfter
Spent(d)    == attempt_count[d] >= attempts_before_run[d] + MaxAttempts

ReapAbandon ==
  /\ reaper = "idle"
  /\ state'  = [d \in Deliveries |-> IF Stranded(d) /\ Spent(d) THEN "ABANDONED" ELSE state[d]]
  /\ reaper' = "release"
  /\ UNCHANGED <<attempt_count, attempts_before_run, retry_trigger, next_attempt_at,
                 claimed_at, attempts, retries, tasks, workerVars>>

ReapRelease ==
  /\ reaper = "release"
  /\ state'  = [d \in Deliveries |-> IF Stranded(d) THEN "PENDING" ELSE state[d]]
  /\ reaper' = "ask"
  /\ UNCHANGED <<attempt_count, attempts_before_run, retry_trigger, next_attempt_at,
                 claimed_at, attempts, retries, tasks, workerVars>>

Overdue_NeverTried ==
  {d \in Deliveries : /\ state[d] = "PENDING"
                      /\ next_attempt_at[d] <= -StrandedAfter
                      /\ attempt_count[d] = 0}

(* The rows overdue by STRANDED_AFTER, oldest first, a batch of them.      *)
Overdue == {d \in Deliveries : state[d] = "PENDING" /\ next_attempt_at[d] <= -StrandedAfter}

OldestBatch(asked) ==
  /\ IF Cardinality(Overdue) <= HousekeepingBatch
       THEN asked = Overdue
       ELSE Cardinality(asked) = HousekeepingBatch
  /\ \A d \in asked, e \in Overdue \ asked : next_attempt_at[d] <= next_attempt_at[e]

ReapAsk ==
  /\ reaper = "ask"
  /\ \E asked \in SUBSET Overdue :
       /\ OldestBatch(asked)
       /\ tasks' = tasks \union {Task(d, 0) : d \in asked}
  /\ reaper' = "idle"
  /\ UNCHANGED <<rowVars, attempts, retries, workerVars>>

(* The task running reap_stranded() dies between two statements.           *)
ReaperCrash ==
  /\ reaper # "idle"
  /\ reaper' = "idle"
  /\ UNCHANGED <<rowVars, attempts, retries, tasks, workerVars>>

(***************************************************************************)
(* retry_delivery(): its transaction, and the task it dispatches.          *)
(***************************************************************************)
Retry(d) ==
  /\ state[d] = "ABANDONED"
  /\ retries[d] < MaxRetries
  /\ state'               = [state EXCEPT ![d] = "PENDING"]
  /\ next_attempt_at'     = [next_attempt_at EXCEPT ![d] = 0]
  /\ attempts_before_run' = [attempts_before_run EXCEPT ![d] = attempt_count[d]]
  /\ retry_trigger'       = [retry_trigger EXCEPT ![d] = "manual"]
  /\ retries'             = [retries EXCEPT ![d] = @ + 1]
  /\ tasks'               = tasks \union {Task(d, 0)}
  /\ UNCHANGED <<attempt_count, claimed_at, attempts, workerVars, reaper>>

(***************************************************************************)
(* The world: the broker loses a task, and time passes. The statements of  *)
(* one reap fall within a tick, and share the instant it began at.         *)
(***************************************************************************)
LoseTask ==
  /\ \E t \in tasks : tasks' = tasks \ {t}
  /\ UNCHANGED <<rowVars, attempts, retries, workerVars, reaper>>

Tick ==
  /\ reaper = "idle"
  /\ \A w \in Workers : pc[w] = "claiming" => now[w].at > -PauseBound
  /\ next_attempt_at' = [d \in Deliveries |-> Past(next_attempt_at[d])]
  /\ claimed_at'      = [d \in Deliveries |-> Aged(claimed_at[d])]
  /\ now'             = [w \in Workers |-> IF pc[w] = "idle" THEN now[w] ELSE Aged(now[w])]
  /\ tasks'           = {Task(t.delivery, IF t.due > 0 THEN t.due - 1 ELSE 0) : t \in tasks}
  /\ UNCHANGED <<state, attempt_count, attempts_before_run, retry_trigger, attempts,
                 retries, pc, job, row, outcome, reaper>>

Send(w) ==
  \/ \E d \in Deliveries : Begin(w, d)
  \/ Claim(w)
  \/ NothingToClaim(w)
  \/ \E said \in Outcomes : Attempt(w, said)
  \/ Finish(w)
  \/ Superseded(w)

Reap == ReapAbandon \/ ReapRelease \/ ReapAsk

Next ==
  \/ \E w \in Workers : Send(w) \/ Crash(w)
  \/ Reap
  \/ ReaperCrash
  \/ \E d \in Deliveries : Retry(d)
  \/ LoseTask
  \/ Tick

Spec == Init /\ [][Next]_vars

(***************************************************************************)
(* What the scheduling gives: time passes; beat keeps reaping and not      *)
(* every reap dies half-way; a worker does not die between a task and its  *)
(* claim every time, and a send ends in an answer or with its worker - it  *)
(* may die there every time; and the broker does not lose every task it is *)
(* ever handed for one delivery.                                           *)
(***************************************************************************)
Answered(w) == \E said \in Outcomes : Attempt(w, said)
Taken(d)    == \E w \in Workers : Begin(w, d)

Fairness ==
  /\ SF_vars(Tick)
  /\ WF_vars(ReapAbandon) /\ SF_vars(ReapRelease) /\ SF_vars(ReapAsk)
  /\ \A w \in Workers :
       /\ SF_vars(Claim(w) \/ NothingToClaim(w))
       /\ WF_vars(Answered(w) \/ Finish(w) \/ Superseded(w) \/ Crash(w))
  /\ \A d \in Deliveries : SF_vars(Taken(d))

FairSpec == Spec /\ Fairness

-----------------------------------------------------------------------------
AttemptRows == [attempt_no : Nat \ {0}, succeeded : BOOLEAN, triggered_by : Triggers]

(* Every variable holds what its column or local variable may hold.        *)
TypeOK ==
  /\ state \in [Deliveries -> States]
  /\ attempt_count \in [Deliveries -> Nat]
  /\ attempts_before_run \in [Deliveries -> Nat]
  /\ retry_trigger \in [Deliveries -> {"none", "manual"}]
  /\ next_attempt_at \in [Deliveries -> Instants]
  /\ claimed_at \in [Deliveries -> Readings]
  /\ attempts \in [Deliveries -> SUBSET AttemptRows]
  /\ retries \in [Deliveries -> Nat]
  /\ tasks \subseteq Tasks
  /\ pc \in [Workers -> {"idle", "claiming", "sending", "finishing"}]
  /\ job \in [Workers -> Deliveries \union {None}]
  /\ now \in [Workers -> Readings]
  /\ row \in [Workers -> Rows]
  /\ outcome \in [Workers -> Outcomes \union {"none"}]
  /\ reaper \in {"idle", "release", "ask"}

(* A worker that has claimed: it is sending, or about to write the result. *)
InFlight(w) == pc[w] \in {"sending", "finishing"}

(* A worker keeps its claim for STRANDED_AFTER: until its reading of the   *)
(* clock is older than that, neither the reaper, nor a retry, nor another  *)
(* worker takes the row from under it - so at most one worker is sending a *)
(* delivery whose claim is not yet stranded.                               *)
ClaimKept ==
  \A w \in Workers : InFlight(w) /\ now[w].at >= -StrandedAfter => Mine(w)

(* The attempts kept beside a delivery agree with it: none has a number it *)
(* has not reached, and one that succeeded is the last there ever was, its *)
(* delivery sent - a superseded worker's success never shows as either.    *)
LedgerTruthful ==
  \A d \in Deliveries : \A a \in attempts[d] :
    /\ a.attempt_no <= attempt_count[d]
    /\ a.succeeded => state[d] = "SENT" /\ a.attempt_no = attempt_count[d]

(* No run has more than MAX_ATTEMPTS tries, crashes and timeouts counted.  *)
RunBounded ==
  \A d \in Deliveries : attempt_count[d] - attempts_before_run[d] <= MaxAttempts

(* An attempt of the current run is recorded as manual exactly when a      *)
(* retry by hand asked for it: it is that run's first, whichever task got  *)
(* to it.                                                                  *)
ManualFirstOfRun ==
  \A d \in Deliveries : \A a \in attempts[d] :
    a.attempt_no > attempts_before_run[d] =>
      (a.triggered_by = "manual" <=> retries[d] > 0 /\ a.attempt_no = attempts_before_run[d] + 1)

(* A claimed row was due when it was claimed, so what the reaper releases  *)
(* is overdue already, and asked for in the same pass.                     *)
ReleasedIsOverdue ==
  \A d \in Deliveries : state[d] = "SENDING" => next_attempt_at[d] <= claimed_at[d].at

(* The abstract delivery this implements: SENDING is a try under way, and  *)
(* its answer is what the worker still holding the claim has heard.        *)
Hears(w, d) == pc[w] = "finishing" /\ job[w] = d /\ Mine(w)
Heard(d)    == {outcome[w] : w \in {v \in Workers : Hears(v, d)}}
AnswerOf(d) == IF Heard(d) = {} THEN "none" ELSE CHOOSE o \in Heard(d) : TRUE

StageOf == [PENDING |-> "waiting", SENDING |-> "trying", SENT |-> "sent", ABANDONED |-> "abandoned"]

Promise == INSTANCE Outbox WITH
  stage  <- [d \in Deliveries |-> StageOf[state[d]]],
  tries  <- [d \in Deliveries |-> attempt_count[d] - attempts_before_run[d]],
  answer <- [d \in Deliveries |-> AnswerOf(d)]

(* Every step of the workers, the reaper and a retry is a step Outbox      *)
(* allows: sent only on the channel's word, given up only for a permanent  *)
(* refusal or a spent run, tried again only within the run.                *)
ImplementsOutbox == Promise!Spec

(* Whatever dies and whatever is lost, a delivery that waits or is being   *)
(* sent ends sent or abandoned.                                            *)
EventuallySettled ==
  \A d \in Deliveries : state[d] \in {"PENDING", "SENDING"} ~> state[d] \in {"SENT", "ABANDONED"}

=============================================================================
