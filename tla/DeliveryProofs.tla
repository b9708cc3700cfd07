--------------------------- MODULE DeliveryProofs ---------------------------
(***************************************************************************)
(* Theorems about Delivery, for every number of deliveries and workers and *)
(* every setting. The inductive invariant says of a worker in flight what  *)
(* the row and the worker's own copy of it have in common while the claim  *)
(* is the worker's.                                                        *)
(***************************************************************************)
EXTENDS Delivery, TLAPS

(* A worker at work has a delivery, and a reading of the clock of its own. *)
AtWork ==
  \A w \in Workers : pc[w] # "idle" => job[w] \in Deliveries /\ now[w].by = w

(* A worker in flight has counted its attempt.                             *)
Copied ==
  \A w \in Workers : InFlight(w) => row[w].attempt_count > 0

Typed == TypeOK /\ AtWork /\ Copied

(* A stamp of this worker on the row it sends is the stamp of this claim:  *)
(* a claim it made before it died has been written over.                   *)
StampExact ==
  \A w \in Workers :
    /\ InFlight(w)
    /\ state[job[w]] = "SENDING"
    /\ claimed_at[job[w]].by = w
    => claimed_at[job[w]] = now[w]

(* While the claim is the worker's, its copy of the row is the row.        *)
CopyCurrent ==
  \A w \in Workers :
    InFlight(w) /\ Mine(w) =>
      /\ row[w].attempt_count = attempt_count[job[w]]
      /\ row[w].attempts_before_run = attempts_before_run[job[w]]

ClaimInv == Typed /\ StampExact /\ ClaimKept /\ CopyCurrent

-----------------------------------------------------------------------------
(* Instants stay instants as time passes, in the same order.               *)
LEMMA PastType ==
  /\ \A t \in Instants : Past(t) \in Instants /\ Past(t) <= t
  /\ \A t \in (-Horizon)..0 : Past(t) \in (-Horizon)..0
  /\ \A t, u \in Instants : t <= u => Past(t) <= Past(u)
BY DeliveryAssumption DEF Past, Instants, Horizon

LEMMA AgedType ==
  \A r \in Readings :
    /\ Aged(r) \in Readings
    /\ Aged(r).by = r.by
    /\ Aged(r).at = Past(r.at)
    /\ Aged(r).at <= r.at
<1> SUFFICES ASSUME NEW r \in Readings
             PROVE  /\ Aged(r) \in Readings
                    /\ Aged(r).by = r.by
                    /\ Aged(r).at = Past(r.at)
                    /\ Aged(r).at <= r.at
  OBVIOUS
<1>1. r.at \in (-Horizon)..0 /\ r.by \in Workers \union {None} /\ r = [by |-> r.by, at |-> r.at]
  BY DEF Readings
<1>2. Aged(r) = [by |-> r.by, at |-> Past(r.at)]
  BY <1>1 DEF Aged, Readings
<1>3. Past(r.at) \in (-Horizon)..0 /\ Past(r.at) <= r.at
  BY <1>1, PastType, DeliveryAssumption DEF Past, Horizon
<1>4. QED
  BY <1>1, <1>2, <1>3 DEF Readings

LEMMA ReadingType == NoReading \in Readings /\ \A w \in Workers : Reading(w) \in Readings
BY DeliveryAssumption DEF NoReading, Reading, Readings, Horizon

LEMMA TaskType ==
  /\ \A d \in Deliveries, due \in 0..MaxBackoff : Task(d, due) \in Tasks
  /\ \A t \in Tasks : t.delivery \in Deliveries /\ t.due \in 0..MaxBackoff
  /\ 0 \in 0..MaxBackoff
  /\ \A due \in 1..MaxBackoff : due \in 0..MaxBackoff
  /\ \A due \in 0..MaxBackoff : due > 0 => due - 1 \in 0..MaxBackoff
BY DeliveryAssumption DEF Task, Tasks

LEMMA InstantType == 0 \in Instants /\ \A due \in 1..MaxBackoff : due \in Instants
BY DeliveryAssumption DEF Instants, Horizon

LEMMA ClaimedCopyType ==
  ASSUME TypeOK, NEW d \in Deliveries
  PROVE  ClaimedCopy(d) \in Rows /\ ClaimedCopy(d).attempt_count > 0
<1>1. attempt_count[d] \in Nat /\ attempts_before_run[d] \in Nat
  BY DEF TypeOK
<1>2. TriggeredBy(d) \in Triggers
  BY DEF TypeOK, TriggeredBy, Triggers
<1>3. ClaimedCopy(d).attempt_count = attempt_count[d] + 1
  BY DEF ClaimedCopy
<1>4. QED
  BY <1>1, <1>2, <1>3 DEF ClaimedCopy, Rows

LEMMA AttemptRowType ==
  ASSUME TypeOK, NEW w \in Workers, row[w].attempt_count > 0
  PROVE  AttemptRow(w) \in AttemptRows
<1>0. row[w] \in Rows
  BY DEF TypeOK
<1>1. row[w].attempt_count \in Nat \ {0} /\ row[w].triggered_by \in Triggers
  BY <1>0 DEF Rows
<1>2. QED
  BY <1>1 DEF AttemptRow, AttemptRows

(* What send() leaves behind when it returns.                              *)
LEMMA ReturnType ==
  ASSUME TypeOK, NEW w \in Workers, Return(w)
  PROVE  /\ pc' \in [Workers -> {"idle", "claiming", "sending", "finishing"}]
         /\ job' \in [Workers -> Deliveries \union {None}]
         /\ now' \in [Workers -> Readings]
         /\ row' \in [Workers -> Rows]
         /\ outcome' \in [Workers -> Outcomes \union {"none"}]
         /\ pc'[w] = "idle"
         /\ \A v \in Workers \ {w} :
              /\ pc'[v] = pc[v]
              /\ job'[v] = job[v]
              /\ now'[v] = now[v]
              /\ row'[v] = row[v]
              /\ outcome'[v] = outcome[v]
BY ReadingType DEF TypeOK, Return, NoRow, Rows, Triggers

-----------------------------------------------------------------------------
LEMMA InitType == Init => Typed
<1> SUFFICES ASSUME Init PROVE Typed
  OBVIOUS
<1> USE DeliveryAssumption
<1>1. next_attempt_at \in [Deliveries -> Instants]
  BY InstantType DEF Init
<1>2. tasks \subseteq Tasks
  BY TaskType DEF Init
<1>3. row \in [Workers -> Rows]
  BY DEF Init, NoRow, Rows, Triggers
<1>4. /\ claimed_at \in [Deliveries -> Readings]
      /\ now \in [Workers -> Readings]
  BY ReadingType DEF Init
<1>5. /\ state \in [Deliveries -> States]
      /\ attempt_count \in [Deliveries -> Nat]
      /\ attempts_before_run \in [Deliveries -> Nat]
      /\ retry_trigger \in [Deliveries -> {"none", "manual"}]
      /\ retries \in [Deliveries -> Nat]
      /\ attempts \in [Deliveries -> SUBSET AttemptRows]
  BY DEF Init, States
<1>6. /\ pc \in [Workers -> {"idle", "claiming", "sending", "finishing"}]
      /\ job \in [Workers -> Deliveries \union {None}]
      /\ outcome \in [Workers -> Outcomes \union {"none"}]
      /\ reaper \in {"idle", "release", "ask"}
      /\ AtWork
      /\ Copied
  BY DEF Init, AtWork, Copied, InFlight
<1>7. QED
  BY <1>1, <1>2, <1>3, <1>4, <1>5, <1>6 DEF TypeOK, Typed

(* Every step keeps the types, and the readings and jobs of the workers.   *)
LEMMA StepType ==
  ASSUME Typed, [Next]_vars
  PROVE  Typed'
<1> USE DeliveryAssumption
<1>1. ASSUME NEW w \in Workers, NEW d \in Deliveries, Begin(w, d)
      PROVE  Typed'
  BY <1>1, ReadingType DEF Typed, Copied, InFlight, TypeOK, AtWork, Begin, rowVars, Reading
<1>2. ASSUME NEW w \in Workers, Claim(w)
      PROVE  Typed'
  <2>1. job[w] \in Deliveries
    BY <1>2 DEF Typed, AtWork, Claim
  <2>2. row' \in [Workers -> Rows] /\ row'[w].attempt_count > 0
    BY <1>2, <2>1, ClaimedCopyType DEF Typed, TypeOK, Claim
  <2>3. QED
    BY <1>2, <2>1, <2>2 DEF Typed, Copied, InFlight, TypeOK, AtWork, Claim, ClearTrigger, States
<1>3. ASSUME NEW w \in Workers, Return(w), UNCHANGED <<rowVars, attempts, retries, tasks, reaper>>
      PROVE  Typed'
  BY <1>3, ReturnType DEF Typed, Copied, InFlight, TypeOK, AtWork, rowVars
<1>4. ASSUME NEW w \in Workers, NEW said \in Outcomes, Attempt(w, said)
      PROVE  Typed'
  BY <1>4 DEF Typed, Copied, InFlight, TypeOK, AtWork, Attempt, rowVars
<1>5. ASSUME NEW w \in Workers, Finish(w)
      PROVE  Typed'
  <2>1. job[w] \in Deliveries
    BY <1>5 DEF Typed, AtWork, Finish
  <2>2. state' \in [Deliveries -> States]
    BY <1>5, <2>1 DEF Typed, Copied, InFlight, TypeOK, Finish, After, States
  <2>3. attempts' \in [Deliveries -> SUBSET AttemptRows]
    <3>1. AttemptRow(w) \in AttemptRows
      BY <1>5, AttemptRowType DEF Typed, Copied, InFlight, Finish
    <3>2. QED
      BY <1>5, <2>1, <3>1 DEF Typed, TypeOK, Finish, Record
  <2>4. /\ next_attempt_at' \in [Deliveries -> Instants]
        /\ tasks' \subseteq Tasks
    <3>1. CASE After(w) = "PENDING"
      <4>1. PICK due \in 1..MaxBackoff :
              /\ next_attempt_at' = [next_attempt_at EXCEPT ![job[w]] = due]
              /\ tasks' = tasks \union {Task(job[w], due)}
        BY <1>5, <3>1 DEF Finish
      <4>2. due \in Instants /\ Task(job[w], due) \in Tasks
        BY <2>1, TaskType, InstantType
      <4>3. QED
        BY <4>1, <4>2 DEF Typed, TypeOK
    <3>2. CASE After(w) # "PENDING"
      BY <1>5, <3>2 DEF Finish, Typed, TypeOK
    <3>3. QED
      BY <3>1, <3>2
  <2>5. /\ Return(w)
        /\ UNCHANGED <<attempt_count, attempts_before_run, retry_trigger, claimed_at, retries, reaper>>
    BY <1>5 DEF Finish
  <2>6. TypeOK'
    BY <2>2, <2>3, <2>4, <2>5, ReturnType DEF Typed, TypeOK
  <2>7. AtWork' /\ Copied'
    BY <2>5, ReturnType DEF Typed, AtWork, Copied, InFlight
  <2>8. QED
    BY <2>6, <2>7 DEF Typed
<1>6. ASSUME ReapAbandon \/ ReapRelease
      PROVE  Typed'
  BY <1>6 DEF Typed, Copied, InFlight, TypeOK, AtWork, ReapAbandon, ReapRelease, States, workerVars
<1>7. CASE ReapAsk
  BY <1>7, TaskType DEF Typed, Copied, InFlight, TypeOK, AtWork, ReapAsk, Overdue, rowVars, workerVars
<1>8. CASE ReaperCrash
  BY <1>8 DEF Typed, Copied, InFlight, TypeOK, AtWork, ReaperCrash, rowVars, workerVars
<1>9. ASSUME NEW d \in Deliveries, Retry(d)
      PROVE  Typed'
  BY <1>9, TaskType, InstantType DEF Typed, Copied, InFlight, TypeOK, AtWork, Retry, States, workerVars
<1>10. CASE LoseTask
  BY <1>10 DEF Typed, Copied, InFlight, TypeOK, AtWork, LoseTask, rowVars, workerVars
<1>11. CASE Tick
  <2>1. next_attempt_at' \in [Deliveries -> Instants]
    BY <1>11, PastType DEF Typed, Copied, InFlight, TypeOK, Tick
  <2>2. claimed_at' \in [Deliveries -> Readings]
    BY <1>11, AgedType DEF Typed, Copied, InFlight, TypeOK, Tick
  <2>3. now' \in [Workers -> Readings] /\ AtWork'
    BY <1>11, AgedType DEF Typed, Copied, InFlight, TypeOK, Tick, AtWork
  <2>4. tasks' \subseteq Tasks
    BY <1>11, TaskType DEF Typed, Copied, InFlight, TypeOK, Tick
  <2>5. QED
    BY <1>11, <2>1, <2>2, <2>3, <2>4 DEF Typed, Copied, InFlight, TypeOK, Tick
<1>12. CASE UNCHANGED vars
  BY <1>12 DEF Typed, Copied, InFlight, TypeOK, AtWork, vars, rowVars, workerVars
<1>13. QED
  BY <1>1, <1>2, <1>3, <1>4, <1>5, <1>6, <1>7, <1>8, <1>9, <1>10, <1>11, <1>12
     DEF Next, Send, Reap, NothingToClaim, Superseded, Crash

(* TypeOK is an invariant: whatever the workers, the reaper and retries do *)
(* with a delivery's row, every column and local keeps its type.           *)
THEOREM TypeCorrect == Spec => []Typed
BY InitType, StepType, PTL DEF Spec

-----------------------------------------------------------------------------
(* What each step does to the claims in flight.                            *)
LEMMA InitClaim == Init => ClaimInv
BY InitType DEF Init, ClaimInv, StampExact, ClaimKept, CopyCurrent, InFlight

(* Time passing takes no claim from a worker and gives it none.            *)
LEMMA TickKeepsMine ==
  ASSUME Typed, StampExact, Tick
  PROVE  \A w \in Workers : InFlight(w) => (Mine(w)' <=> Mine(w))
<1> SUFFICES ASSUME NEW w \in Workers, InFlight(w) PROVE Mine(w)' <=> Mine(w)
  OBVIOUS
<1>1. job[w] \in Deliveries /\ now[w] \in Readings /\ now[w].by = w /\ now'[w] = Aged(now[w])
  BY DEF Typed, TypeOK, AtWork, InFlight, Tick
<1>2. /\ claimed_at[job[w]] \in Readings
      /\ claimed_at'[job[w]] = Aged(claimed_at[job[w]])
      /\ state' = state /\ job' = job
  BY <1>1 DEF Typed, TypeOK, Tick
<1>3. QED
  BY <1>1, <1>2, AgedType DEF Mine, StampExact

LEMMA StepClaim ==
  ASSUME ClaimInv, [Next]_vars
  PROVE  StampExact' /\ ClaimKept' /\ CopyCurrent'
<1> USE DeliveryAssumption DEF ClaimInv, Typed
<1>0. Typed'
  BY StepType
<1>1. ASSUME NEW w \in Workers, NEW d \in Deliveries, Begin(w, d)
      PROVE  StampExact' /\ ClaimKept' /\ CopyCurrent'
  BY <1>1 DEF TypeOK, Begin, rowVars, StampExact, ClaimKept, CopyCurrent, InFlight, Mine
<1>2. ASSUME NEW w \in Workers, Claim(w)
      PROVE  StampExact' /\ ClaimKept' /\ CopyCurrent'
  BY <1>2 DEF TypeOK, Claim, StampExact, ClaimKept, CopyCurrent, InFlight, Mine, AtWork, Claimable, ClaimedCopy
<1>3. ASSUME NEW w \in Workers, Return(w), UNCHANGED <<rowVars, attempts, retries, tasks, reaper>>
      PROVE  StampExact' /\ ClaimKept' /\ CopyCurrent'
  BY <1>3, ReturnType DEF rowVars, StampExact, ClaimKept, CopyCurrent, InFlight, Mine
<1>4. ASSUME NEW w \in Workers, NEW said \in Outcomes, Attempt(w, said)
      PROVE  StampExact' /\ ClaimKept' /\ CopyCurrent'
  BY <1>4 DEF TypeOK, Attempt, rowVars, StampExact, ClaimKept, CopyCurrent, InFlight, Mine
<1>5. ASSUME NEW w \in Workers, Finish(w)
      PROVE  StampExact' /\ ClaimKept' /\ CopyCurrent'
  <2> DEFINE d == job[w]
  <2>1. d \in Deliveries /\ now[w].by = w /\ state[d] = "SENDING" /\ claimed_at[d] = now[w]
    BY <1>5 DEF Finish, Mine, AtWork
  <2>2. /\ state' = [state EXCEPT ![d] = After(w)]
        /\ After(w) # "SENDING"
        /\ UNCHANGED <<attempt_count, attempts_before_run, claimed_at>>
    BY <1>5 DEF Finish, After
  <2>3. /\ pc'[w] = "idle"
        /\ \A v \in Workers \ {w} :
             pc'[v] = pc[v] /\ job'[v] = job[v] /\ now'[v] = now[v] /\ row'[v] = row[v]
    BY <1>5, ReturnType DEF Finish
  <2>4. ASSUME NEW v \in Workers, InFlight(v)', job[v] = d
        PROVE  v # w /\ state'[job'[v]] # "SENDING" /\ now'[v].at < -StrandedAfter
    <3>1. v # w /\ InFlight(v)
      BY <2>3, <2>4 DEF InFlight
    <3>2. now[v].by = v /\ now[v] \in Readings
      BY <3>1 DEF AtWork, InFlight, TypeOK
    <3>3. ~Mine(v)
      BY <2>1, <2>4, <3>1, <3>2 DEF Mine
    <3>4. ~(now[v].at >= -StrandedAfter)
      BY <3>1, <3>3 DEF ClaimKept
    <3>5. now[v].at \in Int
      BY <3>2 DEF Readings, Horizon
    <3>6. QED
      BY <2>1, <2>2, <2>3, <2>4, <3>1, <3>4, <3>5 DEF TypeOK
  <2>5. ASSUME NEW v \in Workers, InFlight(v)', job[v] # d
        PROVE  /\ v # w /\ InFlight(v)
               /\ state'[job'[v]] = state[job[v]]
               /\ job'[v] = job[v] /\ now'[v] = now[v] /\ row'[v] = row[v]
    <3>1. v # w /\ InFlight(v)
      BY <2>3, <2>5 DEF InFlight
    <3>2. job[v] \in Deliveries
      BY <3>1 DEF AtWork, InFlight
    <3>3. QED
      BY <2>2, <2>3, <2>5, <3>1, <3>2 DEF TypeOK
  <2>6. StampExact'
    BY <2>2, <2>4, <2>5 DEF StampExact
  <2>7. ClaimKept'
    <3> SUFFICES ASSUME NEW v \in Workers, InFlight(v)', now'[v].at >= -StrandedAfter
                 PROVE  Mine(v)'
      BY DEF ClaimKept
    <3>1. now'[v].at \in Int
      BY <1>0 DEF TypeOK, Readings, Horizon
    <3>2. job[v] # d
      BY <2>4, <3>1
    <3>3. Mine(v)
      BY <2>5, <3>2 DEF ClaimKept
    <3>4. QED
      BY <2>2, <2>5, <3>2, <3>3 DEF Mine
  <2>8. CopyCurrent'
    BY <2>2, <2>4, <2>5 DEF CopyCurrent, Mine
  <2>9. QED
    BY <2>6, <2>7, <2>8
<1>6. ASSUME ReapAbandon \/ ReapRelease
      PROVE  StampExact' /\ ClaimKept' /\ CopyCurrent'
  <2>1. UNCHANGED <<attempt_count, attempts_before_run, claimed_at, workerVars>>
    BY <1>6 DEF ReapAbandon, ReapRelease
  <2>2. \A d \in Deliveries :
          /\ state'[d] = "SENDING" => state[d] = "SENDING"
          /\ ~(claimed_at[d].at < -StrandedAfter) => state'[d] = state[d]
    BY <1>6 DEF ReapAbandon, ReapRelease, Stranded, Spent, TypeOK
  <2>3. \A w \in Workers : InFlight(w) => job[w] \in Deliveries /\ now[w].at \in Int
    BY DEF AtWork, InFlight, TypeOK, Readings, Horizon
  <2>4. StampExact'
    BY <2>1, <2>2, <2>3 DEF StampExact, InFlight, workerVars
  <2>5. ClaimKept'
    BY <2>1, <2>2, <2>3 DEF ClaimKept, InFlight, Mine, workerVars
  <2>6. CopyCurrent'
    BY <2>1, <2>2, <2>3 DEF CopyCurrent, InFlight, Mine, workerVars
  <2>7. QED
    BY <2>4, <2>5, <2>6
<1>7. ASSUME ReapAsk \/ ReaperCrash \/ LoseTask
      PROVE  StampExact' /\ ClaimKept' /\ CopyCurrent'
  BY <1>7 DEF ReapAsk, ReaperCrash, LoseTask, rowVars, workerVars, StampExact, ClaimKept,
              CopyCurrent, InFlight, Mine
<1>8. ASSUME NEW d \in Deliveries, Retry(d)
      PROVE  StampExact' /\ ClaimKept' /\ CopyCurrent'
  BY <1>8 DEF TypeOK, Retry, workerVars, StampExact, ClaimKept, CopyCurrent, InFlight, Mine, AtWork
<1>9. CASE Tick
  <2>1. UNCHANGED <<state, attempt_count, attempts_before_run, pc, job, row>>
    BY <1>9 DEF Tick
  <2>2. \A d \in Deliveries :
          claimed_at[d] \in Readings /\ claimed_at'[d] = Aged(claimed_at[d])
    BY <1>9 DEF Tick, TypeOK
  <2>3. \A w \in Workers : InFlight(w) =>
          /\ job[w] \in Deliveries
          /\ now[w] \in Readings
          /\ now'[w] = Aged(now[w])
          /\ now[w].by = w
          /\ now'[w].at <= now[w].at
          /\ now[w].at \in Int /\ now'[w].at \in Int
    BY <1>9, <1>0, AgedType DEF Tick, TypeOK, AtWork, InFlight, Readings, Horizon
  <2>4. \A w \in Workers : InFlight(w) => (Mine(w)' <=> Mine(w))
    BY <1>9, TickKeepsMine
  <2>5. StampExact'
    BY <2>1, <2>2, <2>3, AgedType DEF StampExact, InFlight
  <2>6. ClaimKept'
    BY <2>1, <2>3, <2>4 DEF ClaimKept, InFlight
  <2>7. CopyCurrent'
    BY <2>1, <2>4 DEF CopyCurrent, InFlight
  <2>8. QED
    BY <2>5, <2>6, <2>7
<1>10. CASE UNCHANGED vars
  BY <1>10 DEF vars, rowVars, workerVars, StampExact, ClaimKept, CopyCurrent, InFlight, Mine
<1>11. QED
  BY <1>1, <1>2, <1>3, <1>4, <1>5, <1>6, <1>7, <1>8, <1>9, <1>10
     DEF Next, Send, Reap, NothingToClaim, Superseded, Crash

LEMMA ClaimInvariant == Spec => []ClaimInv
<1>1. ClaimInv /\ [Next]_vars => ClaimInv'
  BY StepType, StepClaim DEF ClaimInv
<1>2. QED
  BY InitClaim, <1>1, PTL DEF Spec

(* A worker keeps its claim until STRANDED_AFTER has passed since it read  *)
(* the clock: reap_stranded(), retry_delivery() and the other workers'     *)
(* send() leave the row to it.                                             *)
THEOREM ClaimIsKept == Spec => []ClaimKept
BY ClaimInvariant, PTL DEF ClaimInv

-----------------------------------------------------------------------------
(* A recorded attempt is never numbered beyond the tries the delivery has  *)
(* had, and one that succeeded is the last of a delivery that is sent: the *)
(* attempt of a worker whose claim was taken back is never written.        *)
THEOREM LedgerIsTruthful == Spec => []LedgerTruthful
<1>1. Init => LedgerTruthful
  BY DEF Init, LedgerTruthful
<1>2. LedgerTruthful /\ ClaimInv /\ [Next]_vars => LedgerTruthful'
  <2> SUFFICES ASSUME LedgerTruthful, ClaimInv, [Next]_vars PROVE LedgerTruthful'
    OBVIOUS
  <2> USE DEF ClaimInv, Typed
  <2>1. ASSUME UNCHANGED <<attempts, attempt_count>>,
               \A d \in Deliveries : state[d] = "SENT" => state'[d] = "SENT"
        PROVE  LedgerTruthful'
    BY <2>1 DEF LedgerTruthful
  <2>2. ASSUME NEW w \in Workers, Claim(w) PROVE LedgerTruthful'
    <3>1. attempts' = attempts /\ job[w] \in Deliveries /\ state[job[w]] = "PENDING"
      BY <2>2 DEF Claim, Claimable, AtWork
    <3>2. /\ attempt_count' = [attempt_count EXCEPT ![job[w]] = @ + 1]
          /\ state' = [state EXCEPT ![job[w]] = "SENDING"]
      BY <2>2 DEF Claim
    <3>3. \A d \in Deliveries : \A a \in attempts[d] : a.attempt_no \in Nat
      BY DEF TypeOK, AttemptRows
    <3>4. QED
      BY <3>1, <3>2, <3>3 DEF LedgerTruthful, TypeOK
  <2>3. ASSUME NEW w \in Workers, Finish(w) PROVE LedgerTruthful'
    <3> DEFINE d == job[w]
    <3>1. d \in Deliveries /\ state[d] = "SENDING" /\ row[w].attempt_count = attempt_count[d]
      BY <2>3 DEF Finish, AtWork, Mine, CopyCurrent, InFlight
    <3>2. attempt_count' = attempt_count /\ state' = [state EXCEPT ![d] = After(w)]
      BY <2>3 DEF Finish
    <3>3. \A e \in Deliveries : \A a \in attempts'[e] :
            a \in attempts[e] \/ (e = d /\ a = AttemptRow(w))
      BY <2>3, <3>1 DEF Finish, Record, TypeOK
    <3>4. /\ AttemptRow(w).attempt_no = attempt_count[d]
          /\ AttemptRow(w).succeeded => After(w) = "SENT"
      BY <3>1 DEF AttemptRow, After
    <3>5. attempt_count[d] \in Nat
      BY <3>1 DEF TypeOK
    <3>6. QED
      BY <3>1, <3>2, <3>3, <3>4, <3>5 DEF LedgerTruthful, TypeOK
  <2>4. ASSUME NEW d \in Deliveries, Retry(d) PROVE LedgerTruthful'
    BY <2>1, <2>4 DEF Retry, TypeOK
  <2>5. ASSUME ReapAbandon \/ ReapRelease PROVE LedgerTruthful'
    BY <2>1, <2>5 DEF ReapAbandon, ReapRelease, Stranded, TypeOK
  <2>6. CASE UNCHANGED <<attempts, attempt_count, state>>
    BY <2>1, <2>6
  <2>7. QED
    BY <2>2, <2>3, <2>4, <2>5, <2>6
       DEF Next, Send, Reap, Begin, NothingToClaim, Attempt, Superseded, Crash, ReapAsk,
           ReaperCrash, LoseTask, Tick, vars, rowVars
<1>3. QED
  BY ClaimInvariant, <1>1, <1>2, PTL DEF Spec

-----------------------------------------------------------------------------
(* The trigger is on the row exactly while the run a retry began has had   *)
(* no try, and the copy of a worker whose claim is still its own says      *)
(* "manual" exactly for the first try of such a run.                       *)
RunsOn == \A d \in Deliveries : attempts_before_run[d] <= attempt_count[d]

TriggerExact ==
  \A d \in Deliveries :
    retry_trigger[d] = "manual" <=> retries[d] > 0 /\ attempt_count[d] = attempts_before_run[d]

CopyManual ==
  \A w \in Workers : InFlight(w) /\ Mine(w) =>
    /\ row[w].attempt_count > attempts_before_run[job[w]]
    /\ row[w].triggered_by = "manual" <=>
         retries[job[w]] > 0 /\ row[w].attempt_count = attempts_before_run[job[w]] + 1

ManualInv == RunsOn /\ TriggerExact /\ CopyManual /\ ManualFirstOfRun

LEMMA StepManual ==
  ASSUME ClaimInv, LedgerTruthful, ManualInv, [Next]_vars
  PROVE  ManualInv'
<1> USE DEF ClaimInv, Typed, ManualInv
<1>1. ASSUME UNCHANGED <<attempt_count, attempts_before_run, retry_trigger, retries, attempts>>,
             \A w \in Workers : InFlight(w)' /\ Mine(w)' =>
               InFlight(w) /\ Mine(w) /\ job'[w] = job[w] /\ row'[w] = row[w]
      PROVE  ManualInv'
  BY <1>1 DEF RunsOn, TriggerExact, CopyManual, ManualFirstOfRun
<1>2. ASSUME NEW w \in Workers, NEW d \in Deliveries, Begin(w, d) PROVE ManualInv'
  BY <1>1, <1>2 DEF Begin, rowVars, TypeOK, InFlight, Mine
<1>3. ASSUME NEW w \in Workers, Claim(w) PROVE ManualInv'
  <2> DEFINE d == job[w]
  <2>1. d \in Deliveries /\ now[w].by = w
    BY <1>3 DEF Claim, AtWork
  <2>2. /\ attempt_count' = [attempt_count EXCEPT ![d] = @ + 1]
        /\ retry_trigger' = [retry_trigger EXCEPT ![d] = "none"]
        /\ UNCHANGED <<attempts_before_run, retries, attempts, job, now>>
    BY <1>3 DEF Claim, ClearTrigger
  <2>3. \A e \in Deliveries : attempt_count[e] \in Nat /\ attempts_before_run[e] \in Nat
    BY DEF TypeOK
  <2>4. RunsOn' /\ TriggerExact'
    BY <2>1, <2>2, <2>3 DEF RunsOn, TriggerExact, TypeOK
  <2>5. CopyManual'
    <3> SUFFICES ASSUME NEW v \in Workers, InFlight(v)', Mine(v)'
                 PROVE  /\ row'[v].attempt_count > attempts_before_run[job[v]]
                        /\ row'[v].triggered_by = "manual" <=>
                             /\ retries[job[v]] > 0
                             /\ row'[v].attempt_count = attempts_before_run[job[v]] + 1
      BY <2>2 DEF CopyManual
    <3>1. CASE v = w
      <4>1. /\ row'[w].attempt_count = attempt_count[d] + 1
            /\ row'[w].triggered_by = TriggeredBy(d)
        BY <1>3 DEF Claim, ClaimedCopy, TypeOK
      <4>2. TriggeredBy(d) = "manual" <=> retry_trigger[d] = "manual"
        BY DEF TriggeredBy
      <4>3. QED
        BY <2>1, <2>3, <3>1, <4>1, <4>2 DEF RunsOn, TriggerExact
    <3>2. CASE v # w
      <4>1. InFlight(v) /\ row'[v] = row[v] /\ now[v].by = v /\ job[v] \in Deliveries
        BY <1>3, <3>2 DEF Claim, InFlight, TypeOK, AtWork
      <4>2. job[v] # d
        BY <1>3, <2>1, <2>2, <3>2, <4>1 DEF Claim, Mine, TypeOK
      <4>3. Mine(v)
        BY <1>3, <2>1, <2>2, <4>1, <4>2 DEF Claim, Mine, TypeOK
      <4>4. QED
        BY <4>1, <4>3 DEF CopyManual
    <3>3. QED
      BY <3>1, <3>2
  <2>6. ManualFirstOfRun'
    BY <2>2 DEF ManualFirstOfRun
  <2>7. QED
    BY <2>4, <2>5, <2>6
<1>4. ASSUME NEW w \in Workers, Return(w), UNCHANGED <<rowVars, attempts, retries>>
      PROVE  ManualInv'
  BY <1>1, <1>4, ReturnType DEF rowVars, InFlight, Mine
<1>5. ASSUME NEW w \in Workers, NEW said \in Outcomes, Attempt(w, said) PROVE ManualInv'
  BY <1>1, <1>5 DEF Attempt, rowVars, TypeOK, InFlight, Mine
<1>6. ASSUME NEW w \in Workers, Finish(w) PROVE ManualInv'
  <2> DEFINE d == job[w]
  <2>1. d \in Deliveries /\ InFlight(w) /\ Mine(w)
    BY <1>6 DEF Finish, AtWork, InFlight
  <2>2. /\ UNCHANGED <<attempt_count, attempts_before_run, retry_trigger, retries, claimed_at>>
        /\ state' = [state EXCEPT ![d] = After(w)] /\ After(w) # "SENDING"
    BY <1>6 DEF Finish, After
  <2>3. \A e \in Deliveries : \A a \in attempts'[e] :
          a \in attempts[e] \/ (e = d /\ a = AttemptRow(w))
    BY <1>6, <2>1 DEF Finish, Record, TypeOK
  <2>4. /\ AttemptRow(w).attempt_no = row[w].attempt_count
        /\ AttemptRow(w).triggered_by = row[w].triggered_by
    BY DEF AttemptRow
  <2>5. ManualFirstOfRun'
    BY <2>1, <2>2, <2>3, <2>4 DEF ManualFirstOfRun, CopyManual
  <2>6. ASSUME NEW v \in Workers, InFlight(v)', Mine(v)'
        PROVE  InFlight(v) /\ Mine(v) /\ job'[v] = job[v] /\ row'[v] = row[v]
    <3>1. v # w /\ InFlight(v) /\ job'[v] = job[v] /\ now'[v] = now[v] /\ row'[v] = row[v]
      BY <1>6, <2>6, ReturnType DEF Finish, InFlight
    <3>2. job[v] \in Deliveries
      BY <3>1 DEF AtWork, InFlight
    <3>3. QED
      BY <2>1, <2>2, <2>6, <3>1, <3>2 DEF Mine, TypeOK
  <2>7. RunsOn' /\ TriggerExact'
    BY <2>2 DEF RunsOn, TriggerExact
  <2>8. CopyManual'
    BY <2>2, <2>6 DEF CopyManual
  <2>9. QED
    BY <2>5, <2>7, <2>8
<1>7. ASSUME ReapAbandon \/ ReapRelease PROVE ManualInv'
  <2>1. \A w \in Workers : InFlight(w) => job[w] \in Deliveries
    BY DEF AtWork, InFlight
  <2>2. \A d \in Deliveries : state'[d] = "SENDING" => state[d] = "SENDING"
    BY <1>7 DEF ReapAbandon, ReapRelease
  <2>3. QED
    BY <1>1, <1>7, <2>1, <2>2 DEF ReapAbandon, ReapRelease, workerVars, InFlight, Mine
<1>8. ASSUME ReapAsk \/ ReaperCrash \/ LoseTask PROVE ManualInv'
  BY <1>1, <1>8 DEF ReapAsk, ReaperCrash, LoseTask, rowVars, workerVars, InFlight, Mine
<1>9. ASSUME NEW d \in Deliveries, Retry(d) PROVE ManualInv'
  <2>1. /\ attempts_before_run' = [attempts_before_run EXCEPT ![d] = attempt_count[d]]
        /\ retry_trigger' = [retry_trigger EXCEPT ![d] = "manual"]
        /\ retries' = [retries EXCEPT ![d] = @ + 1]
        /\ state' = [state EXCEPT ![d] = "PENDING"] /\ state[d] = "ABANDONED"
        /\ UNCHANGED <<attempt_count, claimed_at, attempts, workerVars>>
    BY <1>9 DEF Retry
  <2>2. \A e \in Deliveries :
          attempt_count[e] \in Nat /\ attempts_before_run[e] \in Nat /\ retries[e] \in Nat
    BY DEF TypeOK
  <2>3. RunsOn' /\ TriggerExact'
    BY <2>1, <2>2 DEF RunsOn, TriggerExact, TypeOK
  <2>4. CopyManual'
    <3>1. \A w \in Workers : InFlight(w) => job[w] \in Deliveries
      BY DEF AtWork, InFlight
    <3>2. \A w \in Workers : InFlight(w)' /\ Mine(w)' =>
            InFlight(w) /\ Mine(w) /\ job[w] \in Deliveries /\ job[w] # d
      BY <2>1, <3>1 DEF workerVars, InFlight, Mine, TypeOK
    <3>3. \A e \in Deliveries : e # d =>
            attempts_before_run'[e] = attempts_before_run[e] /\ retries'[e] = retries[e]
      BY <2>1 DEF TypeOK
    <3>4. job' = job /\ row' = row
      BY <2>1 DEF workerVars
    <3>5. QED
      BY <3>2, <3>3, <3>4 DEF CopyManual
  <2>5. ManualFirstOfRun'
    <3>1. \A e \in Deliveries : \A a \in attempts[e] :
            a.attempt_no \in Nat /\ a.attempt_no <= attempt_count[e]
      BY DEF TypeOK, AttemptRows, LedgerTruthful
    <3>2. \A e \in Deliveries :
            IF e = d THEN attempts_before_run'[e] = attempt_count[e]
            ELSE attempts_before_run'[e] = attempts_before_run[e] /\ retries'[e] = retries[e]
      BY <2>1 DEF TypeOK
    <3>3. \A a \in attempts[d] : ~(a.attempt_no > attempt_count[d])
      BY <2>2, <3>1
    <3>4. attempts' = attempts
      BY <2>1
    <3>5. QED
      BY <3>2, <3>3, <3>4 DEF ManualFirstOfRun
  <2>6. QED
    BY <2>3, <2>4, <2>5
<1>10. CASE Tick
  <2>1. UNCHANGED <<attempt_count, attempts_before_run, retry_trigger, retries, attempts,
                    pc, job, row>>
    BY <1>10 DEF Tick
  <2>2. \A w \in Workers : InFlight(w) => (Mine(w)' <=> Mine(w))
    BY <1>10, TickKeepsMine
  <2>3. QED
    BY <1>1, <2>1, <2>2 DEF InFlight
<1>11. CASE UNCHANGED vars
  BY <1>1, <1>11 DEF vars, rowVars, workerVars, InFlight, Mine
<1>12. QED
  BY <1>2, <1>3, <1>4, <1>5, <1>6, <1>7, <1>8, <1>9, <1>10, <1>11
     DEF Next, Send, Reap, NothingToClaim, Superseded, Crash

(* An attempt of the current run is recorded as manual exactly when it is  *)
(* the first of a run a retry by hand began: retry_delivery()'s mark is    *)
(* taken off by the claim that serves it, lost and stale tasks or not.     *)
THEOREM ManualIsFirst == Spec => []ManualFirstOfRun
<1>1. Init => ManualInv
  BY DEF Init, ManualInv, RunsOn, TriggerExact, CopyManual, ManualFirstOfRun, InFlight
<1>2. ManualInv /\ ClaimInv /\ LedgerTruthful /\ [Next]_vars => ManualInv'
  BY StepManual
<1>3. QED
  BY ClaimInvariant, LedgerIsTruthful, <1>1, <1>2, PTL DEF Spec, ManualInv

-----------------------------------------------------------------------------
(* A row is claimed only when due, so one the reaper releases is overdue.  *)
THEOREM ReleasedAreOverdue == Spec => []ReleasedIsOverdue
<1>1. Init => ReleasedIsOverdue
  BY DEF Init, ReleasedIsOverdue
<1>2. ReleasedIsOverdue /\ ClaimInv /\ [Next]_vars => ReleasedIsOverdue'
  <2> SUFFICES ASSUME ReleasedIsOverdue, ClaimInv, [Next]_vars PROVE ReleasedIsOverdue'
    OBVIOUS
  <2> USE DEF ClaimInv, Typed
  <2>1. ASSUME NEW w \in Workers, Claim(w) PROVE ReleasedIsOverdue'
    BY <2>1 DEF Claim, Claimable, AtWork, TypeOK, ReleasedIsOverdue
  <2>2. ASSUME NEW w \in Workers, Finish(w) PROVE ReleasedIsOverdue'
    BY <2>2 DEF Finish, After, AtWork, TypeOK, ReleasedIsOverdue
  <2>3. ASSUME NEW d \in Deliveries, Retry(d) PROVE ReleasedIsOverdue'
    BY <2>3 DEF Retry, TypeOK, ReleasedIsOverdue
  <2>4. ASSUME ReapAbandon \/ ReapRelease PROVE ReleasedIsOverdue'
    BY <2>4 DEF ReapAbandon, ReapRelease, TypeOK, ReleasedIsOverdue
  <2>5. CASE Tick
    <3>1. \A d \in Deliveries :
            /\ next_attempt_at[d] \in Instants
            /\ next_attempt_at'[d] = Past(next_attempt_at[d])
            /\ claimed_at[d] \in Readings /\ claimed_at[d].at \in Instants
            /\ claimed_at'[d].at = Past(claimed_at[d].at)
      BY <2>5, AgedType, DeliveryAssumption DEF Tick, TypeOK, Readings, Instants, Horizon
    <3>2. state' = state
      BY <2>5 DEF Tick
    <3>3. QED
      BY <3>1, <3>2, PastType DEF ReleasedIsOverdue
  <2>6. CASE UNCHANGED <<state, next_attempt_at, claimed_at>>
    BY <2>6 DEF ReleasedIsOverdue
  <2>7. QED
    BY <2>1, <2>2, <2>3, <2>4, <2>5, <2>6
       DEF Next, Send, Reap, Begin, NothingToClaim, Attempt, Superseded, Crash, ReapAsk,
           ReaperCrash, LoseTask, vars, rowVars
<1>3. QED
  BY ClaimInvariant, <1>1, <1>2, PTL DEF Spec

-----------------------------------------------------------------------------
(* Of a run: its tries are counted from its start, a waiting delivery has  *)
(* one left, a worker about to claim read the clock no more than           *)
(* PauseBound ticks ago, and between the reaper's two statements what is   *)
(* stranded is not spent - no claim made in between is old enough.         *)
RunCounted ==
  \A d \in Deliveries :
    /\ attempts_before_run[d] <= attempt_count[d]
    /\ attempt_count[d] <= attempts_before_run[d] + MaxAttempts
    /\ state[d] = "PENDING" => attempt_count[d] < attempts_before_run[d] + MaxAttempts

PauseKept == \A w \in Workers : pc[w] = "claiming" => now[w].at >= -PauseBound

SpentReaped == reaper = "release" => \A d \in Deliveries : Stranded(d) => ~Spent(d)

RunInv == RunCounted /\ PauseKept /\ SpentReaped

LEMMA StepRun ==
  ASSUME PauseBound <= StrandedAfter, ClaimInv, RunInv, [Next]_vars
  PROVE  RunInv'
<1> USE DeliveryAssumption DEF ClaimInv, Typed, RunInv
<1>1. ASSUME NEW w \in Workers, NEW d \in Deliveries, Begin(w, d) PROVE RunInv'
  BY <1>1 DEF Begin, rowVars, Reading, TypeOK, RunCounted, PauseKept, SpentReaped, Stranded, Spent
<1>2. ASSUME NEW w \in Workers, Claim(w) PROVE RunInv'
  <2>1. /\ job[w] \in Deliveries /\ state[job[w]] = "PENDING"
        /\ now[w].at >= -PauseBound /\ now[w].at \in Int
    BY <1>2 DEF Claim, Claimable, AtWork, PauseKept, TypeOK, Readings, Horizon
  <2>2. RunCounted'
    BY <1>2, <2>1 DEF Claim, RunCounted, TypeOK
  <2>3. PauseKept'
    BY <1>2, <2>1 DEF Claim, PauseKept, TypeOK
  <2>4. SpentReaped'
    BY <1>2, <2>1 DEF Claim, SpentReaped, Stranded, Spent, TypeOK
  <2>5. QED
    BY <2>2, <2>3, <2>4
<1>3. ASSUME NEW w \in Workers, Return(w), UNCHANGED <<rowVars, reaper>> PROVE RunInv'
  BY <1>3, ReturnType DEF rowVars, RunCounted, PauseKept, SpentReaped, Stranded, Spent
<1>4. ASSUME NEW w \in Workers, NEW said \in Outcomes, Attempt(w, said) PROVE RunInv'
  BY <1>4 DEF Attempt, rowVars, TypeOK, RunCounted, PauseKept, SpentReaped, Stranded, Spent
<1>5. ASSUME NEW w \in Workers, Finish(w) PROVE RunInv'
  <2>1. /\ job[w] \in Deliveries
        /\ row[w].attempt_count = attempt_count[job[w]]
        /\ row[w].attempts_before_run = attempts_before_run[job[w]]
    BY <1>5 DEF Finish, AtWork, CopyCurrent, InFlight
  <2>2. /\ state' = [state EXCEPT ![job[w]] = After(w)]
        /\ UNCHANGED <<attempt_count, attempts_before_run, claimed_at, reaper>>
    BY <1>5 DEF Finish
  <2>3. RunCounted'
    BY <2>1, <2>2 DEF RunCounted, After, TypeOK
  <2>4. PauseKept'
    BY <1>5, ReturnType DEF Finish, PauseKept
  <2>5. SpentReaped'
    BY <2>1, <2>2 DEF SpentReaped, Stranded, Spent, After, TypeOK
  <2>6. QED
    BY <2>3, <2>4, <2>5
<1>6. CASE ReapAbandon
  <2>1. /\ state' = [d \in Deliveries |-> IF Stranded(d) /\ Spent(d) THEN "ABANDONED" ELSE state[d]]
        /\ UNCHANGED <<attempt_count, attempts_before_run, claimed_at, pc, now>>
    BY <1>6 DEF ReapAbandon, workerVars
  <2>2. SpentReaped'
    BY <2>1 DEF SpentReaped, Stranded, Spent
  <2>3. QED
    BY <2>1, <2>2 DEF RunCounted, PauseKept
<1>7. CASE ReapRelease
  <2>1. /\ state' = [d \in Deliveries |-> IF Stranded(d) THEN "PENDING" ELSE state[d]]
        /\ UNCHANGED <<attempt_count, attempts_before_run, claimed_at, pc, now>>
        /\ reaper = "release" /\ reaper' = "ask"
    BY <1>7 DEF ReapRelease, workerVars
  <2>2. \A d \in Deliveries : Stranded(d) => attempt_count[d] < attempts_before_run[d] + MaxAttempts
    BY <2>1 DEF SpentReaped, Spent, TypeOK
  <2>3. QED
    BY <2>1, <2>2 DEF RunCounted, PauseKept, SpentReaped
<1>8. ASSUME ReapAsk \/ ReaperCrash \/ LoseTask PROVE RunInv'
  BY <1>8 DEF ReapAsk, ReaperCrash, LoseTask, rowVars, workerVars, RunCounted, PauseKept,
              SpentReaped, Stranded, Spent
<1>9. ASSUME NEW d \in Deliveries, Retry(d) PROVE RunInv'
  BY <1>9 DEF Retry, workerVars, TypeOK, RunCounted, PauseKept, SpentReaped, Stranded, Spent
<1>10. CASE Tick
  <2>1. \A w \in Workers : pc[w] = "claiming" => now'[w].at >= -PauseBound
    <3> SUFFICES ASSUME NEW w \in Workers, pc[w] = "claiming" PROVE now'[w].at >= -PauseBound
      OBVIOUS
    <3>1. now[w] \in Readings /\ now[w].at > -PauseBound /\ now'[w] = Aged(now[w])
      BY <1>10 DEF Tick, TypeOK
    <3>2. now[w].at \in Int /\ now'[w].at = Past(now[w].at)
      BY <3>1, AgedType DEF Readings, Horizon
    <3>3. Past(now[w].at) >= now[w].at - 1 /\ Past(now[w].at) \in Int
      BY <3>2 DEF Past
    <3>4. QED
      BY <3>1, <3>2, <3>3, DeliveryAssumption
  <2>2. UNCHANGED <<state, attempt_count, attempts_before_run, pc>> /\ reaper' # "release"
    BY <1>10 DEF Tick
  <2>3. RunCounted' /\ PauseKept' /\ SpentReaped'
    BY <2>1, <2>2 DEF RunCounted, PauseKept, SpentReaped
  <2>4. QED
    BY <2>3
<1>11. CASE UNCHANGED vars
  BY <1>11 DEF vars, rowVars, workerVars, RunCounted, PauseKept, SpentReaped, Stranded, Spent
<1>12. QED
  BY <1>1, <1>2, <1>3, <1>4, <1>5, <1>6, <1>7, <1>8, <1>9, <1>10, <1>11
     DEF Next, Send, Reap, NothingToClaim, Superseded, Crash

LEMMA RunInvariant == PauseBound <= StrandedAfter => (Spec => [](ClaimInv /\ RunInv))
<1> SUFFICES ASSUME PauseBound <= StrandedAfter PROVE Spec => [](ClaimInv /\ RunInv)
  OBVIOUS
<1>1. Init => RunInv
  BY DeliveryAssumption DEF Init, RunInv, RunCounted, PauseKept, SpentReaped
<1>2. ClaimInv /\ RunInv /\ [Next]_vars => RunInv'
  BY StepRun
<1>3. QED
  BY ClaimInvariant, <1>1, <1>2, PTL DEF Spec

(* No run has more than MAX_ATTEMPTS tries, whatever dies and whatever is  *)
(* taken back - as long as a worker claims within STRANDED_AFTER of        *)
(* reading the clock: a claim stamped older than that could be released by *)
(* the reaper's second statement, its run spent, past the first.           *)
THEOREM RunIsBounded == PauseBound <= StrandedAfter => (Spec => []RunBounded)
<1> SUFFICES ASSUME PauseBound <= StrandedAfter PROVE Spec => []RunBounded
  OBVIOUS
<1>1. ClaimInv /\ RunInv => RunBounded
  BY DeliveryAssumption DEF ClaimInv, Typed, TypeOK, RunInv, RunCounted, RunBounded
<1>2. QED
  BY RunInvariant, <1>1, PTL
=============================================================================
