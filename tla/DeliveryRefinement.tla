------------------------- MODULE DeliveryRefinement -------------------------
(***************************************************************************)
(* Delivery implements Outbox, for every number of deliveries and workers  *)
(* and every setting, as long as a worker claims within STRANDED_AFTER of  *)
(* reading the clock. Each step is a step of Outbox, or changes nothing of *)
(* what Outbox sees; what needs care is whose answer a delivery has: that  *)
(* of the one worker that still holds its claim, if it has heard.          *)
(***************************************************************************)
EXTENDS DeliveryProofs

(* A worker about to finish has been answered.                             *)
HasAnswer == \A w \in Workers : pc[w] = "finishing" => outcome[w] \in Outcomes

Inv == ClaimInv /\ RunInv /\ HasAnswer

-----------------------------------------------------------------------------
LEMMA InitAnswer == Init => HasAnswer
BY DEF Init, HasAnswer

LEMMA StepAnswer == Typed /\ HasAnswer /\ [Next]_vars => HasAnswer'
<1> SUFFICES ASSUME Typed, HasAnswer, [Next]_vars PROVE HasAnswer'
  OBVIOUS
<1> USE DEF Typed, TypeOK, HasAnswer
<1>1. ASSUME NEW w \in Workers, Return(w) PROVE HasAnswer'
  BY <1>1 DEF Return
<1>2. ASSUME NEW w \in Workers, NEW d \in Deliveries, Begin(w, d) PROVE HasAnswer'
  BY <1>2 DEF Begin
<1>3. ASSUME NEW w \in Workers, Claim(w) PROVE HasAnswer'
  BY <1>3 DEF Claim
<1>4. ASSUME NEW w \in Workers, NEW said \in Outcomes, Attempt(w, said) PROVE HasAnswer'
  BY <1>4 DEF Attempt
<1>5. CASE UNCHANGED <<pc, outcome>>
  BY <1>5
<1>6. QED
  BY <1>1, <1>2, <1>3, <1>4, <1>5
     DEF Next, Send, NothingToClaim, Finish, Superseded, Crash, Reap, ReapAbandon, ReapRelease,
         ReapAsk, ReaperCrash, Retry, LoseTask, Tick, vars, workerVars

-----------------------------------------------------------------------------
(* At most one worker hears for a delivery: its claim names it.            *)
LEMMA OneHears ==
  ASSUME AtWork, NEW d, NEW v \in Workers, NEW w \in Workers, Hears(v, d), Hears(w, d)
  PROVE  v = w
BY DEF AtWork, Hears, Mine

(* What a delivery has heard is what that worker has.                      *)
LEMMA HeardOf ==
  ASSUME AtWork, NEW d, NEW w \in Workers, Hears(w, d)
  PROVE  AnswerOf(d) = outcome[w]
<1>1. Heard(d) = {outcome[w]}
  BY OneHears DEF Heard
<1>2. QED
  BY <1>1 DEF AnswerOf

LEMMA HeardNothing ==
  ASSUME NEW d, \A w \in Workers : ~Hears(w, d)
  PROVE  AnswerOf(d) = "none"
BY DEF Heard, AnswerOf

(* The same, of the next state.                                            *)
LEMMA HeardOfNext ==
  ASSUME AtWork', NEW d, NEW w \in Workers, Hears(w, d)'
  PROVE  AnswerOf(d)' = outcome'[w]
<1>1. \A v \in Workers : Hears(v, d)' => v = w
  BY DEF AtWork, Hears, Mine
<1>2. Heard(d)' = {outcome'[w]}
  BY <1>1 DEF Heard
<1>3. QED
  BY <1>2 DEF AnswerOf

LEMMA HeardNothingNext ==
  ASSUME NEW d, \A w \in Workers : ~Hears(w, d)'
  PROVE  AnswerOf(d)' = "none"
BY DEF Heard, AnswerOf

(* A step after which the same workers have heard the same.                *)
LEMMA HeardSame ==
  ASSUME NEW d, \A w \in Workers : /\ Hears(w, d)' <=> Hears(w, d)
                                   /\ Hears(w, d) => outcome'[w] = outcome[w]
  PROVE  AnswerOf(d)' = AnswerOf(d)
<1>1. Heard(d)' = Heard(d)
  BY DEF Heard
<1>2. QED
  BY <1>1 DEF AnswerOf

-----------------------------------------------------------------------------
(* Outbox sees nothing of a step that leaves the rows' columns and what    *)
(* has been heard.                                                         *)
LEMMA Stutters ==
  ASSUME UNCHANGED <<state, attempt_count, attempts_before_run>>,
         \A d \in Deliveries : AnswerOf(d)' = AnswerOf(d)
  PROVE  UNCHANGED Promise!outboxVars
BY DEF Promise!outboxVars

(* A worker that comes to nothing, not having heard for its delivery.      *)
LEMMA ReturnStutters ==
  ASSUME Inv, NEW w \in Workers, Return(w), UNCHANGED rowVars,
         ~(pc[w] = "finishing" /\ Mine(w))
  PROVE  UNCHANGED Promise!outboxVars
<1>1. \A d \in Deliveries, v \in Workers :
        /\ Hears(v, d)' <=> Hears(v, d)
        /\ Hears(v, d) => outcome'[v] = outcome[v]
  BY DEF Inv, ClaimInv, Typed, TypeOK, Return, rowVars, Hears, Mine
<1>2. QED
  BY <1>1, HeardSame, Stutters DEF rowVars

LEMMA BeginStutters ==
  ASSUME Inv, NEW w \in Workers, NEW d \in Deliveries, Begin(w, d)
  PROVE  UNCHANGED Promise!outboxVars
<1>1. \A e \in Deliveries, v \in Workers :
        /\ Hears(v, e)' <=> Hears(v, e)
        /\ outcome'[v] = outcome[v]
  BY DEF Inv, ClaimInv, Typed, TypeOK, Begin, rowVars, Hears, Mine
<1>2. QED
  BY <1>1, HeardSame, Stutters DEF Begin, rowVars

(* Time passes for a claim and for its worker's reading of it alike, and a *)
(* claim that is not the worker's does not come to look like it.           *)
LEMMA TickStutters ==
  ASSUME Inv, Tick
  PROVE  UNCHANGED Promise!outboxVars
<1> USE DEF Inv, ClaimInv, Typed
<1>1. ASSUME NEW w \in Workers, NEW d \in Deliveries
      PROVE  Hears(w, d)' <=> Hears(w, d)
  <2>1. pc' = pc /\ job' = job /\ state' = state
    BY DEF Tick
  <2>2. SUFFICES ASSUME pc[w] = "finishing", job[w] = d, state[d] = "SENDING"
                 PROVE  claimed_at'[d] = now'[w] <=> claimed_at[d] = now[w]
    BY <2>1 DEF Hears, Mine
  <2>3. claimed_at'[d] = Aged(claimed_at[d]) /\ now'[w] = Aged(now[w])
    BY <2>2 DEF Tick
  <2>4. claimed_at[d] \in Readings /\ now[w] \in Readings /\ now[w].by = w
    BY <2>2 DEF TypeOK, AtWork
  <2>5. claimed_at[d].by = w => claimed_at[d] = now[w]
    BY <2>2 DEF StampExact, InFlight
  <2>6. Aged(claimed_at[d]).by = claimed_at[d].by /\ Aged(now[w]).by = w
    BY <2>4, AgedType
  <2>7. QED
    BY <2>3, <2>5, <2>6
<1>2. UNCHANGED <<state, attempt_count, attempts_before_run, outcome>>
  BY DEF Tick
<1>3. QED
  BY <1>1, <1>2, HeardSame, Stutters

-----------------------------------------------------------------------------
(* A claim is another try of the run, which has one left.                  *)
LEMMA ClaimTries ==
  ASSUME Inv, NEW w \in Workers, NEW d \in Deliveries, d = job[w], Claim(w)
  PROVE  Promise!Try(d)
<1> USE DeliveryAssumption DEF Inv, ClaimInv, Typed
<1>1. /\ d \in Deliveries /\ pc[w] = "claiming" /\ now[w].by = w
      /\ state[d] = "PENDING" /\ state' = [state EXCEPT ![d] = "SENDING"]
      /\ claimed_at' = [claimed_at EXCEPT ![d] = now[w]]
      /\ attempt_count' = [attempt_count EXCEPT ![d] = @ + 1]
      /\ pc' = [pc EXCEPT ![w] = "sending"]
      /\ UNCHANGED <<attempts_before_run, job, now, outcome>>
  BY DEF Claim, Claimable, AtWork
<1>2. attempt_count[d] - attempts_before_run[d] < MaxAttempts
  BY <1>1 DEF RunInv, RunCounted, TypeOK
<1>3. ASSUME NEW e \in Deliveries
      PROVE  AnswerOf(e)' = AnswerOf(e)
  <2>1. ASSUME NEW v \in Workers PROVE Hears(v, e)' <=> Hears(v, e)
    <3>1. CASE v = w
      BY <1>1, <3>1 DEF Hears, TypeOK
    <3>2. CASE v # w /\ e # d
      BY <1>1, <3>2 DEF Hears, Mine, TypeOK
    <3>3. CASE v # w /\ e = d
      BY <1>1, <3>3 DEF Hears, Mine, TypeOK, AtWork
    <3>4. QED
      BY <3>1, <3>2, <3>3
  <2>2. QED
    BY <1>1, <2>1, HeardSame
<1>4. [e \in Deliveries |-> StageOf[state'[e]]] =
        [[e \in Deliveries |-> StageOf[state[e]]] EXCEPT ![d] = "trying"]
  BY <1>1 DEF StageOf, TypeOK
<1>5. \A e \in Deliveries :
        attempt_count'[e] - attempts_before_run'[e] =
          IF e = d THEN attempt_count[e] - attempts_before_run[e] + 1
                   ELSE attempt_count[e] - attempts_before_run[e]
  BY <1>1 DEF TypeOK
<1>6. QED
  BY <1>1, <1>2, <1>3, <1>4, <1>5 DEF Promise!Try, StageOf

(* What the channel says is heard if the claim is still the worker's, and  *)
(* else by nobody.                                                         *)
LEMMA AttemptAnswers ==
  ASSUME Inv, NEW w \in Workers, NEW d \in Deliveries, d = job[w],
         NEW said \in Outcomes, Attempt(w, said)
  PROVE  Promise!Answer(d, said) \/ UNCHANGED Promise!outboxVars
<1> USE DEF Inv, ClaimInv, Typed
<1>1. /\ d \in Deliveries /\ pc[w] = "sending"
      /\ pc' = [pc EXCEPT ![w] = "finishing"]
      /\ outcome' = [outcome EXCEPT ![w] = said]
      /\ UNCHANGED <<state, claimed_at, attempt_count, attempts_before_run, job, now>>
  BY DEF Attempt, AtWork, rowVars
<1>2. AtWork'
  BY <1>1 DEF AtWork, TypeOK
<1>3. ASSUME NEW e \in Deliveries, e # d \/ ~Mine(w)
      PROVE  AnswerOf(e)' = AnswerOf(e)
  <2>1. ASSUME NEW v \in Workers
        PROVE  /\ Hears(v, e)' <=> Hears(v, e)
               /\ Hears(v, e) => outcome'[v] = outcome[v]
    BY <1>1, <1>3 DEF Hears, Mine, TypeOK
  <2>2. QED
    BY <2>1, HeardSame
<1>4. CASE ~Mine(w)
  BY <1>1, <1>3, <1>4, Stutters
<1>5. CASE Mine(w)
  <2>1. AnswerOf(d) = "none"
    BY <1>1, <1>5, HeardNothing DEF Hears, Mine, AtWork
  <2>2. Hears(w, d)'
    BY <1>1, <1>5 DEF Hears, Mine, TypeOK
  <2>3. AnswerOf(d)' = said
    BY <1>1, <1>2, <2>2, HeardOfNext DEF TypeOK
  <2>4. state[d] = "SENDING"
    BY <1>5 DEF Mine
  <2>5. [e \in Deliveries |-> AnswerOf(e)'] =
          [[e \in Deliveries |-> AnswerOf(e)] EXCEPT ![d] = said]
    BY <1>3, <2>3
  <2>6. QED
    BY <1>1, <2>1, <2>4, <2>5 DEF Promise!Answer, StageOf
<1>6. QED
  BY <1>4, <1>5

(* A worker that returns having heard takes its answer with it, and        *)
(* nobody else's is any different.                                         *)
LEMMA ReturnSilences ==
  ASSUME Inv, NEW w \in Workers, NEW d \in Deliveries, d = job[w],
         Return(w), UNCHANGED claimed_at,
         pc[w] = "finishing", Mine(w),
         \A e \in Deliveries \ {d} : state'[e] = state[e]
  PROVE  /\ AnswerOf(d) = outcome[w] /\ outcome[w] \in Outcomes
         /\ AnswerOf(d)' = "none"
         /\ \A e \in Deliveries \ {d} : AnswerOf(e)' = AnswerOf(e)
<1> USE DEF Inv, ClaimInv, Typed
<1>1. d \in Deliveries /\ state[d] = "SENDING" /\ claimed_at[d] = now[w] /\ now[w].by = w
  BY DEF AtWork, Mine
<1>2. /\ pc'[w] = "idle"
      /\ \A v \in Workers \ {w} :
           pc'[v] = pc[v] /\ job'[v] = job[v] /\ now'[v] = now[v] /\ outcome'[v] = outcome[v]
  BY ReturnType
<1>3. AnswerOf(d) = outcome[w] /\ outcome[w] \in Outcomes
  BY <1>1, HeardOf DEF Hears, HasAnswer
<1>4. AnswerOf(d)' = "none"
  <2>1. ASSUME NEW v \in Workers PROVE ~Hears(v, d)'
    <3>1. CASE v = w
      BY <1>2, <3>1 DEF Hears
    <3>2. CASE v # w
      BY <1>1, <1>2, <3>2 DEF Hears, Mine, AtWork
    <3>3. QED
      BY <3>1, <3>2
  <2>2. QED
    BY <2>1, HeardNothingNext
<1>5. ASSUME NEW e \in Deliveries \ {d}
      PROVE  AnswerOf(e)' = AnswerOf(e)
  <2>1. ASSUME NEW v \in Workers
        PROVE  /\ Hears(v, e)' <=> Hears(v, e)
               /\ Hears(v, e) => outcome'[v] = outcome[v]
    <3>1. CASE v = w
      BY <1>2, <3>1, <1>5 DEF Hears
    <3>2. CASE v # w
      BY <1>2, <3>2, <1>5 DEF Hears, Mine
    <3>3. QED
      BY <3>1, <3>2
  <2>2. QED
    BY <2>1, HeardSame
<1>6. QED
  BY <1>1, <1>3, <1>4, <1>5

(* The result is the one heard, of the run as it is on the row.            *)
LEMMA FinishSettles ==
  ASSUME Inv, NEW w \in Workers, NEW d \in Deliveries, d = job[w], Finish(w)
  PROVE  Promise!Settle(d)
<1> USE DeliveryAssumption DEF Inv, ClaimInv, Typed
<1>1. /\ d \in Deliveries /\ pc[w] = "finishing" /\ Mine(w) /\ state[d] = "SENDING"
      /\ state' = [state EXCEPT ![d] = After(w)]
      /\ Return(w)
      /\ UNCHANGED <<claimed_at, attempt_count, attempts_before_run>>
  BY DEF Finish, AtWork, Mine
<1>2. /\ row[w].attempt_count = attempt_count[d]
      /\ row[w].attempts_before_run = attempts_before_run[d]
  BY <1>1 DEF CopyCurrent, InFlight
<1>3. \A e \in Deliveries \ {d} : state'[e] = state[e]
  BY <1>1 DEF TypeOK
<1>4. /\ AnswerOf(d) = outcome[w] /\ outcome[w] \in Outcomes /\ AnswerOf(d)' = "none"
      /\ \A e \in Deliveries \ {d} : AnswerOf(e)' = AnswerOf(e)
  BY <1>1, <1>3, ReturnSilences
<1>5. attempt_count[d] \in Nat /\ attempts_before_run[d] \in Nat /\ MaxAttempts \in Nat
  BY <1>1 DEF TypeOK
<1>6. StageOf[After(w)] = Promise!AfterAnswer(d)
  <2>1. StageOf[After(w)] =
          IF outcome[w] = "ok" THEN "sent"
          ELSE IF outcome[w] = "permanent" THEN "abandoned"
          ELSE IF attempt_count[d] - attempts_before_run[d] < MaxAttempts
            THEN "waiting" ELSE "abandoned"
    BY <1>1, <1>2, <1>4, <1>5 DEF After, StageOf, Outcomes
  <2>2. QED
    BY <1>4, <2>1 DEF Promise!AfterAnswer, Promise!AfterFailure
<1>7. outcome[w] # "none"
  BY <1>4 DEF Outcomes
<1>8. [e \in Deliveries |-> StageOf[state'[e]]] =
        [[e \in Deliveries |-> StageOf[state[e]]] EXCEPT ![d] = StageOf[After(w)]]
  BY <1>1 DEF TypeOK
<1>9. [e \in Deliveries |-> AnswerOf(e)'] =
        [[e \in Deliveries |-> AnswerOf(e)] EXCEPT ![d] = "none"]
  BY <1>1, <1>4
<1>10. UNCHANGED [e \in Deliveries |-> attempt_count[e] - attempts_before_run[e]]
  BY <1>1
<1>11. StageOf[state[d]] = "trying"
  BY <1>1 DEF StageOf
<1>12. QED
  BY <1>4, <1>6, <1>7, <1>8, <1>9, <1>10, <1>11 DEF Promise!Settle

(* A worker that dies takes what it heard with it.                         *)
LEMMA CrashLoses ==
  ASSUME Inv, NEW w \in Workers, NEW d \in Deliveries, d = job[w], Crash(w)
  PROVE  Promise!LoseAnswer(d) \/ UNCHANGED Promise!outboxVars
<1> USE DEF Inv, ClaimInv, Typed
<1>1. Return(w) /\ UNCHANGED rowVars
  BY DEF Crash
<1>2. CASE ~(pc[w] = "finishing" /\ Mine(w))
  BY <1>1, <1>2, ReturnStutters
<1>3. CASE pc[w] = "finishing" /\ Mine(w)
  <2>1. /\ d \in Deliveries
        /\ AnswerOf(d) = outcome[w] /\ outcome[w] \in Outcomes /\ AnswerOf(d)' = "none"
        /\ \A e \in Deliveries \ {d} : AnswerOf(e)' = AnswerOf(e)
    BY <1>1, <1>3, ReturnSilences DEF rowVars
  <2>2. outcome[w] # "none" /\ state[d] = "SENDING"
    BY <1>3, <2>1 DEF Outcomes, Mine
  <2>3. [e \in Deliveries |-> AnswerOf(e)'] =
          [[e \in Deliveries |-> AnswerOf(e)] EXCEPT ![d] = "none"]
    BY <2>1
  <2>4. QED
    BY <1>1, <2>1, <2>2, <2>3 DEF Promise!LoseAnswer, StageOf, rowVars
<1>4. QED
  BY <1>2, <1>3

-----------------------------------------------------------------------------
(* The reaper takes tries back, and with them what their workers heard:    *)
(* none of them holds its claim any more.                                  *)
LEMMA TakenBack ==
  ASSUME Inv, NEW taken \in SUBSET Deliveries,
         \A d \in taken : state[d] = "SENDING" /\ state'[d] # "SENDING",
         \A d \in Deliveries \ taken : state'[d] = state[d],
         UNCHANGED <<claimed_at, workerVars>>
  PROVE  \A d \in Deliveries : AnswerOf(d)' = IF d \in taken THEN "none" ELSE AnswerOf(d)
<1>1. ASSUME NEW d \in taken PROVE AnswerOf(d)' = "none"
  BY <1>1, HeardNothingNext DEF Hears, Mine, workerVars
<1>2. ASSUME NEW d \in Deliveries \ taken PROVE AnswerOf(d)' = AnswerOf(d)
  <2>1. ASSUME NEW v \in Workers
        PROVE  /\ Hears(v, d)' <=> Hears(v, d)
               /\ Hears(v, d) => outcome'[v] = outcome[v]
    BY <1>2, <2>1 DEF Hears, Mine, workerVars
  <2>2. QED
    BY <2>1, HeardSame
<1>3. QED
  BY <1>1, <1>2

LEMMA AbandonTakesBack ==
  ASSUME Inv, ReapAbandon
  PROVE  \E taken \in SUBSET Deliveries : Promise!TakeBack(taken)
<1> USE DeliveryAssumption DEF Inv, ClaimInv, Typed
<1>1. PICK T \in SUBSET Deliveries : T = {d \in Deliveries : Stranded(d) /\ Spent(d)}
  OBVIOUS
<1>2. /\ state' = [d \in Deliveries |-> IF d \in T THEN "ABANDONED" ELSE state[d]]
      /\ UNCHANGED <<attempt_count, attempts_before_run, claimed_at, workerVars>>
  BY <1>1 DEF ReapAbandon
<1>3. \A d \in T : /\ state[d] = "SENDING"
                   /\ ~(attempt_count[d] - attempts_before_run[d] < MaxAttempts)
  BY <1>1 DEF Stranded, Spent, TypeOK
<1>4. \A d \in Deliveries : AnswerOf(d)' = IF d \in T THEN "none" ELSE AnswerOf(d)
  BY <1>2, <1>3, TakenBack
<1>5. Promise!TakeBack(T)
  BY <1>2, <1>3, <1>4 DEF Promise!TakeBack, Promise!AfterFailure, StageOf
<1>6. QED
  BY <1>5

(* What is released has a try left: what had none was abandoned by the     *)
(* statement before, and no claim in between is old enough.                *)
LEMMA ReleaseTakesBack ==
  ASSUME Inv, ReapRelease
  PROVE  \E taken \in SUBSET Deliveries : Promise!TakeBack(taken)
<1> USE DeliveryAssumption DEF Inv, ClaimInv, Typed
<1>1. PICK T \in SUBSET Deliveries : T = {d \in Deliveries : Stranded(d)}
  OBVIOUS
<1>2. /\ state' = [d \in Deliveries |-> IF d \in T THEN "PENDING" ELSE state[d]]
      /\ reaper = "release"
      /\ UNCHANGED <<attempt_count, attempts_before_run, claimed_at, workerVars>>
  BY <1>1 DEF ReapRelease
<1>3. \A d \in T : /\ state[d] = "SENDING"
                   /\ attempt_count[d] - attempts_before_run[d] < MaxAttempts
  BY <1>1, <1>2 DEF RunInv, SpentReaped, Stranded, Spent, TypeOK
<1>4. \A d \in Deliveries : AnswerOf(d)' = IF d \in T THEN "none" ELSE AnswerOf(d)
  BY <1>2, <1>3, TakenBack
<1>5. Promise!TakeBack(T)
  BY <1>2, <1>3, <1>4 DEF Promise!TakeBack, Promise!AfterFailure, StageOf
<1>6. QED
  BY <1>5

(* A retry by hand is the only step that starts a run.                     *)
LEMMA RetryRetries ==
  ASSUME Inv, NEW d \in Deliveries, Retry(d)
  PROVE  Promise!Retry(d)
<1> USE DEF Inv, ClaimInv, Typed
<1>1. /\ state[d] = "ABANDONED" /\ state' = [state EXCEPT ![d] = "PENDING"]
      /\ attempts_before_run' = [attempts_before_run EXCEPT ![d] = attempt_count[d]]
      /\ UNCHANGED <<attempt_count, claimed_at, workerVars>>
  BY DEF Retry
<1>2. ASSUME NEW e \in Deliveries PROVE AnswerOf(e)' = AnswerOf(e)
  <2>1. ASSUME NEW v \in Workers
        PROVE  /\ Hears(v, e)' <=> Hears(v, e)
               /\ Hears(v, e) => outcome'[v] = outcome[v]
    BY <1>1 DEF Hears, Mine, workerVars, TypeOK
  <2>2. QED
    BY <2>1, HeardSame
<1>3. [e \in Deliveries |-> StageOf[state'[e]]] =
        [[e \in Deliveries |-> StageOf[state[e]]] EXCEPT ![d] = "waiting"]
  BY <1>1 DEF StageOf, TypeOK
<1>4. \A e \in Deliveries :
        attempt_count'[e] - attempts_before_run'[e] =
          IF e = d THEN 0 ELSE attempt_count[e] - attempts_before_run[e]
  BY <1>1 DEF TypeOK
<1>5. [e \in Deliveries |-> attempt_count'[e] - attempts_before_run'[e]] =
        [[e \in Deliveries |-> attempt_count[e] - attempts_before_run[e]] EXCEPT ![d] = 0]
  BY <1>4
<1>6. StageOf[state[d]] = "abandoned"
  BY <1>1 DEF StageOf
<1>7. QED
  BY <1>2, <1>3, <1>5, <1>6 DEF Promise!Retry

LEMMA SameStutters ==
  ASSUME UNCHANGED <<rowVars, workerVars>>
  PROVE  UNCHANGED Promise!outboxVars
<1>1. ASSUME NEW d \in Deliveries, NEW v \in Workers
      PROVE  /\ Hears(v, d)' <=> Hears(v, d)
             /\ Hears(v, d) => outcome'[v] = outcome[v]
  BY DEF Hears, Mine, rowVars, workerVars
<1>2. QED
  BY <1>1, HeardSame, Stutters DEF rowVars

-----------------------------------------------------------------------------
LEMMA InitImplements == Init => Promise!Init
<1> SUFFICES ASSUME Init PROVE Promise!Init
  OBVIOUS
<1>1. ASSUME NEW d \in Deliveries PROVE AnswerOf(d) = "none"
  BY HeardNothing DEF Init, Hears
<1>2. QED
  BY <1>1 DEF Init, Promise!Init, StageOf

LEMMA StepImplements ==
  ASSUME Inv, [Next]_vars
  PROVE  [Promise!Next]_(Promise!outboxVars)
<1>0. \A w \in Workers : pc[w] # "idle" => job[w] \in Deliveries
  BY DEF Inv, ClaimInv, Typed, AtWork
<1>1. ASSUME NEW w \in Workers, NEW d \in Deliveries, Begin(w, d)
      PROVE  UNCHANGED Promise!outboxVars
  BY <1>1, BeginStutters
<1>2. ASSUME NEW w \in Workers, Claim(w)
      PROVE  Promise!Next
  <2>1. PICK d \in Deliveries : d = job[w]
    BY <1>0, <1>2 DEF Claim
  <2>2. QED
    BY <1>2, <2>1, ClaimTries DEF Promise!Next
<1>3. ASSUME NEW w \in Workers, NothingToClaim(w) \/ Superseded(w)
      PROVE  UNCHANGED Promise!outboxVars
  BY <1>3, ReturnStutters DEF NothingToClaim, Superseded
<1>4. ASSUME NEW w \in Workers, NEW said \in Outcomes, Attempt(w, said)
      PROVE  Promise!Next \/ UNCHANGED Promise!outboxVars
  <2>1. PICK d \in Deliveries : d = job[w]
    BY <1>0, <1>4 DEF Attempt
  <2>2. QED
    BY <1>4, <2>1, AttemptAnswers DEF Promise!Next, Promise!Answers, Outcomes
<1>5. ASSUME NEW w \in Workers, Finish(w)
      PROVE  Promise!Next
  <2>1. PICK d \in Deliveries : d = job[w]
    BY <1>0, <1>5 DEF Finish
  <2>2. QED
    BY <1>5, <2>1, FinishSettles DEF Promise!Next
<1>6. ASSUME NEW w \in Workers, Crash(w)
      PROVE  Promise!Next \/ UNCHANGED Promise!outboxVars
  <2>1. PICK d \in Deliveries : d = job[w]
    BY <1>0, <1>6 DEF Crash
  <2>2. QED
    BY <1>6, <2>1, CrashLoses DEF Promise!Next
<1>7. CASE ReapAbandon
  BY <1>7, AbandonTakesBack DEF Promise!Next
<1>8. CASE ReapRelease
  BY <1>8, ReleaseTakesBack DEF Promise!Next
<1>9. CASE ReapAsk \/ ReaperCrash \/ LoseTask \/ UNCHANGED vars
  BY <1>9, SameStutters DEF ReapAsk, ReaperCrash, LoseTask, vars
<1>10. ASSUME NEW d \in Deliveries, Retry(d)
       PROVE  Promise!Next
  BY <1>10, RetryRetries DEF Promise!Next
<1>11. CASE Tick
  BY <1>11, TickStutters
<1>12. QED
  BY <1>1, <1>2, <1>3, <1>4, <1>5, <1>6, <1>7, <1>8, <1>9, <1>10, <1>11 DEF Next, Send, Reap

(* Whatever the workers, the reaper, the broker and retries do, a delivery *)
(* goes through nothing Outbox does not allow: sent only on the channel's  *)
(* word, given up only for a permanent refusal or a spent run, and tried   *)
(* again only within the run.                                              *)
THEOREM DeliveryImplementsOutbox == PauseBound <= StrandedAfter => (Spec => ImplementsOutbox)
<1> SUFFICES ASSUME PauseBound <= StrandedAfter PROVE Spec => ImplementsOutbox
  OBVIOUS
<1>1. Typed /\ HasAnswer /\ [Next]_vars => HasAnswer'
  BY StepAnswer
<1>2. ClaimInv /\ RunInv => Typed
  BY DEF ClaimInv
<1>3. Spec => []Inv
  BY RunInvariant, InitAnswer, <1>1, <1>2, PTL DEF Spec, Inv
<1>4. Inv /\ [Next]_vars => [Promise!Next]_(Promise!outboxVars)
  BY StepImplements
<1>5. QED
  BY InitImplements, <1>3, <1>4, PTL DEF Spec, ImplementsOutbox, Promise!Spec
=============================================================================
