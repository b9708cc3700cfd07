------------------------------- MODULE Outbox -------------------------------
(***************************************************************************)
(* What the notifications app promises of a delivery, whatever becomes of  *)
(* the workers, tasks and reapers that carry it: it is tried at most       *)
(* MaxAttempts times in a run, it is called sent only on the channel's own *)
(* word, it is given up only for a permanent refusal or once its run is    *)
(* used up, and only a retry by hand starts another run.                   *)
(*                                                                         *)
(* There are no workers, claims, clocks or tasks here: Delivery has them,  *)
(* and implements this module.                                             *)
(***************************************************************************)
EXTENDS Naturals

CONSTANTS
  Deliveries,   \* the rows of the delivery table
  MaxAttempts   \* MAX_ATTEMPTS: tries in one run, at least 1

VARIABLES
  stage,    \* where each delivery stands
  tries,    \* the tries it has had in its current run
  answer    \* what the channel said of the try under way, once it has

outboxVars == <<stage, tries, answer>>

Stages  == {"waiting", "trying", "sent", "abandoned"}
Answers == {"ok", "failed", "permanent"}

Init ==
  /\ stage  = [d \in Deliveries |-> "waiting"]
  /\ tries  = [d \in Deliveries |-> 0]
  /\ answer = [d \in Deliveries |-> "none"]

(* Another try of the run begins, if the run has one left.                 *)
Try(d) ==
  /\ stage[d] = "waiting"
  /\ tries[d] < MaxAttempts
  /\ stage'  = [stage EXCEPT ![d] = "trying"]
  /\ tries'  = [tries EXCEPT ![d] = @ + 1]
  /\ UNCHANGED answer

Answer(d, said) ==
  /\ stage[d] = "trying"
  /\ answer[d] = "none"
  /\ answer' = [answer EXCEPT ![d] = said]
  /\ UNCHANGED <<stage, tries>>

(* Where a try that came to nothing leaves the delivery, and where one     *)
(* that was answered does.                                                 *)
AfterFailure(d) == IF tries[d] < MaxAttempts THEN "waiting" ELSE "abandoned"

AfterAnswer(d) ==
  IF answer[d] = "ok" THEN "sent"
  ELSE IF answer[d] = "permanent" THEN "abandoned"
  ELSE AfterFailure(d)

Settle(d) ==
  /\ stage[d] = "trying"
  /\ answer[d] # "none"
  /\ stage'  = [stage EXCEPT ![d] = AfterAnswer(d)]
  /\ answer' = [answer EXCEPT ![d] = "none"]
  /\ UNCHANGED tries

(* The try's worker is gone, and what it heard with it.                    *)
LoseAnswer(d) ==
  /\ stage[d] = "trying"
  /\ answer[d] # "none"
  /\ answer' = [answer EXCEPT ![d] = "none"]
  /\ UNCHANGED <<stage, tries>>

(* Tries are taken back, any number at once: each counts as one that came  *)
(* to nothing.                                                             *)
TakeBack(taken) ==
  /\ \A d \in taken : stage[d] = "trying"
  /\ stage'  = [d \in Deliveries |-> IF d \in taken THEN AfterFailure(d) ELSE stage[d]]
  /\ answer' = [d \in Deliveries |-> IF d \in taken THEN "none" ELSE answer[d]]
  /\ UNCHANGED tries

Retry(d) ==
  /\ stage[d] = "abandoned"
  /\ stage' = [stage EXCEPT ![d] = "waiting"]
  /\ tries' = [tries EXCEPT ![d] = 0]
  /\ UNCHANGED answer

Next ==
  \/ \E d \in Deliveries :
       \/ Try(d)
       \/ \E said \in Answers : Answer(d, said)
       \/ Settle(d)
       \/ LoseAnswer(d)
       \/ Retry(d)
  \/ \E taken \in SUBSET Deliveries : TakeBack(taken)

Spec == Init /\ [][Next]_outboxVars
=============================================================================
