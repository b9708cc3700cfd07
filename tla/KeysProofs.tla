----------------------------- MODULE KeysProofs -----------------------------
(***************************************************************************)
(* Theorems about Idempotency, for any number of requests under a key,     *)
(* whatever they ask for and whichever way claims are kept.  And about     *)
(* Uuid7, for any threads, clock and width of the counter: a process's     *)
(* keys sort in the order they are made.                                   *)
(***************************************************************************)
EXTENDS Idempotency, Uuid7, TLAPS

(* No claim stands while one is inserted and not committed.                *)
Holding == holder # None => claim = None

(* A request has been answered only if it is over.                         *)
Unanswered == \A r \in Requests : pc[r] # "over" => answer[r] = "none"

(* Work is committed for a request that has only to be answered for it, or *)
(* is over, and is either done or refused.                                 *)
Committed(r) == r \in done \/ r \in refused

Answerable ==
  /\ \A r \in Requests : Committed(r) => pc[r] \in {"answering", "over"}
  /\ \A r \in Requests : pc[r] = "answering" => Committed(r)
  /\ done \intersect refused = {}

IInv == TypeOK /\ Holding /\ Unanswered /\ Answerable /\ SpentOnce /\ AnswersTrue

-----------------------------------------------------------------------------
LEMMA InitHolds == Init => IInv
BY IdempotencyAssumption
DEF Init, IInv, TypeOK, Holding, Unanswered, Answerable, Committed, SpentOnce, AnswersTrue, InTransaction, Answers

(* A standing claim is of work that was done, by a request that is over or *)
(* has only to be answered.                                                *)
LEMMA ClaimantOver ==
  ASSUME IInv, claim # None
  PROVE  claim \in done /\ pc[claim] \in {"answering", "over"}
BY DEF IInv, TypeOK, SpentOnce, Answerable, Committed

(* A transaction that ends without a trace: the request is over, answered  *)
(* with something that claims nothing that is not so.                      *)
LEMMA RolledBack ==
  ASSUME IInv,
         NEW r \in Requests, pc[r] \notin {"answering", "over"},
         NEW with \in Answers \ {"done", "replayed"},
         with \in {"reused", "not_replayable", "gone"} => claim # None,
         RollsBack(r, with)
  PROVE  IInv'
<1>1. TypeOK'
  BY IdempotencyAssumption DEF IInv, TypeOK, Holding, RollsBack, Ends, Released, db, InTransaction
<1>2. Holding' /\ Unanswered' /\ Answerable' /\ SpentOnce'
  BY DEF IInv, TypeOK, Holding, Unanswered, Answerable, Committed, SpentOnce, RollsBack, Ends, Released, db, InTransaction
<1>3. r \notin done /\ r \notin refused
  BY DEF IInv, TypeOK, Unanswered, Answerable, Committed, AnswersTrue
<1>4. with \in {"reused", "not_replayable", "gone"} => done \ {r} # {}
  BY ClaimantOver, <1>3
<1>5. AnswersTrue'
  <2> SUFFICES ASSUME NEW s \in Requests
               PROVE  /\ answer'[s] = "done" => s \in done
                      /\ s \in done => answer'[s] \in {"none", "done", "error"}
                      /\ answer'[s] = "replayed" =>
                           replayOf[s] \in done /\ FingerprintOf[replayOf[s]] = FingerprintOf[s]
                      /\ answer'[s] \in {"reused", "not_replayable", "gone"} => done \ {s} # {}
                      /\ s \in refused => answer'[s] \in {"none", "refused", "error"}
    BY DEF AnswersTrue, RollsBack, db
  <2>1. CASE s = r
    BY <2>1, <1>3, <1>4 DEF RollsBack, Ends, IInv, TypeOK, Answers
  <2>2. CASE s # r
    BY <2>2 DEF RollsBack, Ends, IInv, TypeOK, AnswersTrue
  <2> QED BY <2>1, <2>2
<1> QED BY <1>1, <1>2, <1>5 DEF IInv

LEMMA StepHolds == IInv /\ [Next]_vars => IInv'
<1> SUFFICES ASSUME IInv, [Next]_vars
             PROVE  IInv'
  OBVIOUS
<1> USE IdempotencyAssumption
<1>1. ASSUME NEW r \in Requests, Insert(r)
      PROVE  IInv'
  BY <1>1 DEF Insert, Blocked, db, IInv, TypeOK, Holding, Unanswered, Answerable, Committed, SpentOnce, AnswersTrue, InTransaction
<1>2. ASSUME NEW r \in Requests, Collide(r)
      PROVE  IInv'
  BY <1>2 DEF Collide, Blocked, db, IInv, TypeOK, Holding, Unanswered, Answerable, Committed, SpentOnce, AnswersTrue, InTransaction
<1>3. ASSUME NEW r \in Requests, LockTimesOut(r)
      PROVE  IInv'
  BY <1>3, RolledBack DEF LockTimesOut, Answers
<1>4. ASSUME NEW r \in Requests, FindsNothing(r)
      PROVE  IInv'
  BY <1>4, RolledBack DEF FindsNothing, Answers
<1>5. ASSUME NEW r \in Requests, Refuses(r)
      PROVE  IInv'
  <2>1. PICK with \in {"reused", "not_replayable", "refused"} : RollsBack(r, with)
    BY <1>5 DEF Refuses
  <2> QED BY <1>5, <2>1, RolledBack DEF Refuses, Answers
<1>6. ASSUME NEW r \in Requests, Replays(r)
      PROVE  IInv'
  <2>1. CASE RollsBack(r, "gone")
    BY <1>6, <2>1, RolledBack DEF Replays, Answers
  <2>2. CASE /\ Ends(r, "replayed")
             /\ replayOf' = [replayOf EXCEPT ![r] = claim]
             /\ UNCHANGED <<db, holder>>
    <3>1. claim \in done /\ claim \in Requests /\ pc[r] = "collided" /\ FingerprintOf[claim] = FingerprintOf[r]
      BY <1>6, ClaimantOver DEF Replays, SameRequest, IInv, TypeOK
    <3>2. r \notin done /\ r \notin refused
      BY <3>1 DEF IInv, TypeOK, Unanswered, Answerable, Committed, AnswersTrue
    <3>3. TypeOK' /\ Holding' /\ Unanswered' /\ Answerable' /\ SpentOnce'
      BY <2>2, <3>1
      DEF Ends, db, IInv, TypeOK, Holding, Unanswered, Answerable, Committed, SpentOnce, InTransaction, Answers
    <3>4. AnswersTrue'
      BY <2>2, <3>1, <3>2 DEF Ends, db, IInv, TypeOK, AnswersTrue
    <3> QED BY <3>3, <3>4 DEF IInv
  <2> QED BY <1>6, <2>1, <2>2 DEF Replays
<1>7. ASSUME NEW r \in Requests, Raises(r)
      PROVE  IInv'
  BY <1>7, RolledBack DEF Raises, Answers
<1>8. ASSUME NEW r \in Requests, Returns(r)
      PROVE  IInv'
  BY <1>8 DEF Returns, db, IInv, TypeOK, Holding, Unanswered, Answerable, Committed, SpentOnce, AnswersTrue, InTransaction
<1>9. ASSUME NEW r \in Requests, Commit(r)
      PROVE  IInv'
  <2>1. holder = r /\ claim = None /\ r # None /\ pc[r] \in InTransaction
    BY <1>9 DEF Commit, IInv, TypeOK, Holding, InTransaction
  <2>2. r \notin done /\ r \notin refused /\ r \notin purged
    BY <2>1 DEF IInv, TypeOK, InTransaction, Answerable, Committed, SpentOnce
  <2>3. done \ purged = {} /\ purged \subseteq done
    BY <2>1 DEF IInv, SpentOnce
  <2>4. CASE pc[r] = "recorded"
    <3> USE <1>9, <2>1, <2>2, <2>3, <2>4 DEF Commit, Released, IInv
    <3>1. TypeOK' /\ Holding' /\ Unanswered' /\ Answerable'
      BY DEF TypeOK, Holding, Unanswered, Answerable, Committed, InTransaction, Answers
    <3>2. SpentOnce'
      BY DEF SpentOnce
    <3>3. AnswersTrue'
      BY DEF TypeOK, Unanswered, AnswersTrue, InTransaction
    <3> QED BY <3>1, <3>2, <3>3
  <2>5. CASE pc[r] = "released"
    <3> USE <1>9, <2>1, <2>2, <2>3, <2>5 DEF Commit, Released, ReleasedClaim, IInv
    <3>1. TypeOK' /\ Holding' /\ Unanswered' /\ Answerable'
      BY DEF TypeOK, Holding, Unanswered, Answerable, Committed, InTransaction, Answers
    <3>2. SpentOnce'
      BY DEF SpentOnce
    <3>3. AnswersTrue'
      BY DEF TypeOK, Unanswered, AnswersTrue, InTransaction
    <3> QED BY <3>1, <3>2, <3>3
  <2> QED BY <1>9, <2>4, <2>5 DEF Commit
<1>10. ASSUME NEW r \in Requests, Crash(r)
       PROVE  IInv'
  <2>1. CASE pc[r] = "answering"
    BY <1>10, <2>1
    DEF Crash, RollsBack, Ends, Released, db, IInv, TypeOK, Holding, Unanswered, Answerable, Committed,
        SpentOnce, AnswersTrue, InTransaction, Answers
  <2>2. CASE pc[r] # "answering"
    BY <1>10, <2>2, RolledBack DEF Crash, Answers
  <2> QED BY <2>1, <2>2
<1>11. ASSUME NEW r \in Requests, DeleteRow(r)
       PROVE  IInv'
  BY <1>11 DEF DeleteRow, IInv, TypeOK, Holding, Unanswered, Answerable, Committed, SpentOnce, AnswersTrue, InTransaction
<1>12. CASE Purge
  <2>1. claim \in done
    BY <1>12, ClaimantOver DEF Purge
  <2>2. SpentOnce'
    BY <1>12, <2>1 DEF Purge, IInv, SpentOnce
  <2>3. (TypeOK /\ Holding /\ Unanswered /\ Answerable /\ AnswersTrue)'
    BY <1>12 DEF Purge, IInv, TypeOK, Holding, Unanswered, Answerable, Committed, AnswersTrue, InTransaction
  <2> QED BY <2>2, <2>3 DEF IInv
<1>13. CASE UNCHANGED vars
  BY <1>13 DEF vars, db, IInv, TypeOK, Holding, Unanswered, Answerable, Committed, SpentOnce, AnswersTrue, InTransaction
<1>14. ASSUME NEW r \in Requests, Respond(r)
       PROVE  IInv'
  <2> DEFINE with == IF r \in done THEN "done" ELSE "refused"
  <2>1. answer' = [answer EXCEPT ![r] = with] /\ pc' = [pc EXCEPT ![r] = "over"]
    BY <1>14 DEF Respond, Ends
  <2>2. UNCHANGED <<db, holder, replayOf>> /\ pc[r] = "answering" /\ Committed(r)
    BY <1>14 DEF Respond, IInv, Answerable
  <2>3. (r \in done => with = "done") /\ (r \in refused => with = "refused") /\ with \in {"done", "refused"}
        /\ (with = "done" => r \in done)
    BY <2>2 DEF Committed, IInv, Answerable
  <2> HIDE DEF with
  <2>4. (TypeOK /\ Holding /\ Unanswered /\ Answerable /\ SpentOnce)'
    BY <2>1, <2>2, <2>3
    DEF db, IInv, TypeOK, Holding, Unanswered, Answerable, Committed, SpentOnce, InTransaction, Answers
  <2>5. AnswersTrue'
    BY <2>1, <2>2, <2>3 DEF db, IInv, TypeOK, AnswersTrue
  <2> QED BY <2>4, <2>5 DEF IInv
<1> QED
  BY <1>1, <1>2, <1>3, <1>4, <1>5, <1>6, <1>7, <1>8, <1>9, <1>10, <1>11, <1>12, <1>13, <1>14
  DEF Next, Serve

LEMMA Invariant == Spec => []IInv
BY InitHolds, StepHolds, PTL DEF Spec

(* A key is spent once: of the work done under it and answered as done,    *)
(* all but what the standing claim is of had its claim deleted, and no     *)
(* claim stands for less - whatever waits, fails, times out or dies.       *)
THEOREM KeySpentOnce == Spec => []SpentOnce
<1>1. IInv => SpentOnce
  BY DEF IInv
<1> QED BY Invariant, <1>1, PTL

(* What a request is told of its work, or of another's, is so; and one     *)
(* whose work is committed is told just that, or nothing.                  *)
THEOREM AnswersAreTrue == Spec => []AnswersTrue
<1>1. IInv => AnswersTrue
  BY DEF IInv
<1> QED BY Invariant, <1>1, PTL

(* The handler runs for one request at a time, and under no claim.         *)
THEOREM HandlesOneAtATime == Spec => []OneAtATime
<1>1. IInv => OneAtATime
  BY IdempotencyAssumption DEF IInv, TypeOK, Holding, OneAtATime
<1> QED BY Invariant, <1>1, PTL


-----------------------------------------------------------------------------
(***************************************************************************)
(* uuid7()'s keys.  A key is its time, its count and random bits, each in  *)
(* a field that its neighbours cannot spill into, so keys are ordered as   *)
(* the times and counts are - as long as no count of milliseconds ahead of *)
(* the clock goes past the last time the key's first field can hold.       *)
(***************************************************************************)
Times == 0..2^TIME_BITS - 1
Counts_To == 0..2^COUNTER_BITS - 1
Half == 2^(COUNTER_BITS - 1)
Later_Pair(one, count, other, counted) == one < other \/ (one = other /\ count < counted)

LEMMA PowersAre ==
    /\ Half \in Nat \ {0, 1} /\ 2^COUNTER_BITS = 2 * Half /\ 2^COUNTER_BITS \in Nat \ {0, 1}
    /\ 2^TIME_BITS \in Nat \ {0, 1} /\ 2^RANDOM_BITS \in Nat \ {0, 1}
    /\ 2^RAND_A_BITS \in Nat \ {0, 1} /\ 2^RAND_B_BITS \in Nat \ {0, 1}
<1>1. Half \in Nat \ {0, 1} /\ 2^COUNTER_BITS = 2 * Half
  BY PowersAssumption DEF Half
<1> QED BY <1>1, PowersAssumption

\* What is packed above decides, and what is packed below when that is the same.
LEMMA PackedGrows ==
    ASSUME NEW high \in Nat, NEW high2 \in Nat, NEW low \in Nat, NEW low2 \in Nat, NEW bits,
           2^bits \in Nat \ {0}, low < 2^bits, high < high2 \/ (high = high2 /\ low < low2)
    PROVE  Packed(high, bits, low) < Packed(high2, bits, low2)
<1> DEFINE P == 2^bits
<1>1. P \in Nat \ {0} /\ low < P
  OBVIOUS
<1> HIDE DEF P
<1>2. CASE high = high2 /\ low < low2
  <2>1. high * P \in Nat
    BY <1>1
  <2> QED BY <1>2, <2>1 DEF Packed, P
<1>3. CASE high < high2
  <2>1. PICK more \in Nat : high2 = (high + 1) + more
    BY <1>3
  <2>2. high2 * P = high * P + P + more * P /\ high * P \in Nat /\ more * P \in Nat
    BY <1>1, <2>1
  <2>3. high * P + low < high2 * P + low2
    <3> DEFINE A == high * P
               B == more * P
               D == high2 * P
    <3>1. A \in Nat /\ B \in Nat /\ D = A + P + B
      BY <2>2
    <3> HIDE DEF A, B, D
    <3>2. A + low < D + low2
      BY <1>1, <3>1
    <3> QED BY <3>2 DEF A, D
  <2> QED BY <2>3 DEF Packed, P
<1> QED BY <1>2, <1>3

LEMMA PackedIs ==
    ASSUME NEW high \in Nat, NEW low \in Nat, NEW bits, 2^bits \in Nat PROVE Packed(high, bits, low) \in Nat
BY DEF Packed

\* Division by the lower field's size: what is above it and what is in it.
LEMMA DividedIs ==
    ASSUME NEW a \in Nat, NEW b \in Nat \ {0}
    PROVE  a \div b \in Nat /\ a % b \in 0..b - 1 /\ a = b * (a \div b) + (a % b)
OBVIOUS

LEMMA DividedGrows ==
    ASSUME NEW a \in Nat, NEW c \in Nat, NEW b \in Nat \ {0}, a < c
    PROVE  a \div b < c \div b \/ (a \div b = c \div b /\ a % b < c % b)
<1> DEFINE q == a \div b
           r == a % b
           q2 == c \div b
           r2 == c % b
<1>1. q \in Nat /\ q2 \in Nat /\ r \in 0..b - 1 /\ r2 \in 0..b - 1 /\ a = b * q + r /\ c = b * q2 + r2
  BY DividedIs
<1> HIDE DEF q, r, q2, r2
<1>2. CASE q2 < q
  <2>1. PICK more \in Nat : q = (q2 + 1) + more
    BY <1>1, <1>2
  <2>2. b * q = b * q2 + b + b * more /\ b * more \in Nat /\ b * q2 \in Nat
    BY <1>1, <2>1
  <2> DEFINE Q == b * q
             Q2 == b * q2
             M == b * more
  <2>3. Q = Q2 + b + M /\ M \in Nat /\ Q2 \in Nat /\ a = Q + r /\ c = Q2 + r2
    BY <1>1, <2>2
  <2> HIDE DEF Q, Q2, M
  <2> QED BY <1>1, <2>3
<1>3. CASE q2 = q
  <2> DEFINE Q == b * q
  <2>1. Q \in Nat /\ a = Q + r /\ c = Q + r2
    BY <1>1, <1>3
  <2> HIDE DEF Q
  <2>2. r < r2
    BY <1>1, <2>1
  <2> QED BY <1>3, <2>2 DEF q, r, q2, r2
<1>4. CASE q < q2
  BY <1>4 DEF q, q2
<1> QED BY <1>1, <1>2, <1>3, <1>4

LEMMA ValueIs ==
    ASSUME NEW time \in Times, NEW count \in Counts_To, NEW random \in 0..2^RANDOM_BITS - 1
    PROVE  Value(time, count, random) \in Nat
<1>1. time \in Nat /\ count \in Nat /\ random \in Nat
  BY PowersAre DEF Times, Counts_To
<1>2. /\ time % 2^TIME_BITS \in Nat /\ count \div 2^RAND_B_BITS \in Nat /\ count % 2^RAND_B_BITS \in Nat
  <2>1. \A a \in Nat, b \in Nat \ {0, 1} : a \div b \in Nat /\ a % b \in Nat
    BY DividedIs
  <2> QED BY <1>1, <2>1, PowersAre
<1>3. 2^4 \in Nat /\ 2^2 \in Nat
  BY PowersAssumption
<1> QED BY <1>1, <1>2, <1>3, PowersAre, PackedIs DEF Value

LEMMA ValueGrows ==
    ASSUME NEW time \in Times, NEW count \in Counts_To, NEW random \in 0..2^RANDOM_BITS - 1,
           NEW time2 \in Times, NEW count2 \in Counts_To, NEW random2 \in 0..2^RANDOM_BITS - 1,
           Later_Pair(time, count, time2, count2)
    PROVE  Value(time, count, random) < Value(time2, count2, random2)
<1> DEFINE versioned(t) == Packed(t % 2^TIME_BITS, 4, 7)
           rand_a(t, c) == Packed(versioned(t), RAND_A_BITS, c \div 2^RAND_B_BITS)
           variant(t, c) == Packed(rand_a(t, c), 2, 2)
           rand_b(t, c) == Packed(variant(t, c), RAND_B_BITS, c % 2^RAND_B_BITS)
<1>1. /\ time \in Nat /\ count \in Nat /\ random \in Nat /\ random < 2^RANDOM_BITS
      /\ time2 \in Nat /\ count2 \in Nat /\ random2 \in Nat
  BY PowersAre DEF Times, Counts_To
<1>2. time % 2^TIME_BITS = time /\ time2 % 2^TIME_BITS = time2
  BY <1>1, PowersAre DEF Times
<1>3. /\ 2^4 \in Nat \ {0} /\ 2^2 \in Nat \ {0} /\ 7 < 2^4 /\ 2 < 2^2
  BY PowersAssumption
<1>4. \A c \in {count, count2} :
        /\ c \div 2^RAND_B_BITS \in Nat /\ c \div 2^RAND_B_BITS < 2^RAND_A_BITS
        /\ c % 2^RAND_B_BITS \in Nat /\ c % 2^RAND_B_BITS < 2^RAND_B_BITS
  <2> SUFFICES ASSUME NEW c \in Counts_To
               PROVE  /\ c \div 2^RAND_B_BITS \in Nat /\ c \div 2^RAND_B_BITS < 2^RAND_A_BITS
                      /\ c % 2^RAND_B_BITS \in Nat /\ c % 2^RAND_B_BITS < 2^RAND_B_BITS
    OBVIOUS
  <2> DEFINE A == 2^RAND_A_BITS
             B == 2^RAND_B_BITS
             q == c \div B
             r == c % B
  <2>1. A \in Nat \ {0} /\ B \in Nat \ {0} /\ c \in Nat /\ c < A * B
    BY PowersAre, PowersAssumption DEF Counts_To
  <2> HIDE DEF A, B
  <2>2. q \in Nat /\ r \in 0..B - 1 /\ c = B * q + r
    BY <2>1, DividedIs
  <2> HIDE DEF q, r
  <2>3. q < A
    <3> SUFFICES ASSUME A <= q PROVE FALSE
      BY <2>1, <2>2
    <3>1. PICK more \in Nat : q = A + more
      BY <2>1, <2>2
    <3>2. B * q = A * B + B * more /\ B * more \in Nat /\ A * B \in Nat
      BY <2>1, <3>1
    <3> DEFINE Q == B * q
               AB == A * B
               M == B * more
    <3>3. Q = AB + M /\ M \in Nat /\ AB \in Nat /\ c = Q + r /\ c < AB
      BY <2>1, <2>2, <3>2
    <3> HIDE DEF Q, AB, M
    <3> QED BY <2>1, <2>2, <3>3
  <2>4. r < B
    BY <2>1, <2>2
  <2> QED BY <2>2, <2>3, <2>4, <2>1 DEF q, r, A, B
<1>5. versioned(time) \in Nat /\ versioned(time2) \in Nat
  BY <1>1, <1>2, <1>3, PackedIs
<1>6. rand_a(time, count) \in Nat /\ rand_a(time2, count2) \in Nat
  BY <1>4, <1>5, PowersAre, PackedIs
<1>7. variant(time, count) \in Nat /\ variant(time2, count2) \in Nat
  BY <1>3, <1>6, PackedIs
<1>8. rand_b(time, count) \in Nat /\ rand_b(time2, count2) \in Nat
  BY <1>4, <1>7, PowersAre, PackedIs
<1>9. rand_a(time, count) < rand_a(time2, count2)
      \/ (rand_a(time, count) = rand_a(time2, count2) /\ count % 2^RAND_B_BITS < count2 % 2^RAND_B_BITS)
  <2>1. CASE time < time2
    <3>1. versioned(time) < versioned(time2)
      BY <1>1, <1>2, <1>3, <2>1, PackedGrows
    <3> QED BY <1>4, <1>5, <3>1, PowersAre, PackedGrows
  <2>2. CASE time = time2 /\ count < count2
    <3>1. \/ count \div 2^RAND_B_BITS < count2 \div 2^RAND_B_BITS
          \/ /\ count \div 2^RAND_B_BITS = count2 \div 2^RAND_B_BITS
             /\ count % 2^RAND_B_BITS < count2 % 2^RAND_B_BITS
      BY <1>1, <2>2, PowersAre, DividedGrows
    <3>2. CASE count \div 2^RAND_B_BITS < count2 \div 2^RAND_B_BITS
      BY <1>4, <1>5, <2>2, <3>2, PowersAre, PackedGrows
    <3> QED BY <2>2, <3>1, <3>2
  <2> QED BY <2>1, <2>2 DEF Later_Pair
<1>10. variant(time, count) < variant(time2, count2)
       \/ (variant(time, count) = variant(time2, count2) /\ count % 2^RAND_B_BITS < count2 % 2^RAND_B_BITS)
  <2>1. CASE rand_a(time, count) < rand_a(time2, count2)
    <3> HIDE DEF rand_a
    <3> QED BY <1>3, <1>6, <2>1, PackedGrows
  <2> QED BY <1>9, <2>1
<1>11. rand_b(time, count) < rand_b(time2, count2)
  <2> HIDE DEF variant
  <2> QED BY <1>4, <1>7, <1>10, PowersAre, PackedGrows
<1>12. Packed(rand_b(time, count), RANDOM_BITS, random) < Packed(rand_b(time2, count2), RANDOM_BITS, random2)
  <2> HIDE DEF rand_b
  <2> QED BY <1>1, <1>8, <1>11, PowersAre, PackedGrows
<1> QED BY <1>12 DEF Value

\* Room left before the field of the time runs out: a count begins in its lower half, so
\* half of one has gone by, and as many keys, for each millisecond ahead of the clock.
Room(time, count, made) ==
    /\ time \in Times /\ count \in Counts_To
    /\ time < 2^TIME_BITS - 1 => count + 1 <= Half \/ (made > 0 /\ count + 2 <= Half + made)
    /\ time = 2^TIME_BITS - 1 => count + 3 <= made
    /\ made = 0 => count = 0

UuidTyped ==
    /\ thread \in [Threads -> [at: {"idle", "read", "counted"}, milliseconds: Nat, counter: Nat]]
    /\ keys \in Seq(Nat)
\* Whoever is at a key holds the lock.
LockHeld == \A t \in Threads : thread[t].at # "idle" => _uuid7_lock = {t}
\* The time and count of the next key are later than the last key's.
NextIsLater ==
    \A t \in Threads :
        /\ thread[t].at # "idle" => Len(keys) < MaxKeys
        /\ thread[t].at = "read" => thread[t].milliseconds \in Milliseconds
        /\ thread[t].at = "counted" =>
            /\ Room(thread[t].milliseconds, thread[t].counter, Len(keys) + 1)
            /\ Later_Pair(_last_milliseconds, _last_counter, thread[t].milliseconds, thread[t].counter)
\* Every key there is sorts before any of a later time and count than the last's.
KeysBelow ==
    \A i \in DOMAIN keys : \A time \in Times, count \in Counts_To, random \in 0..2^RANDOM_BITS - 1 :
        Later_Pair(_last_milliseconds, _last_counter, time, count) => keys[i] < Value(time, count, random)

UuidInv ==
    /\ UuidTyped /\ LockHeld /\ NextIsLater /\ KeysBelow /\ KeysSortAsMade
    /\ Room(_last_milliseconds, _last_counter, Len(keys))

LEMMA UuidInitHolds == UuidInit => UuidInv
<1> SUFFICES ASSUME UuidInit PROVE UuidInv
  OBVIOUS
<1>1. UuidTyped /\ Len(keys) = 0 /\ DOMAIN keys = {}
  BY DEF UuidInit, UuidTyped, Waiting
<1>2. LockHeld /\ NextIsLater
  BY DEF UuidInit, LockHeld, NextIsLater, Waiting
<1>3. Room(0, 0, 0)
  BY PowersAre DEF Room, Times, Counts_To
<1> QED BY <1>1, <1>2, <1>3 DEF UuidInv, UuidInit, KeysBelow, KeysSortAsMade

LEMMA ReadsClockKeeps == ASSUME UuidInv, NEW t \in Threads, ReadsClock(t) PROVE UuidInv'
<1>1. PICK now \in Milliseconds :
        thread' = [thread EXCEPT ![t] = [at |-> "read", milliseconds |-> now, counter |-> 0]]
  BY DEF ReadsClock
<1>2. now \in Nat
  BY PowersAre DEF Milliseconds
<1>3. UuidTyped'
  BY <1>1, <1>2 DEF UuidInv, UuidTyped, ReadsClock
<1>4. \A s \in Threads : IF s = t THEN thread'[s] = [at |-> "read", milliseconds |-> now, counter |-> 0]
                         ELSE thread'[s] = thread[s] /\ thread[s].at = "idle"
  BY <1>1 DEF UuidInv, UuidTyped, LockHeld, ReadsClock
<1>5. LockHeld' /\ NextIsLater'
  BY <1>4 DEF LockHeld, NextIsLater, ReadsClock
<1> QED BY <1>3, <1>5 DEF UuidInv, ReadsClock, KeysBelow, KeysSortAsMade

\* The arithmetic of counting on: a count that has run out has used its upper half, and
\* there are not keys enough for two of them past the last time of the clock.
LEMMA CountsRoom ==
    ASSUME MaxKeys <= 2^COUNTER_BITS + 2, NEW last, NEW count, NEW made \in Nat, made < MaxKeys,
           Room(last, count, made), NEW now \in Milliseconds, NEW seed \in _counter_seed
    PROVE  /\ now > last => Room(now, seed, made + 1)
           /\ count + 1 >= 2^COUNTER_BITS => Room(last + 1, seed, made + 1)
           /\ count + 1 < 2^COUNTER_BITS => Room(last, count + 1, made + 1)
<1> DEFINE T == 2^TIME_BITS
           C == 2^COUNTER_BITS
           H == Half
<1>1. T \in Nat \ {0, 1} /\ H \in Nat \ {0, 1} /\ C = 2 * H /\ MaxKeys \in Nat /\ MaxKeys <= C + 2
  BY PowersAre, Uuid7Assumption
<1>2. last \in 0..T - 1 /\ count \in 0..C - 1 /\ now \in 0..T - 2 /\ seed \in 0..H - 1
  BY DEF Room, Times, Counts_To, Milliseconds, _counter_seed, Half
<1>3. /\ last < T - 1 => count + 1 <= H \/ (made > 0 /\ count + 2 <= H + made)
      /\ last = T - 1 => count + 3 <= made
      /\ made = 0 => count = 0
  BY DEF Room
<1> DEFINE Fits(time, c, n) ==
        /\ time \in 0..T - 1 /\ c \in 0..C - 1
        /\ time < T - 1 => c + 1 <= H \/ (n > 0 /\ c + 2 <= H + n)
        /\ time = T - 1 => c + 3 <= n
        /\ n = 0 => c = 0
<1>4. \A time, c, n : Room(time, c, n) <=> Fits(time, c, n)
  BY DEF Room, Times, Counts_To
<1> HIDE DEF T, C, H
<1>5. Fits(now, seed, made + 1)
  BY <1>1, <1>2
<1>6. ASSUME count + 1 >= C PROVE Fits(last + 1, seed, made + 1)
  BY <1>1, <1>2, <1>3, <1>6
<1>7. ASSUME count + 1 < C PROVE Fits(last, count + 1, made + 1)
  BY <1>1, <1>2, <1>3, <1>7
<1> QED BY <1>4, <1>5, <1>6, <1>7 DEF C

LEMMA CountsKeeps ==
    ASSUME MaxKeys <= 2^COUNTER_BITS + 2, UuidInv, NEW t \in Threads, Counts(t) PROVE UuidInv'
<1> DEFINE now == thread[t].milliseconds
           counted == _last_counter + 1
<1>1. PICK seed \in _counter_seed :
        thread' = [thread EXCEPT ![t] =
             IF Later(now) THEN [at |-> "counted", milliseconds |-> now, counter |-> seed]
             ELSE IF counted \div 2^COUNTER_BITS # 0
             THEN [at |-> "counted", milliseconds |-> _last_milliseconds + 1, counter |-> seed]
             ELSE [at |-> "counted", milliseconds |-> _last_milliseconds, counter |-> counted]]
  BY DEF Counts
<1>2. thread[t].at = "read" /\ UNCHANGED <<_last_milliseconds, _last_counter, _uuid7_lock, keys>>
  BY DEF Counts
<1>3. /\ now \in Milliseconds /\ Len(keys) \in Nat /\ Len(keys) < MaxKeys
      /\ Room(_last_milliseconds, _last_counter, Len(keys))
  BY <1>2 DEF UuidInv, UuidTyped, NextIsLater
<1>4. /\ _last_milliseconds \in Nat /\ _last_counter \in Nat /\ _last_counter < 2^COUNTER_BITS /\ now \in Nat
      /\ seed \in Nat
  BY <1>3, PowersAre DEF Room, Times, Counts_To, Milliseconds, _counter_seed, Half
<1>5. counted \div 2^COUNTER_BITS # 0 <=> counted >= 2^COUNTER_BITS
  <2> DEFINE C == 2^COUNTER_BITS
             q == counted \div C
             r == counted % C
  <2>1. C \in Nat \ {0} /\ counted \in Nat /\ counted <= C
    BY <1>4, PowersAre
  <2> HIDE DEF C
  <2>2. q \in Nat /\ r \in 0..C - 1 /\ counted = C * q + r
    BY <2>1, DividedIs
  <2> HIDE DEF q, r
  <2>3. CASE q = 0
    BY <2>1, <2>2, <2>3 DEF q, C
  <2>4. CASE q # 0
    <3>1. PICK more \in Nat : q = 1 + more
      BY <2>2, <2>4
    <3>2. C * q = C + C * more /\ C * more \in Nat
      BY <2>1, <3>1
    <3> DEFINE M == C * more
    <3>3. M \in Nat /\ counted = C + M + r
      BY <2>2, <3>2
    <3> HIDE DEF M
    <3>4. counted >= C
      BY <2>1, <2>2, <3>3
    <3> QED BY <2>4, <3>4 DEF q, C
  <2> QED BY <2>3, <2>4
<1>6. PICK time \in Nat, count \in Nat :
        /\ thread' = [thread EXCEPT ![t] = [at |-> "counted", milliseconds |-> time, counter |-> count]]
        /\ Room(time, count, Len(keys) + 1)
        /\ Later_Pair(_last_milliseconds, _last_counter, time, count)
  <2>1. /\ now > _last_milliseconds => Room(now, seed, Len(keys) + 1)
        /\ counted >= 2^COUNTER_BITS => Room(_last_milliseconds + 1, seed, Len(keys) + 1)
        /\ counted < 2^COUNTER_BITS => Room(_last_milliseconds, counted, Len(keys) + 1)
    BY <1>3, CountsRoom
  <2> DEFINE Is(time, count) ==
            /\ thread' = [thread EXCEPT ![t] = [at |-> "counted", milliseconds |-> time, counter |-> count]]
            /\ Room(time, count, Len(keys) + 1)
            /\ Later_Pair(_last_milliseconds, _last_counter, time, count)
  <2>2. CASE Later(now)
    <3>1. now > _last_milliseconds
      BY <2>2 DEF Later
    <3> HIDE DEF now
    <3>2. Is(now, seed)
      BY <1>1, <1>4, <2>1, <2>2, <3>1 DEF Later_Pair
    <3> QED BY <1>4, <3>2
  <2>3. CASE ~Later(now) /\ counted >= 2^COUNTER_BITS
    <3>1. thread' = [thread EXCEPT ![t] = [at |-> "counted", milliseconds |-> _last_milliseconds + 1,
                                           counter |-> seed]]
      BY <1>1, <1>5, <2>3
    <3>2. Is(_last_milliseconds + 1, seed)
      BY <1>4, <2>1, <2>3, <3>1 DEF Later_Pair
    <3>3. _last_milliseconds + 1 \in Nat
      BY <1>4
    <3> QED BY <1>4, <3>2, <3>3
  <2>4. CASE ~Later(now) /\ ~(counted >= 2^COUNTER_BITS)
    <3>1. thread' = [thread EXCEPT ![t] = [at |-> "counted", milliseconds |-> _last_milliseconds,
                                           counter |-> counted]]
      BY <1>1, <1>5, <2>4
    <3>2. counted < 2^COUNTER_BITS
      BY <1>4, <2>4, PowersAre
    <3>3. Is(_last_milliseconds, counted)
      BY <1>4, <2>1, <3>1, <3>2 DEF Later_Pair
    <3>4. counted \in Nat
      BY <1>4
    <3> QED BY <1>4, <3>3, <3>4
  <2> QED BY <2>2, <2>3, <2>4
<1>7. UuidTyped'
  BY <1>2, <1>6 DEF UuidInv, UuidTyped
<1>8. \A s \in Threads : IF s = t THEN thread'[s] = [at |-> "counted", milliseconds |-> time, counter |-> count]
                         ELSE thread'[s] = thread[s] /\ thread[s].at = "idle"
  BY <1>2, <1>6 DEF UuidInv, UuidTyped, LockHeld
<1>9. LockHeld'
  BY <1>2, <1>8 DEF UuidInv, LockHeld
<1>10. NextIsLater'
  BY <1>2, <1>3, <1>6, <1>8 DEF UuidInv, NextIsLater
<1> QED BY <1>2, <1>7, <1>9, <1>10 DEF UuidInv, KeysBelow, KeysSortAsMade

LEMMA KeepsKeeps == ASSUME UuidInv, NEW t \in Threads, Keeps(t) PROVE UuidInv'
<1> DEFINE time == thread[t].milliseconds
           count == thread[t].counter
<1>1. /\ thread[t].at = "counted" /\ _last_milliseconds' = time /\ _last_counter' = count
      /\ _uuid7_lock' = _uuid7_lock \ {t} /\ thread' = [thread EXCEPT ![t] = Waiting]
  BY DEF Keeps
<1>2. PICK random \in 0..2^RANDOM_BITS - 1 : keys' = Append(keys, Value(time, count, random))
  BY DEF Keeps
<1>3. /\ Room(time, count, Len(keys) + 1)
      /\ Later_Pair(_last_milliseconds, _last_counter, time, count) /\ keys \in Seq(Nat)
  BY <1>1 DEF UuidInv, UuidTyped, NextIsLater
<1>4. time \in Times /\ count \in Counts_To
  BY <1>3 DEF Room
<1>5. PICK key \in Nat : key = Value(time, count, random)
  BY <1>2, <1>4, ValueIs
<1>6. /\ keys' \in Seq(Nat) /\ Len(keys') = Len(keys) + 1 /\ DOMAIN keys' = 1..Len(keys) + 1
      /\ DOMAIN keys = 1..Len(keys) /\ Len(keys) \in Nat
      /\ keys'[Len(keys) + 1] = key /\ \A i \in DOMAIN keys : keys'[i] = keys[i] /\ keys[i] \in Nat
  BY <1>2, <1>3, <1>5
<1>7. \A s \in Threads : thread'[s].at = "idle"
  BY <1>1 DEF UuidInv, UuidTyped, LockHeld, Waiting
<1>8. UuidTyped' /\ LockHeld' /\ NextIsLater'
  BY <1>1, <1>6, <1>7 DEF UuidInv, UuidTyped, LockHeld, NextIsLater, Waiting
<1>9. \A i \in DOMAIN keys : keys[i] < key
  BY <1>2, <1>3, <1>4, <1>5 DEF UuidInv, KeysBelow
<1>10. KeysSortAsMade'
  <2> SUFFICES ASSUME NEW i \in DOMAIN keys', NEW j \in DOMAIN keys', i < j PROVE keys'[i] < keys'[j]
    BY DEF KeysSortAsMade
  <2>1. i \in DOMAIN keys
    BY <1>6
  <2>2. CASE j \in DOMAIN keys
    BY <1>6, <2>1, <2>2 DEF UuidInv, KeysSortAsMade
  <2>3. CASE j = Len(keys) + 1
    BY <1>6, <1>9, <2>1, <2>3
  <2> QED BY <1>6, <2>2, <2>3
<1>11. KeysBelow'
  <2> SUFFICES ASSUME NEW i \in DOMAIN keys', NEW time2 \in Times, NEW count2 \in Counts_To,
                      NEW random2 \in 0..2^RANDOM_BITS - 1, Later_Pair(time, count, time2, count2)
               PROVE  keys'[i] < Value(time2, count2, random2)
    BY <1>1 DEF KeysBelow
  <2>1. PICK key2 \in Nat : key2 = Value(time2, count2, random2)
    BY ValueIs
  <2>2. key < key2
    BY <1>2, <1>4, <1>5, <2>1, ValueGrows
  <2>3. CASE i \in DOMAIN keys
    BY <1>6, <1>9, <2>1, <2>2, <2>3
  <2>4. CASE i = Len(keys) + 1
    BY <1>6, <2>1, <2>2, <2>4
  <2> QED BY <1>6, <2>3, <2>4
<1>12. Room(_last_milliseconds, _last_counter, Len(keys))'
  BY <1>1, <1>3, <1>6
<1> QED BY <1>8, <1>10, <1>11, <1>12 DEF UuidInv

\* uuid7(): whatever the clock does, however threads meet and however wide the fields are,
\* each key sorts after those made before it - up to as many keys of one process as a
\* count has values, and two more: with 42 bits, some four million million.
THEOREM KeysSort == ASSUME MaxKeys <= 2^COUNTER_BITS + 2 PROVE UuidSpec => []KeysSortAsMade
<1>1. UuidInv /\ [UuidNext]_uuidVars => UuidInv'
  <2> SUFFICES ASSUME UuidInv, [UuidNext]_uuidVars PROVE UuidInv'
    OBVIOUS
  <2>1. CASE UNCHANGED uuidVars
    BY <2>1 DEF uuidVars, UuidInv, UuidTyped, LockHeld, NextIsLater, KeysBelow, KeysSortAsMade
  <2>2. CASE UuidNext
    BY <2>2, ReadsClockKeeps, CountsKeeps, KeepsKeeps DEF UuidNext
  <2> QED BY <2>1, <2>2
<1>2. UuidInv => KeysSortAsMade
  BY DEF UuidInv
<1> QED BY <1>1, <1>2, UuidInitHolds, PTL DEF UuidSpec
=============================================================================
