------------------------------ MODULE MCFanOut ------------------------------
(* Small instances of FanOut for TLC.                                      *)
EXTENDS FanOut, TLC

CONSTANTS p1, p2, t1, t2

(* Two partitions that share a target.                                     *)
SharedReach == p1 :> {t1} @@ p2 :> {t1, t2} @@ None :> {}

(* One cross-partition notice that names both partitions, its subject in   *)
(* neither of them, or in the first; and one that names no partition.      *)
Crossing      == 1 :> "cross"
NoSubject     == 1 :> None
FirstSubject  == 1 :> p1
BothNamed     == 1 :> {p1, p2}
NoneNamed     == 1 :> {None}

(* One whose audience is refused each time, and one after it.              *)
BadThenGood   == 1 :> "single" @@ 2 :> "cross"
GoodSubjects  == 1 :> p1 @@ 2 :> p1
GoodAudiences == 1 :> {} @@ 2 :> {p1}
SmallReach    == p1 :> {t1} @@ None :> {}

(***************************************************************************)
(* What no step reads any more is left out of the states told apart: who   *)
(* claimed a row that worker is not at work on; the due and the count of a *)
(* row that is over, and a task for it; a claimed row's due, which is      *)
(* overdue before the claim is taken back and later once it has failed.    *)
(***************************************************************************)
Holder(s) ==
  LET w == shards[s].claimed_by IN IF w # None /\ pc[w] \in AtWork /\ job[w] = s THEN w ELSE None

Seen(s) ==
  LET row == [shards[s] EXCEPT !.claimed_by = Holder(s)] IN
  CASE Over(s)                      -> [row EXCEPT !.attempt_count = 0, !.due = "due", !.old = FALSE]
    [] shards[s].state = "PENDING"  -> [row EXCEPT !.old = FALSE]
    [] OTHER                        -> [row EXCEPT !.due = "overdue"]

SeenReading(w) == IF reading[w] = "due" /\ Over(job[w]) THEN "early" ELSE reading[w]

SeenState == <<fanned_out, [s \in DOMAIN shards |-> Seen(s)], deliveries,
               {s \in tasks : ~Over(s)}, existing, pc, batch, job,
               [w \in Workers |-> SeenReading(w)], plan, error, reaper>>

WorkerSymmetry == Permutations(Workers)
=============================================================================
