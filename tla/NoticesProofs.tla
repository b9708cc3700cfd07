---------------------------- MODULE NoticesProofs ----------------------------
(***************************************************************************)
(* Theorems about Notices, for any number of callers: a retired kind has   *)
(* no notice left to commit, and a recorded email is what its attempts     *)
(* were.  About Retention, for any notices, prunes and retries: what is    *)
(* pruned is done with.  And about Endpoint, for any workers: it is parked *)
(* for its failures in a row.                                              *)
(***************************************************************************)
EXTENDS Notices, Retention, Endpoint, FiniteSetTheorems, TLAPS

\* Whoever holds the kind's row FOR SHARE found it active, and keeps it so.
ShareActive == share # {} => status = "active"

\* What is recorded, and by whom.
Recorded ==
    /\ email.attempt_count = Len(attempts)
    /\ (email.state = "none") <=> (attempts = <<>>)
    /\ attempts # <<>> => email.state = _finished(outcome[attempts[Len(attempts)]])
    /\ \A i \in 1..Len(attempts) : caller[attempts[i]] = "done"

\* A call that is to insert the recorded email began before any attempt of it, and the
\* one that has inserted it is alone.
Firsts ==
    /\ \A c \in Callers : caller[c] \in {"look", "again"} => source = "recorded"
    /\ \A c \in Callers : caller[c] = "again" => email.state # "none"
    /\ \A c \in Callers : since[c] <= Len(attempts)
    /\ source = "recorded" =>
        /\ \A c \in Callers : caller[c] \in {"check", "insert", "inserted"} => since[c] = 0
        /\ \A c \in Callers : caller[c] = "inserted" => email.state = "none"
        /\ \A c, d \in Callers : caller[c] = "inserted" /\ caller[d] = "inserted" => c = d

IInv == NoticesTypeOK /\ ShareActive /\ Recorded /\ Firsts /\ LaterIsRecorded

At == {"idle", "look", "again", "check", "insert", "inserted",
       "done", "refused", "unrecorded", "died"}

-----------------------------------------------------------------------------
LEMMA InitHolds == NoticesInit => IInv
<1> SUFFICES ASSUME NoticesInit PROVE IInv
  OBVIOUS
<1>1. NoticesTypeOK
  BY DEF NoticesInit, NoticesTypeOK
<1>2. ShareActive /\ Recorded /\ Firsts /\ LaterIsRecorded
  BY DEF NoticesInit, ShareActive, Recorded, Firsts, LaterIsRecorded
<1> QED BY <1>1, <1>2 DEF IInv

LEMMA ToIs ==
  ASSUME NoticesTypeOK, NEW c \in Callers, NEW at \in At, To(c, at)
  PROVE  /\ caller' \in [Callers -> At] /\ caller'[c] = at
         /\ \A d \in Callers \ {c} : caller'[d] = caller[d]
BY DEF NoticesTypeOK, To, At

\* A step of one call that records nothing.
LEMMA StepKeeps ==
  ASSUME IInv, NEW c \in Callers, NEW at \in At, To(c, at), caller[c] # "done",
         UNCHANGED <<source, status, outcome, email, attempts, since>>,
         share' \subseteq Callers, emaillock' \subseteq Callers, written' \subseteq Callers,
         share' # {} => status = "active",
         at = "look" => caller[c] = "look",
         at = "again" => source = "recorded" /\ email.state # "none",
         source = "recorded" /\ at \in {"check", "insert", "inserted"} => since[c] = 0,
         source = "recorded" /\ at = "inserted" =>
            email.state = "none" /\ \A d \in Callers : caller[d] # "inserted",
         at = "unrecorded" => Len(attempts) > since[c]
  PROVE  IInv'
<1>1. /\ caller' \in [Callers -> At] /\ caller'[c] = at
      /\ \A d \in Callers \ {c} : caller'[d] = caller[d]
  BY ToIs DEF IInv
<1>2. NoticesTypeOK'
  BY <1>1 DEF IInv, NoticesTypeOK, At
<1>3. ShareActive'
  BY DEF ShareActive
<1>4. Recorded'
  <2>1. \A i \in 1..Len(attempts) : attempts[i] \in Callers /\ attempts[i] # c
    BY DEF IInv, NoticesTypeOK, Recorded
  <2> QED BY <1>1, <2>1 DEF IInv, Recorded
<1>5. Firsts'
  BY <1>1 DEF IInv, Firsts
<1>6. LaterIsRecorded'
  BY <1>1 DEF IInv, LaterIsRecorded
<1> QED BY <1>2, <1>3, <1>4, <1>5, <1>6 DEF IInv

\* One that records its attempt.
LEMMA RecordKeeps ==
  ASSUME IInv, NEW c \in Callers, To(c, "done"), caller[c] # "done",
         UNCHANGED <<source, status, outcome, since>>,
         share' \subseteq Callers, emaillock' \subseteq Callers, written' \subseteq Callers,
         share' # {} => status = "active",
         email' = [state |-> _finished(outcome[c]), attempt_count |-> Len(attempts) + 1],
         attempts' = Append(attempts, c),
         \A d \in Callers \ {c} : source = "recorded" => caller[d] # "inserted"
  PROVE  IInv'
<1>1. /\ caller' \in [Callers -> At] /\ caller'[c] = "done"
      /\ \A d \in Callers \ {c} : caller'[d] = caller[d]
  BY ToIs DEF IInv, At
<1>2. _finished(outcome[c]) \in {"sent", "abandoned"}
  BY DEF _finished
<1>3. /\ attempts \in Seq(Callers) /\ attempts' \in Seq(Callers)
      /\ Len(attempts') = Len(attempts) + 1 /\ attempts'[Len(attempts')] = c
      /\ \A i \in 1..Len(attempts) : attempts'[i] = attempts[i]
  BY DEF IInv, NoticesTypeOK
<1>4. Len(attempts) \in Nat /\ attempts' # <<>>
  BY <1>3
<1>5. NoticesTypeOK'
  BY <1>1, <1>2, <1>3, <1>4 DEF IInv, NoticesTypeOK, At
<1>6. ShareActive'
  BY DEF ShareActive
<1>7. Recorded'
  <2>1. \A i \in 1..Len(attempts') : caller'[attempts'[i]] = "done"
    <3> SUFFICES ASSUME NEW i \in 1..Len(attempts') PROVE caller'[attempts'[i]] = "done"
      OBVIOUS
    <3>1. CASE i = Len(attempts')
      BY <1>1, <1>3, <3>1
    <3>2. CASE i # Len(attempts')
      <4>1. i \in 1..Len(attempts)
        BY <1>3, <1>4, <3>2
      <4>2. attempts[i] \in Callers /\ caller[attempts[i]] = "done"
        BY <1>3, <4>1 DEF IInv, Recorded
      <4> QED BY <1>1, <1>3, <4>1, <4>2
    <3> QED BY <3>1, <3>2
  <2> QED BY <1>2, <1>3, <1>4, <2>1 DEF Recorded
<1>8. Firsts'
  BY <1>1, <1>2, <1>3, <1>4 DEF IInv, NoticesTypeOK, Firsts
<1>9. LaterIsRecorded'
  <2> SUFFICES ASSUME NEW d \in Callers, caller'[d] = "unrecorded"
               PROVE  Len(attempts') > since[d]
    BY DEF LaterIsRecorded
  <2>1. Len(attempts) > since[d] /\ since[d] \in Nat
    BY <1>1 DEF IInv, NoticesTypeOK, LaterIsRecorded
  <2> QED BY <2>1, <1>3, <1>4
<1> QED BY <1>5, <1>6, <1>7, <1>8, <1>9 DEF IInv

-----------------------------------------------------------------------------
LEMMA KindKeeps == IInv /\ (mirror_kinds \/ retire) => IInv'
BY DEF mirror_kinds, retire, Retirable, IInv, NoticesTypeOK, ShareActive, Recorded, Firsts,
       LaterIsRecorded

LEMMA BeginsKeeps == ASSUME IInv, NEW c \in Callers, Begins(c) PROVE IInv'
<1>0. caller[c] = "idle"
      /\ UNCHANGED <<source, status, share, written, email, emaillock, attempts>>
  BY DEF Begins, From
<1>1. CASE source = "recorded"
  <2>1. PICK ok \in BOOLEAN : outcome' = [outcome EXCEPT ![c] = ok]
    BY <1>1 DEF Begins
  <2>2. since' = [since EXCEPT ![c] = Len(attempts)] /\ To(c, "look")
    BY <1>1 DEF Begins
  <2>3. /\ caller' \in [Callers -> At] /\ caller'[c] = "look"
        /\ \A d \in Callers \ {c} : caller'[d] = caller[d]
    BY <2>2, ToIs DEF IInv, At
  <2>4. Len(attempts) \in Nat
    BY DEF IInv, NoticesTypeOK
  <2>5. /\ outcome' \in [Callers -> BOOLEAN] /\ since' \in [Callers -> Nat]
        /\ since'[c] = Len(attempts)
        /\ \A d \in Callers \ {c} : outcome'[d] = outcome[d] /\ since'[d] = since[d]
    BY <2>1, <2>2, <2>4 DEF IInv, NoticesTypeOK
  <2>6. \A i \in 1..Len(attempts) : attempts[i] \in Callers \ {c}
    BY <1>0 DEF IInv, NoticesTypeOK, Recorded
  <2>7. NoticesTypeOK'
    BY <1>0, <2>3, <2>5 DEF IInv, NoticesTypeOK, At
  <2>8. Recorded'
    <3>1. attempts # <<>> => Len(attempts) \in 1..Len(attempts)
      BY DEF IInv, NoticesTypeOK
    <3> QED BY <1>0, <2>3, <2>5, <2>6, <3>1 DEF IInv, Recorded
  <2>9. Firsts'
    <3>1. \A d \in Callers : since'[d] <= Len(attempts')
      <4> SUFFICES ASSUME NEW d \in Callers PROVE since'[d] <= Len(attempts)
        BY <1>0
      <4>1. CASE d = c
        BY <2>4, <2>5, <4>1
      <4>2. CASE d # c
        BY <2>5, <4>2 DEF IInv, Firsts
      <4> QED BY <4>1, <4>2
    <3>2. \A d \in Callers : caller'[d] \in {"check", "insert", "inserted"} => since'[d] = 0
      BY <1>1, <2>3, <2>5 DEF IInv, Firsts
    <3>3. \A d \in Callers : /\ caller'[d] \in {"again", "inserted"} => caller'[d] = caller[d]
                             /\ caller'[d] \in {"look", "again"} => source' = "recorded"
      BY <1>0, <1>1, <2>3
    <3> QED BY <1>0, <3>1, <3>2, <3>3 DEF IInv, Firsts
  <2>10. ShareActive' /\ LaterIsRecorded'
    BY <1>0, <2>3, <2>5 DEF IInv, ShareActive, LaterIsRecorded
  <2> QED BY <2>7, <2>8, <2>9, <2>10 DEF IInv
<1>2. CASE source # "recorded"
  <2>1. PICK at \in {"insert", "check"} : To(c, at) /\ UNCHANGED <<outcome, since>>
    BY <1>2 DEF Begins
  <2>2. share \subseteq Callers /\ emaillock \subseteq Callers /\ written \subseteq Callers
        /\ (share # {} => status = "active")
    BY DEF IInv, NoticesTypeOK, ShareActive
  <2> QED BY <1>0, <1>2, <2>1, <2>2, StepKeeps DEF At
<1> QED BY <1>1, <1>2

LEMMA LooksKeeps == ASSUME IInv, NEW c \in Callers, Looks(c) PROVE IInv'
<1>1. /\ caller[c] = "look" /\ source = "recorded"
      /\ UNCHANGED <<source, status, share, outcome, written, email, attempts, since>>
  BY DEF Looks, From, IInv, Firsts
<1>2. share \subseteq Callers /\ emaillock \subseteq Callers /\ written \subseteq Callers
      /\ (share # {} => status = "active")
  BY DEF IInv, NoticesTypeOK, ShareActive
<1>3. CASE email.state # "none"
  <2>1. To(c, "again") /\ emaillock' = {c}
    BY <1>3 DEF Looks, Found
  <2> QED BY <1>1, <1>2, <1>3, <2>1, StepKeeps DEF At
<1>4. CASE email.state = "none"
  <2>1. To(c, "check") /\ emaillock' = emaillock
    BY <1>4 DEF Looks, Found
  <2>2. since[c] = 0
    BY <1>4 DEF IInv, NoticesTypeOK, Recorded, Firsts
  <2> QED BY <1>1, <1>2, <2>1, <2>2, StepKeeps DEF At
<1> QED BY <1>3, <1>4

\* A call that ends, whatever came of it, when it records nothing.
LEMMA EndsKeeps ==
  ASSUME IInv, NEW c \in Callers, NEW at \in {"refused", "unrecorded", "died"}, Ends(c, at),
         caller[c] # "done", at = "unrecorded" => Len(attempts) > since[c],
         UNCHANGED <<source, status, outcome, written, email, attempts, since>>
  PROVE  IInv'
<1>1. /\ To(c, at) /\ share' \subseteq Callers /\ emaillock' \subseteq Callers
      /\ written' \subseteq Callers /\ (share' # {} => status = "active")
  BY DEF Ends, IInv, NoticesTypeOK, ShareActive
<1> QED BY <1>1, StepKeeps DEF At

LEMMA ChecksKeeps == ASSUME IInv, NEW c \in Callers, Checks(c) PROVE IInv'
<1>1. /\ caller[c] = "check"
      /\ UNCHANGED <<source, status, outcome, written, email, attempts, since>>
  BY DEF Checks, From
<1>2. CASE status = "retired"
  BY <1>1, <1>2, EndsKeeps DEF Checks
<1>3. CASE status # "retired"
  <2>1. /\ To(c, "insert") /\ emaillock' = emaillock
        /\ share' = IF status = "missing" THEN share ELSE share \cup {c}
    BY <1>3 DEF Checks
  <2>2. /\ share' \subseteq Callers /\ emaillock' \subseteq Callers /\ written' \subseteq Callers
        /\ (share' # {} => status = "active")
    BY <1>1, <1>3, <2>1 DEF IInv, NoticesTypeOK, ShareActive
  <2>3. source = "recorded" => since[c] = 0
    BY <1>1 DEF IInv, Firsts
  <2> QED BY <1>1, <2>1, <2>2, <2>3, StepKeeps DEF At
<1> QED BY <1>2, <1>3

LEMMA InsertsKeeps == ASSUME IInv, NEW c \in Callers, Inserts(c) PROVE IInv'
<1>1. /\ caller[c] = "insert"
      /\ UNCHANGED <<source, status, outcome, written, email, attempts, since>>
  BY DEF Inserts, From
<1>2. source = "recorded" => since[c] = 0
  BY <1>1 DEF IInv, Firsts
<1>3. CASE Ends(c, "unrecorded") /\ source = "recorded" /\ email.state # "none"
  <2>1. Len(attempts) > since[c]
    BY <1>2, <1>3 DEF IInv, NoticesTypeOK, Recorded
  <2> QED BY <1>1, <1>3, <2>1, EndsKeeps
<1>4. CASE Ends(c, "refused")
  BY <1>1, <1>4, EndsKeeps
<1>5. CASE To(c, "inserted") /\ UNCHANGED <<share, emaillock>>
           /\ (source = "recorded" =>
                email.state = "none" /\ \A d \in Callers : ~From(d, "inserted"))
  <2>1. /\ share' \subseteq Callers /\ emaillock' \subseteq Callers /\ written' \subseteq Callers
        /\ (share' # {} => status = "active")
    BY <1>1, <1>5 DEF IInv, NoticesTypeOK, ShareActive
  <2>2. source = "recorded" => \A d \in Callers : caller[d] # "inserted"
    BY <1>5 DEF From
  <2> QED BY <1>1, <1>2, <1>5, <2>1, <2>2, StepKeeps DEF At
<1> QED BY <1>3, <1>4, <1>5 DEF Inserts

LEMMA CommitsKeeps == ASSUME IInv, NEW c \in Callers, Commits(c) PROVE IInv'
<1>1. /\ caller[c] = "inserted" /\ To(c, "done") /\ written' = written \cup {c}
      /\ share' = share \ {c} /\ emaillock' = emaillock \ {c}
      /\ UNCHANGED <<source, status, outcome, since>>
  BY DEF Commits, Ends, From
<1>2. /\ share' \subseteq Callers /\ emaillock' \subseteq Callers /\ written' \subseteq Callers
      /\ (share' # {} => status = "active")
  BY <1>1 DEF IInv, NoticesTypeOK, ShareActive
<1>3. CASE source = "recorded"
  <2>1. email.state = "none" /\ \A d \in Callers \ {c} : caller[d] # "inserted"
    BY <1>1, <1>3 DEF IInv, Firsts
  <2>2. Len(attempts) + 1 = 1
    BY <2>1 DEF IInv, Recorded
  <2>3. /\ email' = [state |-> _finished(outcome[c]), attempt_count |-> 1]
        /\ attempts' = Append(attempts, c)
    BY <1>3 DEF Commits
  <2>4. email' = [state |-> _finished(outcome[c]), attempt_count |-> Len(attempts) + 1]
    BY <2>2, <2>3
  <2> QED BY <1>1, <1>2, <2>1, <2>3, <2>4, RecordKeeps
<1>4. CASE source # "recorded"
  <2>1. UNCHANGED <<email, attempts>>
    BY <1>4 DEF Commits
  <2> QED BY <1>1, <1>2, <1>4, <2>1, StepKeeps DEF At
<1> QED BY <1>3, <1>4

LEMMA AgainKeeps == ASSUME IInv, NEW c \in Callers, Again(c) PROVE IInv'
<1>1. /\ caller[c] = "again" /\ To(c, "done") /\ attempts' = Append(attempts, c)
      /\ share' = share \ {c} /\ emaillock' = emaillock \ {c}
      /\ email' = [state |-> _finished(outcome[c]), attempt_count |-> email.attempt_count + 1]
      /\ UNCHANGED <<source, status, outcome, written, since>>
  BY DEF Again, Ends, From, _tried_again
<1>2. /\ share' \subseteq Callers /\ emaillock' \subseteq Callers /\ written' \subseteq Callers
      /\ (share' # {} => status = "active")
  BY <1>1 DEF IInv, NoticesTypeOK, ShareActive
<1>3. email.attempt_count = Len(attempts) /\ email.state # "none"
  BY <1>1 DEF IInv, Recorded, Firsts
<1>4. \A d \in Callers \ {c} : source = "recorded" => caller[d] # "inserted"
  BY <1>3 DEF IInv, Firsts
<1> QED BY <1>1, <1>2, <1>3, <1>4, RecordKeeps

LEMMA NextHolds == IInv /\ [NoticesNext]_noticesVars => IInv'
<1> SUFFICES ASSUME IInv, [NoticesNext]_noticesVars PROVE IInv'
  OBVIOUS
<1>1. CASE UNCHANGED noticesVars
  BY <1>1 DEF noticesVars, IInv, NoticesTypeOK, ShareActive, Recorded, Firsts, LaterIsRecorded
<1>2. CASE mirror_kinds \/ retire
  BY <1>2, KindKeeps
<1>3. ASSUME NEW c \in Callers, Begins(c) \/ Looks(c) \/ Checks(c) PROVE IInv'
  BY <1>3, BeginsKeeps, LooksKeeps, ChecksKeeps
<1>4. ASSUME NEW c \in Callers, Inserts(c) \/ Commits(c) \/ Again(c) PROVE IInv'
  BY <1>4, InsertsKeeps, CommitsKeeps, AgainKeeps
<1>5. ASSUME NEW c \in Callers, Dies(c) PROVE IInv'
  BY <1>5, EndsKeeps DEF Dies
<1> QED BY <1>1, <1>2, <1>3, <1>4, <1>5 DEF NoticesNext

LEMMA Inductive == NoticesSpec => []IInv
BY InitHolds, NextHolds, PTL DEF NoticesSpec

-----------------------------------------------------------------------------
\* Once a kind is retired no notice raised or recorded of it commits: whoever found its
\* row active still finds it so when it commits.
THEOREM RetiredStaysQuiet == NoticesSpec => RetiredIsQuiet
<1>1. IInv => (\A c \in written' \ written : c \in share => status = "active")
  BY DEF IInv, ShareActive
<1> QED BY <1>1, Inductive, PTL DEF RetiredIsQuiet

\* A recorded email counts the attempts recorded of it, and its state is what came of
\* the one recorded last, however calls under its key overlap.
THEOREM RecordsAreTrue == NoticesSpec => []RecordTruthful
<1>1. IInv => RecordTruthful
  BY DEF IInv, Recorded, RecordTruthful
<1> QED BY <1>1, Inductive, PTL

\* A try that goes unrecorded over its key had another recorded while it was made.
THEOREM LaterTriesAreRecorded == NoticesSpec => []LaterIsRecorded
<1>1. IInv => LaterIsRecorded
  BY DEF IInv
<1> QED BY <1>1, Inductive, PTL

-----------------------------------------------------------------------------
RetentionTyped ==
    /\ NoticeOf \in [Deliveries -> Notices]
    /\ stamped \subseteq Notices
    /\ shard \in [Notices -> {"none", "PENDING", "CLAIMED", "FINISHED", "ABANDONED"}]
    /\ state \in [Deliveries -> {"none", "PENDING", "SENDING", "SENT", "ABANDONED"}]
    /\ retries \in [Deliveries -> Nat]
    /\ holder_of \in [Notices \cup Deliveries -> Users \cup {None}]
    /\ pc \in [Users -> {"idle", "holding", "deciding", "scanning", "deleting"}]
    /\ job \in [Retriers -> Deliveries \cup {None}]
    /\ \A r \in Retriers : pc[r] \in {"holding", "deciding"} => job[r] \in Deliveries
    /\ scan \in [Pruners -> SUBSET Notices] /\ doomed \in [Pruners -> SUBSET Notices]
    /\ slipped \in [Pruners -> SUBSET Deliveries]

\* What a prune is to delete it holds, and so does a retry the notice it decides under:
\* no retry is decided of a notice that is being deleted.
NoticesLocked ==
    /\ \A p \in Pruners : \A n \in doomed[p] : holder_of[n] = p
    /\ \A r \in Retriers : pc[r] = "deciding" => holder_of[NoticeOf[job[r]]] = r

\* As a prune found it: nothing begins of it but what slipped past.
Settled_For(p, n) ==
    /\ n \in stamped
    /\ shard[n] \notin {"PENDING", "CLAIMED"}
    /\ \A e \in DeliveriesOf(n) : Unsent(e) => e \in slipped[p]

\* So it stays, whether the prune has locked it yet or not.
PrunedSettled == \A p \in Pruners : \A n \in scan[p] \cup doomed[p] : Settled_For(p, n)

RetentionInv == RetentionTyped /\ NoticesLocked /\ PrunedSettled

LEMMA RetentionInitHolds == RetentionInit => RetentionInv
<1> SUFFICES ASSUME RetentionInit PROVE RetentionInv
  OBVIOUS
<1>1. RetentionTyped
  BY RetentionAssumption DEF RetentionInit, RetentionTyped, Users
<1>2. NoticesLocked /\ PrunedSettled
  BY DEF RetentionInit, NoticesLocked, PrunedSettled, Users
<1> QED BY <1>1, <1>2 DEF RetentionInv

\* A transaction that ends takes no lock, and nothing any other remembers.
LEMMA EndedKeeps ==
    ASSUME RetentionInv, NEW u \in Users, End(u), retries' \in [Deliveries -> Nat],
           stamped' = stamped,
           shard' \in [Notices -> {"none", "PENDING", "CLAIMED", "FINISHED", "ABANDONED"}],
           state' \in [Deliveries -> {"none", "PENDING", "SENDING", "SENT", "ABANDONED"}]
    PROVE  /\ RetentionTyped' /\ NoticesLocked'
           /\ \A p \in Pruners : \A n \in scan'[p] \cup doomed'[p] :
                 /\ p # u /\ n \in Notices /\ n \in scan[p] \cup doomed[p]
                 /\ slipped[p] \subseteq slipped'[p]
<1> USE DEF RetentionInv
<1>1. holder_of' \in [Notices \cup Deliveries -> Users \cup {None}] /\ slipped' \in [Pruners -> SUBSET Deliveries]
  BY DEF End, RetentionTyped
<1>2. /\ pc' \in [Users -> {"idle", "holding", "deciding", "scanning", "deleting"}]
      /\ job' \in [Retriers -> Deliveries \cup {None}]
      /\ \A r \in Retriers : pc'[r] \in {"holding", "deciding"} => job'[r] \in Deliveries
  BY DEF End, RetentionTyped, Users
<1>3. scan' \in [Pruners -> SUBSET Notices] /\ doomed' \in [Pruners -> SUBSET Notices]
  BY DEF End, RetentionTyped
<1>4. RetentionTyped'
  BY <1>1, <1>2, <1>3 DEF RetentionTyped
<1>5. ASSUME NEW p \in Pruners, NEW n \in doomed'[p] PROVE holder_of'[n] = p
  <2>1. p # u /\ n \in doomed[p] /\ n \in Notices
    BY <1>5 DEF End, RetentionTyped
  <2> QED BY <2>1 DEF End, RetentionTyped, NoticesLocked
<1>6. ASSUME NEW r \in Retriers, pc'[r] = "deciding" PROVE holder_of'[NoticeOf[job'[r]]] = r
  <2>1. r # u /\ pc[r] = "deciding" /\ job'[r] = job[r]
    BY <1>6 DEF End, RetentionTyped, Users
  <2>2. NoticeOf[job[r]] \in Notices
    BY <2>1 DEF RetentionTyped
  <2> QED BY <2>1, <2>2 DEF End, RetentionTyped, NoticesLocked
<1>7. ASSUME NEW p \in Pruners, NEW n \in scan'[p] \cup doomed'[p]
      PROVE  /\ p # u /\ n \in Notices /\ n \in scan[p] \cup doomed[p]
             /\ slipped[p] \subseteq slipped'[p]
  <2>1. p # u /\ n \in scan[p] \cup doomed[p]
    BY <1>7 DEF End
  <2>2. slipped[p] \subseteq slipped'[p]
    BY <2>1 DEF End
  <2> QED BY <2>1, <2>2 DEF RetentionTyped
<1> QED BY <1>4, <1>5, <1>6, <1>7 DEF NoticesLocked

LEMMA NothingWritten ==
    ASSUME RetentionInv, NEW u \in Users, UNCHANGED db, End(u)
    PROVE  RetentionInv'
<1> USE DEF RetentionInv
<1>1. /\ RetentionTyped' /\ NoticesLocked'
      /\ \A p \in Pruners : \A n \in scan'[p] \cup doomed'[p] :
            /\ p # u /\ n \in Notices /\ n \in scan[p] \cup doomed[p]
            /\ slipped[p] \subseteq slipped'[p]
  BY EndedKeeps DEF db, RetentionTyped
<1>2. PrunedSettled'
  BY <1>1 DEF PrunedSettled, Settled_For, DeliveriesOf, Unsent, db
<1> QED BY <1>1, <1>2

\* A retry holds the notice as it is written, so who looked at it has yet to get to it.
LEMMA AcceptedSlips ==
    ASSUME RetentionInv, NEW r \in Retriers, RetryAccepted(r)
    PROVE  RetentionInv'
<1> USE DEF RetentionInv
<1>1. /\ r \in Users /\ r \notin Pruners /\ job[r] \in Deliveries /\ retries[job[r]] \in Nat
      /\ holder_of[NoticeOf[job[r]]] = r
  BY RetentionAssumption DEF RetryAccepted, RetentionTyped, NoticesLocked, Users
<1>2. /\ RetentionTyped' /\ NoticesLocked'
      /\ \A p \in Pruners : \A n \in scan'[p] \cup doomed'[p] :
            /\ p # r /\ n \in Notices /\ n \in scan[p] \cup doomed[p]
            /\ slipped[p] \subseteq slipped'[p]
  BY <1>1, EndedKeeps DEF RetryAccepted, RetentionTyped
<1>3. ASSUME NEW p \in Pruners, NEW n \in scan'[p] \cup doomed'[p],
             NEW e \in DeliveriesOf(n)', Unsent(e)'
      PROVE  e \in slipped'[p]
  <2>1. CASE e = job[r]
    <3>1. n = NoticeOf[job[r]]
      BY <2>1, <1>3 DEF DeliveriesOf
    <3>2. n \in scan[p]
      BY <1>1, <1>2, <1>3, <3>1 DEF NoticesLocked
    <3>3. retries'[e] > retries[e]
      BY <1>1, <2>1 DEF RetryAccepted, RetentionTyped
    <3> QED BY <1>1, <1>2, <2>1, <3>1, <3>2, <3>3 DEF RetryAccepted, End
  <2>2. CASE e # job[r]
    <3>1. state'[e] = state[e] /\ e \in DeliveriesOf(n) /\ Unsent(e)
      BY <1>3, <2>2 DEF RetryAccepted, RetentionTyped, DeliveriesOf, Unsent
    <3> QED BY <1>2, <1>3, <3>1 DEF PrunedSettled, Settled_For
  <2> QED BY <2>1, <2>2
<1>4. PrunedSettled'
  BY <1>2, <1>3 DEF RetryAccepted, PrunedSettled, Settled_For
<1> QED BY <1>2, <1>4

\* A lock is taken of a row nobody has: who holds another's keeps it.
LEMMA RetryLocks ==
    ASSUME RetentionInv, NEW r \in Retriers,
           RetryHoldNotice(r) \/ \E e \in Deliveries : RetryHold(r, e)
    PROVE  RetentionInv'
<1> USE DEF RetentionInv
<1>1. r \in Users /\ r # None /\ None \notin Pruners /\ None \notin Retriers
  BY RetentionAssumption DEF Users
<1>2. CASE RetryHoldNotice(r)
  <2>1. NoticeOf[job[r]] \in Notices /\ holder_of[NoticeOf[job[r]]] = None
    BY <1>2 DEF RetryHoldNotice, NoticeFree, RetentionTyped
  <2>2. RetentionTyped'
    BY <1>1, <1>2, <2>1 DEF RetryHoldNotice, RetentionTyped, Users, db
  <2>3. NoticesLocked'
    BY <1>1, <1>2, <2>1 DEF RetryHoldNotice, RetentionTyped, NoticesLocked, Users
  <2>4. PrunedSettled'
    BY <1>2 DEF RetryHoldNotice, PrunedSettled, Settled_For, DeliveriesOf, Unsent, db
  <2> QED BY <2>2, <2>3, <2>4
<1>3. ASSUME NEW e \in Deliveries, RetryHold(r, e) PROVE RetentionInv'
  <2>1. RetentionTyped'
    BY <1>1, <1>3 DEF RetryHold, RetentionTyped, Users, db
  <2>2. NoticesLocked'
    BY <1>1, <1>3 DEF RetryHold, RetentionTyped, NoticesLocked, Users
  <2>3. PrunedSettled'
    BY <1>3 DEF RetryHold, PrunedSettled, Settled_For, DeliveriesOf, Unsent, db
  <2> QED BY <2>1, <2>2, <2>3
<1> QED BY <1>2, <1>3

\* Done(n) is what is settled, of the notices old enough.
LEMMA DoneIsSettled ==
    ASSUME NEW p \in Pruners, NEW n \in Notices, Done(n) PROVE Settled_For(p, n)
BY DEF Done, Settled_For

LEMMA PruneReads ==
    ASSUME RetentionInv, NEW p \in Pruners,
           PruneSelect(p) \/ PruneScanned(p) \/ (\E n \in Notices : PruneScan(p, n))
             \/ (\E e \in Deliveries : PruneDelete(p, e))
    PROVE  RetentionInv'
<1> USE DEF RetentionInv
<1>1. UNCHANGED <<stamped, shard, state, retries, slipped>>
  BY DEF PruneSelect, PruneScanned, PruneScan, PruneDelete, db, local
<1>2. \A q \in Pruners : \A n \in Notices : Settled_For(q, n) => Settled_For(q, n)'
  BY <1>1 DEF Settled_For, DeliveriesOf, Unsent
<1>3. p \in Users /\ None \notin Users /\ p \notin Retriers
  BY RetentionAssumption DEF Users
<1>4. RetentionTyped' /\ NoticesLocked'
  <2>1. CASE PruneSelect(p)
    BY <2>1, <1>3 DEF PruneSelect, db, RetentionTyped, NoticesLocked, Users
  <2>2. CASE PruneScanned(p)
    BY <2>2, <1>3 DEF PruneScanned, db, RetentionTyped, NoticesLocked, Users
  <2>3. ASSUME NEW n \in Notices, PruneScan(p, n) PROVE RetentionTyped' /\ NoticesLocked'
    <3>1. CASE holder_of[n] = None /\ n \notin pruned
      <4>1. RetentionTyped'
        BY <2>3, <3>1, <1>3 DEF PruneScan, db, RetentionTyped
      <4>2. NoticesLocked'
        BY <2>3, <3>1, <1>3 DEF PruneScan, RetentionTyped, NoticesLocked, Users
      <4> QED BY <4>1, <4>2
    <3>2. CASE ~(holder_of[n] = None /\ n \notin pruned)
      BY <2>3, <3>2 DEF PruneScan, db, RetentionTyped, NoticesLocked
    <3> QED BY <3>1, <3>2
  <2>4. ASSUME NEW e \in Deliveries, PruneDelete(p, e) PROVE RetentionTyped' /\ NoticesLocked'
    <3>1. RetentionTyped'
      BY <2>4, <1>3 DEF PruneDelete, db, local, RetentionTyped
    <3>2. NoticesLocked'
      BY <2>4, <1>3 DEF PruneDelete, local, RetentionTyped, NoticesLocked, Users
    <3> QED BY <3>1, <3>2
  <2> QED BY <2>1, <2>2, <2>3, <2>4
<1>5. ASSUME NEW q \in Pruners, NEW n \in scan'[q] \cup doomed'[q]
      PROVE  n \in Notices /\ (n \in scan[q] \cup doomed[q] \/ Done(n))
  BY <1>5 DEF PruneSelect, PruneScanned, PruneScan, PruneDelete, local, RetentionTyped
<1>6. PrunedSettled'
  BY <1>2, <1>5, DoneIsSettled DEF PrunedSettled
<1> QED BY <1>4, <1>6

LEMMA PruneEnds ==
    ASSUME RetentionInv, NEW p \in Pruners, PruneCommit(p)
    PROVE  RetentionInv'
<1> USE DEF RetentionInv
<1>1. /\ RetentionTyped' /\ NoticesLocked'
      /\ \A q \in Pruners : \A n \in scan'[q] \cup doomed'[q] :
            /\ q # p /\ n \in Notices /\ n \in scan[q] \cup doomed[q]
            /\ slipped[q] \subseteq slipped'[q]
  <2>1. p \in Users
    BY DEF Users
  <2>2. /\ stamped' = stamped /\ retries' \in [Deliveries -> Nat]
        /\ shard' \in [Notices -> {"none", "PENDING", "CLAIMED", "FINISHED", "ABANDONED"}]
        /\ state' \in [Deliveries -> {"none", "PENDING", "SENDING", "SENT", "ABANDONED"}]
    BY DEF PruneCommit, RetentionTyped
  <2> QED BY <2>1, <2>2, EndedKeeps DEF PruneCommit
<1>2. PrunedSettled'
  BY <1>1 DEF PruneCommit, RetentionTyped, PrunedSettled, Settled_For, DeliveriesOf, Unsent
<1> QED BY <1>1, <1>2

LEMMA PipelineKeeps ==
    ASSUME RetentionInv,
           \/ \E n \in Notices : FanOut(n) \/ RunShard(n) \/ GrowOld(n)
           \/ \E e \in Deliveries : Send(e)
    PROVE  RetentionInv'
<1> USE DEF RetentionInv
<1>1. UNCHANGED <<local, holder_of>>
  BY DEF FanOut, RunShard, GrowOld, Send
<1>2. RetentionTyped'
  BY <1>1 DEF FanOut, RunShard, GrowOld, Send, Wrote, RetentionTyped, local
<1>3. NoticesLocked'
  BY <1>1 DEF NoticesLocked, local
<1>4. \A p \in Pruners : \A n \in Notices : Settled_For(p, n) => Settled_For(p, n)'
  BY <1>1 DEF FanOut, RunShard, GrowOld, Send, Wrote, RetentionTyped, Settled_For,
              DeliveriesOf, Unsent, local
<1> QED BY <1>1, <1>2, <1>3, <1>4 DEF PrunedSettled, RetentionTyped, local

LEMMA RetentionNextHolds == RetentionInv /\ [RetentionNext]_retentionVars => RetentionInv'
<1> SUFFICES ASSUME RetentionInv, [RetentionNext]_retentionVars PROVE RetentionInv'
  OBVIOUS
<1>1. CASE UNCHANGED retentionVars
  BY <1>1 DEF retentionVars, db, local, RetentionInv, RetentionTyped, NoticesLocked,
              PrunedSettled, Settled_For, DeliveriesOf, Unsent
<1>2. ASSUME NEW r \in Retriers, RetryHoldNotice(r) \/ (\E e \in Deliveries : RetryHold(r, e))
      PROVE  RetentionInv'
  BY <1>2, RetryLocks
<1>3. ASSUME NEW r \in Retriers, RetryAccepted(r) PROVE RetentionInv'
  BY <1>3, AcceptedSlips
<1>4. ASSUME NEW r \in Retriers, RetryRefused(r) PROVE RetentionInv'
  BY <1>4, NothingWritten DEF RetryRefused, Users
<1>5. ASSUME NEW p \in Pruners,
             \/ PruneSelect(p) \/ PruneScanned(p) \/ PruneCommit(p)
             \/ \E n \in Notices : PruneScan(p, n)
             \/ \E e \in Deliveries : PruneDelete(p, e)
      PROVE  RetentionInv'
  BY <1>5, PruneReads, PruneEnds
<1>6. ASSUME NEW u \in Users, DeadlockVictim(u) \/ ProcessDies(u) PROVE RetentionInv'
  BY <1>6, NothingWritten DEF DeadlockVictim, ProcessDies
<1>7. CASE \/ \E n \in Notices : FanOut(n) \/ RunShard(n) \/ GrowOld(n)
           \/ \E e \in Deliveries : Send(e)
  BY <1>7, PipelineKeeps
<1> QED BY <1>1, <1>2, <1>3, <1>4, <1>5, <1>6, <1>7 DEF RetentionNext

\* What is pruned is done with as it is deleted: none waits to be fanned out, nor has a
\* shard to run, nor a delivery to send - but for a retry that committed after this prune
\* found the notice and before it locked it - for any notices, prunes and retries.
THEOREM UnfinishedIsKept == RetentionSpec => UnfinishedKept
<1> DEFINE Kept == \A n \in pruned' \ pruned :
                      /\ n \in stamped
                      /\ shard[n] \notin {"PENDING", "CLAIMED"}
                      /\ \E p \in Pruners :
                            /\ n \in doomed[p]
                            /\ \A d \in DeliveriesOf(n) : Unsent(d) => d \in slipped[p]
<1>1. RetentionInv /\ [RetentionNext]_retentionVars => Kept
  <2> SUFFICES ASSUME RetentionInv, [RetentionNext]_retentionVars, NEW n \in pruned' \ pruned
               PROVE  /\ n \in stamped
                      /\ shard[n] \notin {"PENDING", "CLAIMED"}
                      /\ \E p \in Pruners :
                            /\ n \in doomed[p]
                            /\ \A d \in DeliveriesOf(n) : Unsent(d) => d \in slipped[p]
    OBVIOUS
  <2>1. PICK p \in Pruners : PruneCommit(p)
    BY DEF RetentionNext, RetryHold, RetryHoldNotice, RetryAccepted, RetryRefused, PruneSelect,
           PruneScanned, PruneScan, PruneDelete, DeadlockVictim, ProcessDies, FanOut, RunShard,
           GrowOld, Send, retentionVars, db
  <2>2. n \in doomed[p]
    BY <2>1 DEF PruneCommit
  <2>3. Settled_For(p, n)
    BY <2>2 DEF RetentionInv, PrunedSettled
  <2> QED BY <2>2, <2>3 DEF Settled_For
<1>2. RetentionSpec => []RetentionInv
  BY RetentionInitHolds, RetentionNextHolds, PTL DEF RetentionSpec
<1> QED BY <1>1, <1>2, PTL DEF RetentionSpec, UnfinishedKept

-----------------------------------------------------------------------------
\* The failures that end a sequence of outcomes are the last f of it, and whether it has
\* DISABLE_AFTER of them in a row.
FailsLast(h, f) ==
    /\ f \in 0..Len(h)
    /\ \A j \in (Len(h) - f + 1)..Len(h) : ~h[j]
    /\ f < Len(h) => h[Len(h) - f]
HasRun(h) ==
    \E i \in DOMAIN h : \A j \in i..(i + DISABLE_AFTER - 1) : j \in DOMAIN h /\ ~h[j]

EndpointTyped ==
    /\ endpoint \in [failures : Nat, parked : BOOLEAN, url : {"a", "b"}]
    /\ worker \in [Workers -> {"idle", "sent", "counted", "signalled", "done"}]
    /\ counted \in [Workers -> [failures : Nat, parked : BOOLEAN, url : {"a", "b"}]]
    /\ succeeded \in [Workers -> BOOLEAN]
    /\ history \in Seq(BOOLEAN) /\ signals \in Nat

\* Who has counted holds the row, and what it is to leave is the row counted once more.
CountedHolds ==
    \A w \in Workers : worker[w] \in {"counted", "signalled"} =>
        /\ holder = {w}
        /\ counted[w].failures = IF succeeded[w] THEN 0 ELSE endpoint.failures + 1
        /\ counted[w].parked <=> endpoint.parked \/ worker[w] = "signalled"
        /\ worker[w] = "signalled" <=>
            ~endpoint.parked /\ ~succeeded[w] /\ endpoint.failures + 1 >= DISABLE_AFTER

CountIsTrue ==
    /\ FailsLast(history, endpoint.failures)
    /\ endpoint.parked <=> HasRun(history)
    /\ signals = IF endpoint.parked THEN 1 ELSE 0

EndpointInv == EndpointTyped /\ CountedHolds /\ CountIsTrue

LEMMA TailAppended ==
  ASSUME NEW h \in Seq(BOOLEAN), NEW f \in Nat, FailsLast(h, f), NEW ok \in BOOLEAN
  PROVE  FailsLast(Append(h, ok), IF ok THEN 0 ELSE f + 1)
<1>1. Len(h) \in Nat /\ Len(Append(h, ok)) = Len(h) + 1
  OBVIOUS
<1>2. /\ \A j \in 1..Len(h) : Append(h, ok)[j] = h[j]
      /\ Append(h, ok)[Len(h) + 1] = ok
  OBVIOUS
<1> DEFINE longer == Append(h, ok)
<1>3. Len(longer) = Len(h) + 1 /\ (\A j \in 1..Len(h) : longer[j] = h[j]) /\ longer[Len(h) + 1] = ok
  BY <1>1, <1>2
<1> HIDE DEF longer
<1>4. FailsLast(longer, IF ok THEN 0 ELSE f + 1)
  BY <1>1, <1>3 DEF FailsLast
<1> QED BY <1>4 DEF longer

LEMMA RunAppended ==
  ASSUME NEW h \in Seq(BOOLEAN), NEW f \in Nat, FailsLast(h, f), NEW ok \in BOOLEAN
  PROVE  HasRun(Append(h, ok)) <=> HasRun(h) \/ (~ok /\ f + 1 >= DISABLE_AFTER)
<1> DEFINE longer == Append(h, ok)
<1>1. /\ Len(h) \in Nat /\ DOMAIN h = 1..Len(h) /\ DOMAIN longer = 1..(Len(h) + 1)
      /\ \A j \in 1..Len(h) : longer[j] = h[j]
      /\ longer[Len(h) + 1] = ok
  OBVIOUS
<1> HIDE DEF longer
<1>2. DISABLE_AFTER \in Nat \ {0}
  BY EndpointAssumption
<1>3. HasRun(h) => HasRun(longer)
  BY <1>1, <1>2 DEF HasRun
<1>4. ASSUME ~ok, f + 1 >= DISABLE_AFTER PROVE HasRun(longer)
  <2> DEFINE i == Len(h) + 2 - DISABLE_AFTER
  <2>1. f \in 0..Len(h) /\ \A j \in (Len(h) - f + 1)..Len(h) : ~h[j]
    BY DEF FailsLast
  <2>2. i \in DOMAIN longer
    BY <1>1, <1>2, <1>4, <2>1
  <2>3. \A j \in i..(i + DISABLE_AFTER - 1) : j \in DOMAIN longer /\ ~longer[j]
    BY <1>1, <1>2, <1>4, <2>1
  <2> QED BY <2>2, <2>3 DEF HasRun
<1>5. ASSUME HasRun(longer), ~HasRun(h) PROVE ~ok /\ f + 1 >= DISABLE_AFTER
  <2>1. PICK i \in 1..(Len(h) + 1) :
          \A j \in i..(i + DISABLE_AFTER - 1) : j \in 1..(Len(h) + 1) /\ ~longer[j]
    BY <1>1, <1>5 DEF HasRun
  <2>2. i + DISABLE_AFTER - 1 = Len(h) + 1
    <3>1. i + DISABLE_AFTER - 1 \in i..(i + DISABLE_AFTER - 1)
      BY <1>2
    <3>2. i + DISABLE_AFTER - 1 <= Len(h) + 1
      BY <2>1, <3>1
    <3>3. CASE i + DISABLE_AFTER - 1 <= Len(h)
      <4>1. i \in DOMAIN h /\ \A j \in i..(i + DISABLE_AFTER - 1) : j \in DOMAIN h /\ ~h[j]
        BY <1>1, <1>2, <2>1, <3>3
      <4> QED BY <1>5, <4>1 DEF HasRun
    <3> QED BY <1>1, <1>2, <3>2, <3>3
  <2>3. ~ok
    BY <1>1, <1>2, <2>1, <2>2
  <2>4. CASE f + 1 < DISABLE_AFTER
    <3>1. f < Len(h) /\ h[Len(h) - f] /\ Len(h) - f \in 1..Len(h)
      BY <1>1, <1>2, <2>1, <2>2, <2>4 DEF FailsLast
    <3>2. Len(h) - f \in i..(i + DISABLE_AFTER - 1)
      BY <1>1, <1>2, <2>1, <2>2, <2>4
    <3> QED BY <1>1, <2>1, <3>1, <3>2
  <2> QED BY <1>2, <2>3, <2>4
<1> QED BY <1>3, <1>4, <1>5 DEF longer

LEMMA TailIsInARow ==
  ASSUME EndpointTyped, FailsLast(history, endpoint.failures)
  PROVE  endpoint.failures = InARow
<1> DEFINE f == endpoint.failures
           last == (Len(history) - f + 1)..Len(history)
<1>1. f \in Nat /\ Len(history) \in Nat /\ f <= Len(history) /\ DOMAIN history = 1..Len(history)
  BY DEF EndpointTyped, FailsLast
<1>2. {i \in DOMAIN history : \A j \in i..Len(history) : ~history[j]} = last
  <2>1. \A i \in last : i \in DOMAIN history /\ \A j \in i..Len(history) : ~history[j]
    BY <1>1 DEF FailsLast
  <2>2. ASSUME NEW i \in DOMAIN history, \A j \in i..Len(history) : ~history[j] PROVE i \in last
    <3>1. CASE i <= Len(history) - f
      <4>1. Len(history) - f \in i..Len(history) /\ history[Len(history) - f]
        BY <1>1, <3>1 DEF FailsLast
      <4> QED BY <2>2, <4>1
    <3> QED BY <1>1, <3>1
  <2> QED BY <2>1, <2>2
<1>3. Cardinality(last) = f
  <2>1. \A a, b \in Int : Cardinality(a..b) = IF a > b THEN 0 ELSE b - a + 1
    BY FS_Interval
  <2>2. Len(history) - f + 1 \in Int /\ Len(history) \in Int
    BY <1>1
  <2>3. Cardinality(last) = IF Len(history) - f + 1 > Len(history) THEN 0
                            ELSE Len(history) - (Len(history) - f + 1) + 1
    BY <2>1, <2>2
  <2> QED BY <1>1, <2>3
<1> QED BY <1>2, <1>3 DEF InARow

-----------------------------------------------------------------------------
LEMMA EndpointInitHolds == EndpointInit => EndpointInv
<1> SUFFICES ASSUME EndpointInit PROVE EndpointInv
  OBVIOUS
<1>1. EndpointTyped /\ CountedHolds
  BY DEF EndpointInit, EndpointTyped, CountedHolds, Made
<1>2. FailsLast(history, endpoint.failures) /\ ~HasRun(history)
  BY DEF EndpointInit, FailsLast, HasRun, Made
<1> QED BY <1>1, <1>2 DEF EndpointInit, EndpointInv, CountIsTrue, Made

LEMMA SendsKeeps == ASSUME EndpointInv, NEW w \in Workers, Sends(w) PROVE EndpointInv'
<1>1. EndpointTyped'
  BY DEF EndpointInv, EndpointTyped, Sends
<1>2. CountedHolds'
  BY DEF EndpointInv, EndpointTyped, CountedHolds, Sends
<1> QED BY <1>1, <1>2 DEF EndpointInv, CountIsTrue, Sends

LEMMA AttemptedKeeps == ASSUME EndpointInv, NEW w \in Workers, attempted(w) PROVE EndpointInv'
<1> DEFINE row == AfterCount(w)
           left == [row EXCEPT !.parked = @ \/ Parks(w, row)]
<1>1. /\ row \in [failures : Nat, parked : BOOLEAN, url : {"a", "b"}]
      /\ row.failures = IF succeeded[w] THEN 0 ELSE endpoint.failures + 1
      /\ row.parked = endpoint.parked
  <2>1. endpoint \in [failures : Nat, parked : BOOLEAN, url : {"a", "b"}]
    BY DEF EndpointInv, EndpointTyped
  <2>2. CASE succeeded[w]
    <3>1. row = [endpoint EXCEPT !.failures = 0]
      BY <2>2 DEF AfterCount
    <3> QED BY <2>1, <2>2, <3>1
  <2>3. CASE ~succeeded[w]
    <3>1. row = [endpoint EXCEPT !.failures = endpoint.failures + 1]
      BY <2>3 DEF AfterCount
    <3> QED BY <2>1, <2>3, <3>1
  <2> QED BY <2>2, <2>3
<1>2. Parks(w, row) <=> ~endpoint.parked /\ ~succeeded[w] /\ endpoint.failures + 1 >= DISABLE_AFTER
  BY <1>1 DEF Parks
<1>3. /\ counted' = [counted EXCEPT ![w] = left]
      /\ worker' = [worker EXCEPT ![w] = IF Parks(w, row) THEN "signalled" ELSE "counted"]
      /\ holder = {} /\ holder' = {w}
      /\ UNCHANGED <<endpoint, succeeded, history, signals>>
  BY DEF attempted
<1> HIDE DEF row
<1>4. Parks(w, row) \in BOOLEAN
  BY DEF Parks
<1>5. /\ left \in [failures : Nat, parked : BOOLEAN, url : {"a", "b"}]
      /\ left.failures = row.failures
      /\ left.parked <=> row.parked \/ Parks(w, row)
  BY <1>1, <1>4
<1> HIDE DEF left
<1>6. EndpointTyped'
  BY <1>3, <1>5 DEF EndpointInv, EndpointTyped
<1>7. \A v \in Workers : worker[v] \notin {"counted", "signalled"}
  BY <1>3 DEF EndpointInv, CountedHolds
<1>8. CountedHolds'
  <2> SUFFICES ASSUME NEW v \in Workers, worker'[v] \in {"counted", "signalled"}
               PROVE  /\ holder' = {v}
                      /\ counted'[v].failures = IF succeeded'[v] THEN 0 ELSE endpoint'.failures + 1
                      /\ counted'[v].parked <=> endpoint'.parked \/ worker'[v] = "signalled"
                      /\ worker'[v] = "signalled" <=>
                          /\ ~endpoint'.parked /\ ~succeeded'[v]
                          /\ endpoint'.failures + 1 >= DISABLE_AFTER
    BY DEF CountedHolds
  <2>1. v = w
    BY <1>3, <1>7 DEF EndpointInv, EndpointTyped
  <2>2. /\ counted'[w] = left
        /\ worker'[w] = IF Parks(w, row) THEN "signalled" ELSE "counted"
    BY <1>3 DEF EndpointInv, EndpointTyped
  <2> QED BY <1>1, <1>2, <1>3, <1>5, <2>1, <2>2
<1> QED BY <1>3, <1>6, <1>8 DEF EndpointInv, CountIsTrue

LEMMA FinishesKeeps == ASSUME EndpointInv, NEW w \in Workers, Finishes(w) PROVE EndpointInv'
<1>1. /\ holder = {w} /\ holder' = {} /\ endpoint' = counted[w]
      /\ history' = Append(history, succeeded[w])
      /\ signals' = signals + (IF worker[w] = "signalled" THEN 1 ELSE 0)
      /\ worker' = [worker EXCEPT ![w] = "done"]
  BY DEF Finishes, EndpointInv, CountedHolds
<1>2. EndpointTyped'
  BY <1>1 DEF EndpointInv, EndpointTyped, Finishes, Forgets, Made
<1>3. CountedHolds'
  <2>1. \A v \in Workers : worker[v] \in {"counted", "signalled"} => v = w
    BY <1>1 DEF EndpointInv, CountedHolds
  <2>2. \A v \in Workers : worker'[v] \notin {"counted", "signalled"}
    BY <1>1, <2>1 DEF EndpointInv, EndpointTyped
  <2> QED BY <2>2 DEF CountedHolds
<1>4. /\ endpoint'.failures = IF succeeded[w] THEN 0 ELSE endpoint.failures + 1
      /\ endpoint'.parked <=> endpoint.parked \/ worker[w] = "signalled"
      /\ worker[w] = "signalled" <=>
          ~endpoint.parked /\ ~succeeded[w] /\ endpoint.failures + 1 >= DISABLE_AFTER
  BY <1>1 DEF EndpointInv, CountedHolds, Finishes
<1>5. /\ history \in Seq(BOOLEAN) /\ endpoint.failures \in Nat /\ succeeded[w] \in BOOLEAN
      /\ FailsLast(history, endpoint.failures)
  BY DEF EndpointInv, EndpointTyped, CountIsTrue
<1>6. FailsLast(history', endpoint'.failures)
  BY <1>1, <1>4, <1>5, TailAppended
<1>7. HasRun(history') <=>
        HasRun(history) \/ (~succeeded[w] /\ endpoint.failures + 1 >= DISABLE_AFTER)
  BY <1>1, <1>5, RunAppended
<1>8. endpoint'.parked <=> HasRun(history')
  BY <1>4, <1>7 DEF EndpointInv, CountIsTrue
<1>9. signals' = IF endpoint'.parked THEN 1 ELSE 0
  BY <1>1, <1>4 DEF EndpointInv, CountIsTrue
<1> QED BY <1>2, <1>3, <1>6, <1>8, <1>9 DEF EndpointInv, CountIsTrue

LEMMA RollsBackKeeps ==
  ASSUME EndpointInv, NEW w \in Workers, RollsBackAttempt(w) PROVE EndpointInv'
<1>1. EndpointTyped'
  BY DEF EndpointInv, EndpointTyped, RollsBackAttempt, Forgets, Made
<1>2. CountedHolds'
  BY DEF EndpointInv, EndpointTyped, CountedHolds, RollsBackAttempt, Forgets
<1> QED BY <1>1, <1>2 DEF EndpointInv, CountIsTrue, RollsBackAttempt

\* A row nobody holds: no transaction has counted.
LEMMA RequestKeeps == EndpointInv /\ (Edits \/ unpark) => EndpointInv'
<1> SUFFICES ASSUME EndpointInv, Edits \/ unpark PROVE EndpointInv'
  OBVIOUS
<1>1. EndpointTyped'
  <2>1. CASE Edits
    BY <2>1 DEF EndpointInv, EndpointTyped, Edits
  <2>2. CASE unpark
    <3>1. [endpoint EXCEPT !.failures = 0, !.parked = FALSE] \in
            [failures : Nat, parked : BOOLEAN, url : {"a", "b"}]
      BY DEF EndpointInv, EndpointTyped
    <3> QED BY <2>2, <3>1 DEF EndpointInv, EndpointTyped, unpark
  <2> QED BY <2>1, <2>2
<1>2. \A w \in Workers : worker[w] \notin {"counted", "signalled"}
  BY DEF EndpointInv, CountedHolds, Edits, unpark
<1>3. CountedHolds'
  BY <1>2 DEF CountedHolds, Edits, unpark
<1>4. CASE Edits
  <2>1. endpoint'.failures = endpoint.failures /\ endpoint'.parked = endpoint.parked
    BY <1>4 DEF Edits, EndpointInv, EndpointTyped
  <2> QED BY <1>1, <1>3, <1>4, <2>1 DEF EndpointInv, CountIsTrue, Edits
<1>5. CASE unpark
  <2>1. endpoint'.failures = 0 /\ endpoint'.parked = FALSE /\ history' = <<>> /\ signals' = 0
    BY <1>5 DEF unpark, EndpointInv, EndpointTyped
  <2>2. FailsLast(history', endpoint'.failures) /\ ~HasRun(history')
    BY <2>1 DEF FailsLast, HasRun
  <2> QED BY <1>1, <1>3, <2>1, <2>2 DEF EndpointInv, CountIsTrue
<1> QED BY <1>4, <1>5

LEMMA EndpointNextHolds == EndpointInv /\ [EndpointNext]_endpointVars => EndpointInv'
<1> SUFFICES ASSUME EndpointInv, [EndpointNext]_endpointVars PROVE EndpointInv'
  OBVIOUS
<1>1. CASE UNCHANGED endpointVars
  BY <1>1 DEF endpointVars, EndpointInv, EndpointTyped, CountedHolds, CountIsTrue
<1>2. CASE EndpointNext
  BY <1>2, SendsKeeps, AttemptedKeeps, FinishesKeeps, RollsBackKeeps, RequestKeeps DEF EndpointNext
<1> QED BY <1>1, <1>2

\* WebhookChannel.attempted(): for any workers and any DISABLE_AFTER, an endpoint counts
\* its failures in a row and is parked for that many, once, until it is unparked - the
\* row held from the count to the commit lets no other count in between.
THEOREM FailuresPark == EndpointSpec => []ParkedForItsFailures
<1>1. EndpointInv => ParkedForItsFailures
  BY TailIsInARow DEF EndpointInv, CountIsTrue, ParkedForItsFailures, HasRun
<1> QED BY EndpointInitHolds, EndpointNextHolds, <1>1, PTL DEF EndpointSpec
=============================================================================
