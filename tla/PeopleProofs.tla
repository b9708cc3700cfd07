----------------------------- MODULE PeopleProofs -----------------------------
(***************************************************************************)
(* Theorems about Subscriptions, for any writers, variants and calls: a    *)
(* row for every variant stands alone, so that the fan-out and the views   *)
(* give one answer, and a force stands over the person's own choice.  And  *)
(* about Comments, for any callers, threads and depth: a thread is of one  *)
(* target, and no deeper than it may be.                                   *)
(***************************************************************************)
EXTENDS Subscriptions, Comments, TLAPS

\* No row for every variant beside one for a variant, in `of`.
Alone(of) == \A k \in Variants : of[k] # Absent => of[Every] = Absent

\* Whoever has written a row that its transaction is to leave holds the guard.
GuardedWriters ==
    \A w \in Writers : guard # w => \A k \in Keys : staged[w][k] \in {Same, Absent}

\* What each transaction sees of the rows, and would leave of them, is as exclusive as
\* what is committed.
ViewsAlone == \A w \in Writers : Alone(View(w))

\* A call that has not come to its rows has staged nothing.
FreshCalls ==
    \A w \in Writers : call[w].at \in {"idle", "check", "delete", "clear"} =>
        \A k \in Keys : staged[w][k] = Same

IInv == SubsTypeOK /\ GuardedWriters /\ FreshCalls /\ EveryAlone /\ ViewsAlone

-----------------------------------------------------------------------------
LEMMA Distinct == Same # Absent /\ Same \notin Subscription
BY DEF Same, Absent, Subscription

LEMMA KeysAre == Variants \subseteq Keys /\ Every \in Keys /\ Every \notin Variants
BY SubscriptionsAssumption DEF Keys

\* A view is of rows that may be there or not.
LEMMA ViewTyped ==
  ASSUME SubsTypeOK, NEW w \in Writers
  PROVE  View(w) \in [Keys -> Subscription \cup {Absent}]
BY DEF SubsTypeOK, View

LEMMA InitHolds == SubsInit => IInv
<1> SUFFICES ASSUME SubsInit PROVE IInv
  OBVIOUS
<1>1. SubsTypeOK
  BY SubscriptionsAssumption DEF SubsInit, SubsTypeOK, NoCall, Keys, Nobody
<1>2. \A w \in Writers, k \in Keys : View(w)[k] = Absent
  BY DEF SubsInit, View
<1>3. GuardedWriters /\ FreshCalls /\ EveryAlone
  BY KeysAre DEF SubsInit, GuardedWriters, FreshCalls, EveryAlone
<1>4. ViewsAlone
  BY <1>2, KeysAre DEF ViewsAlone, Alone
<1> QED BY <1>1, <1>3, <1>4 DEF IInv

-----------------------------------------------------------------------------
\* Types: what a call stages, what it may become, and what an error leaves.
LEMMA StageTyped ==
  ASSUME SubsTypeOK, NEW w \in Writers, NEW of \in SUBSET Keys,
         NEW new, new \in [of -> Subscription \cup {Absent}], Stage(w, new)
  PROVE  staged' \in [Writers -> [Keys -> Subscription \cup {Absent, Same}]]
BY DEF SubsTypeOK, Stage

LEMMA LockTyped ==
  ASSUME SubsTypeOK, NEW w \in Writers, NEW keys, Lock(w, keys)
  PROVE  rowlock' \in [Keys -> Writers \cup {Nobody}]
BY DEF SubsTypeOK, Lock

LEMMA GoesTyped ==
  ASSUME SubsTypeOK, NEW w \in Writers,
         NEW at \in {"idle", "check", "delete", "clear", "fetch", "write", "commit"}, Goes(w, at)
  PROVE  call' \in [Writers -> [name: {"none", "subscribe", "unsubscribe", "force", "release"},
                            at: {"idle", "check", "delete", "clear", "fetch", "write", "commit"},
                            key: Keys, on: BOOLEAN]]
<1> DEFINE Places == {"idle", "check", "delete", "clear", "fetch", "write", "commit"}
           Called == [name: {"none", "subscribe", "unsubscribe", "force", "release"},
                      at: Places, key: Keys, on: BOOLEAN]
<1>1. call \in [Writers -> Called]
  BY DEF SubsTypeOK
<1>2. at \in Places
  OBVIOUS
<1> HIDE DEF Places
<1>3. [call[w] EXCEPT !.at = at] \in Called
  BY <1>1, <1>2
<1>4. call' = [call EXCEPT ![w] = [call[w] EXCEPT !.at = at]]
  BY DEF Goes
<1>5. call' \in [Writers -> Called]
  BY <1>1, <1>3, <1>4
<1> QED BY <1>5 DEF Places

LEMMA RefusedTyped ==
  ASSUME SubsTypeOK, NEW w \in Writers, Refused(w), UNCHANGED <<policy, apart, asked>>
  PROVE  SubsTypeOK'
BY KeysAre DEF SubsTypeOK, Refused, NoCall

\* What the two things that may be written are.
LEMMA WrittenTyped ==
  ASSUME NEW on \in BOOLEAN, NEW row \in Subscription \cup {Absent}
  PROVE  /\ Chosen(on, row) \in Subscription
         /\ Forced(on, row) \in Subscription
<1>1. CASE row = Absent
  BY <1>1 DEF Chosen, Forced, Subscription
<1>2. CASE row # Absent
  <2>1. row \in Subscription
    BY <1>2
  <2> QED BY <1>2, <2>1 DEF Chosen, Forced, Subscription
<1> QED BY <1>1, <1>2

-----------------------------------------------------------------------------
\* Fewer rows are no less exclusive.
LEMMA AloneShrinks ==
  ASSUME NEW of, NEW less, Alone(of),
         \A k \in Keys : less[k] # Absent => of[k] # Absent
  PROVE  Alone(less)
BY KeysAre DEF Alone

LEMMA EveryAloneIs == EveryAlone <=> Alone(subs)
BY DEF EveryAlone, Alone

LEMMA ViewAt ==
  ASSUME NEW w \in Writers, NEW k \in Keys
  PROVE  View(w)[k] = IF staged[w][k] = Same THEN subs[k] ELSE staged[w][k]
BY DEF View

LEMMA ViewAtNext ==
  ASSUME NEW w \in Writers, NEW k \in Keys
  PROVE  View(w)'[k] = IF staged'[w][k] = Same THEN subs'[k] ELSE staged'[w][k]
BY DEF View

\* Locks, fetches and places in a call are no part of what the rows are.
LEMMA Aside ==
  ASSUME IInv, UNCHANGED <<subs, staged, guard>>, SubsTypeOK', FreshCalls'
  PROVE  IInv'
<1>1. GuardedWriters' /\ EveryAlone'
  BY DEF IInv, GuardedWriters, EveryAlone
<1>2. ViewsAlone'
  BY DEF IInv, ViewsAlone, View, Alone
<1> QED BY <1>1, <1>2 DEF IInv

\* A transaction that gives up leaves the rows as they were.
LEMMA RefusedKeeps ==
  ASSUME IInv, NEW w \in Writers, Refused(w), UNCHANGED <<policy, apart, asked>>
  PROVE  IInv'
<1>1. SubsTypeOK'
  BY RefusedTyped DEF IInv
<1>2. subs' = subs /\ (\A v \in Writers \ {w} : staged'[v] = staged[v] /\ call'[v] = call[v])
  BY DEF Refused, IInv, SubsTypeOK
<1>3. \A k \in Keys : staged'[w][k] = Same
  BY DEF Refused, IInv, SubsTypeOK
<1>4. \A v \in Writers \ {w} : guard' # v => guard # v
  BY DEF Refused
<1>5. GuardedWriters'
  BY <1>2, <1>3, <1>4 DEF GuardedWriters, IInv
<1>6. FreshCalls'
  BY <1>2, <1>3 DEF FreshCalls, IInv
<1>7. EveryAlone'
  BY <1>2 DEF EveryAlone, IInv
<1>8. ViewsAlone'
  <2> SUFFICES ASSUME NEW v \in Writers PROVE Alone(View(v)')
    BY DEF ViewsAlone, Alone
  <2>1. CASE v = w
    <3>1. \A k \in Keys : View(v)'[k] = subs[k]
      BY <2>1, <1>2, <1>3, ViewAtNext
    <3> QED BY <3>1, AloneShrinks, EveryAloneIs DEF IInv
  <2>2. CASE v # w
    <3>1. \A k \in Keys : View(v)'[k] = View(v)[k]
      BY <2>2, <1>2, ViewAt, ViewAtNext
    <3> QED BY <3>1, AloneShrinks DEF IInv, ViewsAlone
  <2> QED BY <2>1, <2>2
<1> QED BY <1>1, <1>5, <1>6, <1>7, <1>8 DEF IInv

\* Staging the deletion of rows takes no guard, and leaves fewer.
LEMMA DeletesKeeps ==
  ASSUME IInv, NEW w \in Writers, NEW keys \in SUBSET Keys, Deletes(w, keys),
         UNCHANGED <<policy, apart, asked, subs, guard, fetched, choice>>,
         NEW at \in {"commit", "fetch"}, Goes(w, at)
  PROVE  IInv'
<1>1. SubsTypeOK'
  <2>1. staged' \in [Writers -> [Keys -> Subscription \cup {Absent, Same}]]
    BY StageTyped DEF IInv, Deletes
  <2>2. rowlock' \in [Keys -> Writers \cup {Nobody}]
    BY LockTyped DEF IInv, Deletes
  <2> QED BY <2>1, <2>2, GoesTyped DEF IInv, SubsTypeOK
<1>2. \A v \in Writers \ {w} : staged'[v] = staged[v] /\ call'[v].at = call[v].at
  BY DEF Deletes, Stage, Goes, IInv, SubsTypeOK
<1>3. \A k \in Keys : staged'[w][k] = IF k \in keys THEN Absent ELSE staged[w][k]
  BY DEF Deletes, Stage, IInv, SubsTypeOK
<1>4. call'[w].at = at
  BY DEF Goes, IInv, SubsTypeOK
<1>5. GuardedWriters'
  BY <1>2, <1>3 DEF GuardedWriters, IInv
<1>6. FreshCalls'
  BY <1>2, <1>4 DEF FreshCalls, IInv
<1>7. EveryAlone'
  BY DEF EveryAlone, IInv
<1>8. ViewsAlone'
  <2> SUFFICES ASSUME NEW v \in Writers PROVE Alone(View(v)')
    BY DEF ViewsAlone, Alone
  <2>1. \A k \in Keys : View(v)'[k] # Absent => View(v)[k] # Absent
    BY <1>2, <1>3, Distinct, ViewAt, ViewAtNext
  <2> QED BY <2>1, AloneShrinks DEF IInv, ViewsAlone
<1> QED BY <1>1, <1>5, <1>6, <1>7, <1>8 DEF IInv

-----------------------------------------------------------------------------
LEMMA CallKeeps == ASSUME IInv, NEW w \in Writers, Call(w) PROVE IInv'
<1>1. SubsTypeOK'
  BY SubscriptionsAssumption DEF Call, IInv, SubsTypeOK
<1>2. FreshCalls'
  BY DEF Call, IInv, FreshCalls, SubsTypeOK
<1> QED BY <1>1, <1>2, Aside DEF Call

LEMMA CheckKeeps == ASSUME IInv, NEW w \in Writers, Check(w) PROVE IInv'
<1>1. CASE Refused(w)
  BY <1>1, RefusedKeeps DEF Check
<1>2. CASE ~Refused(w)
  <2>1. PICK at \in {"delete", "clear"} : Goes(w, at)
    BY <1>2 DEF Check
  <2>2. UNCHANGED <<policy, apart, asked, subs, guard, rowlock, staged, fetched, choice>>
    BY <1>2 DEF Check
  <2>3. SubsTypeOK'
    BY <2>1, <2>2, GoesTyped DEF IInv, SubsTypeOK
  <2>4. call[w].at = "check" /\ \A v \in Writers \ {w} : call'[v] = call[v]
    BY <2>1 DEF Check, At, Goes, IInv, SubsTypeOK
  <2>5. FreshCalls'
    BY <2>2, <2>4 DEF FreshCalls, IInv
  <2> QED BY <2>2, <2>3, <2>5, Aside
<1> QED BY <1>1, <1>2

LEMMA DeclinedKeeps == ASSUME IInv, NEW w \in Writers, Declined(w) PROVE IInv'
BY RefusedKeeps DEF Declined

LEMMA UnsubscribeKeeps == ASSUME IInv, NEW w \in Writers, Unsubscribe(w) PROVE IInv'
<1>1. Covered(call[w].key) \cap Rows(w) \in SUBSET Keys
  BY DEF Rows
<1> QED BY <1>1, DeletesKeeps DEF Unsubscribe

LEMMA ClearKeeps == ASSUME IInv, NEW w \in Writers, Clear(w) PROVE IInv'
<1>1. CASE call[w].key = Every
  <2>1. Rows(w) \ {Every} \in SUBSET Keys
    BY DEF Rows
  <2>2. /\ Deletes(w, Rows(w) \ {Every})
        /\ UNCHANGED <<policy, apart, asked, subs, guard, fetched, choice>>
        /\ Goes(w, "fetch")
    BY <1>1 DEF Clear
  <2> QED BY <2>1, <2>2, DeletesKeeps
<1>2. CASE call[w].key # Every /\ Refused(w)
  BY <1>2, RefusedKeeps DEF Clear
<1>3. CASE call[w].key # Every /\ ~Refused(w)
  <2>1. /\ Goes(w, "fetch")
        /\ UNCHANGED <<policy, apart, asked, subs, guard, rowlock, staged, fetched, choice>>
    BY <1>3 DEF Clear
  <2>2. SubsTypeOK'
    BY <2>1, GoesTyped DEF IInv, SubsTypeOK
  <2>3. call'[w].at = "fetch" /\ \A v \in Writers \ {w} : call'[v] = call[v]
    BY <2>1 DEF Goes, IInv, SubsTypeOK
  <2>4. FreshCalls'
    BY <2>1, <2>3 DEF FreshCalls, IInv
  <2> QED BY <2>1, <2>2, <2>4, Aside
<1> QED BY <1>1, <1>2, <1>3

LEMMA FetchKeeps == ASSUME IInv, NEW w \in Writers, Fetch(w) PROVE IInv'
<1>1. SubsTypeOK'
  <2>1. rowlock' \in [Keys -> Writers \cup {Nobody}]
    BY LockTyped DEF Fetch, IInv, SubsTypeOK
  <2>2. call[w].key \in Keys
    BY DEF IInv, SubsTypeOK
  <2>3. fetched' \in [Writers -> Subscription \cup {Absent}]
    BY <2>2, ViewTyped DEF Fetch, IInv, SubsTypeOK
  <2> QED BY <2>1, <2>3, GoesTyped DEF Fetch, IInv, SubsTypeOK
<1>2. call'[w].at = "write" /\ \A v \in Writers \ {w} : call'[v] = call[v]
  BY DEF Fetch, Goes, IInv, SubsTypeOK
<1>3. FreshCalls'
  BY <1>2 DEF Fetch, FreshCalls, IInv
<1> QED BY <1>1, <1>3, Aside DEF Fetch

\* One row written under the guard, when it is of the one kind its transaction sees.
LEMMA OneRowKeeps ==
  ASSUME IInv, NEW w \in Writers, NEW key \in Keys, NEW new \in Subscription,
         Stage(w, [k \in {key} |-> new]), Lock(w, {key}), Goes(w, "commit"),
         Guarded(w), guard' = w,
         View(w)[key] # Absent \/ Exclusive(w, key),
         UNCHANGED <<policy, apart, asked, subs, fetched, choice>>
  PROVE  IInv'
<1>1. SubsTypeOK'
  <2>1. staged' \in [Writers -> [Keys -> Subscription \cup {Absent, Same}]]
    BY StageTyped DEF IInv
  <2>2. rowlock' \in [Keys -> Writers \cup {Nobody}]
    BY LockTyped DEF IInv
  <2> QED BY <2>1, <2>2, GoesTyped DEF IInv, SubsTypeOK
<1>2. \A v \in Writers \ {w} : staged'[v] = staged[v] /\ call'[v].at = call[v].at
  BY DEF Stage, Goes, IInv, SubsTypeOK
<1>3. \A k \in Keys : staged'[w][k] = IF k = key THEN new ELSE staged[w][k]
  BY DEF Stage, IInv, SubsTypeOK
<1>4. call'[w].at = "commit"
  BY DEF Goes, IInv, SubsTypeOK
<1>5. GuardedWriters'
  <2>1. \A v \in Writers \ {w} : guard # v
    BY SubscriptionsAssumption DEF Guarded, Nobody
  <2> QED BY <1>2, <2>1 DEF GuardedWriters, IInv
<1>6. FreshCalls'
  BY <1>2, <1>4 DEF FreshCalls, IInv
<1>7. EveryAlone'
  BY DEF EveryAlone, IInv
<1>8. ViewsAlone'
  <2> SUFFICES ASSUME NEW v \in Writers PROVE Alone(View(v)')
    BY DEF ViewsAlone, Alone
  <2>1. CASE v # w
    <3>1. \A k \in Keys : View(v)'[k] = View(v)[k]
      BY <2>1, <1>2, ViewAt, ViewAtNext
    <3> QED BY <3>1, AloneShrinks DEF IInv, ViewsAlone
  <2>2. CASE v = w
    <3>1. \A k \in Keys \ {key} : View(w)'[k] = View(w)[k]
      BY <1>3, ViewAt, ViewAtNext
    <3>2. CASE View(w)[key] # Absent
      BY <2>2, <3>1, <3>2, AloneShrinks DEF IInv, ViewsAlone
    <3>3. CASE Exclusive(w, key)
      <4>1. \A k \in Keys \ {key} : View(w)'[k] # Absent => ((k = Every) <=> (key = Every))
        BY <3>1, <3>3 DEF Exclusive, Rows
      <4>2. CASE key = Every
        BY <2>2, <4>1, <4>2, KeysAre DEF Alone
      <4>3. CASE key # Every
        BY <2>2, <4>1, <4>3, KeysAre DEF Alone
      <4> QED BY <4>2, <4>3
    <3> QED BY <3>2, <3>3
  <2> QED BY <2>1, <2>2
<1> QED BY <1>1, <1>5, <1>6, <1>7, <1>8 DEF IInv

LEMMA WriteKeeps == ASSUME IInv, NEW w \in Writers, Write(w) PROVE IInv'
<1> DEFINE key == call[w].key
           new == IF call[w].name = "subscribe" THEN Chosen(call[w].on, View(w)[key])
                  ELSE Forced(call[w].on, fetched[w])
<1>1. CASE Refused(w)
  BY <1>1, RefusedKeeps DEF Write
<1>2. CASE ~Refused(w)
  <2>1. /\ Stage(w, [k \in {key} |-> new]) /\ Lock(w, {key}) /\ Goes(w, "commit")
        /\ Guarded(w) /\ guard' = w /\ Exclusive(w, key)
        /\ UNCHANGED <<policy, apart, asked, subs, fetched, choice>>
    BY <1>2 DEF Write
  <2>2. key \in Keys /\ call[w].on \in BOOLEAN /\ fetched[w] \in Subscription \cup {Absent}
    BY DEF IInv, SubsTypeOK
  <2>3. View(w)[key] \in Subscription \cup {Absent}
    BY <2>2, ViewTyped DEF IInv
  <2>4. new \in Subscription
    BY <2>2, <2>3, WrittenTyped
  <2> HIDE DEF new, key
  <2> QED BY <2>1, <2>2, <2>4, OneRowKeeps
<1> QED BY <1>1, <1>2

LEMMA ReleaseKeeps == ASSUME IInv, NEW w \in Writers, Release(w) PROVE IInv'
<1> DEFINE key == call[w].key
<1>0. key \in Keys
  BY DEF IInv, SubsTypeOK
<1>1. CASE Refused(w)
  BY <1>1, RefusedKeeps DEF Release
<1>2. CASE ~Refused(w) /\ subs[key].chosen
  <2> DEFINE new == [subs[key] EXCEPT !.forced = FALSE, !.forced_enabled = FALSE]
  <2>1. /\ Stage(w, [k \in {key} |-> new]) /\ Lock(w, {key}) /\ Goes(w, "commit")
        /\ Guarded(w) /\ guard' = w
        /\ UNCHANGED <<policy, apart, asked, subs, fetched, choice>>
    BY <1>2 DEF Release
  <2>2. subs[key] \in Subscription \cup {Absent} /\ subs[key] # Absent
    BY <1>0, <1>2 DEF IInv, SubsTypeOK, Absent
  <2>3. new \in Subscription
    BY <2>2 DEF Subscription
  <2>4. View(w)[key] = subs[key]
    BY <1>0, ViewAt DEF Release, At, IInv, FreshCalls
  <2> HIDE DEF new, key
  <2> QED BY <1>0, <2>1, <2>2, <2>3, <2>4, OneRowKeeps
<1>3. CASE ~Refused(w) /\ ~subs[key].chosen
  <2>1. /\ Free(w, {key}) /\ Stage(w, [k \in {key} |-> Absent]) /\ Lock(w, {key})
        /\ Goes(w, "commit")
        /\ UNCHANGED <<policy, apart, asked, subs, guard, fetched, choice>>
    BY <1>3 DEF Release
  <2> HIDE DEF key
  <2>2. Deletes(w, {key}) /\ {key} \in SUBSET Keys
    BY <1>0, <2>1 DEF Deletes
  <2> QED BY <2>1, <2>2, DeletesKeeps
<1> QED BY <1>1, <1>2, <1>3

\* A commit is of rows that are exclusive.  Whoever holds the guard saw them; whoever
\* commits without it has only taken rows away.
LEMMA CommitKeeps == ASSUME IInv, NEW w \in Writers, Commit(w) PROVE IInv'
<1>1. SubsTypeOK'
  <2>1. subs' \in [Keys -> Subscription \cup {Absent}]
    BY ViewTyped DEF Commit, IInv
  <2>2. choice' \in [Keys -> {"none", "on", "off"}]
    BY DEF Commit, Word, IInv, SubsTypeOK
  <2> QED BY <2>1, <2>2, KeysAre DEF Commit, NoCall, IInv, SubsTypeOK
<1>2. \A v \in Writers \ {w} : staged'[v] = staged[v] /\ call'[v] = call[v]
  BY DEF Commit, IInv, SubsTypeOK
<1>3. \A k \in Keys : staged'[w][k] = Same /\ subs'[k] = View(w)[k]
  BY DEF Commit, IInv, SubsTypeOK
<1>4. \A v \in Writers \ {w} : guard' # v => guard # v
  BY DEF Commit
<1>5. GuardedWriters'
  BY <1>2, <1>3, <1>4 DEF GuardedWriters, IInv
<1>6. FreshCalls'
  BY <1>2, <1>3 DEF FreshCalls, IInv
<1>7. Alone(subs')
  BY <1>3, AloneShrinks DEF IInv, ViewsAlone
<1>8. EveryAlone'
  BY <1>7 DEF EveryAlone, Alone
<1>9. ViewsAlone'
  <2> SUFFICES ASSUME NEW v \in Writers PROVE Alone(View(v)')
    BY DEF ViewsAlone, Alone
  <2>1. CASE v = w
    <3>1. \A k \in Keys : View(v)'[k] = subs'[k]
      BY <2>1, <1>3, ViewAtNext
    <3> QED BY <3>1, <1>7, AloneShrinks
  <2>2. CASE v # w /\ guard = v
    <3>1. \A k \in Keys : staged[w][k] \in {Same, Absent}
      BY <2>2 DEF IInv, GuardedWriters
    <3>2. \A k \in Keys : View(v)'[k] # Absent => View(v)[k] # Absent
      BY <2>2, <3>1, <1>2, <1>3, ViewAt, ViewAtNext
    <3> QED BY <3>2, AloneShrinks DEF IInv, ViewsAlone
  <2>3. CASE v # w /\ guard # v
    <3>1. \A k \in Keys : staged'[v][k] \in {Same, Absent}
      BY <2>3, <1>2 DEF IInv, GuardedWriters
    <3>2. \A k \in Keys : View(v)'[k] # Absent => subs'[k] # Absent
      BY <3>1, ViewAtNext
    <3> QED BY <3>2, <1>7, AloneShrinks
  <2> QED BY <2>1, <2>2, <2>3
<1> QED BY <1>1, <1>5, <1>6, <1>8, <1>9 DEF IInv

LEMMA NextHolds == IInv /\ [SubsNext]_subsVars => IInv'
<1> SUFFICES ASSUME IInv, [SubsNext]_subsVars PROVE IInv'
  OBVIOUS
<1>1. CASE UNCHANGED subsVars
  <2>1. SubsTypeOK' /\ FreshCalls'
    BY <1>1 DEF subsVars, IInv, SubsTypeOK, FreshCalls
  <2> QED BY <1>1, <2>1, Aside DEF subsVars
<1>2. ASSUME NEW w \in Writers, Call(w) PROVE IInv'
  BY <1>2, CallKeeps
<1>3. ASSUME NEW w \in Writers, Check(w) \/ Declined(w) PROVE IInv'
  BY <1>3, CheckKeeps, DeclinedKeeps
<1>4. ASSUME NEW w \in Writers, Unsubscribe(w) \/ Clear(w) PROVE IInv'
  BY <1>4, UnsubscribeKeeps, ClearKeeps
<1>5. ASSUME NEW w \in Writers, Fetch(w) \/ Write(w) PROVE IInv'
  BY <1>5, FetchKeeps, WriteKeeps
<1>6. ASSUME NEW w \in Writers, Release(w) \/ Commit(w) PROVE IInv'
  BY <1>6, ReleaseKeeps, CommitKeeps
<1> QED BY <1>1, <1>2, <1>3, <1>4, <1>5, <1>6 DEF SubsNext

-----------------------------------------------------------------------------
\* All of the strengthened invariant holds in every run.
LEMMA Inductive == SubsSpec => []IInv
BY InitHolds, NextHolds, PTL DEF SubsSpec

\* A row for every variant never sits beside one naming a variant, whatever calls
\* race and however many there are.
THEOREM EveryAloneHolds == SubsSpec => []EveryAlone
<1>1. IInv => EveryAlone
  BY DEF IInv
<1> QED BY <1>1, Inductive, PTL

\* The fan-out, that takes any row that matches, and the views, that look first for
\* the row naming the variant, give each person a kind's audience names one answer; of
\* Subscribers, the fan-out reaches those of them whose row is enabled.
THEOREM OneAnswer == SubsSpec => []ViewsAgreeWithFanOut
<1>1. IInv => ViewsAgreeWithFanOut
  <2> SUFFICES ASSUME IInv, NEW v \in Keys
               PROVE  /\ FanOutGets("named", v) = {kind_states(v)}
                      /\ FanOutGets("Subscribers", v) =
                           {kind_states(v) /\ shown_row(v) # Absent /\ shown_row(v).enabled}
    BY DEF ViewsAgreeWithFanOut
  <2>1. CASE shown_row(v) = Absent
    <3>1. matching_variant(v) = {}
      BY <2>1 DEF shown_row, matching_variant
    <3> QED BY <2>1, <3>1 DEF FanOutGets, recipients, kind_states
  <2>2. CASE shown_row(v) # Absent
    <3>1. PICK k : matching_variant(v) = {k} /\ subs[k] = shown_row(v)
      <4>1. CASE v # Every /\ subs[v] # Absent
        <5>1. subs[Every] = Absent
          BY <4>1 DEF IInv, EveryAlone, Keys
        <5> QED BY <4>1, <5>1 DEF matching_variant, shown_row
      <4>2. CASE ~(v # Every /\ subs[v] # Absent)
        BY <2>2, <4>2 DEF matching_variant, shown_row
      <4> QED BY <4>1, <4>2
    <3>2. recipients("named", v) /\ (recipients("Subscribers", v) <=> shown_row(v).enabled)
      BY <3>1 DEF recipients
    <3>3. ASSUME NEW audience, recipients(audience, v)
          PROVE  FanOutGets(audience, v) = {kind_states(v)}
      <4>1. CASE policy = "mandatory"
        BY <3>3, <4>1 DEF FanOutGets, kind_states, gets
      <4>2. CASE policy # "mandatory"
        <5>1. FanOutGets(audience, v) = {gets(subs[i]) : i \in {k}}
          BY <3>1, <3>3, <4>2 DEF FanOutGets
        <5> QED BY <3>1, <5>1 DEF kind_states
      <4> QED BY <4>1, <4>2
    <3>4. CASE shown_row(v).enabled
      <4>1. shown_row(v) \in Subscription
        BY <2>2 DEF shown_row, Keys, IInv, SubsTypeOK
      <4>2. kind_states(v) \in BOOLEAN
        BY <4>1 DEF kind_states, gets, Subscription
      <4>3. kind_states(v) = (kind_states(v) /\ shown_row(v) # Absent /\ shown_row(v).enabled)
        BY <2>2, <3>4, <4>2
      <4> QED BY <3>2, <3>3, <3>4, <4>3
    <3>5. CASE ~shown_row(v).enabled
      BY <3>2, <3>3, <3>5 DEF FanOutGets
    <3> QED BY <3>4, <3>5
  <2> QED BY <2>1, <2>2
<1> QED BY <1>1, Inductive, PTL

\* Every variable keeps its type.
THEOREM SubsTypeCorrect == SubsSpec => []SubsTypeOK
<1>1. IInv => SubsTypeOK
  BY DEF IInv
<1> QED BY <1>1, Inductive, PTL

-----------------------------------------------------------------------------
\* The person's choice under a force. What two rows say the person chose:
SameChoice(one, other) == one.chosen = other.chosen /\ (one.chosen => one.enabled = other.enabled)
Persons(name) == name \in {"subscribe", "unsubscribe"}

\* What a transaction is to leave of a row it holds: the person's call, what they choose
\* or nothing; staff's, what they had chosen, but for what a force of the whole kind drops.
Written(w, k) ==
    LET new == staged[w][k]
        this == call[w]
    IN /\ rowlock[k] = w
       /\ new = Absent \/ new.forced \/ new.chosen
       /\ Persons(this.name) =>
            /\ k \in Covered(this.key)
            /\ IF this.name = "subscribe" /\ k = this.key
               THEN new # Absent /\ new.chosen /\ ~new.forced /\ new.enabled = this.on
               ELSE new = Absent
       /\ this.name = "force" /\ new = Absent => (this.key = Every /\ k # Every)
       /\ Staff(this.name) /\ ~(this.name = "force" /\ new = Absent) => SameChoice(new, subs[k])

\* What a call has under way: no row the person's covers is forced, and what a force read
\* of its row, unlocked, is still what they chose.
Mine(w) ==
    /\ call[w].at # "idle" => call[w].name # "none"
    /\ call[w].at \in {"fetch", "write"} => staged[w][call[w].key] = Same
    /\ \A k \in Keys : staged[w][k] # Same => Written(w, k)
    /\ Persons(call[w].name) /\ call[w].at \notin {"idle", "check"} =>
            \A k \in Covered(call[w].key) : ~subs[k].forced
    /\ call[w].name = "force" /\ call[w].at = "write" => SameChoice(fetched[w], subs[call[w].key])
    /\ call[w].name = "subscribe" /\ call[w].at = "commit" => staged[w][call[w].key] # Same

EitherOr == \A k \in Keys : subs[k] = Absent \/ subs[k].forced \/ subs[k].chosen
AllAlongside ==
    \A v, w \in Writers : v # w /\ call[v].at # "idle" /\ call[w].at # "idle" =>
        Alongside(call[v], call[w].name, call[w].key)

ChoiceInv ==
    apart => EitherOr /\ ChoiceKept /\ AllAlongside /\ \A w \in Writers : Mine(w)

LEMMA AbsentIs == Absent.forced = FALSE /\ Absent.chosen = FALSE /\ Same # Absent
BY DEF Absent, Same

LEMMA RowIs ==
  ASSUME SubsTypeOK, NEW k \in Keys
  PROVE  subs[k] \in Subscription \cup {Absent} /\ subs[k].forced \in BOOLEAN /\ subs[k].chosen \in BOOLEAN
<1>1. subs[k] \in Subscription \cup {Absent}
  BY DEF SubsTypeOK
<1>2. CASE subs[k] = Absent
  BY <1>1, <1>2, AbsentIs
<1>3. CASE subs[k] \in Subscription
  BY <1>3 DEF Subscription
<1> QED BY <1>1, <1>2, <1>3

LEMMA CallIs ==
  ASSUME SubsTypeOK, NEW w \in Writers
  PROVE  /\ call[w].key \in Keys /\ call[w].on \in BOOLEAN /\ Covered(call[w].key) \subseteq Keys
         /\ call[w].key \in Covered(call[w].key)
<1>1. call[w].key \in Keys /\ call[w].on \in BOOLEAN
  BY DEF SubsTypeOK
<1> QED BY <1>1 DEF Covered

LEMMA NoCallIs == NoCall.at = "idle" /\ NoCall.name = "none"
BY DEF NoCall

LEMMA ChoiceInit == SubsInit => ChoiceInv
<1> SUFFICES ASSUME SubsInit PROVE ChoiceInv
  OBVIOUS
<1>1. EitherOr /\ ChoiceKept
  BY AbsentIs DEF SubsInit, EitherOr, ChoiceKept
<1>2. AllAlongside
  BY NoCallIs DEF SubsInit, AllAlongside
<1>3. ASSUME NEW w \in Writers PROVE Mine(w)
  <2>1. call[w].at = "idle" /\ call[w].name = "none" /\ \A k \in Keys : staged[w][k] = Same
    BY NoCallIs DEF SubsInit
  <2> QED BY <2>1 DEF Mine, Persons
<1> QED BY <1>1, <1>2, <1>3 DEF ChoiceInv

\* A step that commits nothing: what it leaves of its own call is all that matters.
LEMMA Quiet ==
  ASSUME ChoiceInv, apart, NEW w \in Writers, UNCHANGED <<apart, subs, choice>>,
         \A u \in Writers \ {w} : call'[u] = call[u] /\ staged'[u] = staged[u] /\ fetched'[u] = fetched[u],
         \A u \in Writers \ {w} : \A k \in Keys : rowlock[k] = u => rowlock'[k] = u,
         \/ call'[w].at = "idle"
         \/ call[w].at # "idle" /\ call'[w].name = call[w].name /\ call'[w].key = call[w].key,
         Mine(w)'
  PROVE  ChoiceInv'
<1>1. EitherOr' /\ ChoiceKept'
  BY DEF ChoiceInv, EitherOr, ChoiceKept
<1>2. AllAlongside'
  BY DEF ChoiceInv, AllAlongside, Alongside
<1>3. ASSUME NEW u \in Writers \ {w} PROVE Mine(u)'
  <2>1. Mine(u)
    BY DEF ChoiceInv
  <2>2. \A k \in Keys : staged[u][k] # Same => Written(u, k)'
    <3> SUFFICES ASSUME NEW k \in Keys, staged[u][k] # Same PROVE Written(u, k)'
      OBVIOUS
    <3>1. Written(u, k)
      BY <2>1 DEF Mine
    <3> QED BY <3>1 DEF Written
  <2> QED BY <2>1, <2>2 DEF Mine
<1> QED BY <1>1, <1>2, <1>3 DEF ChoiceInv

\* What moves a call on, and what locks rows nobody else holds.
LEMMA GoesOn ==
  ASSUME SubsTypeOK, NEW w \in Writers, NEW at, Goes(w, at)
  PROVE  /\ call'[w].at = at /\ call'[w].name = call[w].name /\ call'[w].key = call[w].key
         /\ call'[w].on = call[w].on
         /\ \A u \in Writers \ {w} : call'[u] = call[u]
BY DEF SubsTypeOK, Goes

LEMMA LocksApart ==
  ASSUME SubsTypeOK, NEW w \in Writers, NEW keys, Free(w, keys), Lock(w, keys)
  PROVE  /\ \A u \in Writers \ {w} : \A k \in Keys : rowlock[k] = u => rowlock'[k] = u
         /\ \A k \in Keys : k \in keys \/ rowlock[k] = w => rowlock'[k] = w
BY SubscriptionsAssumption DEF Free, Lock, Nobody

LEMMA StagesApart ==
  ASSUME SubsTypeOK, NEW w \in Writers, NEW new, Stage(w, new)
  PROVE  /\ \A u \in Writers \ {w} : staged'[u] = staged[u]
         /\ \A k \in Keys : staged'[w][k] = IF k \in DOMAIN new THEN new[k] ELSE staged[w][k]
BY DEF SubsTypeOK, Stage

LEMMA RefusedChoice ==
  ASSUME IInv, ChoiceInv, apart, NEW w \in Writers, Refused(w), UNCHANGED apart
  PROVE  ChoiceInv'
<1>0. SubsTypeOK
  BY DEF IInv
<1>1. /\ call'[w].at = "idle" /\ call'[w].name = "none"
      /\ \A k \in Keys : staged'[w][k] = Same
      /\ UNCHANGED <<subs, choice>>
  BY <1>0, NoCallIs DEF Refused, SubsTypeOK
<1>2. \A u \in Writers \ {w} : call'[u] = call[u] /\ staged'[u] = staged[u] /\ fetched'[u] = fetched[u]
  BY <1>0 DEF Refused, SubsTypeOK
<1>3. \A u \in Writers \ {w} : \A k \in Keys : rowlock[k] = u => rowlock'[k] = u
  BY DEF Refused
<1>4. Mine(w)'
  BY <1>1 DEF Mine, Persons
<1> QED BY <1>1, <1>2, <1>3, <1>4, Quiet

LEMMA CallChoice == ASSUME IInv, ChoiceInv, apart, NEW w \in Writers, Call(w) PROVE ChoiceInv'
<1>0. SubsTypeOK
  BY DEF IInv
<1>1. PICK name \in {"subscribe", "unsubscribe", "force", "release"}, key \in Keys, on \in BOOLEAN :
        /\ \A v \in Writers : call[v].at = "idle" \/ Alongside(call[v], name, key)
        /\ call' = [call EXCEPT ![w] = [name |-> name, at |-> "check", key |-> key, on |-> on]]
  BY DEF Call
<1>2. UNCHANGED <<apart, subs, rowlock, staged, fetched, choice>>
  BY DEF Call
<1>3. /\ call'[w].name = name /\ call'[w].at = "check" /\ call'[w].key = key
      /\ \A u \in Writers \ {w} : call'[u] = call[u]
  BY <1>0, <1>1 DEF SubsTypeOK
<1>4. \A k \in Keys : staged'[w][k] = Same
  BY <1>2 DEF Call, IInv, FreshCalls
<1>5. Mine(w)'
  BY <1>3, <1>4 DEF Mine, Persons
<1>6. EitherOr' /\ ChoiceKept'
  BY <1>2 DEF ChoiceInv, EitherOr, ChoiceKept
<1>7. AllAlongside'
  BY <1>1, <1>3 DEF ChoiceInv, AllAlongside, Alongside
<1>8. ASSUME NEW u \in Writers \ {w} PROVE Mine(u)'
  <2>1. Mine(u)
    BY DEF ChoiceInv
  <2> QED BY <1>2, <1>3, <2>1 DEF Mine, Written
<1> QED BY <1>5, <1>6, <1>7, <1>8 DEF ChoiceInv

\* A check is of the committed rows: what is covered is not forced when it passes.
LEMMA CheckChoice == ASSUME IInv, ChoiceInv, apart, NEW w \in Writers, Check(w) PROVE ChoiceInv'
<1>0. SubsTypeOK
  BY DEF IInv
<1>1. CASE Refused(w)
  BY <1>1, RefusedChoice DEF Check
<1>2. CASE ~Refused(w)
  <2>1. PICK at \in {"delete", "clear"} : Goes(w, at)
    BY <1>2 DEF Check
  <2>2. /\ UNCHANGED <<apart, subs, guard, rowlock, staged, fetched, choice>>
        /\ call[w].at = "check" /\ call[w].name # "none"
    BY <1>2 DEF Check, At
  <2>3. Persons(call[w].name) => \A k \in Covered(call[w].key) : ~subs[k].forced
    BY <1>2 DEF Check, Persons
  <2>4. \A k \in Keys : staged'[w][k] = Same
    BY <2>2 DEF IInv, FreshCalls
  <2>5. Mine(w)'
    BY <1>0, <2>1, <2>2, <2>3, <2>4, GoesOn DEF Mine
  <2> QED BY <1>0, <2>1, <2>2, <2>5, GoesOn, Quiet
<1> QED BY <1>1, <1>2

\* Rows deleted: by the person's call, or by a force of the whole kind.
LEMMA DeletesChoice ==
  ASSUME IInv, ChoiceInv, apart, NEW w \in Writers, NEW at \in {"fetch", "commit"},
         NEW keys \in SUBSET Keys, Deletes(w, keys), Goes(w, at), UNCHANGED <<apart, subs, fetched, choice>>,
         call[w].at \in {"delete", "clear"},
         \/ call[w].name = "unsubscribe" /\ at = "commit" /\ keys \subseteq Covered(call[w].key)
         \/ /\ call[w].name \in {"subscribe", "force"} /\ at = "fetch"
            /\ call[w].key = Every /\ Every \notin keys
  PROVE  ChoiceInv'
<1>0. SubsTypeOK
  BY DEF IInv
<1>1. /\ call'[w].at = at /\ call'[w].name = call[w].name /\ call'[w].key = call[w].key
      /\ \A u \in Writers \ {w} : call'[u] = call[u]
  BY <1>0, GoesOn
<1>2. /\ \A u \in Writers \ {w} : \A k \in Keys : rowlock[k] = u => rowlock'[k] = u
      /\ \A k \in keys : rowlock'[k] = w
  BY <1>0, LocksApart DEF Deletes
<1>3. \A k \in Keys : staged[w][k] = Same
  BY DEF IInv, FreshCalls
<1>4. /\ \A u \in Writers \ {w} : staged'[u] = staged[u]
      /\ \A k \in Keys : staged'[w][k] = IF k \in keys THEN Absent ELSE Same
  <2>1. Stage(w, [k \in keys |-> Absent])
    BY DEF Deletes
  <2> QED BY <1>0, <1>3, <2>1, StagesApart
<1>5. \A k \in Keys : staged'[w][k] # Same => Written(w, k)'
  <2> SUFFICES ASSUME NEW k \in keys PROVE Written(w, k)'
    BY <1>4
  <2>1. staged'[w][k] = Absent /\ rowlock'[k] = w
    BY <1>2, <1>4
  <2>2. CASE call[w].name = "unsubscribe"
    BY <1>1, <2>1, <2>2 DEF Written, Persons, Staff
  <2>3. CASE call[w].name \in {"subscribe", "force"}
    BY <1>1, <2>1, <2>3 DEF Written, Persons, Staff, Covered
  <2> QED BY <2>2, <2>3
<1>6. Mine(w)
  BY DEF ChoiceInv
<1>7. Mine(w)'
  BY <1>0, <1>1, <1>3, <1>4, <1>5, <1>6, CallIs DEF Mine
<1> QED BY <1>1, <1>2, <1>4, <1>7, Quiet

LEMMA ClearChoice == ASSUME IInv, ChoiceInv, apart, NEW w \in Writers, Clear(w) PROVE ChoiceInv'
<1>0. SubsTypeOK
  BY DEF IInv
<1>1. CASE Refused(w)
  BY <1>1, RefusedChoice DEF Clear
<1>2. CASE call[w].key = Every /\ ~Refused(w)
  <2>1. Rows(w) \ {Every} \in SUBSET Keys
    BY DEF Rows
  <2> QED BY <1>2, <2>1, DeletesChoice DEF Clear, At
<1>3. CASE call[w].key # Every /\ ~Refused(w)
  <2>1. /\ Goes(w, "fetch") /\ UNCHANGED <<apart, subs, guard, rowlock, staged, fetched, choice>>
        /\ call[w].at = "clear" /\ call[w].name \in {"subscribe", "force"}
    BY <1>3 DEF Clear, At
  <2>2. \A k \in Keys : staged'[w][k] = Same
    BY <2>1 DEF IInv, FreshCalls
  <2>3. Mine(w)
    BY DEF ChoiceInv
  <2>4. Mine(w)'
    BY <1>0, <2>1, <2>2, <2>3, GoesOn, CallIs DEF Mine
  <2> QED BY <1>0, <2>1, <2>4, GoesOn, Quiet
<1> QED BY <1>1, <1>2, <1>3

LEMMA FetchChoice == ASSUME IInv, ChoiceInv, apart, NEW w \in Writers, Fetch(w) PROVE ChoiceInv'
<1>0. SubsTypeOK
  BY DEF IInv
<1>k. PICK key \in Keys : key = call[w].key
  BY <1>0, CallIs
<1>1. /\ Goes(w, "write") /\ UNCHANGED <<apart, subs, staged, choice>>
      /\ call[w].at = "fetch" /\ call[w].name \in {"subscribe", "force"}
      /\ fetched' = [fetched EXCEPT ![w] = View(w)[key]]
      /\ (Free(w, {key}) /\ Lock(w, {key})) \/ UNCHANGED rowlock
  BY <1>k DEF Fetch, At
<1>2. Mine(w) /\ key \in Keys
  BY DEF ChoiceInv
<1>3. staged[w][key] = Same /\ View(w)[key] = subs[key]
  BY <1>k, <1>1, <1>2, ViewAt DEF Mine
<1>4. fetched'[w] = subs[key] /\ \A u \in Writers \ {w} : fetched'[u] = fetched[u]
  BY <1>0, <1>1, <1>3 DEF SubsTypeOK
<1>5. /\ \A u \in Writers \ {w} : \A k \in Keys : rowlock[k] = u => rowlock'[k] = u
      /\ \A k \in Keys : rowlock[k] = w => rowlock'[k] = w
  BY <1>0, <1>1, LocksApart
<1>6. /\ call'[w].at = "write" /\ call'[w].name = call[w].name /\ call'[w].key = key
      /\ call'[w].on = call[w].on /\ \A u \in Writers \ {w} : call'[u] = call[u]
  BY <1>k, <1>0, <1>1, GoesOn
<1>7. \A k \in Keys : staged'[w][k] # Same => Written(w, k)'
  <2> SUFFICES ASSUME NEW k \in Keys, staged'[w][k] # Same PROVE Written(w, k)'
    OBVIOUS
  <2>1. Written(w, k)
    BY <1>1, <1>2 DEF Mine
  <2> QED BY <1>k, <1>1, <1>5, <1>6, <2>1 DEF Written
<1>8. Mine(w)'
  BY <1>k, <1>1, <1>2, <1>3, <1>4, <1>6, <1>7 DEF Mine, SameChoice
<1> QED BY <1>k, <1>1, <1>4, <1>5, <1>6, <1>8, Quiet

\* What a row becomes says what the person chooses, or chose.
LEMMA ForcedKeeps ==
  ASSUME NEW read \in Subscription \cup {Absent}, NEW on \in BOOLEAN
  PROVE  /\ SameChoice(Forced(on, read), read) /\ Forced(on, read).forced /\ Forced(on, read) # Absent
<1>1. CASE read = Absent
  BY <1>1, AbsentIs DEF Forced, SameChoice, Absent
<1>2. CASE read \in Subscription /\ read # Absent
  <2>1. Forced(on, read) = [read EXCEPT !.forced = TRUE, !.forced_enabled = on]
    BY <1>2 DEF Forced
  <2>2. Forced(on, read).forced /\ SameChoice(Forced(on, read), read)
    BY <1>2, <2>1 DEF Subscription, SameChoice
  <2> QED BY <2>2, AbsentIs
<1> QED BY <1>1, <1>2

LEMMA ChosenIs ==
  ASSUME NEW now \in Subscription \cup {Absent}, NEW on \in BOOLEAN, ~now.forced,
         now = Absent \/ now.chosen
  PROVE  LET new == Chosen(on, now) IN new # Absent /\ new.chosen /\ ~new.forced /\ new.enabled = on
<1>1. CASE now = Absent
  BY <1>1, AbsentIs DEF Chosen
<1>2. CASE now \in Subscription /\ now # Absent
  <2>1. Chosen(on, now) = [now EXCEPT !.enabled = on]
    BY <1>2 DEF Chosen
  <2>2. Chosen(on, now).chosen /\ ~Chosen(on, now).forced /\ Chosen(on, now).enabled = on
    BY <1>2, <2>1 DEF Subscription
  <2> QED BY <2>2, AbsentIs
<1> QED BY <1>1, <1>2

LEMMA WriteChoice == ASSUME IInv, ChoiceInv, apart, NEW w \in Writers, Write(w) PROVE ChoiceInv'
<1>0. SubsTypeOK
  BY DEF IInv
<1>k. PICK key \in Keys : key = call[w].key
  BY <1>0, CallIs
<1> DEFINE new == IF call[w].name = "subscribe" THEN Chosen(call[w].on, View(w)[key])
                         ELSE Forced(call[w].on, fetched[w])
<1>1. CASE Refused(w)
  BY <1>1, RefusedChoice DEF Write
<1>2. CASE ~Refused(w)
  <2>1. /\ Stage(w, [k \in {key} |-> new]) /\ Lock(w, {key}) /\ Goes(w, "commit")
        /\ UNCHANGED <<apart, subs, fetched, choice>> /\ Free(w, {key})
        /\ call[w].at = "write" /\ call[w].name \in {"subscribe", "force"}
    BY <1>k, <1>2 DEF Write, At
  <2>2. Mine(w) /\ key \in Keys /\ call[w].on \in BOOLEAN /\ key \in Covered(key)
    BY <1>k, <1>0, CallIs DEF ChoiceInv
  <2>3. staged[w][key] = Same /\ View(w)[key] = subs[key]
    BY <1>k, <2>1, <2>2, ViewAt DEF Mine
  <2>4. /\ staged'[w][key] = new
        /\ \A k \in Keys : k # key => staged'[w][k] = staged[w][k]
        /\ \A u \in Writers \ {w} : staged'[u] = staged[u]
    BY <1>k, <1>0, <2>1, <2>2, StagesApart
  <2>5. /\ \A u \in Writers \ {w} : \A k \in Keys : rowlock[k] = u => rowlock'[k] = u
        /\ \A k \in Keys : k = key \/ rowlock[k] = w => rowlock'[k] = w
    BY <1>k, <1>0, <2>1, LocksApart
  <2>6. /\ call'[w].at = "commit" /\ call'[w].name = call[w].name /\ call'[w].key = key
        /\ call'[w].on = call[w].on /\ \A u \in Writers \ {w} : call'[u] = call[u]
    BY <1>k, <1>0, <2>1, GoesOn
  <2>7. Written(w, key)' /\ new # Same
    <3>1. CASE call[w].name = "subscribe"
      <4>1. ~subs[key].forced /\ (subs[key] = Absent \/ subs[key].chosen)
            /\ subs[key] \in Subscription \cup {Absent}
        BY <1>k, <1>0, <2>1, <2>2, <3>1, RowIs DEF Mine, Persons, ChoiceInv, EitherOr
      <4>2. new # Absent /\ new.chosen /\ ~new.forced /\ new.enabled = call[w].on /\ new \in Subscription
        BY <1>k, <2>2, <2>3, <3>1, <4>1, ChosenIs, WrittenTyped
      <4> HIDE DEF new
      <4> QED BY <1>k, <2>2, <2>4, <2>5, <2>6, <3>1, <4>2, Distinct DEF Written, Persons, Staff
    <3>2. CASE call[w].name = "force"
      <4>1. fetched[w] \in Subscription \cup {Absent} /\ SameChoice(fetched[w], subs[key])
        BY <1>k, <1>0, <2>1, <2>2, <3>2 DEF Mine, SubsTypeOK
      <4>2. /\ SameChoice(new, fetched[w]) /\ new.forced /\ new # Absent /\ new \in Subscription
        BY <1>k, <2>2, <3>2, <4>1, ForcedKeeps, WrittenTyped
      <4> HIDE DEF new
      <4>3. SameChoice(new, subs[key])
        BY <4>1, <4>2 DEF SameChoice
      <4> QED BY <1>k, <2>1, <2>2, <2>4, <2>5, <2>6, <3>2, <4>2, <4>3, Distinct DEF Written, Persons, Staff
    <3> QED BY <1>k, <2>1, <3>1, <3>2
  <2> HIDE DEF new
  <2>8. \A k \in Keys : staged'[w][k] # Same => Written(w, k)'
    <3> SUFFICES ASSUME NEW k \in Keys, k # key, staged'[w][k] # Same PROVE Written(w, k)'
      BY <1>k, <2>7
    <3>1. Written(w, k) /\ staged'[w][k] = staged[w][k]
      BY <1>k, <2>2, <2>4 DEF Mine
    <3> QED BY <1>k, <2>1, <2>5, <2>6, <3>1 DEF Written
  <2>9. Mine(w)'
    BY <1>k, <2>1, <2>2, <2>4, <2>6, <2>7, <2>8 DEF Mine
  <2> QED BY <1>k, <2>1, <2>4, <2>5, <2>6, <2>9, Quiet
<1> QED BY <1>1, <1>2

LEMMA ReleaseChoice == ASSUME IInv, ChoiceInv, apart, NEW w \in Writers, Release(w) PROVE ChoiceInv'
<1>0. SubsTypeOK
  BY DEF IInv
<1>k. PICK key \in Keys : key = call[w].key
  BY <1>0, CallIs
<1>1. CASE Refused(w)
  BY <1>1, RefusedChoice DEF Release
<1>2. CASE ~Refused(w)
  <2>1. /\ Free(w, {key}) /\ Lock(w, {key}) /\ Goes(w, "commit")
        /\ UNCHANGED <<apart, subs, fetched, choice>>
        /\ call[w].at = "check" /\ call[w].name = "release" /\ subs[key].forced
    BY <1>k, <1>2 DEF Release, At
  <2>2. key \in Keys /\ subs[key] \in Subscription \cup {Absent}
    BY <1>0, RowIs
  <2>3. subs[key] \in Subscription /\ subs[key].chosen \in BOOLEAN
    BY <2>1, <2>2, AbsentIs DEF Subscription
  <2>4. PICK new : /\ Stage(w, [k \in {key} |-> new])
                   /\ \/ new = [subs[key] EXCEPT !.forced = FALSE, !.forced_enabled = FALSE] /\ subs[key].chosen
                      \/ new = Absent /\ ~subs[key].chosen
    BY <1>k, <1>2, <2>1 DEF Release
  <2>5. SameChoice(new, subs[key]) /\ (new = Absent \/ new.chosen) /\ new # Same
    <3>1. CASE new = Absent /\ ~subs[key].chosen
      BY <2>3, <3>1, AbsentIs DEF SameChoice
    <3>2. CASE /\ new = [subs[key] EXCEPT !.forced = FALSE, !.forced_enabled = FALSE]
               /\ subs[key].chosen
      <4>1. new \in Subscription /\ new.chosen /\ new.enabled = subs[key].enabled
        BY <2>3, <3>2 DEF Subscription
      <4> QED BY <3>2, <4>1, Distinct DEF SameChoice
    <3> QED BY <2>4, <3>1, <3>2
  <2>6. /\ \A k \in Keys : staged'[w][k] = IF k = key THEN new ELSE Same
        /\ \A u \in Writers \ {w} : staged'[u] = staged[u]
    BY <1>0, <2>1, <2>4, StagesApart DEF IInv, FreshCalls
  <2>7. /\ \A u \in Writers \ {w} : \A k \in Keys : rowlock[k] = u => rowlock'[k] = u
        /\ rowlock'[key] = w
    BY <1>0, <2>1, <2>2, LocksApart
  <2>8. /\ call'[w].at = "commit" /\ call'[w].name = "release" /\ call'[w].key = key
        /\ \A u \in Writers \ {w} : call'[u] = call[u]
    BY <1>k, <1>0, <2>1, GoesOn
  <2>9. Written(w, key)'
    BY <2>1, <2>2, <2>5, <2>6, <2>7, <2>8, Distinct DEF Written, Persons, Staff
  <2>10. Mine(w)'
    BY <2>6, <2>8, <2>9 DEF Mine, Persons
  <2> QED BY <1>k, <2>1, <2>6, <2>7, <2>8, <2>10, Quiet
<1> QED BY <1>1, <1>2

\* What is committed is what every call under way goes on to find: nobody else has written
\* a row this one wrote, and what it wrote is what a force of the row read of it.
LEMMA CommitChoice == ASSUME IInv, ChoiceInv, apart, NEW w \in Writers, Commit(w) PROVE ChoiceInv'
<1>0. SubsTypeOK
  BY DEF IInv
<1>k. PICK key \in Keys : key = call[w].key
  BY <1>0, CallIs
<1>1. /\ call[w].at = "commit" /\ UNCHANGED apart /\ Mine(w) /\ EitherOr /\ ChoiceKept /\ AllAlongside
      /\ subs' = View(w)
  BY DEF Commit, ChoiceInv
<1>2. /\ call'[w].at = "idle" /\ call'[w].name = "none"
      /\ \A k \in Keys : staged'[w][k] = Same
      /\ \A u \in Writers \ {w} : call'[u] = call[u] /\ staged'[u] = staged[u] /\ fetched'[u] = fetched[u]
  BY <1>0, NoCallIs DEF Commit, SubsTypeOK
<1>3. \A k \in Keys : subs'[k] = IF staged[w][k] = Same THEN subs[k] ELSE staged[w][k]
  BY <1>1, ViewAt
<1>4. \A k \in Keys : staged[w][k] # Same => Written(w, k)
  BY <1>1 DEF Mine
<1>5. EitherOr'
  BY <1>1, <1>3, <1>4 DEF EitherOr, Written
<1>6. call[w].name \in {"subscribe", "unsubscribe", "force", "release"}
  BY <1>0, <1>1 DEF Mine, SubsTypeOK
<1>7. ChoiceKept'
  <2> SUFFICES ASSUME NEW k \in Keys
               PROVE  IF subs'[k].chosen THEN choice'[k] = Word(subs'[k].enabled) ELSE choice'[k] = "none"
    BY DEF ChoiceKept
  <2>1. choice'[k] = IF call[w].name = "subscribe" /\ k = key THEN Word(call[w].on)
                     ELSE IF staged[w][k] = Absent /\ call[w].name # "release" THEN "none"
                     ELSE choice[k]
    BY <1>k DEF Commit
  <2>2. IF subs[k].chosen THEN choice[k] = Word(subs[k].enabled) ELSE choice[k] = "none"
    BY <1>1 DEF ChoiceKept
  <2>3. CASE staged[w][k] = Same
    <3>1. ~(call[w].name = "subscribe" /\ k = key) /\ staged[w][k] # Absent
      BY <1>k, <1>1, <2>3, AbsentIs DEF Mine
    <3> QED BY <1>3, <2>1, <2>2, <2>3, <3>1
  <2>4. CASE staged[w][k] = Absent /\ call[w].name # "release"
    <3>1. ~(call[w].name = "subscribe" /\ k = key)
      BY <1>k, <1>4, <2>4, AbsentIs DEF Written, Persons
    <3> QED BY <1>3, <2>1, <2>4, <3>1, AbsentIs
  <2>5. CASE staged[w][k] # Same /\ call[w].name = "subscribe" /\ k = key
    <3>1. staged[w][k].chosen /\ staged[w][k].enabled = call[w].on
      BY <1>k, <1>4, <2>5 DEF Written, Persons
    <3> QED BY <1>3, <2>1, <2>5, <3>1
  <2>6. CASE /\ staged[w][k] # Same /\ ~(call[w].name = "subscribe" /\ k = key)
             /\ ~(staged[w][k] = Absent /\ call[w].name # "release")
    <3>1. Staff(call[w].name)
      BY <1>k, <1>4, <1>6, <2>6 DEF Written, Persons, Staff
    <3>2. SameChoice(staged[w][k], subs[k])
      BY <1>4, <2>6, <3>1 DEF Written
    <3> QED BY <1>3, <2>1, <2>2, <2>6, <3>2 DEF SameChoice
  <2> QED BY <2>3, <2>4, <2>5, <2>6
<1>8. AllAlongside'
  BY <1>1, <1>2 DEF AllAlongside, Alongside
<1>9. ASSUME NEW u \in Writers \ {w} PROVE Mine(u)'
  <2>k. PICK its \in Keys : its = call[u].key /\ its = call'[u].key
    BY <1>0, <1>2, CallIs
  <2>1. Mine(u)
    BY <1>1 DEF ChoiceInv
  <2>2. call[u].at # "idle" => Alongside(call[u], call[w].name, call[w].key)
    BY <1>1 DEF AllAlongside
  <2>3. \A k \in Keys : staged[u][k] # Same => Written(u, k)'
    <3> SUFFICES ASSUME NEW k \in Keys, staged[u][k] # Same PROVE Written(u, k)'
      OBVIOUS
    <3>1. Written(u, k)
      BY <2>1 DEF Mine
    <3>2. rowlock[k] = u /\ rowlock'[k] = u
      BY <3>1 DEF Written, Commit
    <3>3. staged[w][k] = Same
      BY <1>4, <3>2 DEF Written
    <3>4. subs'[k] = subs[k]
      BY <1>3, <3>3
    <3> QED BY <1>2, <3>1, <3>2, <3>4 DEF Written
  <2>4. CASE call[u].at \in {"idle", "check"}
    BY <1>2, <2>1, <2>3, <2>4 DEF Mine
  <2>5. ASSUME Persons(call[u].name), call[u].at \notin {"idle", "check"}, NEW k \in Covered(its)
        PROVE  ~subs'[k].forced
    <3>1. k \in Keys /\ ~subs[k].forced
      BY <1>0, <2>k, <2>1, <2>5, CallIs DEF Mine
    <3>2. Persons(call[w].name)
      BY <1>6, <2>2, <2>5 DEF Alongside, Persons, Staff
    <3>3. staged[w][k] # Same => ~staged[w][k].forced
      BY <1>4, <3>1, <3>2, AbsentIs DEF Written
    <3> QED BY <1>3, <3>1, <3>3
  <2>6. ASSUME call[u].name = "force", call[u].at = "write"
        PROVE  SameChoice(fetched[u], subs'[its])
    <3>1. SameChoice(fetched[u], subs[its])
      BY <2>k, <2>1, <2>6 DEF Mine
    <3>2. Staff(call[w].name) /\ (call[w].name = "force" => (its = Every) = (key = Every))
      BY <1>k, <2>k, <2>2, <2>6 DEF Alongside, Staff
    <3>3. staged[w][its] # Same => SameChoice(staged[w][its], subs[its])
      BY <1>k, <1>4, <3>2 DEF Written
    <3> QED BY <1>3, <3>1, <3>3 DEF SameChoice
  <2>7. Covered(call[u].key)' = Covered(its)
    BY <2>k DEF Covered
  <2> QED BY <1>2, <2>k, <2>1, <2>3, <2>5, <2>6, <2>7 DEF Mine
<1>10. Mine(w)'
  BY <1>2 DEF Mine, Persons
<1> QED BY <1>1, <1>5, <1>7, <1>8, <1>9, <1>10 DEF ChoiceInv

LEMMA ChoiceNext == IInv /\ ChoiceInv /\ [SubsNext]_subsVars => ChoiceInv'
<1> SUFFICES ASSUME IInv, ChoiceInv, [SubsNext]_subsVars, apart' PROVE ChoiceInv'
  BY DEF ChoiceInv
<1>1. apart
  BY DEF SubsNext, subsVars, Call, Check, Declined, Unsubscribe, Clear, Fetch, Write, Release, Commit
<1>2. CASE UNCHANGED subsVars
  BY <1>2 DEF subsVars, ChoiceInv, EitherOr, ChoiceKept, AllAlongside, Alongside, Mine, Written
<1>3. ASSUME NEW w \in Writers, Declined(w) PROVE ChoiceInv'
  BY <1>1, <1>3, RefusedChoice DEF Declined
<1>4. ASSUME NEW w \in Writers, Unsubscribe(w) PROVE ChoiceInv'
  <2>1. Covered(call[w].key) \cap Rows(w) \in SUBSET Keys
    BY DEF Rows
  <2> QED BY <1>1, <1>4, <2>1, DeletesChoice DEF Unsubscribe, At
<1> QED BY <1>1, <1>2, <1>3, <1>4, CallChoice, CheckChoice, ClearChoice, FetchChoice, WriteChoice,
           ReleaseChoice, CommitChoice DEF SubsNext

LEMMA ChoiceInvIsKept == SubsSpec => []ChoiceInv
BY Inductive, ChoiceInit, ChoiceNext, PTL DEF SubsSpec

\* A force stands until staff change it, and the person's choice stands under it: whatever
\* calls follow one another, and overlap but for those Alongside() keeps apart.
THEOREM ForceHoldsHolds == SubsSpec => ForceHolds
<1>1. IInv /\ ChoiceInv /\ ChoiceInv' /\ [SubsNext]_subsVars =>
        (apart => /\ \A k \in Keys : ForceLifted(k) => ByStaff
                  /\ ChoiceKept')
  <2> SUFFICES ASSUME IInv, ChoiceInv, ChoiceInv', [SubsNext]_subsVars, apart
               PROVE  (\A k \in Keys : ForceLifted(k) => ByStaff) /\ ChoiceKept'
    OBVIOUS
  <2>1. apart' /\ (subs' = subs \/ \E w \in Writers : Commit(w))
    <3>1. CASE UNCHANGED subsVars
      BY <3>1 DEF subsVars
    <3>2. ASSUME NEW w \in Writers, Call(w) \/ Check(w) \/ Declined(w) PROVE apart' /\ subs' = subs
      BY <3>2 DEF Call, Check, Declined, Refused
    <3>3. ASSUME NEW w \in Writers, Unsubscribe(w) \/ Clear(w) \/ Fetch(w) PROVE apart' /\ subs' = subs
      BY <3>3 DEF Unsubscribe, Clear, Fetch, Refused
    <3>4. ASSUME NEW w \in Writers, Write(w) \/ Release(w) PROVE apart' /\ subs' = subs
      BY <3>4 DEF Write, Release, Refused
    <3>5. ASSUME NEW w \in Writers, Commit(w) PROVE apart'
      BY <3>5 DEF Commit
    <3> QED BY <3>1, <3>2, <3>3, <3>4, <3>5 DEF SubsNext
  <2>2. ASSUME NEW k \in Keys, ForceLifted(k) PROVE ByStaff
    <3>1. PICK w \in Writers : Commit(w)
      BY <2>1, <2>2 DEF ForceLifted
    <3>2. SubsTypeOK /\ Mine(w) /\ subs' = View(w) /\ call[w].at = "commit"
      BY <3>1 DEF ChoiceInv, IInv, Commit
    <3>3. Written(w, k)
      <4>1. staged[w][k] # Same
        BY <2>2, <3>2, ViewAt DEF ForceLifted
      <4> QED BY <3>2, <4>1 DEF Mine
    <3>4. ~Persons(call[w].name)
      BY <2>2, <3>2, <3>3 DEF Mine, Written, ForceLifted
    <3>5. Staff(call[w].name)
      BY <3>2, <3>4 DEF Mine, Persons, Staff, SubsTypeOK
    <3>6. call'[w].at = "idle"
      BY <3>1, <3>2, NoCallIs DEF Commit, SubsTypeOK
    <3> QED BY <3>2, <3>5, <3>6 DEF ByStaff
  <2> QED BY <2>1, <2>2 DEF ChoiceInv
<1> QED BY <1>1, Inductive, ChoiceInvIsKept, PTL DEF ForceHolds, SubsSpec
-----------------------------------------------------------------------------
(***************************************************************************)
(* A thread's depth.  A comment's parent never changes, and no key is used *)
(* twice: what a call has read of a comment is so as long as that comment  *)
(* is there.  Were no comment ever put back, the comments up from a reply  *)
(* would be there for as long as it is, and a walk find them one by one.   *)
(***************************************************************************)
Comment == [parent: SUBSET CommentIds, target: Targets]
Post == [at: {"walk", "save"}, target: Targets, parent: SUBSET CommentIds, depth: Nat \ {0},
         above: SUBSET CommentIds]
Change == [at: {"edit", "collect", "delete"}, id: CommentIds, row: Comment,
           found: SUBSET CommentIds, level: SUBSET CommentIds]
CommentsTyped ==
    /\ comments \in [CommentIds -> Comment \cup {Gone}]
    /\ posting \in [Commenters -> Post \cup Change \cup {Resting}]
    /\ anew \in BOOLEAN

Posting(c) == posting[c].at \in {"walk", "save"}
Editing(c) == posting[c].at = "edit"

\* A reply's parent is there, and on the same thing.
Rooted ==
    \A i \in Rows_Now : \A p \in comments[i].parent :
        p \in Rows_Now /\ comments[p].target = comments[i].target

\* A row to be saved again is the comment's, if it is there still, and so is what was
\* read of a reply's parent.
EditAsIs(c) ==
    LET row == posting[c].row
        id == posting[c].id
    IN /\ id \in posting[c].found
       /\ id \in Rows_Now => comments[id] = row
       /\ \A p \in row.parent : p \in Rows_Now =>
            /\ comments[p].target = row.target
            /\ max_depth <= 1 => comments[p].parent = {}
       /\ max_depth = 0 => row.parent = {}
PostAsIs(c) ==
    /\ \A p \in posting[c].parent : p \in Rows_Now =>
            /\ comments[p].target = posting[c].target
            /\ posting[c].depth = 1 => comments[p].parent \subseteq posting[c].above
    /\ posting[c].at = "save" /\ posting[c].parent # {} =>
            posting[c].above = {} /\ posting[c].depth <= max_depth

\* What two calls have read, of a comment that may be gone, agrees.
EditsAgree(c, d) ==
    LET one == posting[c]
        other == posting[d]
    IN /\ one.id = other.id => one.row = other.row
       /\ one.id \in other.row.parent =>
            /\ one.row.target = other.row.target
            /\ max_depth <= 1 => one.row.parent = {}
PostAgrees(c, d) ==
    posting[c].id \in posting[d].parent =>
        /\ posting[c].row.target = posting[d].target
        /\ posting[d].depth = 1 => posting[c].row.parent \subseteq posting[d].above
Agreed ==
    \A c, d \in Commenters : Editing(c) => /\ Editing(d) => EditsAgree(c, d)
                                           /\ Posting(d) => PostAgrees(c, d)

\* The comment so many above a reply's parent as the walk has counted is the one it is to
\* ask for next.
Counted(c) ==
    \A f \in [0..posting[c].depth -> Rows_Now] :
        f[0] \in posting[c].parent /\ Chain(f, posting[c].depth) => f[posting[c].depth] \in posting[c].above

CommentsInv ==
    /\ CommentsTyped /\ Rooted /\ Agreed
    /\ \A c \in Commenters : Editing(c) => EditAsIs(c)
    /\ \A c \in Commenters : Posting(c) => PostAsIs(c)
    /\ ~anew => \A c \in Commenters : Posting(c) => Counted(c)
    /\ max_depth <= 1 \/ ~anew => Within(max_depth)

LEMMA PostIs == ASSUME CommentsTyped, NEW c \in Commenters, Posting(c) PROVE posting[c] \in Post
BY DEF CommentsTyped, Posting, Post, Change, Resting

LEMMA ChangeIs ==
    ASSUME CommentsTyped, NEW c \in Commenters, posting[c].at \in {"edit", "collect", "delete"}
    PROVE  posting[c] \in Change
BY DEF CommentsTyped, Post, Change, Resting

LEMMA CommentIs == ASSUME CommentsTyped, NEW i \in Rows_Now PROVE i \in CommentIds /\ comments[i] \in Comment
BY DEF CommentsTyped, Rows_Now

LEMMA GoneIs == Gone.parent = {} /\ Gone.target = "none" /\ Gone \notin Comment
BY CommentsAssumption DEF Gone, Comment

LEMMA KnownHas ==
    ASSUME NEW c \in Commenters
    PROVE  /\ Editing(c) => posting[c].found \subseteq Known /\ posting[c].row.parent \subseteq Known
           /\ Posting(c) => posting[c].parent \subseteq Known
<1> DEFINE known == IF posting[c].at \in {"edit", "collect", "delete"}
                    THEN posting[c].found \cup posting[c].row.parent
                    ELSE IF posting[c].at \in {"walk", "save"} THEN posting[c].parent \cup posting[c].above
                    ELSE {}
<1>1. known \subseteq Known
  BY DEF Known
<1>2. Editing(c) => known = posting[c].found \cup posting[c].row.parent
  BY DEF Editing
<1>3. Posting(c) => known = posting[c].parent \cup posting[c].above
  BY DEF Posting
<1> HIDE DEF known
<1> QED BY <1>1, <1>2, <1>3

\* A chain's beginning is one.
LEMMA ChainBegins ==
    ASSUME NEW n \in Nat, NEW m \in 0..n, NEW S, NEW f \in [0..n -> S], Chain(f, n)
    PROVE  /\ [k \in 0..m |-> f[k]] \in [0..m -> S]
           /\ Chain([k \in 0..m |-> f[k]], m)
<1>1. \A k \in 0..m : k \in 0..n
  OBVIOUS
<1>2. \A k \in 0..m - 1 : k \in 0..m /\ k + 1 \in 0..m /\ k \in 0..n - 1
  OBVIOUS
<1> QED BY <1>1, <1>2 DEF Chain

\* What comes to be is nobody's parent yet: what is up from a comment that was there was
\* there, and as it is now.
LEMMA ChainStays ==
    ASSUME Rooted, NEW n \in Nat, NEW f \in [0..n -> Rows_Now'], f[0] \in Rows_Now, Chain(f, n)',
           \A i \in Rows_Now' : i \in Rows_Now => comments'[i] = comments[i],
           \A i \in Rows_Now' : comments'[i].parent \subseteq Rows_Now
    PROVE  f \in [0..n -> Rows_Now] /\ Chain(f, n)
<1>1. \A k \in 0..n - 1 : f[k] \in Rows_Now' /\ f[k + 1] \in comments'[f[k]].parent
  BY DEF Chain
<1>2. \A k \in 0..n : f[k] \in Rows_Now
  <2> SUFFICES ASSUME NEW k \in 0..n, k # 0 PROVE f[k] \in Rows_Now
    OBVIOUS
  <2>1. k - 1 \in 0..n - 1 /\ (k - 1) + 1 = k
    OBVIOUS
  <2> QED BY <1>1, <2>1
<1>3. f \in [0..n -> Rows_Now]
  BY <1>2
<1>4. \A k \in 0..n - 1 : f[k] \in Rows_Now
  BY <1>2
<1> QED BY <1>1, <1>3, <1>4 DEF Chain

-----------------------------------------------------------------------------
LEMMA CommentsInitHolds == CommentsInit => CommentsInv
<1> SUFFICES ASSUME CommentsInit PROVE CommentsInv
  OBVIOUS
<1>1. CommentsTyped /\ Rows_Now = {} /\ ~anew
  BY DEF CommentsInit, CommentsTyped, Rows_Now
<1>2. \A c \in Commenters : ~Posting(c) /\ ~Editing(c)
  BY DEF CommentsInit, Posting, Editing, Resting
<1>3. Within(max_depth)
  <2> SUFFICES ASSUME NEW f \in [0..max_depth + 1 -> Rows_Now] PROVE FALSE
    BY DEF Within
  <2>1. 0 \in 0..max_depth + 1
    BY CommentsAssumption
  <2> QED BY <1>1, <2>1
<1> QED BY <1>1, <1>2, <1>3 DEF CommentsInv, Rooted, Agreed

\* A step of one call that leaves the comments as they are.
LEMMA TurnKeeps ==
    ASSUME CommentsInv, NEW c \in Commenters, UNCHANGED <<comments, anew>>,
           NEW new \in Post \cup Change \cup {Resting}, posting' = [posting EXCEPT ![c] = new],
           Editing(c)' => /\ EditAsIs(c)'
                          /\ \A d \in Commenters : Editing(d)' => EditsAgree(c, d)' /\ EditsAgree(d, c)'
                          /\ \A d \in Commenters : Posting(d)' => PostAgrees(c, d)',
           Posting(c)' => /\ PostAsIs(c)'
                          /\ \A d \in Commenters : Editing(d)' => PostAgrees(d, c)'
                          /\ ~anew => Counted(c)'
    PROVE  CommentsInv'
<1>1. CommentsTyped' /\ Rows_Now' = Rows_Now
  BY DEF CommentsInv, CommentsTyped, Rows_Now
<1>2. \A d \in Commenters : d # c => posting'[d] = posting[d]
  BY DEF CommentsInv, CommentsTyped
<1>3. Rooted' /\ (max_depth <= 1 \/ ~anew => Within(max_depth))'
  BY <1>1 DEF CommentsInv, Rooted, Within, Chain
<1>4. ASSUME NEW d \in Commenters, Editing(d)' PROVE EditAsIs(d)'
  <2>1. CASE d = c
    BY <1>4, <2>1
  <2>2. CASE d # c
    BY <1>1, <1>2, <1>4, <2>2 DEF CommentsInv, Editing, EditAsIs
  <2> QED BY <2>1, <2>2
<1>5. ASSUME NEW d \in Commenters, Posting(d)' PROVE PostAsIs(d)' /\ (~anew => Counted(d)')
  <2>1. CASE d = c
    BY <1>5, <2>1
  <2>2. CASE d # c
    <3>1. Posting(d) /\ posting'[d] = posting[d]
      BY <1>2, <1>5, <2>2 DEF Posting
    <3>2. PostAsIs(d)'
      BY <1>1, <3>1 DEF CommentsInv, PostAsIs
    <3>3. ~anew => Counted(d)'
      BY <1>1, <3>1 DEF CommentsInv, Counted, Chain
    <3> QED BY <3>2, <3>3
  <2> QED BY <2>1, <2>2
<1>6. Agreed'
  <2> SUFFICES ASSUME NEW b \in Commenters, NEW d \in Commenters, Editing(b)'
               PROVE  /\ Editing(d)' => EditsAgree(b, d)'
                      /\ Posting(d)' => PostAgrees(b, d)'
    BY DEF Agreed
  <2>1. CASE b = c
    BY <2>1
  <2>2. CASE d = c
    BY <2>2
  <2>3. CASE b # c /\ d # c
    BY <1>2, <2>3 DEF CommentsInv, Agreed, Editing, Posting, EditsAgree, PostAgrees
  <2> QED BY <2>1, <2>2, <2>3
<1> QED BY <1>1, <1>3, <1>4, <1>5, <1>6 DEF CommentsInv

\* A call's last step: it leaves what comments there are as they were, or gone, but for
\* one nobody knows or the one it has edited.
LEMMA EndKeeps ==
    ASSUME CommentsInv, NEW c \in Commenters, posting' = [posting EXCEPT ![c] = Resting],
           comments' \in [CommentIds -> Comment \cup {Gone}], anew' \in BOOLEAN, anew => anew', Rooted',
           \A i \in Rows_Now' :
                \/ i \in Rows_Now /\ comments'[i] = comments[i]
                \/ i \notin Known /\ i \notin Rows_Now
                \/ Editing(c) /\ i = posting[c].id /\ i \notin Rows_Now /\ comments'[i] = posting[c].row /\ anew',
           \A i \in Rows_Now' : comments'[i].parent \subseteq Rows_Now,
           (max_depth <= 1 \/ ~anew => Within(max_depth))'
    PROVE  CommentsInv'
<1>1. CommentsTyped'
  BY DEF CommentsInv, CommentsTyped
<1>2. \A d \in Commenters : Editing(d)' \/ Posting(d)' => d # c /\ posting'[d] = posting[d]
  BY DEF CommentsInv, CommentsTyped, Editing, Posting, Resting
<1>3. ASSUME NEW d \in Commenters, Editing(d)' PROVE EditAsIs(d)'
  <2>1. Editing(d) /\ posting'[d] = posting[d] /\ EditAsIs(d) /\ (Editing(c) => EditsAgree(c, d))
    BY <1>2, <1>3 DEF CommentsInv, Agreed, Editing
  <2>2. posting[d].id \in Known /\ posting[d].row.parent \subseteq Known
    BY <2>1, KnownHas DEF EditAsIs
  <2>3. posting[d].id \in Rows_Now' => comments'[posting[d].id] = posting[d].row
    BY <2>1, <2>2 DEF EditAsIs, EditsAgree
  <2>4. ASSUME NEW p \in posting[d].row.parent, p \in Rows_Now'
        PROVE  /\ comments'[p].target = posting[d].row.target
               /\ max_depth <= 1 => comments'[p].parent = {}
    BY <2>1, <2>2, <2>4 DEF EditAsIs, EditsAgree
  <2> QED BY <2>1, <2>3, <2>4 DEF EditAsIs
<1>4. ASSUME NEW d \in Commenters, Posting(d)' PROVE PostAsIs(d)'
  <2>1. Posting(d) /\ posting'[d] = posting[d] /\ PostAsIs(d) /\ (Editing(c) => PostAgrees(c, d))
    BY <1>2, <1>4 DEF CommentsInv, Agreed, Posting
  <2>2. posting[d].parent \subseteq Known
    BY <2>1, KnownHas
  <2>3. ASSUME NEW p \in posting[d].parent, p \in Rows_Now'
        PROVE  /\ comments'[p].target = posting[d].target
               /\ posting[d].depth = 1 => comments'[p].parent \subseteq posting[d].above
    BY <2>1, <2>2, <2>3 DEF PostAsIs, PostAgrees
  <2> QED BY <2>1, <2>3 DEF PostAsIs
<1>5. ASSUME ~anew', NEW d \in Commenters, Posting(d)' PROVE Counted(d)'
  <2>1. Posting(d) /\ posting'[d] = posting[d] /\ Counted(d) /\ posting[d].parent \subseteq Known
    BY <1>2, <1>5, KnownHas DEF CommentsInv, Posting
  <2>2. posting[d].depth \in Nat
    BY <2>1, PostIs DEF CommentsInv, Post
  <2> SUFFICES ASSUME NEW f \in [0..posting[d].depth -> Rows_Now'],
                      f[0] \in posting[d].parent, Chain(f, posting[d].depth)'
               PROVE  f[posting[d].depth] \in posting[d].above
    BY <2>1 DEF Counted, Chain
  <2>3. f[0] \in Rows_Now'
    BY <2>2
  <2>4. f[0] \in Rows_Now
    BY <1>5, <2>1, <2>3
  <2>5. Rooted /\ \A i \in Rows_Now' : i \in Rows_Now => comments'[i] = comments[i]
    BY DEF CommentsInv
  <2>6. PICK n \in Nat : n = posting[d].depth
    BY <2>2
  <2>7. f \in [0..n -> Rows_Now'] /\ Chain(f, n)'
    BY <2>1, <2>6 DEF Chain
  <2>8. f \in [0..n -> Rows_Now] /\ Chain(f, n)
    BY <2>4, <2>5, <2>7, ChainStays
  <2> QED BY <2>1, <2>6, <2>8 DEF Counted
<1>6. Agreed'
  BY <1>2 DEF CommentsInv, Agreed, Editing, Posting, EditsAgree, PostAgrees
<1> QED BY <1>1, <1>3, <1>4, <1>5, <1>6 DEF CommentsInv

LEMMA PostsKeeps == ASSUME CommentsInv, NEW c \in Commenters, Posts(c) PROVE CommentsInv'
<1>1. PICK target \in Targets, parent \in {{}} \cup {{i} : i \in Rows_Now} :
        /\ \A i \in parent : comments[i].target = target
        /\ posting' = [posting EXCEPT ![c] =
                [at |-> IF parent = {} THEN "save" ELSE "walk", target |-> target,
                 parent |-> parent, depth |-> 1, above |-> UNION {comments[i].parent : i \in parent}]]
  BY DEF Posts
<1> DEFINE above == UNION {comments[i].parent : i \in parent}
           new == [at |-> IF parent = {} THEN "save" ELSE "walk", target |-> target,
                   parent |-> parent, depth |-> 1, above |-> above]
<1>2. parent \subseteq Rows_Now /\ parent \subseteq CommentIds
  BY DEF Rows_Now
<1>3. above \subseteq CommentIds
  BY <1>2, CommentIs DEF CommentsInv, Comment
<1>4. new \in Post
  BY <1>2, <1>3 DEF Post
<1>5. posting'[c] = new /\ Posting(c)' /\ ~Editing(c)' /\ UNCHANGED <<comments, anew>> /\ Rows_Now' = Rows_Now
  BY <1>1 DEF Posts, CommentsInv, CommentsTyped, Posting, Editing, Rows_Now
<1>6. \A p \in parent : comments[p].parent \subseteq above
  OBVIOUS
<1> HIDE DEF above
<1>7. PostAsIs(c)'
  BY <1>1, <1>5, <1>6 DEF PostAsIs
<1>8. ASSUME NEW d \in Commenters, Editing(d)' PROVE PostAgrees(d, c)'
  <2>1. Editing(d) /\ posting'[d] = posting[d] /\ EditAsIs(d)
    BY <1>1, <1>5, <1>8 DEF CommentsInv, CommentsTyped, Editing
  <2>2. ASSUME posting[d].id \in parent
        PROVE  posting[d].row.target = target /\ posting[d].row.parent \subseteq above
    BY <1>1, <1>2, <1>6, <2>1, <2>2 DEF EditAsIs
  <2> QED BY <1>5, <2>1, <2>2 DEF PostAgrees
<1>9. Counted(c)'
  <2> SUFFICES ASSUME NEW f \in [0..1 -> Rows_Now], f[0] \in parent, f[0 + 1] \in comments[f[0]].parent
               PROVE  f[1] \in above
    BY <1>5 DEF Counted, Chain
  <2> QED BY <1>6
<1> QED BY <1>1, <1>4, <1>5, <1>7, <1>8, <1>9, TurnKeeps DEF above

\* A query more: what is so many above the parent is what those one below reply to.
LEMMA WalksKeeps == ASSUME CommentsInv, NEW c \in Commenters, Walks(c) PROVE CommentsInv'
<1>1. /\ posting[c].at = "walk" /\ Posting(c) /\ posting[c] \in Post /\ UNCHANGED <<comments, anew>>
      /\ Rows_Now' = Rows_Now
  BY PostIs DEF Walks, Posting, CommentsInv, Rows_Now
<1>2. PostAsIs(c) /\ (~anew => Counted(c)) /\ \A d \in Commenters : Editing(d) => PostAgrees(d, c)
  BY <1>1 DEF CommentsInv, Agreed
<1>3. \A d \in Commenters : d # c => posting'[d] = posting[d]
  BY DEF Walks, Ends_Posting, CommentsInv, CommentsTyped
<1>4. CASE posting' = [posting EXCEPT ![c] = Resting]
  <2>1. ~Posting(c)' /\ ~Editing(c)'
    BY <1>4 DEF Posting, Editing, Resting, CommentsInv, CommentsTyped
  <2> QED BY <1>1, <1>4, <2>1, TurnKeeps
<1>5. CASE ~TooDeep(posting[c].depth) /\ posting[c].above = {} /\ posting' = [posting EXCEPT ![c].at = "save"]
  <2> DEFINE new == [posting[c] EXCEPT !.at = "save"]
  <2>1. /\ posting'[c] = new /\ new \in Post /\ new.at = "save" /\ new.target = posting[c].target
        /\ new.parent = posting[c].parent /\ new.depth = posting[c].depth /\ new.above = {}
    BY <1>1, <1>5 DEF Post, CommentsInv, CommentsTyped
  <2>2. posting' = [posting EXCEPT ![c] = new]
    BY <1>5
  <2> HIDE DEF new
  <2>3. Posting(c)' /\ ~Editing(c)'
    BY <2>1 DEF Posting, Editing
  <2>4. new.depth \in Nat /\ new.depth <= max_depth
    BY <1>1, <1>5, <2>1, CommentsAssumption DEF TooDeep, Post
  <2>5. PostAsIs(c)'
    BY <1>1, <1>2, <1>5, <2>1, <2>4 DEF PostAsIs
  <2>6. \A d \in Commenters : Editing(d)' => PostAgrees(d, c)'
    BY <1>2, <1>3, <1>5, <2>1, <2>3 DEF PostAgrees, Editing
  <2>7. ~anew => Counted(c)'
    BY <1>1, <1>2, <1>5, <2>1 DEF Counted, Chain
  <2> QED BY <1>1, <2>1, <2>2, <2>3, <2>5, <2>6, <2>7, TurnKeeps
<1>6. CASE posting' = [posting EXCEPT ![c].depth = posting[c].depth + 1,
                                      ![c].above = UNION {comments[i].parent : i \in posting[c].above}]
  <2> DEFINE above == UNION {comments[i].parent : i \in posting[c].above}
             new == [posting[c] EXCEPT !.depth = @ + 1, !.above = above]
  <2>1. above \subseteq CommentIds
    BY <1>1 DEF CommentsInv, CommentsTyped, Comment, Gone, Post
  <2>2. \A i \in posting[c].above : comments[i].parent \subseteq above
    OBVIOUS
  <2>3. posting' = [posting EXCEPT ![c] = new] /\ posting'[c] = new
    BY <1>1, <1>6 DEF CommentsInv, CommentsTyped
  <2> HIDE DEF above
  <2>4. /\ new \in Post /\ new.at = "walk" /\ new.target = posting[c].target
        /\ new.parent = posting[c].parent /\ new.depth = posting[c].depth + 1 /\ new.above = above
    <3>1. posting[c].depth + 1 \in Nat \ {0}
      BY <1>1 DEF Post
    <3> QED BY <1>1, <2>1, <3>1 DEF Post
  <2> HIDE DEF new
  <2>5. Posting(c)' /\ ~Editing(c)' /\ new.depth # 1 /\ posting[c].depth \in Nat \ {0}
    BY <1>1, <2>3, <2>4 DEF Posting, Editing, Post
  <2>6. PostAsIs(c)'
    BY <1>1, <1>2, <2>3, <2>4, <2>5 DEF PostAsIs
  <2>7. \A d \in Commenters : Editing(d)' => PostAgrees(d, c)'
    BY <1>2, <1>3, <2>3, <2>4, <2>5 DEF PostAgrees, Editing
  <2>8. ASSUME ~anew PROVE Counted(c)'
    <3> DEFINE n == posting[c].depth
    <3>1. n \in Nat /\ n \in 0..n + 1 /\ n \in 0..(n + 1) - 1 /\ 0 \in 0..n /\ n \in 0..n
      BY <2>5
    <3> SUFFICES ASSUME NEW f \in [0..n + 1 -> Rows_Now], f[0] \in posting[c].parent, Chain(f, n + 1)
                 PROVE  f[n + 1] \in above
      BY <1>1, <2>3, <2>4 DEF Counted, Chain
    <3> DEFINE g == [k \in 0..n |-> f[k]]
    <3> HIDE DEF n
    <3>2. g \in [0..n -> Rows_Now] /\ Chain(g, n)
      BY <3>1, ChainBegins
    <3>3. g[0] = f[0] /\ g[n] = f[n]
      BY <3>1
    <3>4. f[n] \in posting[c].above
      BY <1>2, <2>8, <3>2, <3>3 DEF Counted, n
    <3> QED BY <2>2, <3>1, <3>4 DEF Chain
  <2> QED BY <1>1, <2>3, <2>4, <2>5, <2>6, <2>7, <2>8, TurnKeeps
<1> QED BY <1>4, <1>5, <1>6 DEF Walks, Ends_Posting

LEMMA FetchesKeeps == ASSUME CommentsInv, NEW c \in Commenters, Fetches_Comment(c) PROVE CommentsInv'
<1>1. PICK i \in Rows_Now, at \in {"edit", "collect"} :
        posting' = [posting EXCEPT ![c] = [at |-> at, id |-> i, row |-> comments[i], found |-> {i}, level |-> {i}]]
  BY DEF Fetches_Comment
<1> DEFINE new == [at |-> at, id |-> i, row |-> comments[i], found |-> {i}, level |-> {i}]
<1>2. i \in CommentIds /\ comments[i] \in Comment
  BY CommentIs DEF CommentsInv
<1>3. new \in Change
  BY <1>2 DEF Change
<1>4. posting'[c] = new /\ ~Posting(c)' /\ UNCHANGED <<comments, anew>> /\ Rows_Now' = Rows_Now
  BY <1>1 DEF Fetches_Comment, CommentsInv, CommentsTyped, Posting, Rows_Now
<1>5. \A d \in Commenters : d # c => posting'[d] = posting[d]
  BY <1>1 DEF CommentsInv, CommentsTyped
<1>6. \A p \in comments[i].parent : p \in Rows_Now /\ comments[p].target = comments[i].target
  BY DEF CommentsInv, Rooted
\* Of a thread one deep: no reply replies to a reply.
<1>7. /\ max_depth = 0 => comments[i].parent = {}
      /\ max_depth <= 1 => \A p \in comments[i].parent : comments[p].parent = {}
  <2>1. ASSUME max_depth = 0, NEW p \in comments[i].parent PROVE FALSE
    <3> DEFINE f == [k \in 0..1 |-> IF k = 0 THEN i ELSE p]
    <3>1. f \in [0..max_depth + 1 -> Rows_Now] /\ Chain(f, max_depth + 1)
      BY <1>6, <2>1 DEF Chain
    <3> QED BY <2>1, <3>1 DEF CommentsInv, Within
  <2>2. ASSUME max_depth = 1, NEW p \in comments[i].parent, NEW q \in comments[p].parent PROVE FALSE
    <3> DEFINE f == [k \in 0..2 |-> IF k = 0 THEN i ELSE IF k = 1 THEN p ELSE q]
    <3>1. p \in Rows_Now /\ q \in Rows_Now
      BY <1>6, <2>2 DEF CommentsInv, Rooted
    <3>2. f \in [0..max_depth + 1 -> Rows_Now] /\ Chain(f, max_depth + 1)
      BY <2>2, <3>1 DEF Chain
    <3> QED BY <2>2, <3>2 DEF CommentsInv, Within
  <2>3. max_depth <= 1 => max_depth \in {0, 1}
    BY CommentsAssumption
  <2> QED BY <2>1, <2>2, <2>3
<1>8. EditAsIs(c)'
  BY <1>4, <1>6, <1>7 DEF EditAsIs
<1>9. ASSUME NEW d \in Commenters, Editing(d)' PROVE EditsAgree(c, d)' /\ EditsAgree(d, c)'
  <2>1. CASE d = c
    BY <1>4, <1>6, <1>7, <2>1 DEF EditsAgree
  <2>2. CASE d # c
    <3>1. posting'[d] = posting[d] /\ EditAsIs(d)
      BY <1>5, <1>9, <2>2 DEF CommentsInv, Editing
    <3>2. EditsAgree(c, d)'
      BY <1>4, <3>1 DEF EditsAgree, EditAsIs
    <3>3. EditsAgree(d, c)'
      BY <1>4, <1>6, <1>7, <3>1 DEF EditsAgree, EditAsIs
    <3> QED BY <3>2, <3>3
  <2> QED BY <2>1, <2>2
<1>10. ASSUME NEW d \in Commenters, Posting(d)' PROVE PostAgrees(c, d)'
  <2>1. d # c
    BY <1>4, <1>10
  <2>2. posting'[d] = posting[d] /\ PostAsIs(d)
    BY <1>5, <1>10, <2>1 DEF CommentsInv, Posting
  <2> QED BY <1>4, <2>2 DEF PostAgrees, PostAsIs
<1> QED BY <1>1, <1>3, <1>4, <1>8, <1>9, <1>10, TurnKeeps

LEMMA CollectsKeeps == ASSUME CommentsInv, NEW c \in Commenters, Collects(c) PROVE CommentsInv'
<1>1. posting[c] \in Change /\ UNCHANGED <<comments, anew>>
  BY ChangeIs DEF Collects, CommentsInv
<1> DEFINE level == Replies_To(posting[c].level)
           new == [posting[c] EXCEPT !.found = @ \cup level, !.level = level,
                                     !.at = IF level = {} THEN "delete" ELSE "collect"]
<1>2. level \subseteq CommentIds
  BY DEF Replies_To, Rows_Now
<1>3. posting' = [posting EXCEPT ![c] = new]
  BY <1>1 DEF Collects, Change
<1> HIDE DEF level
<1>4. new \in Change /\ new.at \in {"collect", "delete"}
  BY <1>1, <1>2 DEF Change
<1>5. ~Posting(c)' /\ ~Editing(c)'
  BY <1>3, <1>4 DEF Posting, Editing, CommentsInv, CommentsTyped
<1> QED BY <1>1, <1>3, <1>4, <1>5, TurnKeeps

\* Only up from what has come to be may there be a chain too long.
LEMMA OldWithin ==
    ASSUME Rooted, Within(max_depth), NEW f \in [0..max_depth + 1 -> Rows_Now'], Chain(f, max_depth + 1)',
           \A i \in Rows_Now' : i \in Rows_Now => comments'[i] = comments[i],
           \A i \in Rows_Now' : comments'[i].parent \subseteq Rows_Now
    PROVE  f[0] \in Rows_Now' \ Rows_Now
<1>1. max_depth + 1 \in Nat /\ 0 \in 0..max_depth + 1
  BY CommentsAssumption
<1>2. f[0] \notin Rows_Now
  <2> SUFFICES ASSUME f[0] \in Rows_Now PROVE FALSE
    OBVIOUS
  <2>1. f \in [0..max_depth + 1 -> Rows_Now] /\ Chain(f, max_depth + 1)
    BY <1>1, ChainStays
  <2> QED BY <2>1 DEF Within
<1> QED BY <1>1, <1>2

LEMMA SavesKeeps == ASSUME CommentsInv, NEW c \in Commenters, Saves_Comment(c) PROVE CommentsInv'
<1>1. /\ Posting(c) /\ posting[c] \in Post /\ PostAsIs(c) /\ posting[c].at = "save" /\ UNCHANGED anew
      /\ posting' = [posting EXCEPT ![c] = Resting]
  BY PostIs DEF Saves_Comment, Ends_Posting, Posting, CommentsInv
<1>2. CASE UNCHANGED comments
  <2>1. Rows_Now' = Rows_Now /\ ~Posting(c)' /\ ~Editing(c)'
    BY <1>1, <1>2 DEF Rows_Now, Posting, Editing, Resting, CommentsInv, CommentsTyped
  <2> QED BY <1>1, <1>2, <2>1, TurnKeeps
<1>3. CASE posting[c].parent \subseteq Rows_Now
  <2>1. PICK i \in CommentIds \ (Rows_Now \cup Known) :
            comments' = [comments EXCEPT ![i] = [parent |-> posting[c].parent, target |-> posting[c].target]]
    BY <1>3 DEF Saves_Comment
  <2> DEFINE row == [parent |-> posting[c].parent, target |-> posting[c].target]
  <2>2. row \in Comment
    BY <1>1 DEF Post, Comment
  <2>3. /\ comments' \in [CommentIds -> Comment \cup {Gone}] /\ comments'[i] = row
        /\ \A j \in CommentIds \ {i} : comments'[j] = comments[j]
    BY <2>1, <2>2 DEF CommentsInv, CommentsTyped
  <2>4. Rows_Now' = Rows_Now \cup {i}
    BY <2>1, <2>2, <2>3, GoneIs DEF Rows_Now
  <2>5. \A j \in Rows_Now : comments'[j] = comments[j] /\ j \in Rows_Now'
    BY <2>1, <2>3, <2>4 DEF Rows_Now
  <2>6. \A j \in Rows_Now' : comments'[j].parent \subseteq Rows_Now
    BY <1>3, <2>3, <2>4, <2>5 DEF CommentsInv, Rooted
  <2>7. Rooted'
    <3> SUFFICES ASSUME NEW j \in Rows_Now', NEW p \in comments'[j].parent
                 PROVE  p \in Rows_Now' /\ comments'[p].target = comments'[j].target
      BY DEF Rooted
    <3>1. p \in Rows_Now
      BY <2>6
    <3>2. CASE j = i
      BY <1>1, <2>3, <2>5, <3>1, <3>2 DEF PostAsIs
    <3>3. CASE j \in Rows_Now
      BY <2>5, <3>1, <3>3 DEF CommentsInv, Rooted
    <3> QED BY <2>4, <3>2, <3>3
  <2>8. ASSUME max_depth <= 1 \/ ~anew PROVE Within(max_depth)'
    <3> SUFFICES ASSUME NEW f \in [0..max_depth + 1 -> Rows_Now'], Chain(f, max_depth + 1)' PROVE FALSE
      BY DEF Within, Chain
    <3> DEFINE m == max_depth
               g == [k \in 0..m |-> f[k + 1]]
    <3>1. m \in Nat /\ 0 \in 0..m /\ 0 \in 0..(m + 1) - 1 /\ \A k \in 0..m : k + 1 \in 0..m + 1
      BY CommentsAssumption
    <3>2. f[0] = i
      BY <2>4, <2>5, <2>6, <2>8, OldWithin DEF CommentsInv
    <3>3. f[1] \in posting[c].parent /\ g[0] = f[1]
      BY <2>3, <3>1, <3>2 DEF Chain
    <3>4. g \in [0..m -> Rows_Now'] /\ g[0] \in Rows_Now
      BY <1>3, <3>1, <3>3
    <3>5. Chain(g, m)'
      <4> SUFFICES ASSUME NEW k \in 0..m - 1 PROVE f[(k + 1) + 1] \in comments'[f[k + 1]].parent
        BY <3>1 DEF Chain
      <4>1. k + 1 \in 0..(m + 1) - 1
        BY <3>1
      <4> QED BY <4>1 DEF Chain
    <3> HIDE DEF g
    <3>6. g \in [0..m -> Rows_Now] /\ Chain(g, m)
      BY <2>5, <2>6, <3>1, <3>4, <3>5, ChainStays DEF CommentsInv
    <3>7. posting[c].above = {} /\ posting[c].depth \in Nat \ {0} /\ posting[c].depth <= m
      BY <1>1, <3>3 DEF PostAsIs, Post
    <3> DEFINE d == posting[c].depth
               h == [k \in 0..d |-> g[k]]
    <3>8. d \in 0..m
      BY <3>1, <3>7
    <3> HIDE DEF d
    <3>9. h \in [0..d -> Rows_Now] /\ Chain(h, d) /\ h[0] = g[0]
      BY <3>1, <3>6, <3>8, ChainBegins
    <3>10. CASE ~anew
      BY <1>1, <3>3, <3>7, <3>9, <3>10 DEF CommentsInv, Counted, d
    <3>11. CASE m <= 1
      <4>1. d = 1 /\ m = 1
        BY <3>1, <3>7, <3>11 DEF d
      <4>2. g[1] \in comments[g[0]].parent
        BY <3>6, <4>1 DEF Chain
      <4> QED BY <1>1, <3>3, <3>4, <3>7, <4>1, <4>2 DEF PostAsIs, d
    <3> QED BY <2>8, <3>10, <3>11
  <2>9. (max_depth <= 1 \/ ~anew => Within(max_depth))'
    BY <1>1, <2>8
  <2>10. \A j \in Rows_Now' : \/ j \in Rows_Now /\ comments'[j] = comments[j]
                              \/ j \notin Known /\ j \notin Rows_Now
    BY <2>1, <2>4, <2>5
  <2> QED BY <1>1, <2>3, <2>6, <2>7, <2>9, <2>10, EndKeeps DEF CommentsInv, CommentsTyped
<1> QED BY <1>2, <1>3 DEF Saves_Comment

LEMMA EditsKeeps == ASSUME CommentsInv, NEW c \in Commenters, Edits_Comment(c) PROVE CommentsInv'
<1>1. /\ Editing(c) /\ posting[c] \in Change /\ EditAsIs(c)
      /\ posting' = [posting EXCEPT ![c] = Resting]
  BY ChangeIs DEF Edits_Comment, Ends_Posting, Editing, CommentsInv
<1> DEFINE id == posting[c].id
           row == posting[c].row
<1>2. id \in CommentIds /\ row \in Comment
  BY <1>1 DEF Change
<1>3. CASE UNCHANGED <<comments, anew>>
  <2>1. ~Posting(c)' /\ ~Editing(c)'
    BY <1>1 DEF Posting, Editing, Resting, CommentsInv, CommentsTyped
  <2> QED BY <1>1, <1>3, <2>1, TurnKeeps
\* Still there, it is saved as it was.
<1>4. CASE row.parent \subseteq Rows_Now /\ id \in Rows_Now
  <2>1. comments' = [comments EXCEPT ![id] = row] /\ anew' = (anew \/ FALSE) /\ comments[id] = row
    BY <1>1, <1>4 DEF Edits_Comment, EditAsIs
  <2>2. UNCHANGED <<comments, anew>>
    BY <2>1 DEF CommentsInv, CommentsTyped
  <2> QED BY <1>3, <2>2
\* Put back, it has the parent it had, and nothing replies to it.
<1>5. CASE row.parent \subseteq Rows_Now /\ id \notin Rows_Now
  <2>1. comments' = [comments EXCEPT ![id] = row] /\ anew' = TRUE
    BY <1>5 DEF Edits_Comment
  <2>2. /\ comments' \in [CommentIds -> Comment \cup {Gone}] /\ comments'[id] = row
        /\ \A j \in CommentIds \ {id} : comments'[j] = comments[j]
    BY <1>2, <2>1 DEF CommentsInv, CommentsTyped
  <2>3. Rows_Now' = Rows_Now \cup {id}
    BY <1>2, <2>2, GoneIs DEF Rows_Now
  <2>4. \A j \in Rows_Now : comments'[j] = comments[j] /\ j \in Rows_Now'
    BY <1>5, <2>2, <2>3 DEF Rows_Now
  <2>5. \A j \in Rows_Now' : comments'[j].parent \subseteq Rows_Now
    BY <1>5, <2>2, <2>3, <2>4 DEF CommentsInv, Rooted
  <2>6. Rooted'
    <3> SUFFICES ASSUME NEW j \in Rows_Now', NEW p \in comments'[j].parent
                 PROVE  p \in Rows_Now' /\ comments'[p].target = comments'[j].target
      BY DEF Rooted
    <3>1. p \in Rows_Now
      BY <2>5
    <3>2. CASE j = id
      BY <1>1, <2>2, <2>4, <3>1, <3>2 DEF EditAsIs
    <3>3. CASE j \in Rows_Now
      BY <2>4, <3>1, <3>3 DEF CommentsInv, Rooted
    <3> QED BY <2>3, <3>2, <3>3
  <2>7. ASSUME max_depth <= 1 PROVE Within(max_depth)'
    <3> SUFFICES ASSUME NEW f \in [0..max_depth + 1 -> Rows_Now'], Chain(f, max_depth + 1)' PROVE FALSE
      BY DEF Within, Chain
    <3>1. f[0] = id
      BY <2>3, <2>4, <2>5, <2>7, OldWithin DEF CommentsInv
    <3>2. max_depth \in {0, 1}
      BY <2>7, CommentsAssumption
    <3>3. f[1] \in row.parent
      BY <2>2, <3>1, <3>2 DEF Chain
    <3>4. CASE max_depth = 0
      BY <1>1, <3>3, <3>4 DEF EditAsIs
    <3>5. CASE max_depth = 1
      <4>1. f[1] \in Rows_Now /\ comments'[f[1]].parent = {}
        BY <1>1, <1>5, <2>4, <3>3, <3>5 DEF EditAsIs
      <4>2. f[2] \in comments'[f[1]].parent
        BY <3>5 DEF Chain
      <4> QED BY <4>1, <4>2
    <3> QED BY <3>2, <3>4, <3>5
  <2>8. (max_depth <= 1 \/ ~anew => Within(max_depth))'
    BY <2>1, <2>7
  <2>9. \A j \in Rows_Now' :
            \/ j \in Rows_Now /\ comments'[j] = comments[j]
            \/ j = id /\ j \notin Rows_Now /\ comments'[j] = row
    BY <1>5, <2>2, <2>3, <2>4
  <2> QED BY <1>1, <2>1, <2>2, <2>5, <2>6, <2>8, <2>9, EndKeeps
<1> QED BY <1>3, <1>4, <1>5 DEF Edits_Comment

LEMMA DeletesCommentsKeeps ==
    ASSUME CommentsInv, NEW c \in Commenters, Deletes_Comments(c) PROVE CommentsInv'
<1>1. posting' = [posting EXCEPT ![c] = Resting] /\ UNCHANGED anew
  BY DEF Deletes_Comments, Ends_Posting
<1> DEFINE found == posting[c].found
<1>2. CASE UNCHANGED comments
  <2>1. ~Posting(c)' /\ ~Editing(c)'
    BY <1>1 DEF Posting, Editing, Resting, CommentsInv, CommentsTyped
  <2> QED BY <1>1, <1>2, <2>1, TurnKeeps
<1>3. CASE Replies_To(found) \subseteq found
  <2>1. comments' = [i \in CommentIds |-> IF i \in found THEN Gone ELSE comments[i]]
    BY <1>3 DEF Deletes_Comments
  <2>2. comments' \in [CommentIds -> Comment \cup {Gone}]
    BY <2>1 DEF CommentsInv, CommentsTyped
  <2>3. \A i \in Rows_Now' : i \in Rows_Now /\ i \notin found /\ comments'[i] = comments[i]
    BY <2>1 DEF Rows_Now
  <2>4. \A i \in Rows_Now \ found : i \in Rows_Now'
    BY <2>1 DEF Rows_Now
  <2>5. \A i \in Rows_Now' : \A p \in comments'[i].parent : p \in Rows_Now \ found
    BY <1>3, <2>3 DEF Replies_To, CommentsInv, Rooted
  <2>6. Rooted'
    BY <2>3, <2>4, <2>5 DEF CommentsInv, Rooted
  <2>7. (max_depth <= 1 \/ ~anew => Within(max_depth))'
    <3> SUFFICES ASSUME max_depth <= 1 \/ ~anew, NEW f \in [0..max_depth + 1 -> Rows_Now'],
                        Chain(f, max_depth + 1)' PROVE FALSE
      BY <1>1 DEF Within, Chain
    <3>1. f[0] \in Rows_Now' \ Rows_Now
      BY <2>3, <2>5, OldWithin DEF CommentsInv
    <3> QED BY <2>3, <3>1
  <2>8. \A i \in Rows_Now' : comments'[i].parent \subseteq Rows_Now
    BY <2>5
  <2> QED BY <1>1, <2>2, <2>3, <2>6, <2>7, <2>8, EndKeeps DEF CommentsInv, CommentsTyped
<1> QED BY <1>2, <1>3 DEF Deletes_Comments

LEMMA CommentsNextHolds == CommentsInv /\ [CommentsNext]_commentsVars => CommentsInv'
<1> SUFFICES ASSUME CommentsInv, [CommentsNext]_commentsVars PROVE CommentsInv'
  OBVIOUS
<1>1. CASE UNCHANGED commentsVars
  BY <1>1 DEF commentsVars, CommentsInv, CommentsTyped, Rooted, Agreed, EditAsIs, PostAsIs, EditsAgree,
              PostAgrees, Counted, Editing, Posting, Within, Chain, Rows_Now
<1>2. CASE CommentsNext
  BY <1>2, PostsKeeps, WalksKeeps, SavesKeeps, FetchesKeeps, EditsKeeps, CollectsKeeps, DeletesCommentsKeeps
     DEF CommentsNext
<1> QED BY <1>1, <1>2

\* comments(threaded=True): for any callers, comments and max_depth, a reply is under a
\* comment that is there and on the same thing, and no deeper than max_depth - unless an
\* edit has put a comment back, and then too where a reply's parent is all a walk reads.
THEOREM ThreadsHoldHolds == CommentsSpec => []ThreadsHold
<1>1. CommentsInv => ThreadsHold
  BY DEF CommentsInv, Rooted, ThreadsHold
<1> QED BY <1>1, CommentsInitHolds, CommentsNextHolds, PTL DEF CommentsSpec
=============================================================================
