--------------------------- MODULE RequestsProofs ---------------------------
(***************************************************************************)
(* Theorems about what serves requests. About Preconditions, for any       *)
(* requests, values, tokens and settings of the views: from its comparison *)
(* to its commit, what a write named is the version of the row, and, where *)
(* what is shown is what its version names, no update is lost and a 304 is *)
(* true.  About HistoryTrail, for any threads and people: an event names   *)
(* who asked, and an object's events sort as they were made.  And about    *)
(* GuardedWrites: what a guarded write leaves was allowed.                 *)
(***************************************************************************)
EXTENDS Preconditions, HistoryTrail, GuardedWrites, TLAPS

Typed ==
    /\ opt.strategy \in Strategies /\ opt.ops \subseteq Ops /\ rel \in BOOLEAN
    /\ lock \in [Requests -> Modes] /\ pc \in [Requests -> PCs] /\ op \in [Requests -> Ops]
    /\ DOMAIN header = Requests /\ DOMAIN inst = Requests /\ DOMAIN tx = Requests

\* A write that compares, or has compared, has the row FOR UPDATE.
ComparedLocks == \A r \in Requests : pc[r] = "compare" \/ Compared(r) => lock[r] = "update"

\* What is written, or a related row, keeps every comparison out until it commits.
WrittenLocks ==
    \A r \in Requests : /\ tx[r] # Unwritten => pc[r] = "answer" /\ lock[r] \in {"nokey", "update"}
                        /\ pc[r] = "answer" /\ op[r] = "relate" => lock[r] # "none"

NoConflict == \A q, r \in Requests : q # r => {lock[q], lock[r]} \notin Conflicts

\* What was read again under the lock is the row, and bears no ETag of its own.
ReadAgain ==
    \A r \in Requests : pc[r] = "compare" => inst[r].token = row.token /\ inst[r].etag = NoEtag

\* Only what names one row goes through get_object().
Gets == \A r \in Requests : pc[r] = "get" => op[r] \notin {"bulk", "touch", "relate"}

IInv ==
    /\ Typed /\ ComparedLocks /\ WrittenLocks /\ NoConflict /\ ReadAgain /\ Gets
    /\ ComparedIsLandedOn

\* What a comparison, or a write that compared, rests on, of one request.
Rests(r) ==
    /\ pc[r] = "get" => op[r] \notin {"bulk", "touch", "relate"}
    /\ pc[r] = "compare" \/ Compared(r) => lock[r] = "update"
    /\ tx[r] # Unwritten => pc[r] = "answer" /\ lock[r] \in {"nokey", "update"}
    /\ pc[r] = "answer" /\ op[r] = "relate" => lock[r] # "none"
    /\ pc[r] = "compare" => inst[r].token = row.token /\ inst[r].etag = NoEtag
    /\ Compared(r) => AnyEtag \in entity_tags(r) \/ CommittedEtag \in entity_tags(r)

-----------------------------------------------------------------------------
LEMMA InParts == IInv <=> Typed /\ NoConflict /\ \A r \in Requests : Rests(r)
BY DEF IInv, ComparedLocks, WrittenLocks, ReadAgain, Gets, ComparedIsLandedOn,
       Rests

LEMMA InPartsNext == IInv' <=> Typed' /\ NoConflict' /\ \A r \in Requests : Rests(r)'
BY DEF IInv, ComparedLocks, WrittenLocks, ReadAgain, Gets, ComparedIsLandedOn,
       Rests

\* Beside a row held FOR UPDATE no one has any lock on it.
LEMMA UpdateIsAlone ==
  ASSUME NEW mode \in Modes, {mode, "update"} \notin Conflicts
  PROVE  mode = "none"
<1>1. {"share", "update"} \in Conflicts /\ {"nokey", "update"} \in Conflicts
      /\ {"update", "update"} \in Conflicts
  BY DEF Conflicts
<1> QED BY <1>1 DEF Modes

LEMMA NoneIsFree == ASSUME NEW mode \in Modes PROVE {"none", mode} \notin Conflicts
<1>1. \A set \in Conflicts : "none" \notin set
  BY DEF Conflicts
<1> QED BY <1>1

\* A request whose own step this is not rests as it did, where the row stays.
LEMMA OthersRest ==
  ASSUME IInv, NEW q \in Requests, row' = row, rel' = rel, opt' = opt,
         pc'[q] = pc[q], lock'[q] = lock[q], tx'[q] = tx[q], inst'[q] = inst[q],
         op'[q] = op[q], header'[q] = header[q]
  PROVE  Rests(q)'
<1>1. Rests(q)
  BY InParts
<1>2. Compared(q)' <=> Compared(q)
  BY DEF Compared, Checked
<1>3. entity_tags(q)' = entity_tags(q) /\ CommittedEtag' = CommittedEtag
  BY DEF entity_tags, CommittedEtag
<1> QED BY <1>1, <1>2, <1>3 DEF Rests

\* A lock taken, kept or given up where none that conflicts is held.
LEMMA LockKeeps ==
  ASSUME IInv, NEW r \in Requests, NEW mode \in Modes,
         lock' = [lock EXCEPT ![r] = mode],
         mode = "none" \/ mode = lock[r] \/ CanTake(r, mode)
  PROVE  lock' \in [Requests -> Modes] /\ NoConflict'
<1>1. lock' \in [Requests -> Modes]
  BY DEF IInv, Typed
<1>2. \A q \in Requests \ {r} : {lock[q], mode} \notin Conflicts
  <2>1. CASE mode = "none"
    <3>1. \A q \in Requests : lock[q] \in Modes /\ {lock[q], mode} = {"none", lock[q]}
      BY <2>1 DEF IInv, Typed
    <3> QED BY <3>1, NoneIsFree
  <2>2. CASE mode = lock[r]
    BY <2>2 DEF IInv, NoConflict
  <2>3. CASE CanTake(r, mode)
    BY <2>3 DEF CanTake
  <2> QED BY <2>1, <2>2, <2>3
<1>3. lock'[r] = mode /\ \A q \in Requests \ {r} : lock'[q] = lock[q]
  BY DEF IInv, Typed
<1>4. NoConflict'
  <2> SUFFICES ASSUME NEW q \in Requests, NEW p \in Requests, q # p
               PROVE  {lock'[q], lock'[p]} \notin Conflicts
    BY DEF NoConflict, Conflicts
  <2>1. CASE q = r
    <3>1. {lock'[q], lock'[p]} = {lock[p], mode}
      BY <2>1, <1>3
    <3> QED BY <3>1, <2>1, <1>2
  <2>2. CASE p = r
    BY <2>2, <1>2, <1>3
  <2>3. CASE q # r /\ p # r
    BY <2>3, <1>3 DEF IInv, NoConflict
  <2> QED BY <2>1, <2>2, <2>3
<1> QED BY <1>1, <1>4

\* A step of one request that commits nothing: every other rests as it did.
LEMMA StepKeeps ==
  ASSUME IInv, NEW r \in Requests, UNCHANGED <<opt, row, rel>>, Typed', NoConflict',
         \A q \in Requests \ {r} :
            /\ pc'[q] = pc[q] /\ lock'[q] = lock[q] /\ tx'[q] = tx[q] /\ inst'[q] = inst[q]
            /\ op'[q] = op[q] /\ header'[q] = header[q],
         Rests(r)'
  PROVE  IInv'
<1>1. \A q \in Requests : Rests(q)'
  BY OthersRest
<1> QED BY <1>1, InPartsNext

-----------------------------------------------------------------------------
LEMMA InitHolds == Init => IInv
<1> SUFFICES ASSUME Init PROVE IInv
  OBVIOUS
<1>1. Typed
  <2>1. opt \in OptType
    BY SettingsAssumption DEF Init
  <2>2. opt.strategy \in Strategies /\ opt.ops \subseteq Ops
    BY <2>1 DEF OptType
  <2>3. rel \in BOOLEAN
    BY DEF Init
  <2>4. "none" \in Modes /\ "idle" \in PCs /\ "retrieve" \in Ops
    BY DEF Modes, PCs, Ops
  <2>5. /\ lock \in [Requests -> Modes] /\ pc \in [Requests -> PCs] /\ op \in [Requests -> Ops]
        /\ DOMAIN header = Requests /\ DOMAIN inst = Requests /\ DOMAIN tx = Requests
    BY <2>4 DEF Init
  <2> QED BY <2>2, <2>3, <2>5 DEF Typed
<1>2. NoConflict
  <2>1. \A mode \in Modes : {"none", mode} \notin Conflicts
    BY NoneIsFree
  <2>2. \A r \in Requests : lock[r] = "none" /\ lock[r] \in Modes
    BY DEF Init, Modes
  <2> QED BY <2>1, <2>2 DEF NoConflict
<1>3. \A r \in Requests : Rests(r)
  BY DEF Init, Rests, Compared
<1> QED BY <1>1, <1>2, <1>3, InParts

LEMMA BeginKeeps == ASSUME IInv, NEW r \in Requests, Begin(r) PROVE IInv'
<1>1. PICK o, tags :
        /\ o \in opt.ops
        /\ op' = [op EXCEPT ![r] = o] /\ header' = [header EXCEPT ![r] = tags]
        /\ pc' = [pc EXCEPT ![r] = IF o \in {"bulk", "touch", "relate"} THEN "save" ELSE "get"]
  BY DEF Begin
<1>2. UNCHANGED <<opt, row, rel, lock, inst, tx>> /\ pc[r] = "idle"
  BY DEF Begin
<1>3. Typed' /\ NoConflict'
  BY <1>1, <1>2 DEF IInv, Typed, NoConflict, PCs
<1>4. \A q \in Requests \ {r} : pc'[q] = pc[q] /\ op'[q] = op[q] /\ header'[q] = header[q]
  BY <1>1 DEF IInv, Typed
<1>5. pc'[r] \in {"save", "get"} /\ (pc'[r] = "save" <=> op'[r] \in {"bulk", "touch", "relate"})
  BY <1>1 DEF IInv, Typed
<1>6. Rests(r)'
  BY <1>2, <1>5, InParts DEF Rests, Compared, Checked
<1> QED BY <1>2, <1>3, <1>4, <1>6, StepKeeps

\* A write goes on unlocked only when it names no version.
LEMMA GetObjectKeeps == ASSUME IInv, NEW r \in Requests, GetObject(r) PROVE IInv'
<1>1. /\ UNCHANGED <<opt, row, rel, lock, tx, op, header>> /\ pc[r] = "get"
      /\ DOMAIN inst' = Requests /\ \A q \in Requests \ {r} : inst'[q] = inst[q]
  BY DEF GetObject, IInv, Typed
<1>2. PICK at : pc' = [pc EXCEPT ![r] = at]
  BY DEF GetObject
<1>3. pc'[r] = at /\ \A q \in Requests \ {r} : pc'[q] = pc[q]
  BY <1>2 DEF IInv, Typed
<1>4. /\ at \in {"200", "304", "404", "412", "428", "answer", "save", "lock"}
      /\ at = "answer" => op[r] = "retrieve"
      /\ at = "save" => op[r] = "exempt" \/ header[r] = {}
  <2>1. op[r] \in Ops \ {"bulk", "touch", "relate"}
    BY <1>1 DEF IInv, Typed, Gets
  <2>2. MissingRow(r) \in {"404", "412"}
    BY DEF MissingRow
  <2>3. at = CASE ~row.there -> MissingRow(r)
                  [] row.there /\ op[r] = "retrieve" ->
                        IF opt.not_modified /\ matches(r) THEN "304" ELSE "answer"
                  [] row.there /\ op[r] = "exempt" -> "save"
                  [] row.there /\ requires_precondition(r) /\ header[r] = {} ->
                        IF opt.required THEN "428" ELSE "save"
                  [] row.there /\ Checked(r) ->
                        IF AnyEtag \in entity_tags(r) /\ ~opt.allows_any
                        THEN "428" ELSE "lock"
    BY <1>2 DEF GetObject, IInv, Typed
  <2>4. CASE ~row.there
    BY <2>2, <2>3, <2>4
  <2>5. CASE row.there /\ op[r] = "retrieve"
    BY <2>3, <2>5 DEF requires_precondition, Checked
  <2>6. CASE row.there /\ op[r] = "exempt"
    BY <2>3, <2>6 DEF requires_precondition, Checked
  <2>7. CASE row.there /\ requires_precondition(r) /\ header[r] = {}
    BY <2>3, <2>7 DEF requires_precondition, Checked
  <2>8. CASE row.there /\ Checked(r)
    BY <2>3, <2>8 DEF requires_precondition, Checked
  <2> QED BY <2>1, <2>4, <2>5, <2>6, <2>7, <2>8 DEF Ops, requires_precondition, Checked
<1>5. Typed' /\ NoConflict'
  BY <1>1, <1>2, <1>4 DEF IInv, Typed, NoConflict, PCs, Statuses
<1>6. Rests(r)'
  BY <1>1, <1>3, <1>4, InParts DEF Rests, Compared, Checked
<1> QED BY <1>1, <1>3, <1>5, <1>6, StepKeeps

LEMMA LockedKeeps == ASSUME IInv, NEW r \in Requests, Locked(r) PROVE IInv'
<1>1. UNCHANGED <<opt, row, rel, op, header, tx>> /\ pc[r] = "lock" /\ CanTake(r, "update")
  BY DEF Locked
<1>2. CASE row.there
  <2>1. /\ lock' = [lock EXCEPT ![r] = "update"] /\ inst' = [inst EXCEPT ![r] = Fetched(FALSE)]
        /\ pc' = [pc EXCEPT ![r] = "compare"]
    BY <1>2 DEF Locked
  <2>2. lock' \in [Requests -> Modes] /\ NoConflict'
    BY <1>1, <2>1, LockKeeps DEF Modes
  <2>3. Typed'
    BY <1>1, <2>1, <2>2 DEF IInv, Typed, PCs
  <2>4. /\ pc'[r] = "compare" /\ lock'[r] = "update" /\ inst'[r] = Fetched(FALSE)
        /\ \A q \in Requests \ {r} : pc'[q] = pc[q] /\ lock'[q] = lock[q] /\ inst'[q] = inst[q]
    BY <2>1 DEF IInv, Typed
  <2>5. inst'[r].token = row.token /\ inst'[r].etag = NoEtag
    BY <2>4 DEF Fetched
  <2>6. Rests(r)'
    BY <1>1, <2>4, <2>5, InParts DEF Rests, Compared
  <2> QED BY <1>1, <2>2, <2>3, <2>4, <2>6, StepKeeps
<1>3. CASE ~row.there
  <2>1. UNCHANGED <<lock, inst>> /\ pc' = [pc EXCEPT ![r] = MissingRow(r)]
    BY <1>3 DEF Locked
  <2>2. MissingRow(r) \in {"404", "412"}
    BY DEF MissingRow
  <2>3. pc'[r] \in {"404", "412"} /\ \A q \in Requests \ {r} : pc'[q] = pc[q]
    BY <2>1, <2>2 DEF IInv, Typed
  <2>4. Typed' /\ NoConflict'
    BY <1>1, <2>1, <2>2 DEF IInv, Typed, NoConflict, PCs, Statuses
  <2>5. Rests(r)'
    BY <1>1, <2>1, <2>3, InParts DEF Rests, Compared
  <2> QED BY <1>1, <2>1, <2>3, <2>4, <2>5, StepKeeps
<1> QED BY <1>2, <1>3

\* What is compared is the ETag of the row as it is committed, for every strategy.
LEMMA ComparesCommitted ==
  ASSUME IInv, NEW r \in Requests, pc[r] = "compare"
  PROVE  concurrency_etag(r) = CommittedEtag
<1>1. inst[r].token = row.token /\ inst[r].etag = NoEtag /\ tx[r] = Unwritten
  BY DEF IInv, ReadAgain, WrittenLocks
<1>2. View(r) = row
  BY <1>1 DEF View
<1>3. CASE opt.strategy = "parts"
  <2>1. concurrency_etag(r) = <<row.token, rel>>
    BY <1>1, <1>3 DEF concurrency_etag, EtagOf
  <2>2. (rel /\ opt.strategy \in {"computed", "parts"}) = rel
    BY <1>3 DEF IInv, Typed
  <2> QED BY <2>1, <2>2 DEF CommittedEtag
<1>4. CASE opt.strategy \in {"token", "column"}
  BY <1>1, <1>4 DEF concurrency_etag, CommittedEtag
<1>5. CASE opt.strategy = "computed"
  <2>1. concurrency_etag(r) = current_concurrency_etag(r)
    BY <1>1, <1>5 DEF concurrency_etag
  <2>2. current_concurrency_etag(r) = EtagOf(row.token)
    BY <1>2, <1>5 DEF current_concurrency_etag
  <2>3. (rel /\ opt.strategy \in {"computed", "parts"}) = rel
    BY <1>5 DEF IInv, Typed
  <2> QED BY <2>1, <2>2, <2>3 DEF EtagOf, CommittedEtag
<1> QED BY <1>3, <1>4, <1>5 DEF IInv, Typed, Strategies

LEMMA CompareKeeps == ASSUME IInv, NEW r \in Requests, Compare(r) PROVE IInv'
<1>1. UNCHANGED <<opt, row, rel, op, header, inst, tx>> /\ pc[r] = "compare"
  BY DEF Compare
<1>2. lock[r] = "update" /\ tx[r] = Unwritten
  BY <1>1 DEF IInv, ComparedLocks, WrittenLocks
<1>3. entity_tags(r)' = entity_tags(r) /\ CommittedEtag' = CommittedEtag
  BY <1>1 DEF entity_tags, CommittedEtag
<1>4. CASE AnyEtag \in entity_tags(r) \/ concurrency_etag(r) \in entity_tags(r)
  <2>1. pc' = [pc EXCEPT ![r] = "save"] /\ lock' = lock
    BY <1>4 DEF Compare
  <2>2. Typed' /\ NoConflict'
    BY <1>1, <2>1 DEF IInv, Typed, NoConflict, PCs
  <2>3. pc'[r] = "save" /\ \A q \in Requests \ {r} : pc'[q] = pc[q]
    BY <2>1 DEF IInv, Typed
  <2>4. AnyEtag \in entity_tags(r) \/ CommittedEtag \in entity_tags(r)
    BY <1>1, <1>4, ComparesCommitted
  <2>5. Rests(r)'
    BY <1>1, <1>2, <1>3, <2>1, <2>3, <2>4 DEF Rests
  <2> QED BY <1>1, <2>1, <2>2, <2>3, <2>5, StepKeeps
<1>5. CASE ~(AnyEtag \in entity_tags(r) \/ concurrency_etag(r) \in entity_tags(r))
  <2>1. pc' = [pc EXCEPT ![r] = "412"] /\ lock' = [lock EXCEPT ![r] = "none"]
    BY <1>5 DEF Compare
  <2>2. lock' \in [Requests -> Modes] /\ NoConflict'
    BY <2>1, LockKeeps DEF Modes
  <2>3. Typed'
    BY <1>1, <2>1, <2>2 DEF IInv, Typed, PCs, Statuses
  <2>4. pc'[r] = "412" /\ \A q \in Requests \ {r} : pc'[q] = pc[q] /\ lock'[q] = lock[q]
    BY <2>1 DEF IInv, Typed
  <2>5. Rests(r)'
    BY <1>1, <1>2, <2>4 DEF Rests, Compared
  <2> QED BY <1>1, <2>2, <2>3, <2>4, <2>5, StepKeeps
<1> QED BY <1>4, <1>5

-----------------------------------------------------------------------------
\* A statement that took the lock it needs, and keeps a stronger one.
LEMMA HoldsKeeps ==
  ASSUME IInv, NEW r \in Requests, NEW mode \in {"share", "nokey", "update"}, NEW written,
         CanTake(r, mode), Holds(r, mode, written), pc[r] = "save",
         mode = "share" => written = Unwritten,
         UNCHANGED <<opt, row, rel, op, header>>,
         DOMAIN inst' = Requests, \A q \in Requests \ {r} : inst'[q] = inst[q]
  PROVE  IInv'
<1> DEFINE held == IF lock[r] = "update" THEN "update" ELSE mode
<1>1. /\ lock' = [lock EXCEPT ![r] = held] /\ tx' = [tx EXCEPT ![r] = written]
      /\ pc' = [pc EXCEPT ![r] = "answer"]
  BY DEF Holds
<1>2. held \in Modes /\ (held = lock[r] \/ CanTake(r, held))
  BY DEF Modes
<1>3. lock' \in [Requests -> Modes] /\ NoConflict'
  <2> HIDE DEF held
  <2> QED BY <1>1, <1>2, LockKeeps
<1>4. Typed'
  BY <1>1, <1>3 DEF IInv, Typed, PCs
<1>5. /\ pc'[r] = "answer" /\ lock'[r] = held /\ tx'[r] = written
      /\ \A q \in Requests \ {r} : pc'[q] = pc[q] /\ lock'[q] = lock[q] /\ tx'[q] = tx[q]
  <2> HIDE DEF held
  <2> QED BY <1>1 DEF IInv, Typed
<1>6. entity_tags(r)' = entity_tags(r) /\ CommittedEtag' = CommittedEtag
  BY DEF entity_tags, CommittedEtag
<1>7. Compared(r)' => Compared(r)
  BY DEF Compared, Checked
<1>8. Rests(r)'
  BY <1>5, <1>6, <1>7, InParts DEF Rests
<1> QED BY <1>3, <1>4, <1>5, <1>8, StepKeeps

LEMMA SaveKeeps == ASSUME IInv, NEW r \in Requests, Save(r) PROVE IInv'
<1>1. PICK saved :
        /\ Holds(r, "nokey", [there |-> TRUE, row |-> saved])
        /\ inst' = [inst EXCEPT ![r] = [@ EXCEPT !.own = saved.own, !.token = saved.token]]
  BY Zenon DEF Save
<1>2. DOMAIN inst' = Requests /\ \A q \in Requests \ {r} : inst'[q] = inst[q]
  BY <1>1 DEF IInv, Typed
<1> QED BY <1>1, <1>2, HoldsKeeps DEF Save

LEMMA DestroyKeeps == ASSUME IInv, NEW r \in Requests, Destroy(r) PROVE IInv'
BY HoldsKeeps DEF Destroy, IInv, Typed

LEMMA UpdateKeeps == ASSUME IInv, NEW r \in Requests, Update(r) PROVE IInv'
<1>1. PICK new : Holds(r, "nokey", new)
  BY DEF Update
<1> QED BY <1>1, HoldsKeeps DEF Update, IInv, Typed

LEMMA RelateKeeps == ASSUME IInv, NEW r \in Requests, Relate(r) PROVE IInv'
<1>1. CASE opt.strategy = "column"
  <2>1. CanTake(r, "nokey") /\ \E new : Holds(r, "nokey", new)
    BY <1>1 DEF Relate
  <2> QED BY <2>1, HoldsKeeps DEF Relate, IInv, Typed
<1>2. CASE opt.strategy # "column"
  <2>1. CanTake(r, "share") /\ Holds(r, "share", Unwritten)
    BY <1>2 DEF Relate
  <2> QED BY <2>1, HoldsKeeps DEF Relate, IInv, Typed
<1> QED BY <1>1, <1>2

LEMMA MissedKeeps == ASSUME IInv, NEW r \in Requests, Missed(r) PROVE IInv'
<1>1. UNCHANGED <<opt, row, rel, lock, op, header, inst, tx>> /\ pc[r] = "save"
      /\ pc' = [pc EXCEPT ![r] = "200"]
  BY DEF Missed
<1>2. Typed' /\ NoConflict'
  BY <1>1 DEF IInv, Typed, NoConflict, PCs, Statuses
<1>3. pc'[r] = "200" /\ \A q \in Requests \ {r} : pc'[q] = pc[q]
  BY <1>1 DEF IInv, Typed
<1>4. Rests(r)'
  BY <1>1, <1>3, InParts DEF Rests, Compared
<1> QED BY <1>1, <1>2, <1>3, <1>4, StepKeeps

\* A commit moves the row, or a related one, only where no one else compared.
LEMMA AnswerKeeps == ASSUME IInv, NEW r \in Requests, Answer(r) PROVE IInv'
<1>1. /\ UNCHANGED <<opt, op, header, inst>> /\ pc[r] = "answer"
      /\ row' = View(r) /\ rel' = (rel # (op[r] = "relate"))
      /\ lock' = [lock EXCEPT ![r] = "none"] /\ tx' = [tx EXCEPT ![r] = Unwritten]
      /\ pc' = [pc EXCEPT ![r] = "200"]
  BY DEF Answer
<1>2. lock' \in [Requests -> Modes] /\ NoConflict'
  BY <1>1, LockKeeps DEF Modes
<1>3. Typed'
  BY <1>1, <1>2 DEF IInv, Typed, PCs, Statuses
<1>4. /\ pc'[r] = "200" /\ tx'[r] = Unwritten
      /\ \A q \in Requests \ {r} : pc'[q] = pc[q] /\ lock'[q] = lock[q] /\ tx'[q] = tx[q]
  BY <1>1 DEF IInv, Typed
<1>5. Rests(r)'
  BY <1>4 DEF Rests, Compared
<1>6. ASSUME NEW q \in Requests \ {r} PROVE Rests(q)'
  <2>1. Rests(q)
    BY InParts
  <2>2. Compared(q)' <=> Compared(q)
    BY <1>1, <1>4 DEF Compared, Checked
  <2>3. CASE pc[q] = "compare" \/ Compared(q)
    <3>1. lock[q] = "update" /\ {lock[r], "update"} \notin Conflicts /\ lock[r] \in Modes
      BY <2>1, <2>3 DEF Rests, IInv, NoConflict, Typed
    <3>2. lock[r] = "none"
      BY <3>1, UpdateIsAlone
    <3>3. tx[r] = Unwritten /\ op[r] # "relate"
      BY <1>1, <3>2 DEF IInv, WrittenLocks
    <3>4. row' = row /\ CommittedEtag' = CommittedEtag
      <4>1. row' = row
        BY <1>1, <3>3 DEF View
      <4>2. (rel /\ opt.strategy \in {"computed", "parts"})'
              = (rel /\ opt.strategy \in {"computed", "parts"})
        <5>1. rel' = rel
          BY <1>1, <3>3 DEF IInv, Typed
        <5> QED BY <1>1, <5>1
      <4> QED BY <4>1, <4>2 DEF CommittedEtag
    <3>5. entity_tags(q)' = entity_tags(q)
      BY <1>1 DEF entity_tags
    <3> QED BY <1>1, <1>4, <2>1, <2>2, <3>4, <3>5 DEF Rests
  <2>4. CASE ~(pc[q] = "compare" \/ Compared(q))
    BY <1>1, <1>4, <2>1, <2>2, <2>4 DEF Rests
  <2> QED BY <2>3, <2>4
<1> QED BY <1>2, <1>3, <1>5, <1>6, InPartsNext

LEMMA NextHolds == IInv /\ [Next]_vars => IInv'
<1> SUFFICES ASSUME IInv, [Next]_vars PROVE IInv'
  OBVIOUS
<1>1. CASE UNCHANGED vars
  <2>1. Typed' /\ NoConflict'
    BY <1>1 DEF vars, IInv, Typed, NoConflict
  <2>2. \A r \in Requests : Rests(r)'
    BY <1>1, OthersRest DEF vars
  <2> QED BY <2>1, <2>2, InPartsNext
<1>2. ASSUME NEW r \in Requests, Begin(r) PROVE IInv'
  BY <1>2, BeginKeeps
<1>3. ASSUME NEW r \in Requests, Step(r) PROVE IInv'
  BY <1>3, GetObjectKeeps, LockedKeeps, CompareKeeps, SaveKeeps, DestroyKeeps, UpdateKeeps,
     RelateKeeps, MissedKeeps, AnswerKeeps DEF Step
<1> QED BY <1>1, <1>2, <1>3 DEF Next

\* From its comparison to its commit the version a write named is the version of the row
\* as every other transaction has left it, whatever the strategy, the settings and the
\* number of requests: nothing the version covers slips in between.
THEOREM LandsOnCompared == Spec => []ComparedIsLandedOn
<1>1. IInv => ComparedIsLandedOn
  BY DEF IInv
<1> QED BY <1>1, InitHolds, NextHolds, PTL DEF Spec

-----------------------------------------------------------------------------
(***************************************************************************)
(* What a version says of the row.  Tokens only grow, and one that was     *)
(* shown names what it was shown of - provided the settings rule out what  *)
(* may put a version on another's body, or an old body back under an old   *)
(* version: see WholeReads and NoneInsertedAnew.                           *)
(***************************************************************************)

Shaped ==
    /\ opt \in Settings /\ row \in Row
    /\ header \in [Requests -> SUBSET EntityTag] /\ inst \in [Requests -> Instance]
    /\ tx \in [Requests -> {Unwritten} \cup [there : {TRUE}, row : Row]]
    /\ seen \subseteq [etag : Etags, own : Own]

\* A token is no later than a row's, and if it is the row's own so are the fields.
Tells(token, own, of) ==
    /\ token \in Tokens /\ of.token \in Tokens /\ token <= of.token
    /\ token = of.token => own = of.own

\* What a request is about to commit, and what it read, by their tokens.
Behind(r) ==
    /\ Tells(row.token, row.own, View(r))
    /\ Tells(inst[r].token, inst[r].own, View(r))
    /\ ~View(r).there => "destroy" \in opt.ops

\* Whatever an ETag is put on is what was read, or written, with it.
ReadWhole(r) ==
    /\ pc[r] = "compare" => inst[r].own = row.own
    /\ pc[r] = "answer" /\ op[r] = "retrieve" =>
          IF opt.annotated THEN inst[r].etag[1] = inst[r].token ELSE inst[r].etag = NoEtag
    /\ pc[r] = "answer" /\ op[r] \in {"patch", "exempt"} =>
          tx[r] # Unwritten /\ inst[r].own = tx[r].row.own

\* A row is there while a write that compared with it goes on.
FoundThere(r) ==
    /\ pc[r] = "compare" \/ Compared(r) => row.there
    /\ pc[r] # "idle" => op[r] \in opt.ops
    /\ "destroy" \in opt.ops /\ pc[r] = "save" /\ op[r] = "patch" => header[r] # {}

OneTag(r) == \A t, u \in header[r] : t = u
Firm(r) == Behind(r) /\ ReadWhole(r) /\ FoundThere(r) /\ OneTag(r)
SeenTells == \A s \in seen : Tells(s.etag[1], s.own, row)

SeenInv ==
    /\ Shaped /\ SeenTells /\ (~row.there => "destroy" \in opt.ops)
    /\ \A r \in Requests : Firm(r)

-----------------------------------------------------------------------------
LEMMA TellsOn ==
  ASSUME NEW token, NEW own, NEW old, NEW new, Tells(token, own, old), Tells(old.token, old.own, new)
  PROVE  Tells(token, own, new)
BY DEF Tells, Tokens

\* The triggers: an UPDATE that changes the fields moves the token on.
LEMMA KeptTells ==
  ASSUME NEW old \in Row, NEW new \in [there : BOOLEAN, own : Own, token : Nat],
         NEW saved \in Kept(old, new)
  PROVE  saved \in Row /\ saved.there = new.there /\ saved.own = new.own
         /\ Tells(old.token, old.own, saved)
<1>1. PICK t \in Tokens : /\ saved = [new EXCEPT !.token = t]
                          /\ IF RowChanges(old, new) THEN t > old.token ELSE t = old.token
  BY DEF Kept, Row
<1>2. saved.there = new.there /\ saved.own = new.own /\ saved.token = t /\ saved \in Row
  BY <1>1 DEF Row
<1>3. old.token \in Tokens /\ t \in Nat /\ old.token \in Nat
  BY DEF Row, Tokens
<1>4. CASE RowChanges(old, new)
  BY <1>1, <1>2, <1>3, <1>4 DEF Tells
<1>5. CASE ~RowChanges(old, new)
  BY <1>1, <1>2, <1>3, <1>5 DEF Tells, RowChanges
<1> QED BY <1>2, <1>4, <1>5

LEMMA NoneAndAny == NoEtag \in Etags /\ AnyEtag \in Etags
<1>1. 0 \in 0..MaxToken
  BY SettingsAssumption
<1> QED BY <1>1 DEF NoEtag, AnyEtag, Etags

LEMMA FetchedTells ==
  ASSUME Shaped, rel \in BOOLEAN, NEW annotated \in BOOLEAN
  PROVE  /\ Fetched(annotated) \in Instance
         /\ Fetched(annotated).token = row.token /\ Fetched(annotated).own = row.own
         /\ Fetched(annotated).etag = IF annotated THEN <<row.token, rel>> ELSE NoEtag
         /\ Tells(Fetched(annotated).token, Fetched(annotated).own, row)
<1>1. row.token \in Tokens /\ row.own \in Own /\ Tokens \subseteq 0..MaxToken /\ 0 \in 0..MaxToken
  BY SettingsAssumption DEF Shaped, Row, Tokens
<1>2. EtagOf(row.token) \in Etags /\ NoEtag \in Etags
  BY <1>1, NoneAndAny DEF EtagOf, Etags
<1>3. row.token <= row.token
  BY <1>1 DEF Tokens
<1> QED BY <1>1, <1>2, <1>3 DEF Fetched, Instance, EtagOf, Tells

\* A step of one request that commits nothing leaves the others firm.
LEMMA OthersFirm ==
  ASSUME SeenInv, NEW r \in Requests, UNCHANGED <<opt, row, rel>>, Shaped', SeenTells',
         \A q \in Requests \ {r} :
            /\ pc'[q] = pc[q] /\ tx'[q] = tx[q] /\ inst'[q] = inst[q]
            /\ op'[q] = op[q] /\ header'[q] = header[q],
         Firm(r)'
  PROVE  SeenInv'
<1>1. ASSUME NEW q \in Requests \ {r} PROVE Firm(q)'
  <2>1. Firm(q)
    BY DEF SeenInv
  <2>2. View(q)' = View(q)
    BY DEF View
  <2>3. Compared(q)' <=> Compared(q)
    BY DEF Compared, Checked
  <2>4. Behind(q)'
    BY <2>1, <2>2 DEF Firm, Behind, Tells
  <2>5. ReadWhole(q)' /\ FoundThere(q)' /\ OneTag(q)'
    BY <2>1, <2>3 DEF Firm, ReadWhole, FoundThere, OneTag
  <2> QED BY <2>4, <2>5 DEF Firm
<1> QED BY <1>1 DEF SeenInv

LEMMA SeenInitHolds == Init => SeenInv
<1> SUFFICES ASSUME Init PROVE SeenInv
  OBVIOUS
<1>1. rel \in BOOLEAN /\ Typed
  BY InitHolds DEF IInv, Typed
<1>2. row \in Row /\ row.there = TRUE /\ row.own \in Own /\ row.token = 1 /\ 1 \in Tokens
  <2>1. 1 \in Tokens
    BY SettingsAssumption DEF Tokens
  <2>2. row \in [there : {TRUE}, own : Own, token : {1}]
    BY DEF Init
  <2> QED BY <2>1, <2>2 DEF Row
<1>3. \A r \in Requests : /\ inst[r] = Fetched(FALSE) /\ tx[r] = Unwritten
                          /\ header[r] = {} /\ pc[r] = "idle"
  BY DEF Init
<1>4. /\ Fetched(FALSE) = [own |-> row.own, token |-> row.token, etag |-> NoEtag]
      /\ Fetched(FALSE).token = row.token /\ Fetched(FALSE).own = row.own
  BY DEF Fetched
<1>5. Fetched(FALSE) \in Instance
  BY <1>2, NoneAndAny DEF Fetched, Instance
<1>6. CommittedEtag \in Etags /\ CommittedEtag[1] = row.token
  <2>1. row.token \in 0..MaxToken /\ (rel /\ opt.strategy \in {"computed", "parts"}) \in BOOLEAN
    BY <1>1, <1>2, SettingsAssumption DEF Tokens
  <2> QED BY <2>1 DEF CommittedEtag, Etags
<1>7. Shaped
  <2>1. inst \in [Requests -> Instance] /\ tx \in [Requests -> {Unwritten} \cup [there : {TRUE}, row : Row]]
    BY <1>5 DEF Init
  <2>2. seen \subseteq [etag : Etags, own : Own]
    BY <1>2, <1>6 DEF Init
  <2>3. opt \in Settings /\ header \in [Requests -> SUBSET EntityTag]
    BY DEF Init
  <2> QED BY <1>2, <2>1, <2>2, <2>3 DEF Shaped
<1>8. Tells(row.token, row.own, row)
  BY <1>2 DEF Tells
<1>9. SeenTells
  BY <1>6, <1>8 DEF SeenTells, Init
<1>10. ASSUME NEW r \in Requests PROVE Firm(r)
  <2>1. View(r) = row /\ inst[r].token = row.token /\ inst[r].own = row.own
    BY <1>3, <1>4 DEF View
  <2>2. Behind(r)
    BY <1>2, <1>8, <2>1 DEF Behind
  <2> QED BY <1>3, <2>2 DEF Firm, ReadWhole, FoundThere, OneTag, Compared
<1> QED BY <1>2, <1>7, <1>9, <1>10 DEF SeenInv

LEMMA BeginFirm ==
  ASSUME IInv, SeenInv, NEW r \in Requests, Begin(r) PROVE SeenInv'
<1>1. PICK o \in opt.ops :
        /\ op' = [op EXCEPT ![r] = o]
        /\ \E etag \in {s.etag : s \in seen} \cup {AnyEtag}, weak \in BOOLEAN :
            \E tags \in {{}, {[weak |-> weak, etag |-> etag]}} : header' = [header EXCEPT ![r] = tags]
        /\ pc' = [pc EXCEPT ![r] = IF o \in {"bulk", "touch", "relate"} THEN "save" ELSE "get"]
  <2>1. PICK o \in opt.ops :
        /\ op' = [op EXCEPT ![r] = o]
        /\ \E etag \in {s.etag : s \in seen} \cup {AnyEtag}, weak \in BOOLEAN :
            \E tags \in {{}, {[weak |-> weak, etag |-> etag]}} :
                /\ tags # {} => o \in {"retrieve", "patch", "destroy"}
                /\ header' = [header EXCEPT ![r] = tags]
        /\ pc' = [pc EXCEPT ![r] = IF o \in {"bulk", "touch", "relate"} THEN "save" ELSE "get"]
    BY Zenon DEF Begin
  <2> QED BY <2>1
<1>2. PICK etag \in {s.etag : s \in seen} \cup {AnyEtag}, weak \in BOOLEAN :
        \E tags \in {{}, {[weak |-> weak, etag |-> etag]}} : header' = [header EXCEPT ![r] = tags]
  BY <1>1
<1>2a. PICK tags \in {{}, {[weak |-> weak, etag |-> etag]}} : header' = [header EXCEPT ![r] = tags]
  BY <1>2
<1>3. UNCHANGED <<opt, row, rel, lock, inst, tx, seen>> /\ pc[r] = "idle"
  BY DEF Begin
<1>4. etag \in Etags
  BY NoneAndAny DEF SeenInv, Shaped
<1>5. tags \in SUBSET EntityTag /\ \A t, u \in tags : t = u
  BY <1>4 DEF EntityTag
<1>6. Shaped' /\ SeenTells'
  BY <1>2a, <1>3, <1>5 DEF SeenInv, Shaped, SeenTells, Tells
<1>7. /\ op'[r] = o /\ header'[r] = tags
      /\ pc'[r] = IF o \in {"bulk", "touch", "relate"} THEN "save" ELSE "get"
      /\ \A q \in Requests \ {r} : pc'[q] = pc[q] /\ op'[q] = op[q] /\ header'[q] = header[q]
  BY <1>1, <1>2a DEF IInv, Typed
<1>8. View(r)' = View(r)
  BY <1>3 DEF View
<1>9. Firm(r)'
  <2>1. Firm(r)
    BY DEF SeenInv
  <2>2. Behind(r)'
    BY <1>3, <1>8, <2>1 DEF Firm, Behind, Tells
  <2>3. ReadWhole(r)'
    BY <1>7 DEF ReadWhole
  <2>4. FoundThere(r)'
    BY <1>3, <1>7 DEF FoundThere, Compared, Checked
  <2> QED BY <1>5, <1>7, <2>2, <2>3, <2>4 DEF Firm, OneTag
<1> QED BY <1>3, <1>6, <1>7, <1>9, OthersFirm

\* What a request fetches is the row, under the row's token.
LEMMA FetchFirm ==
  ASSUME IInv, SeenInv, NEW r \in Requests, NEW annotated \in BOOLEAN,
         tx[r] = Unwritten, UNCHANGED <<opt, row, rel, tx, op, header, seen>>,
         inst' = inst \/ (row.there /\ inst' = [inst EXCEPT ![r] = Fetched(annotated)]),
         \A q \in Requests \ {r} : pc'[q] = pc[q],
         ReadWhole(r)', FoundThere(r)'
  PROVE  SeenInv'
<1>1. Shaped /\ rel \in BOOLEAN
  BY DEF SeenInv, IInv, Typed
<1>2. Fetched(annotated) \in Instance /\ Tells(Fetched(annotated).token, Fetched(annotated).own, row)
  BY <1>1, FetchedTells
<1> HIDE DEF Fetched
<1>3. inst' \in [Requests -> Instance] /\ \A q \in Requests \ {r} : inst'[q] = inst[q]
  BY <1>1, <1>2 DEF Shaped
<1>4. Shaped' /\ SeenTells'
  BY <1>1, <1>3 DEF SeenInv, Shaped, SeenTells, Tells
<1>5. Firm(r) /\ View(r) = row /\ View(r)' = row
  BY DEF SeenInv, View
<1>6. Tells(inst'[r].token, inst'[r].own, row)
  BY <1>1, <1>2, <1>5 DEF Firm, Behind, Shaped
<1>7. Behind(r)'
  BY <1>5, <1>6 DEF Firm, Behind, Tells
<1>8. OneTag(r)'
  BY <1>5 DEF Firm, OneTag
<1> QED BY <1>3, <1>4, <1>7, <1>8, OthersFirm DEF Firm

LEMMA GetObjectFirm ==
  ASSUME NoneInsertedAnew, IInv, SeenInv, NEW r \in Requests, GetObject(r) PROVE SeenInv'
<1>1. /\ UNCHANGED <<opt, row, rel, lock, tx, op, header, seen>> /\ pc[r] = "get"
      /\ inst' = [inst EXCEPT ![r] = IF row.there THEN Fetched(opt.annotated) ELSE @]
  BY DEF GetObject
<1>2. Shaped /\ rel \in BOOLEAN /\ opt.annotated \in BOOLEAN /\ Firm(r)
  BY SettingsAssumption DEF SeenInv, IInv, Typed, Shaped, OptType
<1>3. tx[r] = Unwritten
  BY <1>1 DEF IInv, WrittenLocks
<1>4. CASE row.there
  <2>1. inst' = [inst EXCEPT ![r] = Fetched(opt.annotated)] /\ inst'[r] = Fetched(opt.annotated)
    BY <1>1, <1>2, <1>4 DEF Shaped
  <2>2. Fetched(opt.annotated).token = row.token
        /\ Fetched(opt.annotated).etag = IF opt.annotated THEN <<row.token, rel>> ELSE NoEtag
    BY <1>2, FetchedTells
  <2> DEFINE at == CASE ~row.there -> MissingRow(r)
                     [] row.there /\ op[r] = "retrieve" ->
                           IF opt.not_modified /\ matches(r) THEN "304" ELSE "answer"
                     [] row.there /\ op[r] = "exempt" -> "save"
                     [] row.there /\ requires_precondition(r) /\ header[r] = {} ->
                           IF opt.required THEN "428" ELSE "save"
                     [] row.there /\ Checked(r) ->
                           IF AnyEtag \in entity_tags(r) /\ ~opt.allows_any
                           THEN "428" ELSE "lock"
  <2>3. /\ at \in {"304", "428", "answer", "save", "lock"}
        /\ at = "answer" => op[r] = "retrieve"
        /\ at = "save" => op[r] = "exempt" \/ (header[r] = {} /\ ~opt.required)
    <3>1. op[r] \in Ops \ {"bulk", "touch", "relate"}
      BY <1>1 DEF IInv, Typed, Gets
    <3>2. CASE op[r] = "retrieve"
      BY <1>4, <3>2 DEF requires_precondition, Checked
    <3>3. CASE op[r] = "exempt"
      BY <1>4, <3>3 DEF requires_precondition, Checked
    <3>4. CASE op[r] \in {"patch", "destroy"} /\ header[r] = {}
      BY <1>4, <3>4 DEF requires_precondition, Checked
    <3>5. CASE op[r] \in {"patch", "destroy"} /\ header[r] # {}
      BY <1>4, <3>5 DEF requires_precondition, Checked
    <3> QED BY <3>1, <3>2, <3>3, <3>4, <3>5 DEF Ops
  <2>3a. pc' = [pc EXCEPT ![r] = at]
    BY DEF GetObject
  <2> HIDE DEF at
  <2>4. pc'[r] = at /\ \A q \in Requests \ {r} : pc'[q] = pc[q]
    BY <2>3a DEF IInv, Typed
  <2>5. ReadWhole(r)'
    BY <1>1, <2>1, <2>2, <2>3, <2>4 DEF ReadWhole
  <2>6. op[r] \in opt.ops
    BY <1>1, <1>2 DEF Firm, FoundThere
  <2>7. at = "save" /\ "destroy" \in opt.ops => FALSE
    BY <1>2, <2>3, <2>6 DEF NoneInsertedAnew, Shaped
  <2>8. FoundThere(r)'
    BY <1>1, <1>4, <2>4, <2>6, <2>7 DEF FoundThere
  <2> QED BY <1>1, <1>2, <1>3, <1>4, <2>1, <2>4, <2>5, <2>8, FetchFirm
<1>5. CASE ~row.there
  <2>1. inst' = inst
    BY <1>1, <1>2, <1>5 DEF Shaped
  <2>2. pc' = [pc EXCEPT ![r] = MissingRow(r)] /\ MissingRow(r) \in {"404", "412"}
    BY <1>5 DEF GetObject, MissingRow
  <2>3. pc'[r] \in {"404", "412"} /\ \A q \in Requests \ {r} : pc'[q] = pc[q]
    BY <2>2 DEF IInv, Typed
  <2>4. ReadWhole(r)' /\ FoundThere(r)'
    BY <1>1, <1>2, <2>3 DEF ReadWhole, Firm, FoundThere, Compared
  <2> QED BY <1>1, <1>2, <1>3, <2>1, <2>3, <2>4, FetchFirm
<1> QED BY <1>4, <1>5

LEMMA LockedFirm ==
  ASSUME IInv, SeenInv, NEW r \in Requests, Locked(r) PROVE SeenInv'
<1>1. UNCHANGED <<opt, row, rel, op, header, tx, seen>> /\ pc[r] = "lock"
  BY DEF Locked
<1>2. Shaped /\ rel \in BOOLEAN /\ Firm(r)
  BY DEF SeenInv, IInv, Typed
<1>3. tx[r] = Unwritten
  BY <1>1 DEF IInv, WrittenLocks
<1>4. CASE row.there
  <2>1. inst' = [inst EXCEPT ![r] = Fetched(FALSE)] /\ pc' = [pc EXCEPT ![r] = "compare"]
    BY <1>4 DEF Locked
  <2>2. pc'[r] = "compare" /\ \A q \in Requests \ {r} : pc'[q] = pc[q]
    BY <2>1 DEF IInv, Typed
  <2>3. inst'[r] = Fetched(FALSE) /\ Fetched(FALSE).own = row.own
    BY <1>2, <2>1, FetchedTells DEF Shaped
  <2>4. ReadWhole(r)' /\ FoundThere(r)'
    BY <1>1, <1>2, <1>4, <2>2, <2>3 DEF ReadWhole, Firm, FoundThere
  <2> QED BY <1>1, <1>3, <1>4, <2>1, <2>2, <2>4, FetchFirm
<1>5. CASE ~row.there
  <2>1. inst' = inst /\ pc' = [pc EXCEPT ![r] = MissingRow(r)] /\ MissingRow(r) \in {"404", "412"}
    BY <1>5 DEF Locked, MissingRow
  <2>2. pc'[r] \in {"404", "412"} /\ \A q \in Requests \ {r} : pc'[q] = pc[q]
    BY <2>1 DEF IInv, Typed
  <2>3. ReadWhole(r)' /\ FoundThere(r)'
    BY <1>1, <1>2, <2>2 DEF ReadWhole, Firm, FoundThere, Compared
  <2> QED BY <1>1, <1>3, <2>1, <2>2, <2>3, FetchFirm
<1> QED BY <1>4, <1>5

\* A 412 shows the row as it is, under the version it is compared by.
LEMMA CompareFirm ==
  ASSUME IInv, SeenInv, NEW r \in Requests, Compare(r) PROVE SeenInv'
<1>1. UNCHANGED <<opt, row, rel, op, header, inst, tx>> /\ pc[r] = "compare"
  BY DEF Compare
<1>2. Shaped /\ Firm(r)
  BY DEF SeenInv
<1>3. concurrency_etag(r) = CommittedEtag /\ inst[r].own = row.own /\ row.there
  BY <1>1, <1>2, ComparesCommitted DEF Firm, ReadWhole, FoundThere
<1>4. CommittedEtag \in Etags /\ CommittedEtag[1] = row.token
  <2>1. row.token \in 0..MaxToken /\ (rel /\ opt.strategy \in {"computed", "parts"}) \in BOOLEAN
    BY <1>2, SettingsAssumption DEF Shaped, Row, Tokens, IInv, Typed
  <2> QED BY <2>1 DEF CommittedEtag, Etags
<1>5. PICK at \in {"save", "412"} :
        /\ pc' = [pc EXCEPT ![r] = at]
        /\ at = "save" => header[r] # {}
        /\ seen' \subseteq seen \cup {[etag |-> CommittedEtag, own |-> row.own]}
  <2>1. CASE AnyEtag \in entity_tags(r) \/ concurrency_etag(r) \in entity_tags(r)
    <3>1. header[r] # {}
      BY <2>1 DEF entity_tags
    <3> QED BY <2>1, <3>1 DEF Compare
  <2>2. CASE ~(AnyEtag \in entity_tags(r) \/ concurrency_etag(r) \in entity_tags(r))
    <3>1. pc' = [pc EXCEPT ![r] = "412"] /\ Shown(r, concurrency_etag(r))
      BY <2>2 DEF Compare
    <3> QED BY <1>3, <3>1 DEF Shown
  <2> QED BY <2>1, <2>2
<1>6. row \in Row /\ row.token \in Nat
  BY <1>2 DEF Shaped, Row, Tokens
<1>7. Shaped'
  <2>1. [etag |-> CommittedEtag, own |-> row.own] \in [etag : Etags, own : Own]
    BY <1>4, <1>6 DEF Row
  <2> QED BY <1>1, <1>5, <2>1 DEF SeenInv, Shaped
<1>8. SeenTells'
  <2>1. Tells(row.token, row.own, row)
    BY <1>6 DEF Row, Tells
  <2> SUFFICES ASSUME NEW s \in seen' PROVE Tells(s.etag[1], s.own, row)
    BY <1>1 DEF SeenTells, Tells
  <2>2. CASE s \in seen
    BY <2>2 DEF SeenInv, SeenTells
  <2>3. CASE s = [etag |-> CommittedEtag, own |-> row.own]
    BY <1>4, <2>1, <2>3
  <2> QED BY <1>5, <2>2, <2>3
<1>9. pc'[r] = at /\ \A q \in Requests \ {r} : pc'[q] = pc[q]
  BY <1>5 DEF IInv, Typed
<1>10. View(r)' = View(r)
  BY <1>1 DEF View
<1>11. Behind(r)' /\ OneTag(r)'
  BY <1>1, <1>2, <1>10 DEF Firm, Behind, OneTag, Tells
<1>12. ReadWhole(r)' /\ FoundThere(r)'
  BY <1>1, <1>2, <1>3, <1>5, <1>9 DEF Firm, ReadWhole, FoundThere
<1> QED BY <1>1, <1>7, <1>8, <1>9, <1>11, <1>12, OthersFirm DEF Firm

\* What a request commits to, having written it or only locked the row.
Then(written) == IF written = Unwritten THEN row ELSE written.row

LEMMA HoldsFirm ==
  ASSUME IInv, SeenInv, NEW r \in Requests, NEW mode,
         NEW written \in {Unwritten} \cup [there : {TRUE}, row : Row],
         Holds(r, mode, written), pc[r] = "save", op[r] # "retrieve",
         UNCHANGED <<opt, row, rel, op, header, seen>>,
         inst' \in [Requests -> Instance], \A q \in Requests \ {r} : inst'[q] = inst[q],
         Tells(row.token, row.own, Then(written)),
         Tells(inst'[r].token, inst'[r].own, Then(written)),
         ~Then(written).there => "destroy" \in opt.ops,
         op[r] \in {"patch", "exempt"} =>
            written # Unwritten /\ inst'[r].own = written.row.own
  PROVE  SeenInv'
<1>1. tx' = [tx EXCEPT ![r] = written] /\ pc' = [pc EXCEPT ![r] = "answer"]
  BY DEF Holds
<1>2. /\ pc'[r] = "answer" /\ tx'[r] = written
      /\ \A q \in Requests \ {r} : pc'[q] = pc[q] /\ tx'[q] = tx[q]
  BY <1>1 DEF IInv, Typed
<1>3. Shaped' /\ SeenTells'
  BY <1>1 DEF SeenInv, Shaped, SeenTells, Tells
<1>4. View(r)' = Then(written)
  BY <1>2 DEF View, Then
<1> HIDE DEF Then
<1>5. Behind(r)'
  BY <1>4 DEF Behind, Tells
<1>6. Firm(r)
  BY DEF SeenInv
<1>7. ReadWhole(r)'
  BY <1>2 DEF ReadWhole
<1>8. FoundThere(r)' /\ OneTag(r)'
  <2>1. Compared(r)' => Compared(r)
    BY DEF Compared, Checked
  <2> QED BY <1>2, <1>6, <2>1 DEF Firm, FoundThere, OneTag
<1> QED BY <1>2, <1>3, <1>5, <1>7, <1>8, OthersFirm DEF Firm

\* save() finds the row it read, and moves its token on if it changes it.
LEMMA SaveFirm ==
  ASSUME NoneInsertedAnew, IInv, SeenInv, NEW r \in Requests, Save(r) PROVE SeenInv'
<1>1. /\ UNCHANGED <<opt, row, rel, op, header, seen>>
      /\ pc[r] = "save" /\ op[r] \in {"patch", "exempt"}
  BY DEF Save
<1>2. Shaped /\ Firm(r) /\ (~row.there => "destroy" \in opt.ops)
  BY DEF SeenInv
<1>3. row.there
  <2> SUFFICES ASSUME "destroy" \in opt.ops PROVE row.there
    BY <1>2
  <2>1. op[r] = "patch" /\ header[r] # {}
    BY <1>1, <1>2 DEF NoneInsertedAnew, Shaped, Firm, FoundThere
  <2> QED BY <1>1, <1>2, <2>1 DEF Firm, FoundThere, Compared, Checked
<1>4. PICK f \in Fields, v \in Values :
        \E saved \in Kept(row, [there |-> TRUE, own |-> [inst[r].own EXCEPT ![f] = v],
                                token |-> inst[r].token]) :
            /\ Holds(r, "nokey", [there |-> TRUE, row |-> saved])
            /\ inst' = [inst EXCEPT ![r] = [@ EXCEPT !.own = saved.own, !.token = saved.token]]
  <2>1. PICK f \in Fields, v \in Values :
        LET new == [there |-> TRUE, own |-> [inst[r].own EXCEPT ![f] = v],
                    token |-> inst[r].token]
        IN \E saved \in IF row.there THEN Kept(row, new) ELSE {new} :
            /\ Holds(r, "nokey", [there |-> TRUE, row |-> saved])
            /\ inst' = [inst EXCEPT ![r] = [@ EXCEPT !.own = saved.own, !.token = saved.token]]
    BY Zenon DEF Save
  <2> QED BY <1>3, <2>1
<1> DEFINE new == [there |-> TRUE, own |-> [inst[r].own EXCEPT ![f] = v],
                   token |-> inst[r].token]
<1>5. PICK saved \in Kept(row, new) :
        /\ Holds(r, "nokey", [there |-> TRUE, row |-> saved])
        /\ inst' = [inst EXCEPT ![r] = [inst[r] EXCEPT !.own = saved.own, !.token = saved.token]]
  BY <1>2, <1>4 DEF Shaped
<1>6. inst[r] \in Instance /\ row \in Row
  BY <1>2 DEF Shaped
<1>7. new \in [there : BOOLEAN, own : Own, token : Nat] /\ new.there = TRUE
  <2>1. [inst[r].own EXCEPT ![f] = v] \in Own
    BY <1>6 DEF Instance, Own
  <2>2. inst[r].token \in Nat
    BY <1>6 DEF Instance, Tokens
  <2> QED BY <2>1, <2>2
<1> HIDE DEF new
<1>8. saved \in Row /\ saved.there /\ Tells(row.token, row.own, saved)
  BY <1>5, <1>6, <1>7, KeptTells
<1>9. saved.own \in Own /\ saved.token \in Tokens /\ saved.token \in Nat
  BY <1>8 DEF Row, Tokens
<1>10. [inst[r] EXCEPT !.own = saved.own, !.token = saved.token] \in Instance
  BY <1>6, <1>9 DEF Instance
<1>11. /\ inst' \in [Requests -> Instance] /\ \A q \in Requests \ {r} : inst'[q] = inst[q]
       /\ inst'[r].own = saved.own /\ inst'[r].token = saved.token
  BY <1>2, <1>5, <1>6, <1>10 DEF Shaped, Instance
<1>12. Tells(inst'[r].token, inst'[r].own, saved)
  BY <1>9, <1>11 DEF Tells
<1> DEFINE written == [there |-> TRUE, row |-> saved]
<1>13. /\ written \in {Unwritten} \cup [there : {TRUE}, row : Row]
       /\ written # Unwritten /\ written.row = saved /\ Then(written) = saved
  <2>1. written # Unwritten
    <3>1. written.there = TRUE /\ Unwritten.there = FALSE
      BY DEF Unwritten
    <3> QED BY <3>1
  <2> QED BY <1>8, <2>1 DEF Then
<1>14. Holds(r, "nokey", written)
  BY <1>5
<1> HIDE DEF written
<1> QED BY <1>1, <1>8, <1>11, <1>12, <1>13, <1>14, HoldsFirm

\* A write of one column, a deletion, or a token touched: what was read stays behind it.
LEMMA WrittenFirm ==
  ASSUME IInv, SeenInv, NEW r \in Requests, NEW mode, NEW saved \in Row,
         Holds(r, mode, [there |-> TRUE, row |-> saved]), pc[r] = "save",
         op[r] \in {"destroy", "bulk", "touch", "relate"},
         UNCHANGED <<opt, row, rel, op, header, inst, seen>>,
         Tells(row.token, row.own, saved), ~saved.there => "destroy" \in opt.ops
  PROVE  SeenInv'
<1> DEFINE written == [there |-> TRUE, row |-> saved]
<1>1. written \in {Unwritten} \cup [there : {TRUE}, row : Row] /\ Then(written) = saved
  <2>1. written.there = TRUE /\ Unwritten.there = FALSE
    BY DEF Unwritten
  <2> QED BY <2>1 DEF Then
<1>2. Holds(r, mode, written)
  OBVIOUS
<1> HIDE DEF written
<1>3. Shaped /\ Firm(r)
  BY DEF SeenInv
<1>4. View(r) = row
  BY DEF IInv, WrittenLocks, View
<1>5. Tells(inst[r].token, inst[r].own, saved)
  BY <1>3, <1>4, TellsOn DEF Firm, Behind
<1>6. inst' = inst /\ inst \in [Requests -> Instance]
  BY <1>3 DEF Shaped
<1> QED BY <1>1, <1>2, <1>5, <1>6, HoldsFirm

LEMMA DestroyFirm ==
  ASSUME IInv, SeenInv, NEW r \in Requests, Destroy(r) PROVE SeenInv'
<1>1. /\ Holds(r, "update", [there |-> TRUE, row |-> [row EXCEPT !.there = FALSE]])
      /\ pc[r] = "save" /\ op[r] = "destroy" /\ UNCHANGED <<opt, row, rel, op, header, inst, seen>>
  BY DEF Destroy
<1>2. row \in Row /\ "destroy" \in opt.ops
  BY <1>1 DEF SeenInv, Shaped, Firm, FoundThere
<1> DEFINE gone == [row EXCEPT !.there = FALSE]
<1>3. gone \in Row /\ gone.token = row.token /\ gone.own = row.own
  BY <1>2 DEF Row
<1>4. row.token \in Tokens /\ row.token <= row.token
  BY <1>2 DEF Row, Tokens
<1> HIDE DEF gone
<1>5. Tells(row.token, row.own, gone)
  BY <1>3, <1>4 DEF Tells
<1> QED BY <1>1, <1>2, <1>3, <1>5, WrittenFirm DEF gone

LEMMA UpdateFirm ==
  ASSUME IInv, SeenInv, NEW r \in Requests, Update(r) PROVE SeenInv'
<1>1. PICK f \in Fields, v \in Values :
        \E saved \in Kept(row, IF op[r] = "bulk" THEN [row EXCEPT !.own[f] = v]
                               ELSE [row EXCEPT !.token = @ + 1]) :
            Holds(r, "nokey", [there |-> TRUE, row |-> saved])
  BY Zenon DEF Update
<1>2. /\ pc[r] = "save" /\ op[r] \in {"bulk", "touch"} /\ row.there
      /\ UNCHANGED <<opt, row, rel, op, header, inst, seen>>
  BY DEF Update
<1> DEFINE new == IF op[r] = "bulk" THEN [row EXCEPT !.own[f] = v] ELSE [row EXCEPT !.token = @ + 1]
<1>3. row \in Row
  BY DEF SeenInv, Shaped
<1>4. new \in [there : BOOLEAN, own : Own, token : Nat] /\ new.there = row.there
  <2>1. [row.own EXCEPT ![f] = v] \in Own /\ row.token \in Nat
    BY <1>3 DEF Row, Own, Tokens
  <2> QED BY <1>3, <2>1 DEF Row
<1>5. PICK saved \in Kept(row, new) : Holds(r, "nokey", [there |-> TRUE, row |-> saved])
  BY <1>1
<1> HIDE DEF new
<1>6. saved \in Row /\ saved.there /\ Tells(row.token, row.own, saved)
  BY <1>2, <1>3, <1>4, <1>5, KeptTells
<1> QED BY <1>2, <1>5, <1>6, WrittenFirm

LEMMA RelateFirm ==
  ASSUME IInv, SeenInv, NEW r \in Requests, Relate(r) PROVE SeenInv'
<1>1. /\ pc[r] = "save" /\ op[r] = "relate" /\ row.there
      /\ UNCHANGED <<opt, row, rel, op, header, inst, seen>>
  BY DEF Relate
<1>2. Shaped /\ Firm(r) /\ row \in Row
  BY DEF SeenInv, Shaped
<1>3. CASE opt.strategy = "column"
  <2>1. PICK saved \in Kept(row, [row EXCEPT !.token = @ + 1]) :
            Holds(r, "nokey", [there |-> TRUE, row |-> saved])
    BY <1>3 DEF Relate
  <2>2. [row EXCEPT !.token = @ + 1] \in [there : BOOLEAN, own : Own, token : Nat]
        /\ [row EXCEPT !.token = @ + 1].there = row.there
    BY <1>2 DEF Row, Tokens
  <2>3. saved \in Row /\ saved.there /\ Tells(row.token, row.own, saved)
    BY <1>1, <1>2, <2>1, <2>2, KeptTells
  <2> QED BY <1>1, <2>1, <2>3, WrittenFirm
<1>4. CASE opt.strategy # "column"
  <2>1. Holds(r, "share", Unwritten)
    BY <1>4 DEF Relate
  <2>2. Then(Unwritten) = row /\ View(r) = row
    BY <1>1 DEF Then, View, IInv, WrittenLocks
  <2>3. inst' = inst /\ inst \in [Requests -> Instance]
    BY <1>1, <1>2 DEF Shaped
  <2> QED BY <1>1, <1>2, <2>1, <2>2, <2>3, HoldsFirm DEF Firm, Behind
<1> QED BY <1>3, <1>4

LEMMA MissedFirm ==
  ASSUME IInv, SeenInv, NEW r \in Requests, Missed(r) PROVE SeenInv'
<1>1. /\ UNCHANGED <<opt, row, rel, op, header, inst, tx, seen>>
      /\ pc[r] = "save" /\ pc' = [pc EXCEPT ![r] = "200"]
  BY DEF Missed
<1>2. pc'[r] = "200" /\ \A q \in Requests \ {r} : pc'[q] = pc[q]
  BY <1>1 DEF IInv, Typed
<1>3. Shaped' /\ SeenTells' /\ View(r)' = View(r)
  BY <1>1 DEF SeenInv, Shaped, SeenTells, View, Tells
<1>4. Firm(r)
  BY DEF SeenInv
<1>5. Firm(r)'
  BY <1>1, <1>2, <1>3, <1>4 DEF Firm, Behind, ReadWhole, FoundThere, OneTag, Compared, Tells
<1> QED BY <1>1, <1>2, <1>3, <1>5, OthersFirm

\* The ETag of a response names what its body was read, or written, with.
LEMMA AnsweredWith ==
  ASSUME WholeReads, IInv, SeenInv, NEW r \in Requests, pc[r] = "answer", EtagAfter(r) # NoEtag
  PROVE  EtagAfter(r) \in Etags /\ Tells(EtagAfter(r)[1], inst[r].own, View(r))
<1>1. Shaped /\ Firm(r) /\ op[r] \in Ops /\ rel \in BOOLEAN /\ opt.strategy \in Strategies
  BY DEF SeenInv, IInv, Typed
<1>2. inst[r] \in Instance /\ View(r) \in Row
  BY <1>1 DEF Shaped, View
<1>3. \A t \in Tokens : <<t, rel>> \in Etags /\ <<t, FALSE>> \in Etags
  <2>1. Tokens \subseteq 0..MaxToken
    BY SettingsAssumption DEF Tokens
  <2> QED BY <1>1, <2>1 DEF Etags
<1>4. op[r] \in opt.ops
  BY <1>1 DEF Firm, FoundThere
<1>5. CASE op[r] = "retrieve"
  <2>1. EtagAfter(r) = concurrency_etag(r)
    BY <1>5 DEF EtagAfter
  <2>2. opt.strategy = "computed" => opt.annotated
    BY <1>1, <1>4, <1>5 DEF WholeReads, Shaped
  <2>3. inst[r].token \in Tokens /\ inst[r].etag \in Etags
    BY <1>2 DEF Instance
  <2>4. concurrency_etag(r) \in Etags /\ concurrency_etag(r)[1] = inst[r].token
    <3>1. CASE opt.strategy = "computed"
      <4>1. inst[r].etag[1] = inst[r].token
        BY <1>1, <1>5, <2>2, <3>1 DEF Firm, ReadWhole
      <4>2. inst[r].etag # NoEtag
        <5>1. NoEtag[1] = 0 /\ 0 \notin Tokens
          BY DEF NoEtag, Tokens
        <5> QED BY <2>3, <4>1, <5>1
      <4> QED BY <2>3, <3>1, <4>1, <4>2 DEF concurrency_etag
    <3>2. CASE opt.strategy # "computed"
      BY <1>1, <1>3, <2>3, <3>2 DEF concurrency_etag, EtagOf, Strategies
    <3> QED BY <3>1, <3>2
  <2> QED BY <1>1, <2>1, <2>4 DEF Firm, Behind
<1>6. CASE op[r] \in {"patch", "exempt"}
  <2>1. EtagAfter(r) = current_concurrency_etag(r)
    BY <1>6 DEF EtagAfter
  <2>2. View(r).token \in Tokens /\ View(r).token <= View(r).token
    BY <1>2 DEF Row, Tokens
  <2>3. current_concurrency_etag(r) \in Etags /\ current_concurrency_etag(r)[1] = View(r).token
    BY <1>1, <1>3, <2>2 DEF current_concurrency_etag, EtagOf, Strategies
  <2>4. inst[r].own = View(r).own
    BY <1>1, <1>6 DEF Firm, ReadWhole, View
  <2>5. Tells(View(r).token, inst[r].own, View(r))
    BY <2>2, <2>4 DEF Tells
  <2> QED BY <2>1, <2>3, <2>5
<1>7. CASE op[r] \in {"destroy", "bulk", "touch", "relate"}
  BY <1>7 DEF EtagAfter
<1> QED BY <1>1, <1>5, <1>6, <1>7 DEF Ops

\* A commit: the row moves on, and whatever the others hold stays behind it.
LEMMA AnswerFirm ==
  ASSUME WholeReads, IInv, SeenInv, NEW r \in Requests, Answer(r) PROVE SeenInv'
<1>1. /\ UNCHANGED <<opt, op, header, inst>> /\ pc[r] = "answer"
      /\ row' = View(r) /\ Shown(r, EtagAfter(r))
      /\ tx' = [tx EXCEPT ![r] = Unwritten] /\ pc' = [pc EXCEPT ![r] = "200"]
  BY DEF Answer
<1>2. Shaped /\ Firm(r) /\ SeenTells
  BY DEF SeenInv
<1>3. /\ pc'[r] = "200" /\ tx'[r] = Unwritten
      /\ \A q \in Requests \ {r} : pc'[q] = pc[q] /\ tx'[q] = tx[q]
  BY <1>1 DEF IInv, Typed
<1>4. row \in Row /\ row' \in Row /\ Tells(row.token, row.own, row') /\ (~row'.there => "destroy" \in opt.ops)
  BY <1>1, <1>2 DEF Firm, Behind, Shaped, View
<1>5. inst[r] \in Instance
  BY <1>2 DEF Shaped
<1>6. EtagAfter(r) # NoEtag => EtagAfter(r) \in Etags /\ Tells(EtagAfter(r)[1], inst[r].own, row')
  BY <1>1, AnsweredWith
<1>7. \A s \in seen' : s \in seen \/ (EtagAfter(r) # NoEtag /\ s = [etag |-> EtagAfter(r), own |-> inst[r].own])
  BY <1>1 DEF Shown
<1>8. Shaped'
  <2>1. \A s \in seen' : s \in [etag : Etags, own : Own]
    BY <1>2, <1>5, <1>6, <1>7 DEF Shaped, Instance
  <2> QED BY <1>1, <1>2, <1>4, <2>1 DEF Shaped
<1>9. \A s \in seen' : Tells(s.etag[1], s.own, row')
  <2> SUFFICES ASSUME NEW s \in seen' PROVE Tells(s.etag[1], s.own, row')
    OBVIOUS
  <2>1. CASE s \in seen
    BY <1>2, <1>4, <2>1, TellsOn DEF SeenTells
  <2>2. CASE EtagAfter(r) # NoEtag /\ s = [etag |-> EtagAfter(r), own |-> inst[r].own]
    BY <1>6, <2>2
  <2> QED BY <1>7, <2>1, <2>2
<1>10. SeenTells'
  BY <1>9 DEF SeenTells, Tells
<1>11. Tells(row'.token, row'.own, row')
  BY <1>4 DEF Row, Tells, Tokens
<1>12. Firm(r)'
  <2>1. View(r)' = row'
    BY <1>3 DEF View
  <2>2. Tells(inst[r].token, inst[r].own, row')
    BY <1>1, <1>2 DEF Firm, Behind
  <2>3. Behind(r)'
    BY <1>1, <1>4, <1>11, <2>1, <2>2 DEF Behind, Tells
  <2>4. op[r] \in opt.ops
    BY <1>1, <1>2 DEF Firm, FoundThere
  <2> QED BY <1>1, <1>2, <1>3, <2>3, <2>4 DEF Firm, ReadWhole, FoundThere, OneTag, Compared
<1>13. ASSUME NEW q \in Requests \ {r} PROVE Firm(q)'
  <2>1. Firm(q)
    BY DEF SeenInv
  <2>2. Compared(q)' <=> Compared(q)
    BY <1>1, <1>3 DEF Compared, Checked
  <2>3. tx[q] # Unwritten \/ pc[q] = "compare" \/ Compared(q) => row' = row
    <3> SUFFICES ASSUME tx[q] # Unwritten \/ pc[q] = "compare" \/ Compared(q), tx[r] # Unwritten
                 PROVE  FALSE
      BY <1>1 DEF View
    <3>1. lock[q] \in {"nokey", "update"} /\ lock[r] \in {"nokey", "update"}
      BY DEF IInv, WrittenLocks, ComparedLocks
    <3>2. {lock[q], lock[r]} \in Conflicts
      <4>1. {lock[q], lock[r]} = {"nokey"} \/ {lock[q], lock[r]} = {"update"}
            \/ {lock[q], lock[r]} = {"nokey", "update"}
        BY <3>1
      <4> QED BY <4>1 DEF Conflicts
    <3> QED BY <3>2 DEF IInv, NoConflict
  <2>4. CASE tx[q] # Unwritten
    <3>1. View(q)' = View(q) /\ row' = row
      BY <1>3, <2>3, <2>4 DEF View
    <3> QED BY <1>1, <1>3, <2>1, <2>2, <3>1 DEF Firm, Behind, ReadWhole, FoundThere, OneTag, Tells
  <2>5. CASE tx[q] = Unwritten
    <3>1. View(q)' = row' /\ View(q) = row
      BY <1>3, <2>5 DEF View
    <3>2. Tells(inst[q].token, inst[q].own, row')
      BY <1>4, <2>1, <3>1, TellsOn DEF Firm, Behind
    <3>3. Behind(q)'
      BY <1>1, <1>4, <1>11, <3>1, <3>2 DEF Behind, Tells
    <3>4. ReadWhole(q)' /\ FoundThere(q)' /\ OneTag(q)'
      BY <1>1, <1>3, <2>1, <2>2, <2>3 DEF Firm, ReadWhole, FoundThere, OneTag
    <3> QED BY <3>3, <3>4 DEF Firm
  <2> QED BY <2>4, <2>5
<1> QED BY <1>1, <1>4, <1>8, <1>10, <1>12, <1>13 DEF SeenInv

LEMMA SeenNextHolds ==
  ASSUME WholeReads, NoneInsertedAnew
  PROVE  IInv /\ SeenInv /\ [Next]_vars => SeenInv'
<1> SUFFICES ASSUME IInv, SeenInv, [Next]_vars PROVE SeenInv'
  OBVIOUS
<1>1. CASE UNCHANGED vars
  <2>1. Shaped' /\ SeenTells' /\ UNCHANGED <<row, opt>>
    BY <1>1 DEF vars, SeenInv, Shaped, SeenTells, Tells
  <2>2. ASSUME NEW q \in Requests PROVE Firm(q)'
    <3>1. Firm(q) /\ View(q)' = View(q) /\ (Compared(q)' <=> Compared(q))
      BY <1>1 DEF vars, SeenInv, View, Compared, Checked
    <3> QED BY <1>1, <3>1 DEF vars, Firm, Behind, ReadWhole, FoundThere, OneTag, Tells
  <2> QED BY <2>1, <2>2 DEF SeenInv
<1>2. ASSUME NEW r \in Requests, Begin(r) PROVE SeenInv'
  BY <1>2, BeginFirm
<1>3. ASSUME NEW r \in Requests, Step(r) PROVE SeenInv'
  BY <1>3, GetObjectFirm, LockedFirm, CompareFirm, SaveFirm, DestroyFirm, UpdateFirm,
     RelateFirm, MissedFirm, AnswerFirm DEF Step
<1> QED BY <1>1, <1>2, <1>3 DEF Next

LEMMA SeenIsKept == ASSUME WholeReads, NoneInsertedAnew PROVE Spec => [](IInv /\ SeenInv)
<1>1. IInv /\ SeenInv /\ [Next]_vars => IInv' /\ SeenInv'
  BY NextHolds, SeenNextHolds
<1> QED BY <1>1, InitHolds, SeenInitHolds, PTL DEF Spec

\* Whoever is shown the version the row has was shown the row.
LEMMA VersionTells ==
  ASSUME SeenInv, NEW s \in seen, s.etag = CommittedEtag PROVE s.own = row.own
BY DEF SeenInv, SeenTells, Tells, CommittedEtag

\* PreconditionMixin: what a write that named a version replaces is what everyone shown
\* that version was shown, of any fields and values, for any number of requests, under
\* any settings that read computed versions with their rows and leave no write of a
\* deletable row unchecked - torn_read shows what comes of reading one after.
THEOREM NoUpdateIsLost == ASSUME WholeReads, NoneInsertedAnew PROVE Spec => NoLostUpdate
<1>1. IInv /\ SeenInv =>
        \A r \in Requests :
            (Compared(r) /\ pc'[r] = "200" /\ AnyEtag \notin entity_tags(r)) =>
                \A s \in seen : s.etag \in entity_tags(r) => s.own = row.own
  <2> SUFFICES ASSUME IInv, SeenInv, NEW r \in Requests, Compared(r), AnyEtag \notin entity_tags(r),
                      NEW s \in seen, s.etag \in entity_tags(r)
               PROVE  s.own = row.own
    OBVIOUS
  <2>1. CommittedEtag \in entity_tags(r)
    BY DEF IInv, ComparedIsLandedOn
  <2>2. s.etag = CommittedEtag
    BY <2>1 DEF SeenInv, Firm, OneTag, entity_tags
  <2> QED BY <2>2, VersionTells
<1> QED BY <1>1, SeenIsKept, PTL DEF NoLostUpdate

\* Only a read answers 304, and only where what it was given names the row's version.
LEMMA OnlyMatched ==
  ASSUME IInv, [Next]_vars, NEW q \in Requests, pc[q] # "304", pc'[q] = "304" PROVE matches(q)
<1>1. pc' # pc
  OBVIOUS
<1>2. PICK r \in Requests : Begin(r) \/ Step(r)
  BY <1>1 DEF Next, vars
<1>3. ASSUME NEW at, pc' = [pc EXCEPT ![r] = at] PROVE q = r /\ at = "304"
  BY <1>3 DEF IInv, Typed
<1>4. CASE GetObject(r)
  <2> DEFINE at == CASE ~row.there -> MissingRow(r)
                     [] row.there /\ op[r] = "retrieve" ->
                           IF opt.not_modified /\ matches(r) THEN "304" ELSE "answer"
                     [] row.there /\ op[r] = "exempt" -> "save"
                     [] row.there /\ requires_precondition(r) /\ header[r] = {} ->
                           IF opt.required THEN "428" ELSE "save"
                     [] row.there /\ Checked(r) ->
                           IF AnyEtag \in entity_tags(r) /\ ~opt.allows_any
                           THEN "428" ELSE "lock"
  <2>1. pc' = [pc EXCEPT ![r] = at] /\ pc[r] = "get"
    BY <1>4 DEF GetObject
  <2>2. q = r /\ at = "304"
    <3> HIDE DEF at
    <3> QED BY <1>3, <2>1
  <2>3. MissingRow(r) # "304" /\ op[r] \in Ops \ {"bulk", "touch", "relate"}
    BY <2>1 DEF MissingRow, IInv, Typed, Gets
  <2>4. CASE ~row.there
    BY <2>2, <2>3, <2>4
  <2>5. CASE row.there /\ op[r] = "retrieve"
    BY <2>2, <2>5 DEF requires_precondition, Checked
  <2>6. CASE row.there /\ op[r] = "exempt"
    BY <2>2, <2>6 DEF requires_precondition, Checked
  <2>7. CASE row.there /\ op[r] \in {"patch", "destroy"} /\ header[r] = {}
    BY <2>2, <2>7 DEF requires_precondition, Checked
  <2>8. CASE row.there /\ op[r] \in {"patch", "destroy"} /\ header[r] # {}
    BY <2>2, <2>8 DEF requires_precondition, Checked
  <2> QED BY <2>3, <2>4, <2>5, <2>6, <2>7, <2>8 DEF Ops
<1>5. ASSUME ~GetObject(r) PROVE FALSE
  <2>1. CASE Begin(r)
    BY <1>3, <2>1 DEF Begin
  <2>2. CASE Locked(r)
    <3>1. MissingRow(r) # "304"
      BY DEF MissingRow
    <3> QED BY <1>3, <2>2, <3>1 DEF Locked
  <2>3. CASE Compare(r)
    BY <1>3, <2>3 DEF Compare
  <2>4. CASE Missed(r) \/ Answer(r)
    BY <1>3, <2>4 DEF Missed, Answer
  <2>5. CASE Save(r) \/ Destroy(r) \/ Update(r) \/ Relate(r)
    <3>1. \E mode, written : Holds(r, mode, written)
      BY <2>5 DEF Save, Destroy, Update, Relate
    <3> QED BY <1>3, <3>1 DEF Holds
  <2> QED BY <1>2, <1>5, <2>1, <2>2, <2>3, <2>4, <2>5 DEF Step
<1> QED BY <1>4, <1>5

\* matches(): a 304 is given only to who was shown the row as it is.
THEOREM NotModifiedHolds == ASSUME WholeReads, NoneInsertedAnew PROVE Spec => NotModifiedIsTrue
<1>1. IInv /\ SeenInv /\ [Next]_vars =>
        \A r \in Requests :
            (pc[r] # "304" /\ pc'[r] = "304") =>
                \A s \in seen, t \in header[r] : s.etag = t.etag => s.own = row.own
  <2> SUFFICES ASSUME IInv, SeenInv, [Next]_vars, NEW r \in Requests,
                      pc[r] # "304", pc'[r] = "304",
                      NEW s \in seen, NEW t \in header[r], s.etag = t.etag
               PROVE  s.own = row.own
    OBVIOUS
  <2>1. t.etag \in {AnyEtag, CommittedEtag}
    BY OnlyMatched DEF matches, SeenInv, Firm, OneTag
  <2>2. s.etag # AnyEtag
    <3>1. s.etag[1] \in Tokens
      BY DEF SeenInv, SeenTells, Tells
    <3>2. AnyEtag[1] \notin Tokens
      BY DEF AnyEtag, Tokens
    <3> QED BY <3>1, <3>2
  <2> QED BY <2>1, <2>2, VersionTells
<1> QED BY <1>1, SeenIsKept, PTL DEF NotModifiedIsTrue, Spec

-----------------------------------------------------------------------------
\* What an event, a context and a message are.
Askers == People \cup {Nobody_Named}
Contexts == [user : Askers, caused_by : {"none", "system", "request"}]
Events == [pgh_id : Nat, object : Objects, pgh_created_at : Nat,
           asker : Askers, user : Askers, committed : Nat]

Servings == [does : {"nothing", "request", "command", "task"},
             asker : Askers, context : Contexts, began : Nat]

Messages == [id : Nat, cause : Contexts, asker : Askers, with : SUBSET Nat]

TrailTyped ==
    /\ serving \in [Servers -> Servings]
    /\ _open_history_context \in [Servers -> Contexts]
    /\ wrote \in [Servers -> SUBSET Events] /\ events \subseteq Events
    /\ on_commit \in [Servers -> SUBSET Messages]
    /\ messages \subseteq Messages
    /\ made \in [events : Nat, messages : Nat, begun : Nat, committed : Nat]

\* The context a thread writes under is its asker's, and no context outlives its request.
ServedForAsker ==
    \A s \in Servers :
        /\ serving[s].context.user = serving[s].asker
        /\ IF Serves(s, "request") THEN _open_history_context[s].user = serving[s].asker
           ELSE _open_history_context[s] = Closed

\* What is written, or is to be sent, is as true as what is committed.
UncommittedTrue ==
    \A s \in Servers :
        /\ \A event \in wrote[s] : event.user = event.asker
        /\ \A message \in on_commit[s] :
            /\ message.cause.user = message.asker
            /\ message.with \subseteq {event.pgh_id : event \in wrote[s]}

MessagesTrue == \A message \in messages : message.cause.user = message.asker

TrailInv == TrailTyped /\ ServedForAsker /\ UncommittedTrue /\ MessagesTrue /\ CausesAreTrue

LEMMA ContextsTyped ==
  /\ Nobody_Named \in Askers /\ People \subseteq Askers
  /\ Closed \in Contexts /\ Closed.user = Nobody_Named
  /\ System \in Contexts /\ System.user = Nobody_Named
BY DEF Askers, Contexts, Closed, System

LEMMA TrailInitHolds == TrailInit => TrailInv
<1> SUFFICES ASSUME TrailInit PROVE TrailInv
  OBVIOUS
<1>1. TrailTyped
  BY ContextsTyped DEF TrailInit, TrailTyped, Servings, Idle_Server
<1>2. ServedForAsker
  BY ContextsTyped DEF TrailInit, ServedForAsker, Idle_Server, Serves
<1> QED BY <1>1, <1>2 DEF TrailInit, TrailInv, UncommittedTrue, MessagesTrue, CausesAreTrue

\* A step that writes, sends and commits nothing.
LEMMA ServingKeeps ==
  ASSUME TrailInv, TrailTyped', ServedForAsker',
         UNCHANGED <<wrote, on_commit, events>>, messages' \subseteq messages
  PROVE  TrailInv'
BY DEF TrailInv, UncommittedTrue, MessagesTrue, CausesAreTrue

LEMMA OpensKeeps == ASSUME TrailInv, NEW s \in Servers, Opens(s) PROVE TrailInv'
<1> DEFINE opened == [user |-> Nobody_Named, caused_by |-> "request"]
<1>1. opened \in Contexts
  BY ContextsTyped DEF Contexts
<1>2. TrailTyped'
  BY <1>1, ContextsTyped DEF TrailInv, TrailTyped, Servings, Opens, Now_Serves
<1>3. ServedForAsker'
  BY <1>1 DEF TrailInv, TrailTyped, Servings, ServedForAsker, Opens, Now_Serves, Serves
<1> QED BY <1>2, <1>3, ServingKeeps DEF Opens

LEMMA AuthenticatesKeeps ==
  ASSUME TrailInv, NEW s \in Servers, NEW person \in People, Authenticates(s, person)
  PROVE  TrailInv'
<1> DEFINE context == [serving[s].context EXCEPT !.user = person]
           open == [_open_history_context[s] EXCEPT !.user = person]
           named == [serving[s] EXCEPT !.context = context, !.asker = person]
<1>1. /\ context \in Contexts /\ context.user = person
      /\ open \in Contexts /\ open.user = person
  BY ContextsTyped DEF TrailInv, TrailTyped, Servings, Contexts
<1>2. /\ serving' = [serving EXCEPT ![s] = named]
      /\ _open_history_context' = [_open_history_context EXCEPT ![s] = open]
  BY DEF Authenticates
<1>3. serving[s] \in Servings /\ person \in Askers
  BY ContextsTyped DEF TrailInv, TrailTyped
<1> HIDE DEF context, open
<1>4. /\ named \in Servings
      /\ named.does = serving[s].does /\ named.asker = person /\ named.context = context
  BY <1>1, <1>3 DEF Servings
<1> HIDE DEF named
<1>5. TrailTyped'
  <2>1. serving' \in [Servers -> Servings] /\ _open_history_context' \in [Servers -> Contexts]
    BY <1>1, <1>2, <1>4 DEF TrailInv, TrailTyped
  <2>2. UNCHANGED <<wrote, on_commit, events, messages, made>>
    BY DEF Authenticates
  <2> QED BY <2>1, <2>2 DEF TrailInv, TrailTyped
<1>6. ServedForAsker'
  BY <1>1, <1>2, <1>4 DEF TrailInv, TrailTyped, ServedForAsker, Authenticates, Serves
<1> QED BY <1>5, <1>6, ServingKeeps DEF Authenticates

LEMMA CommandsKeeps == ASSUME TrailInv, NEW s \in Servers, Commands(s) PROVE TrailInv'
<1>1. TrailTyped'
  BY ContextsTyped DEF TrailInv, TrailTyped, Servings, Commands, Now_Serves
<1>2. ServedForAsker'
  BY ContextsTyped DEF TrailInv, TrailTyped, Servings, ServedForAsker, Commands, Now_Serves, Serves
<1> QED BY <1>1, <1>2, ServingKeeps DEF Commands

LEMMA BeginsChangeKeeps == ASSUME TrailInv, NEW s \in Servers, Begins_Change(s) PROVE TrailInv'
<1>1. TrailTyped'
  <2>1. /\ [serving[s] EXCEPT !.began = made.begun + 1] \in Servings
        /\ [made EXCEPT !.begun = @ + 1] \in
             [events : Nat, messages : Nat, begun : Nat, committed : Nat]
    BY DEF TrailInv, TrailTyped, Servings
  <2>2. /\ serving' = [serving EXCEPT ![s] = [serving[s] EXCEPT !.began = made.begun + 1]]
        /\ made' = [made EXCEPT !.begun = @ + 1]
        /\ UNCHANGED <<_open_history_context, wrote, on_commit, events, messages>>
    BY DEF Begins_Change
  <2> QED BY <2>1, <2>2 DEF TrailInv, TrailTyped
<1>2. ServedForAsker'
  BY DEF TrailInv, TrailTyped, Servings, ServedForAsker, Begins_Change, Serves
<1> QED BY <1>1, <1>2, ServingKeeps DEF Begins_Change

LEMMA WritesRowKeeps == ASSUME TrailInv, NEW s \in Servers, Writes_Row(s) PROVE TrailInv'
<1>1. PICK object \in Objects :
        wrote' = [wrote EXCEPT ![s] = @ \cup
                  {[pgh_id |-> made.events + 1, object |-> object,
                    pgh_created_at |-> serving[s].began, asker |-> serving[s].asker,
                    user |-> serving[s].context.user, committed |-> 0]}]
  BY DEF Writes_Row
<1> DEFINE new == [pgh_id |-> made.events + 1, object |-> object,
                   pgh_created_at |-> serving[s].began, asker |-> serving[s].asker,
                   user |-> serving[s].context.user, committed |-> 0]
<1>2. new \in Events /\ new.user = new.asker
  BY DEF TrailInv, TrailTyped, Servings, ServedForAsker, Events, Contexts
<1>3. TrailTyped'
  BY <1>1, <1>2 DEF TrailInv, TrailTyped, Servings, Writes_Row
<1>4. ServedForAsker' /\ MessagesTrue' /\ CausesAreTrue'
  BY DEF TrailInv, ServedForAsker, MessagesTrue, CausesAreTrue, Writes_Row, Serves
<1>5. \A t \in Servers : wrote[t] \subseteq wrote'[t] /\ wrote'[t] \subseteq wrote[t] \cup {new}
  BY <1>1 DEF TrailInv, TrailTyped, Servings
<1>6. UncommittedTrue'
  BY <1>2, <1>5 DEF TrailInv, UncommittedTrue, Writes_Row
<1> QED BY <1>3, <1>4, <1>6 DEF TrailInv

LEMMA ApplyAsyncKeeps == ASSUME TrailInv, NEW s \in Servers, apply_async(s) PROVE TrailInv'
<1> DEFINE asker == IF Serves(s, "request") THEN serving[s].asker ELSE Nobody_Named
           message == [id |-> made.messages + 1, cause |-> history_cause(s), asker |-> asker,
                       with |-> {event.pgh_id : event \in wrote[s]}]
<1>1. history_cause(s) \in Contexts /\ history_cause(s).user = asker
  BY ContextsTyped DEF history_cause, TrailInv, TrailTyped, ServedForAsker
<1>2. {event.pgh_id : event \in wrote[s]} \in SUBSET Nat
  BY DEF TrailInv, TrailTyped, Servings, Events
<1>3. asker \in Askers
  BY ContextsTyped DEF TrailInv, TrailTyped, Servings
<1>4. on_commit' = [on_commit EXCEPT ![s] = @ \cup {message}] /\ UNCHANGED messages
  BY DEF apply_async, Sends_Then
<1>5. TrailTyped'
  <2>1. message \in Messages
    BY <1>1, <1>2, <1>3 DEF TrailInv, TrailTyped, Messages
  <2> HIDE DEF message
  <2>2. on_commit' \in [Servers -> SUBSET Messages]
    BY <1>4, <2>1 DEF TrailInv, TrailTyped
  <2> QED BY <1>4, <2>2 DEF TrailInv, TrailTyped, apply_async
<1>6. ServedForAsker' /\ MessagesTrue' /\ CausesAreTrue'
  BY <1>4 DEF TrailInv, ServedForAsker, MessagesTrue, CausesAreTrue, apply_async, Serves
<1>7. \A t \in Servers : \A sent \in on_commit'[t] :
        sent \in on_commit[t] \/ (t = s /\ sent = message)
  BY <1>4 DEF TrailInv, TrailTyped, Servings
<1>8. UncommittedTrue'
  BY <1>1, <1>7 DEF TrailInv, UncommittedTrue, apply_async
<1> QED BY <1>5, <1>6, <1>8 DEF TrailInv

LEMMA CallKeeps ==
  ASSUME TrailInv, NEW s \in Servers, NEW message \in messages, __call__(s, message)
  PROVE  TrailInv'
<1>1. message.asker \in Askers /\ message.cause \in Contexts /\ message.cause.user = message.asker
  BY DEF TrailInv, TrailTyped, Messages, MessagesTrue
<1>2. messages' \subseteq messages
  BY DEF __call__
<1>3. TrailTyped'
  BY <1>1, <1>2 DEF TrailInv, TrailTyped, Servings, __call__, Now_Serves
<1>4. ServedForAsker'
  BY <1>1 DEF TrailInv, TrailTyped, Servings, ServedForAsker, __call__, Now_Serves, Serves
<1> QED BY <1>2, <1>3, <1>4, ServingKeeps DEF __call__

LEMMA CommitsTrailKeeps == ASSUME TrailInv, NEW s \in Servers, Commits_Trail(s) PROVE TrailInv'
<1> DEFINE stamped == {[event EXCEPT !.committed = made.committed + 1] : event \in wrote[s]}
<1>1. events' = events \cup stamped /\ messages' = messages \cup on_commit[s]
  BY DEF Commits_Trail
<1>2. ASSUME NEW event \in wrote[s], NEW e, e = [event EXCEPT !.committed = made.committed + 1]
      PROVE  /\ e \in Events
             /\ e.pgh_id = event.pgh_id /\ e.user = event.user /\ e.asker = event.asker
  <2>1. event \in Events /\ made.committed + 1 \in Nat
    BY DEF TrailInv, TrailTyped
  <2> QED BY <1>2, <2>1 DEF Events
<1>3. \A event \in stamped : event \in Events /\ event.user = event.asker
  <2>1. \A event \in wrote[s] : event.user = event.asker
    BY DEF TrailInv, UncommittedTrue
  <2> SUFFICES ASSUME NEW event \in wrote[s], NEW e, e = [event EXCEPT !.committed = made.committed + 1]
               PROVE  e \in Events /\ e.user = e.asker
    OBVIOUS
  <2> QED BY <1>2, <2>1
<1>4. {event.pgh_id : event \in wrote[s]} \subseteq {event.pgh_id : event \in stamped}
  <2> SUFFICES ASSUME NEW event \in wrote[s]
               PROVE  event.pgh_id \in {e.pgh_id : e \in stamped}
    OBVIOUS
  <2>1. [event EXCEPT !.committed = made.committed + 1] \in stamped
    BY Zenon
  <2> HIDE DEF stamped
  <2> QED BY <1>2, <2>1
<1>5. TrailTyped'
  <2>1. events' \subseteq Events /\ messages' \subseteq Messages
    BY <1>1, <1>3 DEF TrailInv, TrailTyped
  <2>2. /\ serving' = [serving EXCEPT ![s].began = 0]
        /\ wrote' = [wrote EXCEPT ![s] = {}] /\ on_commit' = [on_commit EXCEPT ![s] = {}]
        /\ made' = [made EXCEPT !.committed = @ + (IF wrote[s] # {} THEN 1 ELSE 0)]
        /\ UNCHANGED _open_history_context
    BY DEF Commits_Trail
  <2> HIDE DEF stamped
  <2>3. /\ serving' \in [Servers -> Servings]
        /\ made' \in [events : Nat, messages : Nat, begun : Nat, committed : Nat]
    <3>1. [serving[s] EXCEPT !.began = 0] \in Servings
      BY DEF TrailInv, TrailTyped, Servings
    <3>2. serving' = [serving EXCEPT ![s] = [serving[s] EXCEPT !.began = 0]]
      BY <2>2
    <3>3. made' = [made EXCEPT !.committed = made.committed + 1] \/ made' = made
      BY <2>2 DEF TrailInv, TrailTyped
    <3>4. serving' \in [Servers -> Servings]
      BY <3>1, <3>2 DEF TrailInv, TrailTyped
    <3> QED BY <3>3, <3>4 DEF TrailInv, TrailTyped
  <2>4. wrote' \in [Servers -> SUBSET Events] /\ on_commit' \in [Servers -> SUBSET Messages]
    BY <2>2 DEF TrailInv, TrailTyped
  <2> QED BY <2>1, <2>2, <2>3, <2>4 DEF TrailInv, TrailTyped
<1>6. ServedForAsker'
  BY DEF TrailInv, TrailTyped, Servings, ServedForAsker, Commits_Trail, Serves
<1>7. UncommittedTrue'
  BY DEF TrailInv, TrailTyped, Servings, UncommittedTrue, Commits_Trail
<1>8. MessagesTrue' /\ CausesAreTrue'
  BY <1>1, <1>3, <1>4 DEF TrailInv, UncommittedTrue, MessagesTrue, CausesAreTrue
<1> QED BY <1>5, <1>6, <1>7, <1>8 DEF TrailInv

LEMMA EndsServingKeeps == ASSUME TrailInv, NEW s \in Servers, Ends_Serving(s) PROVE TrailInv'
<1>1. TrailTyped'
  BY ContextsTyped DEF TrailInv, TrailTyped, Servings, Ends_Serving, Reset, Idle_Server
<1>2. ServedForAsker'
  BY ContextsTyped DEF TrailInv, TrailTyped, Servings, ServedForAsker, Ends_Serving, Reset,
                       Idle_Server, Serves
<1>3. UncommittedTrue' /\ MessagesTrue' /\ CausesAreTrue'
  BY DEF TrailInv, TrailTyped, Servings, UncommittedTrue, MessagesTrue, CausesAreTrue, Ends_Serving
<1> QED BY <1>1, <1>2, <1>3 DEF TrailInv

LEMMA TrailNextHolds == TrailInv /\ [TrailNext]_trailVars => TrailInv'
<1> SUFFICES ASSUME TrailInv, [TrailNext]_trailVars PROVE TrailInv'
  OBVIOUS
<1>1. CASE UNCHANGED trailVars
  BY <1>1 DEF trailVars, TrailInv, TrailTyped, ServedForAsker, UncommittedTrue, MessagesTrue,
              CausesAreTrue, Serves
<1>2. CASE TrailNext
  BY <1>2, OpensKeeps, CommandsKeeps, BeginsChangeKeeps, WritesRowKeeps, ApplyAsyncKeeps,
     AuthenticatesKeeps, CallKeeps, CommitsTrailKeeps, EndsServingKeeps DEF TrailNext
<1> QED BY <1>1, <1>2

\* HistoryContextMiddleware and apply_async(): an event names who asked for what it
\* records, whichever thread ran it and however often, and a task is sent only for what
\* was committed - the context a thread has open is its asker's, and closed between.
THEOREM CausesAreTrueHolds == TrailSpec => []CausesAreTrue
<1>1. TrailInv => CausesAreTrue
  BY DEF TrailInv
<1> QED BY TrailInitHolds, TrailNextHolds, <1>1, PTL DEF TrailSpec

-----------------------------------------------------------------------------
\* Every event has a number handed out, every committed one a commit made.
Numbered ==
    /\ \A s \in Servers : \A event \in wrote[s] : event.pgh_id <= made.events
    /\ \A event \in events : event.pgh_id <= made.events /\ event.committed <= made.committed

\* A row's uncommitted events are one thread's, as it holds the row, and newer than those
\* committed of it.
RowHeld ==
    \A s, t \in Servers : s # t =>
        \A one \in wrote[s], other \in wrote[t] : one.object # other.object
UncommittedNewer ==
    \A s \in Servers : \A one \in wrote[s], other \in events :
        one.object = other.object => one.pgh_id > other.pgh_id

InOrder ==
    \A one, other \in events :
        one.object = other.object /\ one.pgh_id > other.pgh_id => one.committed >= other.committed

OrderInv == TrailTyped /\ Numbered /\ RowHeld /\ UncommittedNewer /\ InOrder

\* A step that records and commits no event, though it may forget some.
LEMMA OrderStays ==
  ASSUME OrderInv, TrailTyped', events' = events,
         \A s \in Servers : wrote'[s] \subseteq wrote[s],
         made'.events = made.events, made'.committed = made.committed
  PROVE  OrderInv'
BY DEF OrderInv, Numbered, RowHeld, UncommittedNewer, InOrder

LEMMA WritesRowInOrder ==
  ASSUME OrderInv, TrailTyped', NEW s \in Servers, Writes_Row(s) PROVE OrderInv'
<1>1. PICK object \in Objects :
        /\ \A other \in Servers \ {s} : ~Holds_Row(other, object)
        /\ wrote' = [wrote EXCEPT ![s] = @ \cup
                  {[pgh_id |-> made.events + 1, object |-> object,
                    pgh_created_at |-> serving[s].began, asker |-> serving[s].asker,
                    user |-> serving[s].context.user, committed |-> 0]}]
  BY DEF Writes_Row
<1> DEFINE new == [pgh_id |-> made.events + 1, object |-> object,
                   pgh_created_at |-> serving[s].began, asker |-> serving[s].asker,
                   user |-> serving[s].context.user, committed |-> 0]
<1>2. new.pgh_id = made.events + 1 /\ new.object = object
  OBVIOUS
<1> HIDE DEF new
<1>3. /\ wrote'[s] = wrote[s] \cup {new}
      /\ \A t \in Servers \ {s} : wrote'[t] = wrote[t]
  BY <1>1 DEF OrderInv, TrailTyped, new
<1>4. events' = events /\ made'.events = made.events + 1 /\ made'.committed = made.committed
      /\ made.events \in Nat /\ made.committed \in Nat
  BY DEF Writes_Row, OrderInv, TrailTyped
<1>5. \A event \in events : event.pgh_id \in Nat
  BY DEF OrderInv, TrailTyped, Events
<1>6. \A t \in Servers : \A event \in wrote[t] : event.pgh_id \in Nat
  BY DEF OrderInv, TrailTyped, Events
<1>7. Numbered'
  BY <1>2, <1>3, <1>4, <1>5, <1>6 DEF OrderInv, Numbered
<1>8. RowHeld'
  BY <1>1, <1>2, <1>3 DEF OrderInv, RowHeld, Holds_Row
<1>9. UncommittedNewer'
  BY <1>2, <1>3, <1>4, <1>5 DEF OrderInv, Numbered, UncommittedNewer
<1>10. InOrder'
  BY <1>4 DEF OrderInv, InOrder
<1> QED BY <1>7, <1>8, <1>9, <1>10 DEF OrderInv

\* What a commit adds is newer than what was there of the same rows, under a later stamp.
LEMMA CommitsInOrder ==
  ASSUME OrderInv, TrailTyped', NEW s \in Servers, Commits_Trail(s) PROVE OrderInv'
<1> DEFINE stamped == {[event EXCEPT !.committed = made.committed + 1] : event \in wrote[s]}
<1>1. events' = events \cup stamped
  BY DEF Commits_Trail
<1>2. \A e \in stamped : \E event \in wrote[s] :
        e.object = event.object /\ e.pgh_id = event.pgh_id /\ e.committed = made.committed + 1
  <2> SUFFICES ASSUME NEW event \in wrote[s], NEW e, e = [event EXCEPT !.committed = made.committed + 1]
               PROVE  /\ e.object = event.object /\ e.pgh_id = event.pgh_id
                      /\ e.committed = made.committed + 1
    OBVIOUS
  <2>1. event \in Events
    BY DEF OrderInv, TrailTyped
  <2> QED BY <2>1 DEF Events
<1>3. \A e \in stamped : wrote[s] # {}
  OBVIOUS
<1>4. wrote'[s] = {} /\ \A t \in Servers \ {s} : wrote'[t] = wrote[t]
  BY DEF Commits_Trail, OrderInv, TrailTyped
<1>5. /\ made'.events = made.events /\ made.events \in Nat /\ made.committed \in Nat
      /\ made'.committed = IF wrote[s] # {} THEN made.committed + 1 ELSE made.committed
  BY DEF Commits_Trail, OrderInv, TrailTyped
<1>6. \A event \in events : event.pgh_id \in Nat /\ event.committed \in Nat
  BY DEF OrderInv, TrailTyped, Events
<1>7. \A t \in Servers : \A event \in wrote[t] : event.pgh_id \in Nat
  BY DEF OrderInv, TrailTyped, Events
<1> HIDE DEF stamped
<1>8. Numbered'
  BY <1>1, <1>2, <1>3, <1>4, <1>5, <1>6 DEF OrderInv, Numbered
<1>9. RowHeld'
  BY <1>4 DEF OrderInv, RowHeld
<1>10. UncommittedNewer'
  <2> SUFFICES ASSUME NEW t \in Servers, NEW one \in wrote'[t], NEW other \in events',
                      one.object = other.object
               PROVE  one.pgh_id > other.pgh_id
    BY DEF UncommittedNewer
  <2>1. t # s /\ one \in wrote[t]
    BY <1>4
  <2>2. other \notin stamped
    BY <1>2, <2>1 DEF OrderInv, RowHeld
  <2> QED BY <1>1, <2>1, <2>2 DEF OrderInv, UncommittedNewer
<1>11. InOrder'
  <2> SUFFICES ASSUME NEW one \in events', NEW other \in events',
                      one.object = other.object, one.pgh_id > other.pgh_id
               PROVE  one.committed >= other.committed
    BY DEF InOrder
  <2>1. CASE one \in events /\ other \in events
    BY <2>1 DEF OrderInv, InOrder
  <2>2. CASE one \in stamped /\ other \in events
    BY <1>2, <1>5, <1>6, <2>2 DEF OrderInv, Numbered
  <2>3. CASE one \in events /\ other \in stamped
    <3>1. PICK event \in wrote[s] : other.object = event.object /\ other.pgh_id = event.pgh_id
      BY <1>2, <2>3
    <3>2. event.pgh_id > one.pgh_id
      BY <2>3, <3>1 DEF OrderInv, UncommittedNewer
    <3> QED BY <1>6, <1>7, <2>3, <3>1, <3>2
  <2>4. CASE one \in stamped /\ other \in stamped
    BY <1>2, <1>5, <2>4
  <2> QED BY <1>1, <2>1, <2>2, <2>3, <2>4
<1> QED BY <1>8, <1>9, <1>10, <1>11 DEF OrderInv

LEMMA OrderNextHolds == OrderInv /\ TrailTyped' /\ [TrailNext]_trailVars => OrderInv'
<1> SUFFICES ASSUME OrderInv, TrailTyped', [TrailNext]_trailVars PROVE OrderInv'
  OBVIOUS
<1>1. CASE UNCHANGED trailVars
  BY <1>1, OrderStays DEF trailVars
<1>2. ASSUME NEW s \in Servers, Writes_Row(s) PROVE OrderInv'
  BY <1>2, WritesRowInOrder
<1>3. ASSUME NEW s \in Servers, Commits_Trail(s) PROVE OrderInv'
  BY <1>3, CommitsInOrder
<1>4. ASSUME NEW s \in Servers, Begins_Change(s) \/ apply_async(s) PROVE OrderInv'
  <2>1. /\ events' = events /\ wrote' = wrote
        /\ made'.events = made.events /\ made'.committed = made.committed
    BY <1>4 DEF OrderInv, TrailTyped, Begins_Change, apply_async
  <2> QED BY <2>1, OrderStays
<1>5. ASSUME NEW s \in Servers, Ends_Serving(s) PROVE OrderInv'
  <2>1. events' = events /\ made' = made /\ \A t \in Servers : wrote'[t] \subseteq wrote[t]
    BY <1>5 DEF OrderInv, TrailTyped, Ends_Serving
  <2> QED BY <2>1, OrderStays
<1>6. ASSUME NEW s \in Servers, Opens(s) \/ Commands(s) PROVE OrderInv'
  BY <1>6, OrderStays DEF Opens, Commands
<1>7. ASSUME NEW s \in Servers, NEW person \in People, Authenticates(s, person) PROVE OrderInv'
  BY <1>7, OrderStays DEF Authenticates
<1>8. ASSUME NEW s \in Servers, NEW message \in messages, __call__(s, message) PROVE OrderInv'
  BY <1>8, OrderStays DEF __call__
<1> QED BY <1>1, <1>2, <1>3, <1>4, <1>5, <1>6, <1>7, <1>8 DEF TrailNext

\* An object's own history, by number alone, is the order its changes took effect in: a
\* row is held from the event to the commit, so no later number commits before it.
THEOREM NewestFirstHolds == TrailSpec => []NewestFirst
<1>1. TrailInit => OrderInv
  <2> SUFFICES ASSUME TrailInit PROVE OrderInv
    OBVIOUS
  <2>1. TrailTyped
    BY TrailInitHolds DEF TrailInv
  <2> QED BY <2>1 DEF TrailInit, OrderInv, Numbered, RowHeld, UncommittedNewer, InOrder
<1>2. TrailInv => TrailTyped
  BY DEF TrailInv
<1>3. OrderInv => NewestFirst
  BY DEF OrderInv, InOrder, NewestFirst, _history_order, get_history_queryset
<1> QED BY TrailInitHolds, TrailNextHolds, OrderNextHolds, <1>1, <1>2, <1>3, PTL DEF TrailSpec

-----------------------------------------------------------------------------
\* What a committed row and a request in hand are.
GuardedRows == [owner : Requesters, visibility : Visibilities, label : {"a", "b"}] \cup {NoObject}
InHand == [at : {"check", "save", "commit"},
           handler : {"create", "update", "plain", "marked", "destroy"}, ran : BOOLEAN,
           instance : GuardedRows, response : {"none", "done", "error"},
           data : [visibility : Visibilities \cup {"none"}, label : {"a", "b"}]]

\* A request in hand holds the row alone, so what it read is the row; and where its guards
\* ran, they passed what it is about to write.
Passed(r) ==
    _touches(request[r].data, request[r].instance) => allows(r, request[r].instance)
HoldsRow(r) ==
    /\ request[r] \in InHand /\ rowheld = {r} /\ request[r].instance = stored
    /\ request[r].handler = "create" <=> stored = NoObject
    /\ request[r].handler = "create" => request[r].data.visibility # "none"
    /\ request[r].handler \in {"marked", "destroy"} => request[r].data.visibility = "none"
    /\ request[r].ran => Passed(r)

GuardedInv ==
    /\ declared \in Guards /\ stored \in GuardedRows /\ DOMAIN request = Requesters
    /\ \A r \in Requesters : request[r] # NoRequest => HoldsRow(r)

LEMMA InHandIsSome ==
  /\ NoRequest \notin InHand
  /\ \A r \in Requesters : request[r] \in InHand => request[r].at \in {"check", "save", "commit"}
  /\ \A r \in Requesters : request[r] = NoRequest => request[r].at = "idle"
<1>1. \A x \in InHand : x.at \in {"check", "save", "commit"}
  BY DEF InHand
<1>2. NoRequest.at = "idle"
  BY DEF NoRequest
<1> QED BY <1>1, <1>2

\* Only one request is in hand.
LEMMA OneInHand ==
  ASSUME GuardedInv, NEW r \in Requesters, request[r] # NoRequest, NEW q \in Requesters, q # r
  PROVE  request[q] = NoRequest
BY DEF GuardedInv, HoldsRow

LEMMA GuardedInit_Inv == GuardedInit => GuardedInv
BY DEF GuardedInit, GuardedInv, GuardedRows

\* What answers r leaves the row to nobody.
LEMMA AnswersKeep ==
  ASSUME GuardedInv, NEW r \in Requesters, request[r] # NoRequest, Answers(r),
         stored' \in GuardedRows, UNCHANGED declared
  PROVE  GuardedInv'
<1>1. \A q \in Requesters : request'[q] = NoRequest
  BY OneInHand DEF Answers, GuardedInv
<1> QED BY <1>1 DEF GuardedInv, Answers

LEMMA DispatchKeeps ==
  ASSUME GuardedInv, NEW r \in Requesters, Dispatches(r)
  PROVE  GuardedInv'
<1>1. /\ request[r] = NoRequest /\ \A q \in Requesters : request[q] = NoRequest
      /\ stored' = stored /\ declared' = declared /\ rowheld' = {r}
  BY InHandIsSome DEF GuardedInv, HoldsRow, Dispatches, Fetches
<1>2. PICK handler \in IF stored = NoObject THEN {"create"} ELSE {"update", "plain", "marked", "destroy"},
           visibility \in Visibilities \cup {"none"}, label \in {"a", "b"} :
        /\ handler = "create" => visibility # "none"
        /\ handler \in {"marked", "destroy"} => visibility = "none"
        /\ request' = [request EXCEPT ![r] =
               [at |-> IF handler \in {"create", "update"} THEN "check" ELSE "save",
                handler |-> handler, ran |-> FALSE, instance |-> stored, response |-> "none",
                data |-> [visibility |-> visibility, label |-> label]]]
  BY DEF Dispatches
<1>3. request'[r] \in InHand
  BY <1>2 DEF GuardedInv, InHand
<1>4. HoldsRow(r)'
  BY <1>1, <1>2, <1>3 DEF GuardedInv, HoldsRow
<1>5. \A q \in Requesters : q # r => request'[q] = NoRequest
  BY <1>1, <1>2 DEF GuardedInv
<1> QED BY <1>1, <1>2, <1>4, <1>5 DEF GuardedInv

LEMMA CheckKeeps ==
  ASSUME GuardedInv, NEW r \in Requesters, check_guarded_fields(r)
  PROVE  GuardedInv'
<1>1. request[r] # NoRequest /\ HoldsRow(r) /\ stored' = stored /\ declared' = declared
  BY InHandIsSome DEF GuardedInv, check_guarded_fields
<1>2. CASE Answers(r)
  BY <1>1, <1>2, AnswersKeep DEF GuardedInv
<1>3. CASE /\ request' = [request EXCEPT ![r].at = "save", ![r].ran = TRUE] /\ rowheld' = rowheld
           /\ Passed(r)
  <2>1. request'[r] = [request[r] EXCEPT !.at = "save", !.ran = TRUE]
    BY <1>3 DEF GuardedInv
  <2>2. /\ request'[r] \in InHand /\ request'[r].handler = request[r].handler
        /\ request'[r].data = request[r].data /\ request'[r].instance = request[r].instance
    BY <1>1, <2>1 DEF HoldsRow, InHand
  <2>3. HoldsRow(r)'
    BY <1>1, <1>3, <2>2 DEF HoldsRow, Passed, _touches, allows, evaluate_permission
  <2>4. \A q \in Requesters : q # r => request'[q] = NoRequest
    BY <1>1, <1>3, OneInHand DEF GuardedInv
  <2> QED BY <1>1, <1>3, <2>3, <2>4 DEF GuardedInv
<1> QED BY <1>2, <1>3 DEF check_guarded_fields, Passed

LEMMA SavesRowKeeps ==
  ASSUME GuardedInv, NEW r \in Requesters, Saves_Row(r)
  PROVE  GuardedInv'
<1>1. /\ request[r] # NoRequest /\ HoldsRow(r) /\ stored' = stored /\ declared' = declared
      /\ rowheld' = {r}
  BY InHandIsSome DEF GuardedInv, Saves_Row
<1>2. PICK response \in {"done", "error"} :
        request'[r] = [request[r] EXCEPT !.at = "commit", !.response = response]
  BY DEF GuardedInv, Saves_Row
<1>3. /\ request'[r] \in InHand /\ request'[r].handler = request[r].handler
      /\ request'[r].data = request[r].data /\ request'[r].instance = request[r].instance
      /\ request'[r].ran = request[r].ran
  BY <1>1, <1>2 DEF HoldsRow, InHand
<1>4. HoldsRow(r)'
  BY <1>1, <1>3 DEF HoldsRow, Passed, _touches, allows, evaluate_permission
<1>5. \A q \in Requesters : q # r => request'[q] = NoRequest
  BY <1>1, OneInHand DEF GuardedInv, Saves_Row
<1> QED BY <1>1, <1>4, <1>5 DEF GuardedInv, Saves_Row

\* What is kept of a request is a row, or none.
LEMMA SavedIsRow ==
  ASSUME GuardedInv, NEW r \in Requesters, HoldsRow(r)
  PROVE  SavedAs(r) \in GuardedRows
<1>1. /\ request[r].data.visibility \in Visibilities \cup {"none"}
      /\ request[r].data.label \in {"a", "b"}
  BY DEF HoldsRow, InHand
<1>2. CASE request[r].handler = "create"
  BY <1>1, <1>2 DEF HoldsRow, SavedAs, GuardedRows
<1>3. CASE request[r].handler # "create"
  <2>1. request[r].instance \in [owner : Requesters, visibility : Visibilities, label : {"a", "b"}]
    BY <1>3 DEF HoldsRow, GuardedInv, GuardedRows
  <2> QED BY <1>1, <1>3, <2>1 DEF SavedAs, GuardedRows
<1> QED BY <1>2, <1>3

LEMMA RespondsKeeps ==
  ASSUME GuardedInv, NEW r \in Requesters, Responds(r)
  PROVE  GuardedInv'
<1>1. request[r] # NoRequest /\ HoldsRow(r)
  BY InHandIsSome DEF GuardedInv, Responds
<1>2. stored' \in GuardedRows
  BY <1>1, SavedIsRow DEF Responds, GuardedInv
<1> QED BY <1>1, <1>2, AnswersKeep DEF Responds

LEMMA ErrsKeeps ==
  ASSUME GuardedInv, NEW r \in Requesters, Errs(r)
  PROVE  GuardedInv'
<1>1. request[r] # NoRequest /\ stored' \in GuardedRows
  BY InHandIsSome DEF GuardedInv, Errs
<1> QED BY <1>1, AnswersKeep DEF Errs

LEMMA GuardedInvIsKept == GuardedSpec => []GuardedInv
<1>1. GuardedInv /\ [GuardedNext]_guardedVars => GuardedInv'
  <2> SUFFICES ASSUME GuardedInv, [GuardedNext]_guardedVars PROVE GuardedInv'
    OBVIOUS
  <2>1. CASE UNCHANGED guardedVars
    BY <2>1 DEF guardedVars, GuardedInv, HoldsRow, Passed, _touches, allows, evaluate_permission
  <2>2. CASE GuardedNext
    BY <2>2, DispatchKeeps, CheckKeeps, SavesRowKeeps, RespondsKeeps, ErrsKeeps DEF GuardedNext
  <2> QED BY <2>1, <2>2
<1> QED BY <1>1, GuardedInit_Inv, PTL DEF GuardedSpec

\* A permission that is not refused is one the person has, or may have where no row says.
LEMMA AllowedMay ==
  ASSUME GuardedInv, NEW r \in Requesters, request[r].at = "commit", allows(r, stored)
  PROVE  May(r)
<1>1. /\ declared.predicate.op \in {"leaf", "not", "and", "or"}
      /\ declared.predicate.left \in Leaves /\ declared.predicate.right \in Leaves
  BY GuardedWritesAssumption DEF GuardedInv
<1> DEFINE value(name) == LeafValue(name, r, stored)
           could(name) == IF name = "is_staff" THEN r \in Staff_Members
                          ELSE stored = NoObject \/ stored.owner = r
           couldnot(name) == IF name = "is_staff" THEN r \notin Staff_Members
                             ELSE stored = NoObject \/ stored.owner # r
<1>2. \A name \in Leaves : /\ value(name) \in {"true", "false", "unknown"}
                           /\ value(name) # "false" <=> could(name)
                           /\ value(name) # "true" <=> couldnot(name)
  BY DEF LeafValue
<1> HIDE DEF value, could, couldnot
<1>3. CASE declared.predicate.op = "leaf"
  <2>1. could(declared.predicate.left)
    BY <1>1, <1>2, <1>3 DEF allows, evaluate_permission, value
  <2> QED BY <1>3, <2>1 DEF May, could
<1>4. CASE declared.predicate.op = "not"
  <2>1. couldnot(declared.predicate.left)
    BY <1>1, <1>2, <1>4 DEF allows, evaluate_permission, Negated, value
  <2> QED BY <1>4, <2>1 DEF May, couldnot
<1>5. CASE declared.predicate.op = "and"
  <2>1. could(declared.predicate.left) /\ could(declared.predicate.right)
    BY <1>1, <1>2, <1>5 DEF allows, evaluate_permission, Settled, Negated, value
  <2> QED BY <1>5, <2>1 DEF May, could
<1>6. CASE declared.predicate.op = "or"
  <2>1. could(declared.predicate.left) \/ could(declared.predicate.right)
    BY <1>1, <1>2, <1>6 DEF allows, evaluate_permission, Settled, Negated, value
  <2> QED BY <1>6, <2>1 DEF May, could
<1> QED BY <1>1, <1>3, <1>4, <1>5, <1>6

\* What brings the row to a guarded value is a write whose guards ran, or an error's.
LEMMA BroughtPassed ==
  ASSUME GuardedInv, NEW r \in Requesters, Responds(r), Brought
  PROVE  allows(r, stored) \/ Error_Past_Guards(r)
<1> SUFFICES ASSUME ~Error_Past_Guards(r) PROVE allows(r, stored)
  OBVIOUS
<1>1. HoldsRow(r) /\ stored' = SavedAs(r) /\ _require_field_guards_ran(r)
  BY InHandIsSome DEF GuardedInv, Responds, Brought
<1>2. request[r].handler \notin {"marked", "destroy"}
  <2>1. request[r].handler # "destroy"
    BY <1>1 DEF SavedAs, Brought
  <2>2. ASSUME request[r].handler = "marked" PROVE FALSE
    <3>1. stored \in [owner : Requesters, visibility : Visibilities, label : {"a", "b"}]
      BY <1>1, <2>2 DEF HoldsRow, GuardedInv, GuardedRows
    <3>2. SavedAs(r).visibility = stored.visibility
      BY <1>1, <2>2, <3>1 DEF HoldsRow, SavedAs
    <3> QED BY <1>1, <3>2 DEF Brought
  <2> QED BY <2>1, <2>2
<1>3. _touches(request[r].data, request[r].instance)
  <2>1. CASE stored = NoObject
    <3>1. request[r].handler = "create" /\ SavedAs(r).visibility = request[r].data.visibility
      BY <1>1, <2>1 DEF HoldsRow, SavedAs
    <3> QED BY <1>1, <2>1, <3>1 DEF HoldsRow, Brought, _touches
  <2>2. CASE stored # NoObject
    <3>1. stored \in [owner : Requesters, visibility : Visibilities, label : {"a", "b"}]
      BY <2>2 DEF GuardedInv, GuardedRows
    <3>2. SavedAs(r).visibility \in {stored.visibility, request[r].data.visibility}
      BY <1>1, <1>2, <2>2, <3>1 DEF HoldsRow, SavedAs
    <3> QED BY <1>1, <3>2 DEF HoldsRow, Brought, _touches
  <2> QED BY <2>1, <2>2
<1>4. request[r].ran
  BY <1>1, <1>2 DEF Responds, Error_Past_Guards, _require_field_guards_ran
<1> QED BY <1>1, <1>3, <1>4 DEF HoldsRow, Passed

\* The guards of a viewset refuse whom they are declared to refuse, of the row as it is
\* when the write lands: no handler, transfer, creation or deletion in between brings the
\* row to a guarded value by someone who could not set it - but a handler that writes it
\* itself and returns an error of its own, which is no exception and so keeps its writes.
THEOREM GuardedIsAllowedHolds == GuardedSpec => GuardedIsAllowed
<1> DEFINE Lands == Brought => \E r \in Requesters :
                      (May(r) \/ Error_Past_Guards(r)) /\ request'[r].at = "idle"
<1>1. GuardedInv /\ [GuardedNext]_guardedVars => Lands
  <2> SUFFICES ASSUME GuardedInv, [GuardedNext]_guardedVars, Brought
               PROVE  \E r \in Requesters :
                        (May(r) \/ Error_Past_Guards(r)) /\ request'[r].at = "idle"
    OBVIOUS
  <2>1. PICK r \in Requesters : Responds(r)
    BY DEF Brought, GuardedNext, guardedVars, Dispatches, check_guarded_fields, Saves_Row, Errs
  <2>2. May(r) \/ Error_Past_Guards(r)
    BY <2>1, BroughtPassed, AllowedMay DEF Responds
  <2>3. request'[r].at = "idle"
    BY <2>1 DEF Responds, Answers, GuardedInv, NoRequest
  <2> QED BY <2>2, <2>3
<1> QED BY <1>1, GuardedInvIsKept, PTL DEF GuardedIsAllowed, GuardedSpec
=============================================================================
