---------------------------- MODULE Preconditions ----------------------------
(***************************************************************************)
(* Conditional requests on one row: PreconditionMixin                      *)
(* (isik/django/drf/viewsets/preconditions.py) over the concurrency token  *)
(* of common/db/concurrency.py, which the triggers of common/db/models.py  *)
(* keep.  A request is one transaction at READ COMMITTED (ATOMIC_REQUESTS):*)
(* what it wrote is in tx until it commits, and each statement reads what  *)
(* is committed when it runs.  The row's own fields are a function, its    *)
(* related rows a bit (in or out), its token a number; an ETag is the pair *)
(* of a token and the bit, the bit FALSE where the version covers none.    *)
(***************************************************************************)
EXTENDS Integers, FiniteSets

CONSTANTS Requests,  \* the requests and other writers, each of which runs once
          Fields, Values,
          MaxToken,  \* bound on the token: writers wait at it
          Settings   \* how a view and its model may be set up; Init takes one

VARIABLES opt, row, rel, lock, pc, op, header, inst, tx, seen
vars == <<opt, row, rel, lock, pc, op, header, inst, tx, seen>>

Strategies == {"token", "computed", "column", "parts"}
Ops == {"retrieve", "patch", "exempt", "destroy", "bulk", "touch", "relate"}
OptType == [strategy: Strategies, annotated: BOOLEAN, ignores_weak_tags: BOOLEAN,
            required: BOOLEAN, allows_any: BOOLEAN, missing_row_status: {404, 412},
            not_modified: BOOLEAN,
            ops: SUBSET Ops]

ASSUME SettingsAssumption ==
    /\ Settings \subseteq OptType
    /\ MaxToken \in Nat \ {0} /\ Fields # {} /\ Values # {}

Tokens == 1..MaxToken
Own == [Fields -> Values]
Row == [there: BOOLEAN, own: Own, token: Tokens]
Etags == (0..MaxToken) \X BOOLEAN
AnyEtag == <<0, FALSE>>                       \* "*" in a header
NoEtag == <<0, TRUE>>                         \* no annotation on an instance, no ETag sent
Instance == [own: Own, token: Tokens, etag: Etags]
EntityTag == [weak: BOOLEAN, etag: Etags]
Statuses == {"200", "304", "404", "412", "428"}
PCs == {"idle", "get", "lock", "compare", "save", "answer"} \cup Statuses
Modes == {"none", "share", "nokey", "update"}
Unwritten == [there |-> FALSE]

Checked(r) == op[r] \in {"patch", "destroy"} /\ header[r] # {}
Compared(r) == Checked(r) /\ pc[r] \in {"save", "answer"}
View(r) == IF tx[r] = Unwritten THEN row ELSE tx[r].row

\* FOR KEY SHARE, what an UPDATE takes, and FOR UPDATE (a DELETE's too).
Conflicts == {{"share", "update"}, {"nokey"}, {"nokey", "update"}, {"update"}}
CanTake(r, mode) == \A q \in Requests \ {r} : {lock[q], mode} \notin Conflicts

CommittedEtag == <<row.token, rel /\ opt.strategy \in {"computed", "parts"}>>

\* Reading a row: with its ETag, where the queryset is with_concurrency_etags()'s.
EtagOf(token) == <<token, rel>>
Fetched(annotated) ==
    [own |-> row.own, token |-> row.token,
     etag |-> IF annotated THEN EtagOf(row.token) ELSE NoEtag]

current_concurrency_etag(r) ==
    CASE opt.strategy \in {"computed", "parts"} -> EtagOf(View(r).token)
      [] opt.strategy \in {"token", "column"} -> <<View(r).token, FALSE>>

concurrency_etag(r) ==
    CASE opt.strategy = "parts" -> EtagOf(inst[r].token)
      [] opt.strategy \in {"token", "column"} -> <<inst[r].token, FALSE>>
      [] opt.strategy = "computed" ->
            IF inst[r].etag # NoEtag THEN inst[r].etag ELSE current_concurrency_etag(r)

entity_tags(r) == {t.etag : t \in {u \in header[r] : ~u.weak \/ opt.ignores_weak_tags}}

RowChanges_ForwardOnly(old, new) == new.token > old.token

\* The BEFORE UPDATE triggers, whatever the UPDATE set the token to: a change, or
\* a token moved forward, moves it on from OLD (to the clock, where that is later);
\* an UPDATE that changes nothing leaves OLD's.
RowChanges(old, new) == new.own # old.own \/ new.token > old.token
Kept_FromNew(old, new) ==
    {[new EXCEPT !.token = t] : t \in IF RowChanges(old, new) THEN {u \in Tokens : u > new.token}
                                       ELSE {old.token}}
Kept(old, new) ==
    {[new EXCEPT !.token = t] : t \in IF RowChanges(old, new)
                                       THEN {u \in Tokens : u > old.token}
                                       ELSE {old.token}}

-----------------------------------------------------------------------------
Init ==
    /\ opt \in Settings
    /\ row \in [there: {TRUE}, own: Own, token: {1}]
    /\ rel \in IF opt.strategy = "token" THEN {FALSE} ELSE BOOLEAN
    /\ lock = [r \in Requests |-> "none"]
    /\ pc = [r \in Requests |-> "idle"]
    /\ op = [r \in Requests |-> "retrieve"]
    /\ header = [r \in Requests |-> {}]
    /\ inst = [r \in Requests |-> Fetched(FALSE)]
    /\ tx = [r \in Requests |-> Unwritten]
    /\ seen = {[etag |-> CommittedEtag, own |-> row.own]}

\* A client names versions it was shown, "*" or nothing; a proxy may have weakened them.
Begin(r) ==
    /\ pc[r] = "idle"
    /\ \E o \in opt.ops :
        /\ op' = [op EXCEPT ![r] = o]
        /\ \E etag \in {s.etag : s \in seen} \cup {AnyEtag}, weak \in BOOLEAN :
            \E tags \in {{}, {[weak |-> weak, etag |-> etag]}} :
                /\ tags # {} => o \in {"retrieve", "patch", "destroy"}
                /\ header' = [header EXCEPT ![r] = tags]
        /\ pc' = [pc EXCEPT ![r] = IF o \in {"bulk", "touch", "relate"} THEN "save" ELSE "get"]
    /\ UNCHANGED <<opt, row, rel, lock, inst, tx, seen>>

\* If-None-Match is compared weakly.
matches(r) == \E t \in header[r] : t.etag \in {AnyEtag, CommittedEtag}

\* requires_precondition(): the request writes one object and its action is not exempt.
requires_precondition(r) == op[r] \in {"patch", "destroy"}
MissingRow(r) == IF Checked(r) /\ opt.missing_row_status = 412 THEN "412" ELSE "404"

\* get_object() up to the comparison, and its early answers.
GetObject(r) ==
    /\ pc[r] = "get"
    /\ inst' = [inst EXCEPT ![r] = IF row.there THEN Fetched(opt.annotated) ELSE @]
    /\ pc' = [pc EXCEPT ![r] =
                CASE ~row.there -> MissingRow(r)
                  [] row.there /\ op[r] = "retrieve" ->
                        IF opt.not_modified /\ matches(r) THEN "304" ELSE "answer"
                  [] row.there /\ op[r] = "exempt" -> "save"
                  [] row.there /\ requires_precondition(r) /\ header[r] = {} ->
                        IF opt.required THEN "428" ELSE "save"
                  [] row.there /\ Checked(r) ->
                        IF AnyEtag \in entity_tags(r) /\ ~opt.allows_any
                        THEN "428" ELSE "lock"]
    /\ UNCHANGED <<opt, row, rel, lock, op, header, tx, seen>>

\* SELECT ... FOR UPDATE, which reads the row again once it has the lock.
Locked(r) ==
    /\ pc[r] = "lock" /\ CanTake(r, "update")
    /\ IF row.there
       THEN /\ lock' = [lock EXCEPT ![r] = "update"]
            /\ inst' = [inst EXCEPT ![r] = Fetched(FALSE)]
            /\ pc' = [pc EXCEPT ![r] = "compare"]
       ELSE /\ pc' = [pc EXCEPT ![r] = MissingRow(r)]
            /\ UNCHANGED <<lock, inst>>
    /\ UNCHANGED <<opt, row, rel, op, header, tx, seen>>

Shown(r, etag) == seen' = IF etag = NoEtag THEN seen
                          ELSE seen \cup {[etag |-> etag, own |-> inst[r].own]}

\* A 412 shows the row as it is now with its ETag, and rolls back.
Compare(r) ==
    /\ pc[r] = "compare"
    /\ IF AnyEtag \in entity_tags(r) \/ concurrency_etag(r) \in entity_tags(r)
       THEN /\ pc' = [pc EXCEPT ![r] = "save"]
            /\ UNCHANGED <<lock, seen>>
       ELSE /\ pc' = [pc EXCEPT ![r] = "412"]
            /\ lock' = [lock EXCEPT ![r] = "none"]
            /\ Shown(r, concurrency_etag(r))
    /\ UNCHANGED <<opt, row, rel, op, header, inst, tx>>

Holds(r, mode, written) ==
    /\ lock' = [lock EXCEPT ![r] = IF @ = "update" THEN @ ELSE mode]
    /\ tx' = [tx EXCEPT ![r] = written]
    /\ pc' = [pc EXCEPT ![r] = "answer"]

\* save() writes every field the instance holds, then perform_update() reads the
\* row back.  Of a row gone meanwhile it updates nothing, and inserts what it holds.
Save(r) ==
    /\ pc[r] = "save" /\ op[r] \in {"patch", "exempt"}
    /\ CanTake(r, "nokey")
    /\ \E f \in Fields, v \in Values :
        LET new == [there |-> TRUE, own |-> [inst[r].own EXCEPT ![f] = v],
                    token |-> inst[r].token]
        IN \E saved \in IF row.there THEN Kept(row, new) ELSE {new} :
            /\ Holds(r, "nokey", [there |-> TRUE, row |-> saved])
            /\ inst' = [inst EXCEPT ![r] = [@ EXCEPT !.own = saved.own, !.token = saved.token]]
    /\ UNCHANGED <<opt, row, rel, op, header, seen>>

Destroy(r) ==
    /\ pc[r] = "save" /\ op[r] = "destroy"
    /\ CanTake(r, "update")
    /\ Holds(r, "update", [there |-> TRUE, row |-> [row EXCEPT !.there = FALSE]])
    /\ UNCHANGED <<opt, row, rel, op, header, inst, seen>>

\* QuerySet.update() of one column, and touch_rows().
Update(r) ==
    /\ pc[r] = "save" /\ op[r] \in {"bulk", "touch"}
    /\ CanTake(r, "nokey") /\ row.there
    /\ \E f \in Fields, v \in Values :
        LET new == IF op[r] = "bulk" THEN [row EXCEPT !.own[f] = v]
                   ELSE [row EXCEPT !.token = @ + 1]
        IN \E saved \in Kept(row, new) :
            Holds(r, "nokey", [there |-> TRUE, row |-> saved])
    /\ UNCHANGED <<opt, row, rel, op, header, inst, seen>>

Relate_Unlocked(r) ==
    /\ pc[r] = "save" /\ op[r] = "relate" /\ row.there
    /\ Holds(r, "none", Unwritten)
    /\ UNCHANGED <<opt, row, rel, op, header, inst, seen>>

\* A related row is written, and its trigger reaches for the owner's row: FOR KEY
\* SHARE, or, by the column strategy, an UPDATE moving the owner's token.
Relate(r) ==
    /\ pc[r] = "save" /\ op[r] = "relate" /\ row.there
    /\ IF opt.strategy = "column"
       THEN /\ CanTake(r, "nokey")
            /\ \E saved \in Kept(row, [row EXCEPT !.token = @ + 1]) :
                Holds(r, "nokey", [there |-> TRUE, row |-> saved])
       ELSE CanTake(r, "share") /\ Holds(r, "share", Unwritten)
    /\ UNCHANGED <<opt, row, rel, op, header, inst, seen>>

\* An UPDATE, or a trigger, that finds no row leaves nothing to do.
Missed(r) ==
    /\ pc[r] = "save" /\ op[r] \in {"bulk", "touch", "relate"} /\ ~row.there
    /\ pc' = [pc EXCEPT ![r] = "200"]
    /\ UNCHANGED <<opt, row, rel, lock, op, header, inst, tx, seen>>

EtagAfter(r) ==
    CASE op[r] = "retrieve" -> concurrency_etag(r)
      [] op[r] \in {"patch", "exempt"} -> current_concurrency_etag(r)
      [] op[r] \in {"destroy", "bulk", "touch", "relate"} -> NoEtag

\* finalize_response() puts the ETag on the body already rendered; the transaction commits.
Answer(r) ==
    /\ pc[r] = "answer"
    /\ Shown(r, EtagAfter(r))
    /\ row' = View(r)
    /\ rel' = (rel # (op[r] = "relate"))
    /\ lock' = [lock EXCEPT ![r] = "none"]
    /\ tx' = [tx EXCEPT ![r] = Unwritten]
    /\ pc' = [pc EXCEPT ![r] = "200"]
    /\ UNCHANGED <<opt, op, header, inst>>

Step(r) ==
    \/ GetObject(r) \/ Locked(r) \/ Compare(r) \/ Save(r) \/ Destroy(r)
    \/ Update(r) \/ Relate(r) \/ Missed(r) \/ Answer(r)
Next == \E r \in Requests : Begin(r) \/ Step(r)

Spec == Init /\ [][Next]_vars

-----------------------------------------------------------------------------
TypeOK ==
    /\ opt \in Settings /\ row \in Row /\ rel \in BOOLEAN
    /\ lock \in [Requests -> Modes] /\ pc \in [Requests -> PCs] /\ op \in [Requests -> Ops]
    /\ header \in [Requests -> SUBSET EntityTag] /\ inst \in [Requests -> Instance]
    /\ tx \in [Requests -> {Unwritten} \cup [there: {TRUE}, row: Row]]
    /\ seen \subseteq [etag: Etags, own: Own]
    /\ \A r \in Requests : /\ pc[r] = "compare" \/ Compared(r) => lock[r] = "update"
                           /\ tx[r] # Unwritten => pc[r] = "answer" /\ lock[r] \in {"nokey", "update"}
    /\ \A q, r \in Requests : q # r => {lock[q], lock[r]} \notin Conflicts

\* From its comparison to its commit, the version a write named is the version of the
\* row as every other transaction has left it: nothing the version covers, neither a
\* field nor a related row, slips in between (_compared() and the lock triggers).
ComparedIsLandedOn ==
    \A r \in Requests :
        Compared(r) => \/ AnyEtag \in entity_tags(r)
                       \/ CommittedEtag \in entity_tags(r)

\* What NoLostUpdate and NotModifiedIsTrue ask of the settings: a view by a computed
\* version reads it with its rows, and where rows are deleted no write goes unchecked -
\* save() would insert the row it read anew.
WholeReads == \A o \in Settings : "retrieve" \in o.ops /\ o.strategy = "computed" => o.annotated
NoneInsertedAnew == \A o \in Settings : "destroy" \in o.ops => o.required /\ "exempt" \notin o.ops

\* What a write that named a version replaces is what everyone shown that version was
\* shown of the row: a page loaded before someone else saved cannot overwrite it.
NoLostUpdate ==
    [][\A r \in Requests :
        (Compared(r) /\ pc'[r] = "200" /\ AnyEtag \notin entity_tags(r)) =>
            \A s \in seen : s.etag \in entity_tags(r) => s.own = row.own]_vars

\* A 304 keeps no one on a page the row has moved on from.
NotModifiedIsTrue ==
    [][\A r \in Requests :
        (pc[r] # "304" /\ pc'[r] = "304") =>
            \A s \in seen, t \in header[r] : s.etag = t.etag => s.own = row.own]_vars
=============================================================================
