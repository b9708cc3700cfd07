----------------------------- MODULE GuardedWrites -----------------------------
(***************************************************************************)
(* Writes of one row through a viewset whose guarding() guards a field     *)
(* (drf/permissions.py, drf/viewsets/guarded_fields.py): each request is   *)
(* one transaction, refused where the guard's predicate refuses a change   *)
(* it makes, and rolled back by an exception or when it succeeded without  *)
(* its guards having run; an error response it returns keeps its writes.   *)
(* The viewset compares If-Match, so an update holds the row it was shown. *)
(***************************************************************************)
EXTENDS FiniteSets

CONSTANTS Requesters,   \* each sends one request after another
          Staff_Members, \* those of them a predicate knows from the request alone
          Visibilities, \* the guarded field's values
          Guards        \* the declarations: [predicate, targets]

VARIABLES stored,       \* the row as committed: [owner, visibility, label], or NoObject
          rowheld,      \* who holds it
          declared,     \* the viewset's guard
          request       \* each's: where it is, its handler, its data and its instance
guardedVars == <<stored, rowheld, declared, request>>

NoObject == [owner |-> "nobody", visibility |-> "none", label |-> "none"]
NoRequest == [at |-> "idle"]
Leaves == {"is_owner", "is_staff"}
Leaf(name) == [op |-> "leaf", left |-> name, right |-> name]

ASSUME GuardedWritesAssumption ==
    /\ "none" \notin Visibilities /\ "nobody" \notin Requesters /\ Staff_Members \subseteq Requesters
    /\ \A guard \in Guards : /\ guard.targets \subseteq Visibilities
                             /\ guard.predicate.op \in {"leaf", "not", "and", "or"}
                             /\ {guard.predicate.left, guard.predicate.right} \subseteq Leaves

-----------------------------------------------------------------------------
\* evaluate_permission(): true, false, or unknown where only a row could say.
LeafValue(name, r, object) ==
    IF name = "is_staff" THEN IF r \in Staff_Members THEN "true" ELSE "false"
    ELSE IF object = NoObject THEN "unknown" ELSE IF object.owner = r THEN "true" ELSE "false"
Negated(value) ==
    IF value = "unknown" THEN value ELSE IF value = "true" THEN "false" ELSE "true"
Settled(left, right, decisive) ==
    IF decisive \in {left, right} THEN decisive
    ELSE IF "unknown" \in {left, right} THEN "unknown" ELSE Negated(decisive)
evaluate_permission(predicate, r, object) ==
    LET left == LeafValue(predicate.left, r, object)
        right == LeafValue(predicate.right, r, object)
    IN IF predicate.op = "leaf" THEN left
       ELSE IF predicate.op = "not" THEN Negated(left)
       ELSE Settled(left, right, IF predicate.op = "or" THEN "true" ELSE "false")
allows(r, object) == evaluate_permission(declared.predicate, r, object) # "false"

\* What a write of `data` over `instance` touches: a value sent unchanged is no change.
_touches(data, instance) ==
    /\ data.visibility \in declared.targets
    /\ instance = NoObject \/ instance.visibility # data.visibility

-----------------------------------------------------------------------------
GuardedInit ==
    /\ declared \in Guards /\ rowheld = {} /\ stored = NoObject
    /\ request = [r \in Requesters |-> NoRequest]

Answers(r) == /\ request' = [request EXCEPT ![r] = NoRequest] /\ rowheld' = rowheld \ {r}

\* A request reaches its handler: the viewset's own, one of an action that saves through
\* no serializer, one marked @writes_no_guarded_fields, or destroy.  An update holds the
\* row and reads it again before anything compares with it.
Fetches(r) == rowheld = {} /\ rowheld' = {r}
Dispatches(r) ==
    /\ request[r].at = "idle" /\ Fetches(r)
    /\ \E handler \in IF stored = NoObject THEN {"create"} ELSE {"update", "plain", "marked", "destroy"},
          visibility \in Visibilities \cup {"none"}, label \in {"a", "b"} :
        /\ handler = "create" => visibility # "none"
        /\ handler \in {"marked", "destroy"} => visibility = "none"
        /\ request' = [request EXCEPT ![r] =
               [at |-> IF handler \in {"create", "update"} THEN "check" ELSE "save",
                handler |-> handler, ran |-> FALSE, instance |-> stored, response |-> "none",
                data |-> [visibility |-> visibility, label |-> label]]]
    /\ UNCHANGED <<stored, declared>>

\* check_guarded_fields(), inside the serializer's save().
check_guarded_fields(r) ==
    /\ request[r].at = "check"
    /\ IF _touches(request[r].data, request[r].instance) /\ ~allows(r, request[r].instance)
       THEN Answers(r)
       ELSE /\ request' = [request EXCEPT ![r].at = "save", ![r].ran = TRUE]
            /\ UNCHANGED rowheld
    /\ UNCHANGED <<stored, declared>>

\* save() writes every field of the instance; a marked handler transfers the row. The
\* handler then makes its response, which may be an error of its own making.
SavedAs(r) ==
    LET this == request[r]
        kept == [this.instance EXCEPT !.label = this.data.label]
    IN IF this.handler = "destroy" THEN NoObject
       ELSE IF this.handler = "create"
       THEN [owner |-> r, visibility |-> this.data.visibility, label |-> this.data.label]
       ELSE IF this.handler = "marked" THEN [kept EXCEPT !.owner = r]
       ELSE IF this.data.visibility = "none" THEN kept
       ELSE [kept EXCEPT !.visibility = this.data.visibility]
Saves_Row(r) ==
    /\ request[r].at = "save" /\ rowheld \subseteq {r}
    /\ rowheld' = {r}
    /\ \E response \in {"done", "error"} :
        request' = [request EXCEPT ![r].at = "commit", ![r].response = response]
    /\ UNCHANGED <<stored, declared>>

\* What was written is kept, unless a handler that is not exempt succeeded and its guards
\* never ran: of an error that it returned nothing is asked.
_require_field_guards_ran_Trusting(r) == TRUE
_require_field_guards_ran(r) ==
    \/ request[r].response = "error" \/ request[r].ran
    \/ request[r].handler \in {"marked", "destroy"}
Responds(r) ==
    /\ request[r].at = "commit"
    /\ stored' = IF _require_field_guards_ran(r) THEN SavedAs(r) ELSE stored
    /\ Answers(r)
    /\ UNCHANGED declared

\* An exception, that DRF makes a response of, rolls back what was written.
Errs(r) ==
    /\ request[r].at \in {"check", "save", "commit"}
    /\ Answers(r)
    /\ UNCHANGED <<stored, declared>>

GuardedNext ==
    \E r \in Requesters : \/ Dispatches(r) \/ check_guarded_fields(r) \/ Saves_Row(r)
                          \/ Responds(r) \/ Errs(r)
GuardedSpec == GuardedInit /\ [][GuardedNext]_guardedVars

-----------------------------------------------------------------------------
\* The refusal the guard is declared for, of the row as it is when a write lands: who
\* is not allowed the guarded value never brings the row to it - but by an error response
\* that a handler returns of its own, having written past its guards.
Brought == /\ stored' # NoObject /\ stored'.visibility \in declared.targets
           /\ stored'.visibility # stored.visibility
May(r) == /\ request[r].at = "commit"
          /\ LET predicate == declared.predicate
                 staff == r \in Staff_Members
                 known == stored # NoObject
                 owner == stored.owner = r
                 is(name) == IF name = "is_staff" THEN staff ELSE owner
                 could(name) == IF name = "is_staff" THEN staff ELSE ~known \/ owner
                 couldnot(name) == IF name = "is_staff" THEN ~staff ELSE ~known \/ ~owner
             IN CASE predicate.op = "leaf" -> could(predicate.left)
                  [] predicate.op = "not" -> couldnot(predicate.left)
                  [] predicate.op = "and" -> could(predicate.left) /\ could(predicate.right)
                  [] predicate.op = "or" -> could(predicate.left) \/ could(predicate.right)
Error_Past_Guards(r) ==
    request[r].at = "commit" /\ request[r].response = "error" /\ ~request[r].ran
GuardedIsAllowed ==
    [][Brought => \E r \in Requesters :
         (May(r) \/ Error_Past_Guards(r)) /\ request'[r].at = "idle"]_guardedVars
=============================================================================
