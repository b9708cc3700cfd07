-------------------------- MODULE MCPreconditions --------------------------
(* A row of two fields with two values each, and three requests on it.     *)
EXTENDS Preconditions, TLC

Symmetry == Permutations(Requests) \cup Permutations(Fields) \cup Permutations(Values)

Plain == [strategy |-> "token", annotated |-> FALSE, ignores_weak_tags |-> FALSE,
          required |-> TRUE, allows_any |-> TRUE, missing_row_status |-> 404,
          not_modified |-> TRUE, ops |-> {"retrieve", "patch", "destroy", "bulk", "touch"}]

\* Writes that name no version are left out where rows are deleted - they would insert
\* one anew - and the computed strategy is read with its ETag, save where it is torn.
MCSettings ==
    {Plain,
     [Plain EXCEPT !.ignores_weak_tags = TRUE, !.allows_any = FALSE, !.missing_row_status = 412],
     [Plain EXCEPT !.required = FALSE, !.ops = {"patch", "exempt", "bulk"}],
     [Plain EXCEPT !.strategy = "computed", !.annotated = TRUE,
                   !.ops = {"retrieve", "patch", "exempt", "relate"}],
     [Plain EXCEPT !.strategy = "computed", !.annotated = TRUE,
                   !.ops = {"patch", "destroy", "relate"}],
     [Plain EXCEPT !.strategy = "column", !.ops = {"patch", "destroy", "relate"}],
     [Plain EXCEPT !.strategy = "parts", !.ops = {"retrieve", "patch", "relate"}]}

Torn == {[Plain EXCEPT !.strategy = "computed", !.ops = {"retrieve", "patch"}]}

ASSUME ConditionsHold == Settings # Torn => WholeReads /\ NoneInsertedAnew
=============================================================================
