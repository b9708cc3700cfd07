------------------------------ MODULE MCRegistry ------------------------------
(***************************************************************************)
(* The parts that keep a small state of their own, each explored by        *)
(* itself: none calls or reads another, so `part` says which one moves and *)
(* the rest stay as they begin.                                            *)
(***************************************************************************)
EXTENDS TLC, Subscriptions, Notices, Endpoint, Grants, Overrides, Uuid7, Comments,
        GuardedWrites, HistoryTrail, CommandSettings, SettingViews, Retention

CONSTANTS a, b, c, d, x, y, p, q, n1, n2, d1
VARIABLE part

Three == {a, b, c}
Two == {x, y}
Pair == {p, q}
Four == {a, b, c, d}
WithStaff == {x, y, d}
One == {d}
Symmetry == Permutations(Two) \cup Permutations(Pair)

\* A setting anyone may choose, and one that a missing feature limits.
Declared ==
    "free" :> [default |-> 1, feature |-> FALSE, without |-> "Default", bound |-> 1]
    @@ "capped" :> [default |-> 1, feature |-> TRUE, without |-> "AtMost", bound |-> 1]

Predicate(op, left, right) == [op |-> op, left |-> left, right |-> right]
Declarations ==
    [predicate: {Predicate("leaf", "is_owner", "is_owner"), Predicate("not", "is_owner", "is_owner"),
                 Predicate("or", "is_owner", "is_staff"), Predicate("and", "is_owner", "is_staff")},
     targets: {{"public"}, {"public", "private"}}]

\* A command whose selector "kdf" picks between the settings of two groups, "password" is
\* asked for only to encrypt, and "trace" is a setting the command leaves out.
Plain == [takes |-> {0, 1}, under |-> {}, default |-> 0, required |-> FALSE, included |-> TRUE,
          asked |-> TRUE, ask_when |-> {}, env_file |-> TRUE, only_when |-> {}, requires |-> {},
          excludes |-> {}, max |-> 9, soft_max |-> 9, soft_override |-> {}]
Command_Declares ==
    "kdf" :> [Plain EXCEPT !.takes = {1, 2}, !.default = 2]
    @@ "cost" :> [Plain EXCEPT !.takes = {1, 2, 3}, !.under = {1}, !.default = 1, !.max = 2,
                               !.soft_max = 1, !.soft_override = {"force"}]
    @@ "memory" :> [Plain EXCEPT !.under = {2}, !.asked = FALSE]
    @@ "encrypt" :> Plain
    @@ "password" :> [Plain EXCEPT !.required = TRUE, !.only_when = {"encrypt"},
                                   !.ask_when = {"encrypt"}, !.excludes = {"force"}]
    @@ "force" :> [Plain EXCEPT !.asked = FALSE]
    @@ "trace" :> [Plain EXCEPT !.included = FALSE]
Asked_First == <<"kdf", "cost", "memory", "encrypt", "password", "force", "trace">>
In_Places(args, option_file, env, env_file, current) ==
    [args |-> args, option_file |-> option_file, env |-> env, env_file |-> env_file,
     current |-> current]
Nowhere == In_Places(<<>>, {}, {}, {}, {})
Token(form, v) == [form |-> form, value |-> v]
As_Args(args) == [Nowhere EXCEPT !.args = args]
As_Option(v) == As_Args(<<Token("word", v)>>)
As_Variable(v) == [Nowhere EXCEPT !.env = {v}]
Offered ==
    [kdf: {Nowhere, As_Option(1), As_Option(3), As_Variable(1), As_Variable(3),
           [Nowhere EXCEPT !.option_file = {1}], [Nowhere EXCEPT !.env_file = {1}],
           [Nowhere EXCEPT !.current = {1}], In_Places(<<>>, {}, {1}, {2}, {}),
           In_Places(<<Token("word", 1), Token("word", 2)>>, {}, {1}, {}, {}),
           As_Args(<<Token("joined", 1)>>), As_Args(<<Token("word", 2), Token("joined", 1)>>),
           As_Args(<<Token("word", 1), Token("stray", 2)>>),
           In_Places(<<Token("stray", 3)>>, {}, {1}, {}, {})},
     cost: {Nowhere, As_Option(2), As_Variable(3),
            In_Places(<<Token("word", 1)>>, {2}, {}, {}, {2})},
     memory: {Nowhere, As_Option(1), As_Variable(1)},
     encrypt: {Nowhere, As_Variable(1), In_Places(<<Token("word", 0)>>, {}, {}, {}, {1})},
     password: {Nowhere, As_Option(1)},
     force: {Nowhere, As_Variable(1)},
     trace: {As_Variable(1)}]

\* A notice with a delivery, and one without.
Two_Notices == {n1, n2}
One_Delivery == {d1}
Of_First == d1 :> n1

\* Bound: of the grants committed, one at a time has yet to put its run off.
OneCall == Cardinality(called \cup {g \in GrantIds : asking[g] # Never}) <= 1

-----------------------------------------------------------------------------
Parts == {"subscriptions", "notices", "endpoint", "grants", "overrides", "uuid7", "comments",
          "guarded_writes", "history", "command", "settings", "retention"}

\* What a part that stays still begins as does not matter: one value each, and for the
\* command's nothing, its invocation being most of a state.
Still ==
    /\ part # "subscriptions" => policy = "default_off" /\ apart
    /\ part # "notices" => source = "application" /\ status = "active"
    /\ part # "grants" => prompt
    /\ part # "overrides" => has /\ at_once
    /\ part # "guarded_writes" => declared = CHOOSE declaration \in Declarations : TRUE
Init ==
    /\ part \in Parts
    /\ SubsInit /\ NoticesInit /\ EndpointInit /\ GrantsInit /\ OverridesInit /\ UuidInit
    /\ CommentsInit /\ GuardedInit /\ TrailInit
    /\ Still
    /\ IF part = "command" THEN CliInit ELSE offers = {} /\ cli = [at |-> "still"]
    /\ SettingsInit /\ RetentionInit

OthersStay ==
    /\ UNCHANGED part
    /\ IF part = "subscriptions" THEN TRUE ELSE UNCHANGED subsVars
    /\ IF part = "notices" THEN TRUE ELSE UNCHANGED noticesVars
    /\ IF part = "endpoint" THEN TRUE ELSE UNCHANGED endpointVars
    /\ IF part = "grants" THEN TRUE ELSE UNCHANGED grantsVars
    /\ IF part = "overrides" THEN TRUE ELSE UNCHANGED overridesVars
    /\ IF part = "uuid7" THEN TRUE ELSE UNCHANGED uuidVars
    /\ IF part = "comments" THEN TRUE ELSE UNCHANGED commentsVars
    /\ IF part = "guarded_writes" THEN TRUE ELSE UNCHANGED guardedVars
    /\ IF part = "history" THEN TRUE ELSE UNCHANGED trailVars
    /\ IF part = "command" THEN TRUE ELSE UNCHANGED cliVars
    /\ IF part = "settings" THEN TRUE ELSE UNCHANGED settingsVars
    /\ IF part = "retention" THEN TRUE ELSE UNCHANGED retentionVars

Next ==
    \/ part = "subscriptions" /\ SubsNext /\ OthersStay
    \/ part = "notices" /\ NoticesNext /\ OthersStay
    \/ part = "endpoint" /\ EndpointNext /\ OthersStay
    \/ part = "grants" /\ GrantsNext /\ OneCall' /\ OthersStay
    \/ part = "overrides" /\ OverridesNext /\ OthersStay
    \/ part = "uuid7" /\ UuidNext /\ OthersStay
    \/ part = "comments" /\ CommentsNext /\ OthersStay
    \/ part = "guarded_writes" /\ GuardedNext /\ OthersStay
    \/ part = "history" /\ TrailNext /\ OthersStay
    \/ part = "command" /\ CliNext /\ OthersStay
    \/ part = "settings" /\ SettingsNext /\ OthersStay
    \/ part = "retention" /\ RetentionNext /\ OthersStay
Spec == Init /\ [][Next]_<<part, subsVars, noticesVars, endpointVars, grantsVars, overridesVars,
                           uuidVars, commentsVars, guardedVars, trailVars, cliVars,
                           settingsVars, retentionVars>>
=============================================================================
