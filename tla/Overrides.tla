------------------------------ MODULE Overrides ------------------------------
(***************************************************************************)
(* One holder's settings: their row of overrides, written whole by each    *)
(* call that forces, releases or chooses one (features/operations.py), and *)
(* what each setting then is, in Python and in SQL                         *)
(* (features/resolution.py), while the feature they need comes and goes.   *)
(* Each call is one transaction at READ COMMITTED.                         *)
(***************************************************************************)
EXTENDS Integers, FiniteSets

CONSTANTS Changers, Settings, Values, ForceSources,
          SettingOf,        \* each's [default, feature, without, bound]
          Operators,        \* the sources whose forces staff may lift
          AtOnce            \* {FALSE}: no call is made while another is

VARIABLES row,              \* the overrides, by setting, as committed
          locked_by, has,   \* who holds the row; whether the feature is in force
          change, copy, before, \* each call, its copy of the row, and what the settings were
          meant,            \* what the calls that committed meant the row to be
          told, at_once     \* what setting_changed last told each setting to be; the regime
overridesVars == <<row, locked_by, has, change, copy, before, meant, told, at_once>>

Null == -1
Unset == [own |-> Null, forced |-> FALSE, forced_value |-> Null, source |-> "none"]
NoRow == [s \in Settings |-> Unset]
Over == [name |-> "none", at |-> "over"]
Calls == {"force", "set", "release", "release_all"}

ASSUME OverridesAssumption ==
    /\ Values \subseteq Nat /\ "none" \notin ForceSources /\ Operators \subseteq ForceSources
    /\ SettingOf \in [Settings -> [default: Values, feature: BOOLEAN, bound: Values,
                                   without: {"Default", "Fixed", "AtMost", "AtLeast"}]]

-----------------------------------------------------------------------------
LOCKING == {"Default", "Fixed"}
locked(setting) == IF setting.without = "Default" THEN setting.default ELSE setting.bound
Least(a, b) == IF a < b THEN a ELSE b
Greatest(a, b) == IF a < b THEN b ELSE a
apply(setting, value) ==
    IF setting.without = "AtMost" THEN Least(value, setting.bound) ELSE Greatest(value, setting.bound)

\* What a setting is, and why: forced, else what a missing feature does, else their own
\* choice, else the default.
resolved(of, s, holds) ==
    LET setting == SettingOf[s]
        value == IF of[s].own = Null THEN setting.default ELSE of[s].own
        chosen == IF of[s].own = Null THEN "default" ELSE "own"
        limited == apply(setting, value)
    IN IF of[s].forced THEN [value |-> of[s].forced_value, origin |-> "forced"]
       ELSE IF ~setting.feature \/ holds THEN [value |-> value, origin |-> chosen]
       ELSE IF setting.without \in LOCKING
       THEN [value |-> locked(setting), origin |-> "feature_missing"]
       ELSE [value |-> limited, origin |-> IF limited # value THEN "limited" ELSE chosen]

\* The same in SQL: the first branch that holds, of rows that EXISTS finds.
Coalesce_Own(a, b) == a
Coalesce(a, b) == IF a # Null THEN a ELSE b
Branches(of, s, holds) ==
    LET setting == SettingOf[s]
        value == Coalesce(of[s].own, setting.default)
        limited == IF setting.without \in LOCKING THEN locked(setting)
                   ELSE IF setting.without = "AtMost" THEN Least(value, setting.bound)
                   ELSE Greatest(value, setting.bound)
    IN {b \in {[rank |-> 1, when |-> of[s].forced, then |-> of[s].forced_value],
               [rank |-> 2, when |-> setting.feature /\ ~holds, then |-> limited],
               [rank |-> 3, when |-> TRUE, then |-> value]} : b.when}
FirstOf(branches) == CHOOSE b \in branches : \A other \in branches : b.rank <= other.rank
effective_expression(of, s, holds) == FirstOf(Branches(of, s, holds)).then

Everything(of, holds) == [s \in Settings |-> resolved(of, s, holds).value]

-----------------------------------------------------------------------------
OverridesInit ==
    /\ row = NoRow /\ meant = NoRow /\ locked_by = {} /\ has \in BOOLEAN /\ at_once \in AtOnce
    /\ change = [c \in Changers |-> [name |-> "none", at |-> "idle"]]
    /\ copy = [c \in Changers |-> NoRow]
    /\ before = [c \in Changers |-> Everything(NoRow, FALSE)]
    /\ told = Everything(NoRow, has)

Past(c, at) == change' = [change EXCEPT ![c].at = at]
Ends_Call(c) ==
    /\ change' = [change EXCEPT ![c] = Over] /\ locked_by' = locked_by \ {c}
    /\ copy' = [copy EXCEPT ![c] = NoRow]
    /\ before' = [before EXCEPT ![c] = Everything(NoRow, FALSE)]
Quiet == \A c \in Changers : change[c].at \in {"idle", "over"}

\* A call begins; what is not declared, or not one of the setting's values, is refused.
Asks(c) ==
    /\ change[c].at = "idle" /\ (~at_once => Quiet)
    /\ \E name \in Calls, s \in Settings, value \in Values, source \in ForceSources :
            change' = [change EXCEPT ![c] = [name |-> name, at |-> "asked", setting |-> s,
                                             value |-> value, source |-> source]]
    /\ UNCHANGED <<row, locked_by, has, copy, before, meant, told, at_once>>

\* _telling(): what the settings are before it - of a release of everything, once the
\* row is held.  Their own choice is refused while it is forced or locked.
Reads(c) ==
    /\ change[c].at = "asked"
    /\ IF /\ change[c].name = "set"
          /\ resolved(row, change[c].setting, has).origin \in {"forced", "feature_missing"}
       THEN Ends_Call(c)
       ELSE /\ before' = [before EXCEPT ![c] = Everything(row, has)]
            /\ Past(c, "lock") /\ UNCHANGED <<locked_by, copy>>
    /\ UNCHANGED <<row, has, meant, told, at_once>>

\* The row under FOR UPDATE, made if it is not there; to release one that is not forced
\* none is found.
_overrides_row_Unlocked(c) == copy' = [copy EXCEPT ![c] = row] /\ UNCHANGED locked_by
_overrides_row(c) == copy' = [copy EXCEPT ![c] = row] /\ locked_by = {} /\ locked_by' = {c}
Locks(c) ==
    /\ change[c].at = "lock"
    /\ IF change[c].name = "release" /\ ~row[change[c].setting].forced
       THEN Ends_Call(c)
       ELSE /\ _overrides_row(c)
            /\ before' = IF change[c].name = "release_all"
                         THEN [before EXCEPT ![c] = Everything(row, has)] ELSE before
            /\ Past(c, "write")
    /\ UNCHANGED <<row, has, meant, told, at_once>>

_unforce(set) == [set EXCEPT !.forced = FALSE, !.forced_value = Null, !.source = "none"]

\* The settings a call writes, of a row, and what it makes of each.
Written_By(c, of) ==
    IF change[c].name = "release_all" THEN {s \in Settings : of[s].source = change[c].source}
    ELSE {change[c].setting}
Becomes(c, set) ==
    IF change[c].name = "force"
    THEN [set EXCEPT !.forced = TRUE, !.forced_value = change[c].value, !.source = change[c].source]
    ELSE IF change[c].name = "set" THEN [set EXCEPT !.own = change[c].value]
    ELSE _unforce(set)
Rewritten(c, of) ==
    [s \in Settings |-> IF s \in Written_By(c, of) THEN Becomes(c, of[s]) ELSE of[s]]

\* checked_force() and checked_release(): a source that does not let staff lift its
\* forces declines.
checked_release(c) ==
    LET source == IF change[c].name = "release" THEN copy[c][change[c].setting].source
                  ELSE change[c].source
    IN change[c].name \in {"release", "release_all"} => source \in Operators

Saves(c) ==
    /\ change[c].at = "write"
    /\ IF checked_release(c)
       THEN /\ copy' = [copy EXCEPT ![c] = Rewritten(c, @)]
            /\ Past(c, "commit") /\ UNCHANGED <<locked_by, before>>
       ELSE Ends_Call(c)
    /\ UNCHANGED <<row, has, meant, told, at_once>>

\* Sent for each setting the call names whose value moved, and then committed.
After_Cached(c) == [s \in Settings |-> before[c][s]]
After(c) == Everything(copy[c], has)
Moved(c, s) == After(c)[s] # before[c][s]
Commits_Row(c) ==
    /\ change[c].at = "commit"
    /\ row' = copy[c]
    /\ meant' = Rewritten(c, meant)
    /\ told' = [s \in Settings |-> IF Moved(c, s) THEN After(c)[s] ELSE told[s]]
    /\ Ends_Call(c)
    /\ UNCHANGED <<has, at_once>>

Fails_Call(c) ==
    /\ change[c].at \in {"lock", "write", "commit"}
    /\ Ends_Call(c)
    /\ UNCHANGED <<row, has, meant, told, at_once>>

\* The feature comes into force or ends: each setting it unlocks that moved is told.
_tell_crossing ==
    /\ at_once \/ Quiet
    /\ has' = ~has
    /\ told' = [s \in Settings |->
            IF SettingOf[s].feature /\ resolved(row, s, has').value # resolved(row, s, has).value
            THEN resolved(row, s, has').value ELSE told[s]]
    /\ UNCHANGED <<row, locked_by, change, copy, before, meant, at_once>>

OverridesNext ==
    \/ _tell_crossing
    \/ \E c \in Changers : \/ Asks(c) \/ Reads(c) \/ Locks(c) \/ Saves(c)
                           \/ Commits_Row(c) \/ Fails_Call(c)
OverridesSpec == OverridesInit /\ [][OverridesNext]_overridesVars

-----------------------------------------------------------------------------
\* Each call writes the whole row, and none undoes another's setting: the row is what
\* each that committed meant of it.
WholeRowKept == row = meant

\* Calls made one at a time leave told what each setting is.
ToldWhatItIs == ~at_once /\ Quiet => told = Everything(row, has)

\* Python and SQL give every setting one value.
SqlAgrees == \A s \in Settings : effective_expression(row, s, has) = resolved(row, s, has).value
=============================================================================
