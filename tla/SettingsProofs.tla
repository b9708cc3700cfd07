---------------------------- MODULE SettingsProofs ---------------------------
(***************************************************************************)
(* Theorems about settings.  About Overrides, for any settings, values,    *)
(* sources and calls: no call undoes another's setting, Python and SQL     *)
(* agree, and calls made one at a time leave told what each setting is.    *)
(* About SettingViews, for any clients: a PATCH lands on the version it    *)
(* named.  About Grants, for any grants, clock and sweepers: a change due  *)
(* is told, and the next one is scheduled.  And about CommandSettings, for *)
(* any declarations and any invocation: a command that runs heeded all it  *)
(* was given.                                                              *)
(***************************************************************************)
EXTENDS Overrides, SettingViews, Grants, CommandSettings, WellFoundedInduction, TLAPS

Asked == [name: Calls, at: {"asked", "lock", "write", "commit"},
          setting: Settings, value: Values, source: ForceSources]
Override == [own: Values \cup {Null}, forced: BOOLEAN, forced_value: Values \cup {Null},
             source: ForceSources \cup {"none"}]

OverridesTypeOK ==
    /\ row \in [Settings -> Override]
    /\ change \in [Changers -> Asked \cup {[name |-> "none", at |-> "idle"], Over}]
    /\ copy \in [Changers -> [Settings -> Override]]
    /\ before \in [Changers -> [Settings -> Int]]

\* Whoever is to write, or has written, holds the row.
Holding == \A c \in Changers : change[c].at \in {"write", "commit"} => locked_by = {c}

\* And has a copy of it as it is, or as the call makes of it.
Copied ==
    \A c \in Changers : /\ change[c].at = "write" => copy[c] = row
                        /\ change[c].at = "commit" => copy[c] = Rewritten(c, row)

\* One call at a time: what was read before it still is, and what was told.
Under == {"asked", "lock", "write", "commit"}
OneCall ==
    ~at_once =>
        /\ \A c, d \in Changers : change[c].at \in Under /\ change[d].at \in Under => c = d
        /\ \A c \in Changers : change[c].at \in {"lock", "write", "commit"} =>
                before[c] = Everything(row, has)
        /\ told = Everything(row, has)

IInv == OverridesTypeOK /\ Holding /\ Copied /\ WholeRowKept

-----------------------------------------------------------------------------
LEMMA SettingTyped ==
  ASSUME NEW s \in Settings
  PROVE  /\ SettingOf[s].default \in Nat /\ SettingOf[s].bound \in Nat
         /\ SettingOf[s].default \in Values
         /\ SettingOf[s].without \in {"Default", "Fixed", "AtMost", "AtLeast"}
         /\ SettingOf[s].feature \in BOOLEAN
BY OverridesAssumption

LEMMA UnsetTyped == Unset \in Override /\ NoRow \in [Settings -> Override]
BY DEF Unset, Override, NoRow

\* A setting is a number, whatever makes it so.
LEMMA ResolvedTyped ==
  ASSUME NEW of \in [Settings -> Override], NEW s \in Settings, NEW holds
  PROVE  resolved(of, s, holds).value \in Int
<1>1. of[s] \in Override
  OBVIOUS
<1>2. of[s].own \in Values \cup {Null} /\ of[s].forced_value \in Values \cup {Null}
  BY <1>1 DEF Override
<1>3. Values \cup {Null} \subseteq Int
  BY OverridesAssumption DEF Null
<1> QED BY <1>2, <1>3, SettingTyped DEF resolved, locked, apply, Least, Greatest

LEMMA EverythingTyped ==
  ASSUME NEW of \in [Settings -> Override], NEW holds
  PROVE  Everything(of, holds) \in [Settings -> Int]
BY ResolvedTyped DEF Everything

\* A setting that needs no feature is the same whether or not it is in force.
LEMMA NeedsNone ==
  ASSUME NEW of, NEW s \in Settings, ~SettingOf[s].feature, NEW a, NEW b
  PROVE  resolved(of, s, a) = resolved(of, s, b)
BY DEF resolved

LEMMA BecomesTyped ==
  ASSUME OverridesTypeOK, NEW c \in Changers, change[c] \in Asked,
         NEW of \in [Settings -> Override]
  PROVE  Rewritten(c, of) \in [Settings -> Override]
<1>1. \A s \in Settings : of[s] \in Override
  OBVIOUS
<1>2. \A s \in Settings : Becomes(c, of[s]) \in Override
  <2> SUFFICES ASSUME NEW s \in Settings PROVE Becomes(c, of[s]) \in Override
    OBVIOUS
  <2>1. /\ of[s] \in Override
        /\ change[c].value \in Values /\ change[c].source \in ForceSources
    BY <1>1 DEF Asked
  <2>2. CASE change[c].name = "force"
    BY <2>1, <2>2 DEF Becomes, Override
  <2>3. CASE change[c].name = "set"
    BY <2>1, <2>3 DEF Becomes, Override
  <2>4. CASE change[c].name \notin {"force", "set"}
    BY <2>1, <2>4 DEF Becomes, _unforce, Override
  <2> QED BY <2>2, <2>3, <2>4
<1> QED BY <1>1, <1>2 DEF Rewritten

LEMMA IsAsked ==
  ASSUME OverridesTypeOK, NEW c \in Changers, change[c].at \in Under
  PROVE  change[c] \in Asked
BY DEF OverridesTypeOK, Under, Over

\* What a call makes of the row is the call's own, not where it is in it.
LEMMA SameRewrite ==
  ASSUME NEW c \in Changers, row' = row,
         change'[c].name = change[c].name, change'[c].setting = change[c].setting,
         change'[c].value = change[c].value, change'[c].source = change[c].source
  PROVE  Rewritten(c, row)' = Rewritten(c, row)
BY DEF Rewritten, Written_By, Becomes, _unforce

LEMMA PastIs ==
  ASSUME OverridesTypeOK, NEW c \in Changers, change[c].at \in Under,
         NEW at \in Under, Past(c, at)
  PROVE  /\ change' \in [Changers -> Asked \cup {[name |-> "none", at |-> "idle"], Over}]
         /\ change'[c].at = at
         /\ change'[c].name = change[c].name /\ change'[c].setting = change[c].setting
         /\ change'[c].value = change[c].value /\ change'[c].source = change[c].source
         /\ \A d \in Changers \ {c} : change'[d] = change[d]
<1>1. change[c] \in Asked
  BY IsAsked
<1>2. [change[c] EXCEPT !.at = at] \in Asked
  BY <1>1 DEF Asked, Under
<1>3. change' = [change EXCEPT ![c] = [change[c] EXCEPT !.at = at]]
  BY DEF Past, OverridesTypeOK
<1>4. change'[c] = [change[c] EXCEPT !.at = at]
  BY <1>3 DEF OverridesTypeOK
<1>5. /\ change'[c].at = at
      /\ change'[c].name = change[c].name /\ change'[c].setting = change[c].setting
      /\ change'[c].value = change[c].value /\ change'[c].source = change[c].source
  BY <1>1, <1>4 DEF Asked
<1> QED BY <1>2, <1>3, <1>5 DEF OverridesTypeOK

LEMMA EndsIs ==
  ASSUME OverridesTypeOK, NEW c \in Changers, Ends_Call(c)
  PROVE  /\ change' \in [Changers -> Asked \cup {[name |-> "none", at |-> "idle"], Over}]
         /\ change'[c].at = "over"
         /\ copy' \in [Changers -> [Settings -> Override]]
         /\ before' \in [Changers -> [Settings -> Int]]
         /\ \A d \in Changers \ {c} :
                change'[d] = change[d] /\ copy'[d] = copy[d] /\ before'[d] = before[d]
<1>1. NoRow \in [Settings -> Override] /\ Everything(NoRow, FALSE) \in [Settings -> Int]
  BY UnsetTyped, EverythingTyped
<1> QED BY <1>1 DEF Ends_Call, OverridesTypeOK, Over

-----------------------------------------------------------------------------
\* A call that ends without writing leaves the others what they hold.
LEMMA EndingKeeps ==
  ASSUME IInv, NEW c \in Changers, Ends_Call(c), UNCHANGED <<row, meant>>
  PROVE  IInv'
<1>1. OverridesTypeOK'
  BY EndsIs DEF IInv, OverridesTypeOK
<1>2. \A d \in Changers \ {c} :
          change[d].at \in {"write", "commit"} => locked_by = {d} /\ locked_by' = {d}
  BY DEF IInv, Holding, Ends_Call
<1>3. Holding'
  BY <1>2, EndsIs DEF IInv, Holding
<1>4. Copied'
  <2> SUFFICES ASSUME NEW d \in Changers, d # c,
                      change'[d].at \in {"write", "commit"}
               PROVE  /\ change'[d].at = "write" => copy'[d] = row'
                      /\ change'[d].at = "commit" => copy'[d] = Rewritten(d, row)'
    BY EndsIs DEF IInv, Copied
  <2>1. change'[d] = change[d] /\ copy'[d] = copy[d]
    BY EndsIs DEF IInv
  <2>2. Rewritten(d, row)' = Rewritten(d, row)
    BY <2>1, SameRewrite
  <2> QED BY <2>1, <2>2 DEF IInv, Copied
<1> QED BY <1>1, <1>3, <1>4 DEF IInv, WholeRowKept

\* A call's step that leaves the committed row, when it keeps what it owes itself.
LEMMA StepKeeps ==
  ASSUME IInv, NEW c \in Changers, change[c].at \in Under, NEW at \in Under, Past(c, at),
         UNCHANGED <<row, meant>>,
         copy' \in [Changers -> [Settings -> Override]],
         before' \in [Changers -> [Settings -> Int]],
         \A d \in Changers \ {c} : copy'[d] = copy[d],
         at \in {"write", "commit"} => locked_by' = {c},
         \A d \in Changers \ {c} : locked_by = {d} => at = "lock" /\ locked_by' = {d},
         at = "write" => copy'[c] = row,
         at = "commit" => copy'[c] = Rewritten(c, row)
  PROVE  IInv'
<1>1. OverridesTypeOK'
  BY PastIs DEF IInv, OverridesTypeOK
<1>2. Holding'
  BY PastIs DEF IInv, Holding
<1>3. Copied'
  <2> SUFFICES ASSUME NEW d \in Changers
               PROVE  /\ change'[d].at = "write" => copy'[d] = row'
                      /\ change'[d].at = "commit" => copy'[d] = Rewritten(d, row)'
    BY DEF Copied
  <2>1. Rewritten(d, row)' = Rewritten(d, row)
    <3>1. change'[d].name = change[d].name /\ change'[d].setting = change[d].setting
          /\ change'[d].value = change[d].value /\ change'[d].source = change[d].source
      BY PastIs DEF IInv
    <3> QED BY <3>1, SameRewrite
  <2>2. CASE d = c
    BY <2>1, <2>2, PastIs DEF IInv
  <2>3. CASE d # c
    BY <2>1, <2>3, PastIs DEF IInv, Copied
  <2> QED BY <2>2, <2>3
<1> QED BY <1>1, <1>2, <1>3 DEF IInv, WholeRowKept

LEMMA InitHolds == OverridesInit => IInv
<1> SUFFICES ASSUME OverridesInit PROVE IInv
  OBVIOUS
<1>1. OverridesTypeOK
  BY UnsetTyped, EverythingTyped DEF OverridesInit, OverridesTypeOK
<1>2. Holding /\ Copied /\ WholeRowKept
  BY DEF OverridesInit, Holding, Copied, WholeRowKept
<1> QED BY <1>1, <1>2 DEF IInv

LEMMA AsksKeeps == ASSUME IInv, NEW c \in Changers, Asks(c) PROVE IInv'
<1>1. PICK new \in Asked : new.at = "asked" /\ change' = [change EXCEPT ![c] = new]
  BY DEF Asks, Asked
<1>2. change'[c].at = "asked" /\ \A d \in Changers \ {c} : change'[d] = change[d]
  BY <1>1 DEF IInv, OverridesTypeOK
<1>3. OverridesTypeOK'
  BY <1>1 DEF Asks, IInv, OverridesTypeOK
<1>4. Holding'
  BY <1>2 DEF Asks, IInv, Holding
<1>5. \A d \in Changers \ {c} : Rewritten(d, row)' = Rewritten(d, row)
  BY <1>2, SameRewrite DEF Asks
<1>6. Copied'
  BY <1>2, <1>5 DEF Asks, IInv, Copied
<1> QED BY <1>3, <1>4, <1>6 DEF Asks, IInv, WholeRowKept

LEMMA ReadsKeeps == ASSUME IInv, NEW c \in Changers, Reads(c) PROVE IInv'
<1>1. CASE Ends_Call(c)
  BY <1>1, EndingKeeps DEF Reads
<1>2. CASE ~Ends_Call(c)
  <2>1. /\ change[c].at \in Under /\ Past(c, "lock")
        /\ before' = [before EXCEPT ![c] = Everything(row, has)]
        /\ UNCHANGED <<row, meant, locked_by, copy>>
    BY <1>2 DEF Reads, Under
  <2>2. before' \in [Changers -> [Settings -> Int]]
    BY <2>1, EverythingTyped DEF IInv, OverridesTypeOK
  <2>3. copy' \in [Changers -> [Settings -> Override]]
    BY <2>1 DEF IInv, OverridesTypeOK
  <2> QED BY <2>1, <2>2, <2>3, StepKeeps DEF Under
<1> QED BY <1>1, <1>2

LEMMA LocksKeeps == ASSUME IInv, NEW c \in Changers, Locks(c) PROVE IInv'
<1>1. CASE Ends_Call(c)
  BY <1>1, EndingKeeps DEF Locks
<1>2. CASE ~Ends_Call(c)
  <2>1. /\ change[c].at \in Under /\ Past(c, "write")
        /\ copy' = [copy EXCEPT ![c] = row] /\ locked_by = {} /\ locked_by' = {c}
        /\ UNCHANGED <<row, meant>>
        /\ before' = [before EXCEPT ![c] = Everything(row, has)] \/ before' = before
    BY <1>2 DEF Locks, _overrides_row, Under
  <2>2. before' \in [Changers -> [Settings -> Int]]
    BY <2>1, EverythingTyped DEF IInv, OverridesTypeOK
  <2>3. /\ copy' \in [Changers -> [Settings -> Override]] /\ copy'[c] = row
        /\ \A d \in Changers \ {c} : copy'[d] = copy[d]
    BY <2>1 DEF IInv, OverridesTypeOK
  <2>4. \A d \in Changers \ {c} : locked_by # {d}
    BY <2>1
  <2> QED BY <2>1, <2>2, <2>3, <2>4, StepKeeps DEF Under
<1> QED BY <1>1, <1>2

LEMMA SavesKeeps == ASSUME IInv, NEW c \in Changers, Saves(c) PROVE IInv'
<1>1. CASE Ends_Call(c)
  BY <1>1, EndingKeeps DEF Saves
<1>2. CASE ~Ends_Call(c)
  <2>1. /\ change[c].at = "write" /\ change[c].at \in Under /\ Past(c, "commit")
        /\ copy' = [copy EXCEPT ![c] = Rewritten(c, copy[c])]
        /\ UNCHANGED <<row, meant, locked_by, before>>
    BY <1>2 DEF Saves, Under
  <2>2. copy[c] = row /\ locked_by = {c}
    BY <2>1 DEF IInv, Copied, Holding
  <2>3. Rewritten(c, row) \in [Settings -> Override]
    BY <2>1, IsAsked, BecomesTyped DEF IInv, OverridesTypeOK
  <2>4. /\ copy' \in [Changers -> [Settings -> Override]] /\ copy'[c] = Rewritten(c, row)
        /\ \A d \in Changers \ {c} : copy'[d] = copy[d]
    BY <2>1, <2>2, <2>3 DEF IInv, OverridesTypeOK
  <2>5. \A d \in Changers \ {c} : locked_by # {d}
    BY <2>2
  <2> QED BY <2>1, <2>2, <2>4, <2>5, StepKeeps DEF Under, IInv, OverridesTypeOK
<1> QED BY <1>1, <1>2

\* The one that holds the row commits what its call makes of the row as it is.
LEMMA CommitsKeeps == ASSUME IInv, NEW c \in Changers, Commits_Row(c) PROVE IInv'
<1>1. /\ change[c].at = "commit" /\ Ends_Call(c) /\ row' = copy[c]
      /\ meant' = Rewritten(c, meant)
  BY DEF Commits_Row
<1>2. locked_by = {c} /\ copy[c] = Rewritten(c, row)
  BY <1>1 DEF IInv, Holding, Copied
<1>3. OverridesTypeOK'
  BY <1>1, EndsIs DEF IInv, OverridesTypeOK
<1>4. \A d \in Changers : change'[d].at \notin {"write", "commit"}
  BY <1>1, <1>2, EndsIs DEF IInv, Holding
<1>5. Holding' /\ Copied'
  BY <1>4 DEF Holding, Copied
<1>6. WholeRowKept'
  BY <1>1, <1>2 DEF IInv, WholeRowKept
<1> QED BY <1>3, <1>5, <1>6 DEF IInv

LEMMA OtherwiseKeeps ==
  ASSUME IInv, UNCHANGED <<row, locked_by, change, copy, before, meant>>
  PROVE  IInv'
<1>1. \A c \in Changers : Rewritten(c, row)' = Rewritten(c, row)
  BY SameRewrite
<1> QED BY <1>1 DEF IInv, OverridesTypeOK, Holding, Copied, WholeRowKept

LEMMA NextHolds == IInv /\ [OverridesNext]_overridesVars => IInv'
<1> SUFFICES ASSUME IInv, [OverridesNext]_overridesVars PROVE IInv'
  OBVIOUS
<1>1. CASE UNCHANGED overridesVars
  BY <1>1, OtherwiseKeeps DEF overridesVars
<1>2. CASE _tell_crossing
  BY <1>2, OtherwiseKeeps DEF _tell_crossing
<1>3. ASSUME NEW c \in Changers, Asks(c) \/ Reads(c) PROVE IInv'
  BY <1>3, AsksKeeps, ReadsKeeps
<1>4. ASSUME NEW c \in Changers, Locks(c) \/ Saves(c) PROVE IInv'
  BY <1>4, LocksKeeps, SavesKeeps
<1>5. ASSUME NEW c \in Changers, Commits_Row(c) PROVE IInv'
  BY <1>5, CommitsKeeps
<1>6. ASSUME NEW c \in Changers, Fails_Call(c) PROVE IInv'
  BY <1>6, EndingKeeps DEF Fails_Call
<1> QED BY <1>1, <1>2, <1>3, <1>4, <1>5, <1>6 DEF OverridesNext

LEMMA Inductive == OverridesSpec => []IInv
BY InitHolds, NextHolds, PTL DEF OverridesSpec

\* Every call writes the whole row of overrides, and none undoes another's setting: the
\* row is what each that committed meant of it, with any calls at once.
THEOREM NoSettingUndone == OverridesSpec => []WholeRowKept
<1>1. IInv => WholeRowKept
  BY DEF IInv
<1> QED BY <1>1, Inductive, PTL

-----------------------------------------------------------------------------
\* The branch that SQL takes: the one of least rank.
LEMMA FirstBranch ==
  ASSUME NEW branches, NEW first \in branches,
         \A other \in branches \ {first} : ~(other.rank <= first.rank),
         \A other \in branches : first.rank <= other.rank
  PROVE  FirstOf(branches) = first
<1> DEFINE Q(b) == b \in branches /\ \A other \in branches : b.rank <= other.rank
<1>1. Q(first)
  OBVIOUS
<1>2. \A b : Q(b) => b = first
  OBVIOUS
<1> QED BY <1>1, <1>2 DEF FirstOf

\* The SQL that a setting's value is queried with gives what Python resolves, for every
\* row, setting and feature.
LEMMA SqlIsPython ==
  ASSUME NEW of \in [Settings -> Override], NEW s \in Settings, NEW holds \in BOOLEAN
  PROVE  effective_expression(of, s, holds) = resolved(of, s, holds).value
<1> DEFINE setting == SettingOf[s]
           value == IF of[s].own = Null THEN setting.default ELSE of[s].own
           limited == IF setting.without \in LOCKING THEN locked(setting)
                      ELSE IF setting.without = "AtMost" THEN Least(value, setting.bound)
                      ELSE Greatest(value, setting.bound)
           forced == [rank |-> 1, when |-> of[s].forced, then |-> of[s].forced_value]
           missing == [rank |-> 2, when |-> setting.feature /\ ~holds, then |-> limited]
           selected == [rank |-> 3, when |-> TRUE, then |-> value]
<1>1. \A b : b \in Branches(of, s, holds) <=> \/ b = forced /\ of[s].forced
                                              \/ b = missing /\ setting.feature /\ ~holds
                                              \/ b = selected
  <2>1. Branches(of, s, holds) = {b \in {forced, missing, selected} : b.when}
    BY DEF Branches, Coalesce
  <2>2. forced.when <=> of[s].forced
    OBVIOUS
  <2>3. missing.when <=> setting.feature /\ ~holds
    OBVIOUS
  <2>4. selected.when
    OBVIOUS
  <2> HIDE DEF forced, missing, selected, setting
  <2> QED BY <2>1, <2>2, <2>3, <2>4, Zenon
<1>2. forced.rank = 1 /\ missing.rank = 2 /\ selected.rank = 3
  OBVIOUS
<1>3. /\ forced.then = of[s].forced_value /\ missing.then = limited /\ selected.then = value
  OBVIOUS
<1> HIDE DEF forced, missing, selected
<1>4. CASE of[s].forced
  <2>1. FirstOf(Branches(of, s, holds)) = forced
    <3>1. forced \in Branches(of, s, holds)
      BY <1>1, <1>4
    <3>2. \A other \in Branches(of, s, holds) \ {forced} :
            ~(other.rank <= forced.rank) /\ forced.rank <= other.rank
      BY <1>1, <1>2, <1>4
    <3>3. forced.rank <= forced.rank
      BY <1>2
    <3> QED BY <3>1, <3>2, <3>3, FirstBranch
  <2> QED BY <1>3, <1>4, <2>1 DEF resolved, effective_expression
<1>5. CASE ~of[s].forced /\ setting.feature /\ ~holds
  <2>1. FirstOf(Branches(of, s, holds)) = missing
    <3>1. missing \in Branches(of, s, holds)
      BY <1>1, <1>5
    <3>2. \A other \in Branches(of, s, holds) \ {missing} :
            ~(other.rank <= missing.rank) /\ missing.rank <= other.rank
      BY <1>1, <1>2, <1>5
    <3>3. missing.rank <= missing.rank
      BY <1>2
    <3> QED BY <3>1, <3>2, <3>3, FirstBranch
  <2>2. effective_expression(of, s, holds) = limited
    <3> HIDE DEF limited
    <3> QED BY <1>3, <2>1 DEF effective_expression
  <2>3. resolved(of, s, holds).value = limited
    BY <1>5 DEF resolved, apply
  <2> QED BY <2>2, <2>3
<1>6. CASE ~of[s].forced /\ ~(setting.feature /\ ~holds)
  <2>1. FirstOf(Branches(of, s, holds)) = selected
    <3>1. selected \in Branches(of, s, holds)
      BY <1>1, <1>6
    <3>2. \A other \in Branches(of, s, holds) \ {selected} :
            ~(other.rank <= selected.rank) /\ selected.rank <= other.rank
      BY <1>1, <1>2, <1>6
    <3>3. selected.rank <= selected.rank
      BY <1>2
    <3> QED BY <3>1, <3>2, <3>3, FirstBranch
  <2> QED BY <1>3, <1>6, <2>1 DEF resolved, effective_expression
<1> QED BY <1>4, <1>5, <1>6

\* Python and SQL give every setting one value in every state.
THEOREM SqlAgreesHolds == OverridesSpec => []SqlAgrees
<1> DEFINE HasTyped == has \in BOOLEAN
<1>1. OverridesInit => HasTyped
  BY DEF OverridesInit
<1>2. HasTyped /\ [OverridesNext]_overridesVars => HasTyped'
  <2> SUFFICES ASSUME HasTyped, [OverridesNext]_overridesVars PROVE HasTyped'
    OBVIOUS
  <2>1. CASE _tell_crossing
    BY <2>1 DEF _tell_crossing
  <2>2. ASSUME NEW c \in Changers,
               Asks(c) \/ Reads(c) \/ Locks(c) \/ Saves(c) \/ Commits_Row(c) \/ Fails_Call(c)
        PROVE  has' = has
    BY <2>2 DEF Asks, Reads, Locks, Saves, Commits_Row, Fails_Call
  <2> QED BY <2>1, <2>2 DEF OverridesNext, overridesVars
<1>3. OverridesSpec => []HasTyped
  <2> HIDE DEF HasTyped
  <2> QED BY <1>1, <1>2, PTL DEF OverridesSpec
<1>4. IInv /\ HasTyped => SqlAgrees
  BY SqlIsPython DEF SqlAgrees, IInv, OverridesTypeOK
<1> QED BY <1>3, <1>4, Inductive, PTL

-----------------------------------------------------------------------------
LEMMA OneCallInit == OverridesInit => OneCall
<1> SUFFICES ASSUME OverridesInit PROVE OneCall
  OBVIOUS
<1>1. \A c \in Changers : change[c].at = "idle"
  BY DEF OverridesInit
<1>2. told = Everything(row, has)
  BY DEF OverridesInit
<1> QED BY <1>1, <1>2 DEF OneCall, Under

\* A step that moves no row, feature or telling, and starts no second call.
LEMMA OneCallStep ==
  ASSUME IInv, OneCall, NEW c \in Changers, UNCHANGED <<row, has, told, at_once>>,
         \A d \in Changers \ {c} : change'[d].at = change[d].at /\ before'[d] = before[d],
         change'[c].at \in Under => change[c].at \in Under \/ Quiet,
         change'[c].at \in {"lock", "write", "commit"} =>
            before'[c] = Everything(row, has) \/ (before'[c] = before[c]
                                                  /\ change[c].at \in {"lock", "write", "commit"})
  PROVE  OneCall'
<1> SUFFICES ASSUME ~at_once PROVE OneCall'
  BY DEF OneCall
<1>1. Everything(row, has)' = Everything(row, has)
  BY DEF Everything, resolved
<1>2. Quiet => \A d \in Changers : change[d].at \notin Under
  BY DEF Quiet, Under
<1>3. \A a, d \in Changers : change'[a].at \in Under /\ change'[d].at \in Under => a = d
  BY <1>2 DEF OneCall
<1>4. \A d \in Changers : change'[d].at \in {"lock", "write", "commit"} =>
                before'[d] = Everything(row, has)
  BY DEF OneCall
<1> QED BY <1>1, <1>3, <1>4 DEF OneCall

LEMMA OneCallEnds ==
  ASSUME IInv, OneCall, NEW c \in Changers, Ends_Call(c), UNCHANGED <<row, has, told, at_once>>
  PROVE  OneCall'
<1>1. change'[c].at = "over"
  BY EndsIs DEF IInv
<1>2. \A d \in Changers \ {c} : change'[d].at = change[d].at /\ before'[d] = before[d]
  BY EndsIs DEF IInv
<1> QED BY <1>1, <1>2, OneCallStep DEF Under

LEMMA OneCallCommit == ASSUME IInv, OneCall, NEW c \in Changers, Commits_Row(c) PROVE OneCall'
<1> SUFFICES ASSUME ~at_once PROVE OneCall'
  BY DEF OneCall, Commits_Row
<1>1. /\ change[c].at = "commit" /\ Ends_Call(c) /\ row' = copy[c] /\ has' = has
      /\ told' = [s \in Settings |-> IF Moved(c, s) THEN After(c)[s] ELSE told[s]]
      /\ at_once' = at_once
  BY DEF Commits_Row
<1>2. \A d \in Changers : change'[d].at \notin Under
  <2>1. \A d \in Changers \ {c} : change[d].at \notin Under
    BY <1>1 DEF OneCall, Under
  <2> QED BY <1>1, <2>1, EndsIs DEF IInv, Under
<1>3. before[c] = Everything(row, has) /\ told = Everything(row, has)
  BY <1>1 DEF OneCall
<1>4. Everything(row, has)' = After(c)
  BY <1>1 DEF After, Everything, resolved
<1>5. \A s \in Settings : told'[s] = After(c)[s]
  BY <1>1, <1>3 DEF Moved
<1>6. told' = After(c)
  BY <1>1, <1>5 DEF After, Everything
<1> QED BY <1>2, <1>4, <1>6 DEF OneCall, Under

LEMMA OneCallCrossing == ASSUME IInv, OneCall, _tell_crossing PROVE OneCall'
<1> SUFFICES ASSUME ~at_once PROVE OneCall'
  BY DEF OneCall, _tell_crossing
<1>1. /\ Quiet /\ has' = ~has /\ UNCHANGED <<row, change, before, at_once>>
      /\ told' = [s \in Settings |->
            IF SettingOf[s].feature /\ resolved(row, s, has').value # resolved(row, s, has).value
            THEN resolved(row, s, has').value ELSE told[s]]
  BY DEF _tell_crossing
<1>2. \A d \in Changers : change'[d].at \notin Under
  BY <1>1 DEF Quiet, Under
<1>3. \A s \in Settings : told[s] = resolved(row, s, has).value
  BY DEF OneCall, Everything
<1>4. \A s \in Settings : told'[s] = resolved(row, s, has').value
  BY <1>1, <1>3, NeedsNone
<1>5. told' = [s \in Settings |-> resolved(row, s, has').value]
  BY <1>1, <1>4
<1>6. Everything(row, has)' = [s \in Settings |-> resolved(row, s, has').value]
  BY <1>1 DEF Everything, resolved
<1> QED BY <1>2, <1>5, <1>6 DEF OneCall, Under

LEMMA OneCallNext == IInv /\ OneCall /\ [OverridesNext]_overridesVars => OneCall'
<1> SUFFICES ASSUME IInv, OneCall, [OverridesNext]_overridesVars PROVE OneCall'
  OBVIOUS
<1>1. CASE UNCHANGED overridesVars
  BY <1>1 DEF overridesVars, OneCall, Everything, resolved
<1>2. CASE _tell_crossing
  BY <1>2, OneCallCrossing
<1>3. ASSUME NEW c \in Changers, Asks(c) PROVE OneCall'
  <2> SUFFICES ASSUME ~at_once PROVE OneCall'
    BY <1>3 DEF OneCall, Asks
  <2>1. /\ Quiet /\ UNCHANGED <<row, has, told, at_once, before>>
        /\ change'[c].at = "asked" /\ \A d \in Changers \ {c} : change'[d] = change[d]
    BY <1>3 DEF Asks, IInv, OverridesTypeOK
  <2> QED BY <2>1, OneCallStep
<1>4. ASSUME NEW c \in Changers, Reads(c) PROVE OneCall'
  <2>1. CASE Ends_Call(c)
    BY <1>4, <2>1, OneCallEnds DEF Reads
  <2>2. CASE ~Ends_Call(c)
    <3>1. /\ change[c].at \in Under /\ Past(c, "lock")
          /\ before' = [before EXCEPT ![c] = Everything(row, has)]
          /\ UNCHANGED <<row, has, told, at_once>>
      BY <1>4, <2>2 DEF Reads, Under
    <3>2. \A d \in Changers \ {c} : change'[d] = change[d] /\ before'[d] = before[d]
      BY <3>1, PastIs DEF IInv, OverridesTypeOK, Under
    <3>3. before'[c] = Everything(row, has)
      BY <3>1 DEF IInv, OverridesTypeOK
    <3> QED BY <3>1, <3>2, <3>3, OneCallStep
  <2> QED BY <2>1, <2>2
<1>5. ASSUME NEW c \in Changers, Locks(c) PROVE OneCall'
  <2>1. CASE Ends_Call(c)
    BY <1>5, <2>1, OneCallEnds DEF Locks
  <2>2. CASE ~Ends_Call(c)
    <3>1. /\ change[c].at = "lock" /\ change[c].at \in Under /\ Past(c, "write")
          /\ before' = [before EXCEPT ![c] = Everything(row, has)] \/ before' = before
          /\ UNCHANGED <<row, has, told, at_once>>
      BY <1>5, <2>2 DEF Locks, Under
    <3>2. \A d \in Changers \ {c} : change'[d] = change[d] /\ before'[d] = before[d]
      BY <3>1, PastIs DEF IInv, OverridesTypeOK, Under
    <3>3. before'[c] = Everything(row, has) \/ before'[c] = before[c]
      BY <3>1 DEF IInv, OverridesTypeOK
    <3> QED BY <3>1, <3>2, <3>3, OneCallStep
  <2> QED BY <2>1, <2>2
<1>6. ASSUME NEW c \in Changers, Saves(c) PROVE OneCall'
  <2>1. CASE Ends_Call(c)
    BY <1>6, <2>1, OneCallEnds DEF Saves
  <2>2. CASE ~Ends_Call(c)
    <3>1. /\ change[c].at = "write" /\ change[c].at \in Under /\ Past(c, "commit")
          /\ UNCHANGED <<row, has, told, at_once, before>>
      BY <1>6, <2>2 DEF Saves, Under
    <3>2. \A d \in Changers \ {c} : change'[d] = change[d]
      BY <3>1, PastIs DEF IInv, Under
    <3> QED BY <3>1, <3>2, OneCallStep
  <2> QED BY <2>1, <2>2
<1>7. ASSUME NEW c \in Changers, Commits_Row(c) PROVE OneCall'
  BY <1>7, OneCallCommit
<1>8. ASSUME NEW c \in Changers, Fails_Call(c) PROVE OneCall'
  BY <1>8, OneCallEnds DEF Fails_Call
<1> QED BY <1>1, <1>2, <1>3, <1>4, <1>5, <1>6, <1>7, <1>8 DEF OverridesNext

\* When calls are made one at a time, each setting is what setting_changed last told it
\* to be, however calls and the feature's coming and going follow on one another.
THEOREM ToldIsTrue == OverridesSpec => []ToldWhatItIs
<1>1. OneCall => ToldWhatItIs
  BY DEF OneCall, ToldWhatItIs
<1>2. OverridesSpec => []OneCall
  BY OneCallInit, OneCallNext, Inductive, PTL DEF OverridesSpec
<1> QED BY <1>1, <1>2, PTL

-----------------------------------------------------------------------------
OnAny == On_Row \cup On_Holder
SettingsRow == [exists: BOOLEAN, version: Nat, chosen: [On_Row -> Own_Values \cup {Not_Chosen}],
                forced: SUBSET OnAny]
Busy == [at: {"comparing", "creating", "setting", "answering"}, said: {"nothing"},
         name: OnAny, value: Own_Values, star: BOOLEAN, named: Nat, row: SettingsRow]
SettingsTypeOK ==
    /\ settings_row \in SettingsRow /\ row_holder \in Clients \cup {Nobody_Holds}
    /\ holder_fields \in [On_Holder -> Own_Values \cup {Not_Chosen}]
    /\ patch \in [Clients -> Busy \cup [at: {"idle"}, said: {"nothing", "refused", "ok"}]]
    /\ known \in [Clients -> Nat]

\* A row that is not there has no version but the defaults'.
NotThere == ~settings_row.exists => settings_row = No_Settings

\* A PATCH that is to make the row named the defaults' version, or any.
Creating(c) == patch[c].at = "creating" => patch[c].star \/ patch[c].named = Defaults_Etag

\* One that writes holds the row, whose version it named, and changes its setting alone.
Writing(c) ==
    patch[c].at \in {"setting", "answering"} =>
        /\ row_holder = c /\ Named(c)
        /\ patch[c].row.forced = settings_row.forced
        /\ \A other \in On_Row \ {patch[c].name} :
                patch[c].row.chosen[other] = settings_row.chosen[other]
        /\ patch[c].at = "answering" => patch[c].name \notin settings_row.forced

SettingsInv == SettingsTypeOK /\ NotThere /\ \A c \in Clients : Creating(c) /\ Writing(c)

LEMMA NoSettingsTyped == No_Settings \in SettingsRow
BY DEF No_Settings, SettingsRow, Defaults_Etag

LEMMA SettingsInitHolds == SettingsInit => SettingsInv
BY NoSettingsTyped
   DEF SettingsInit, SettingsInv, SettingsTypeOK, NotThere, Creating, Writing, No_Patch, Busy,
       Defaults_Etag

\* A request that is on its way is one with all its parts.
LEMMA BusyTyped ==
    ASSUME SettingsTypeOK, NEW c \in Clients, patch[c].at # "idle"
    PROVE  patch[c] \in Busy
BY DEF SettingsTypeOK

\* Whoever holds nothing but its own request leaves the others as they are.
LEMMA OthersKeep ==
    ASSUME SettingsInv, NEW c \in Clients, NEW e \in Clients, e # c, patch'[e] = patch[e],
           settings_row' = settings_row, row_holder = e => row_holder' = e
    PROVE  Creating(e)' /\ Writing(e)'
BY DEF SettingsInv, Creating, Writing, Named, etag

LEMMA RefusalKeeps ==
    ASSUME SettingsInv, NEW c \in Clients, Refuses_Patch(c)
    PROVE  SettingsInv'
<1>1. SettingsTypeOK' /\ NotThere'
  BY DEF Refuses_Patch, SettingsInv, SettingsTypeOK, NotThere, No_Patch
<1>2. Creating(c)' /\ Writing(c)'
  BY DEF Refuses_Patch, SettingsInv, SettingsTypeOK, Creating, Writing, No_Patch
<1>3. ASSUME NEW e \in Clients, e # c PROVE Creating(e)' /\ Writing(e)'
  <2>1. patch'[e] = patch[e] /\ settings_row' = settings_row /\ (row_holder = e => row_holder' = e)
    BY <1>3 DEF Refuses_Patch, SettingsInv, SettingsTypeOK
  <2> QED BY <1>3, <2>1, OthersKeep
<1> QED BY <1>1, <1>2, <1>3 DEF SettingsInv

\* A request gets on to its next step, its row the one it is to write.
LEMMA GoesOn ==
    ASSUME SettingsTypeOK, NEW c \in Clients, patch[c] \in Busy, NEW at, NEW r \in SettingsRow,
           at \in {"comparing", "creating", "setting", "answering"}, Goes_On(c, at, r)
    PROVE  /\ patch' \in [Clients -> Busy \cup [at: {"idle"}, said: {"nothing", "refused", "ok"}]]
           /\ patch'[c].at = at /\ patch'[c].row = r /\ patch'[c].name = patch[c].name
           /\ patch'[c].star = patch[c].star /\ patch'[c].named = patch[c].named
           /\ \A e \in Clients \ {c} : patch'[e] = patch[e]
BY DEF SettingsTypeOK, Goes_On, Busy

LEMMA PatchAsksKeep ==
    ASSUME SettingsInv, NEW c \in Clients,
           \/ lists(c)
           \/ \E name \in OnAny, value \in Own_Values, star \in BOOLEAN :
                    partial_update(c, name, value, star)
    PROVE  SettingsInv'
<1>1. CASE lists(c)
  BY <1>1 DEF lists, SettingsInv, SettingsTypeOK, SettingsRow, NotThere, Creating, Writing,
              Named, etag
<1>2. ASSUME NEW name \in OnAny, NEW value \in Own_Values, NEW star \in BOOLEAN,
             partial_update(c, name, value, star), name \notin settings_row.forced
      PROVE  SettingsInv'
  <2> DEFINE asked == [at |-> "comparing", said |-> "nothing", name |-> name, value |-> value,
                       star |-> star, named |-> known[c], row |-> No_Settings]
  <2>1. /\ patch' = [patch EXCEPT ![c] = asked]
        /\ UNCHANGED <<settings_row, holder_fields, row_holder, known>>
    BY <1>2 DEF partial_update
  <2>2. asked \in Busy
    BY NoSettingsTyped DEF SettingsInv, SettingsTypeOK, Busy
  <2>3. SettingsTypeOK' /\ NotThere'
    BY <2>1, <2>2 DEF SettingsInv, SettingsTypeOK, NotThere
  <2>4. Creating(c)' /\ Writing(c)'
    BY <2>1 DEF SettingsInv, SettingsTypeOK, Creating, Writing
  <2>5. ASSUME NEW e \in Clients, e # c PROVE Creating(e)' /\ Writing(e)'
    BY <2>1, <2>5, OthersKeep DEF SettingsInv, SettingsTypeOK
  <2> QED BY <2>3, <2>4, <2>5 DEF SettingsInv
<1> QED BY <1>1, <1>2, RefusalKeeps DEF partial_update

\* The request alone has moved, with the row it is to write, and it may hold the row.
LEMMA MovedKeeps ==
    ASSUME SettingsInv, NEW c \in Clients, patch[c] \in Busy, NEW at, NEW r \in SettingsRow,
           at \in {"comparing", "creating", "setting", "answering"}, Goes_On(c, at, r),
           UNCHANGED <<settings_row, holder_fields, known>>,
           row_holder' = row_holder \/ (row_holder = Nobody_Holds /\ row_holder' = c),
           at = "creating" => patch[c].star \/ patch[c].named = Defaults_Etag,
           at \in {"setting", "answering"} =>
                /\ row_holder' = c /\ Named(c) /\ r.forced = settings_row.forced
                /\ \A other \in On_Row \ {patch[c].name} :
                        r.chosen[other] = settings_row.chosen[other]
                /\ at = "answering" => patch[c].name \notin settings_row.forced
    PROVE  SettingsInv'
<1>1. /\ patch' \in [Clients -> Busy \cup [at: {"idle"}, said: {"nothing", "refused", "ok"}]]
      /\ patch'[c].at = at /\ patch'[c].row = r /\ patch'[c].name = patch[c].name
      /\ patch'[c].star = patch[c].star /\ patch'[c].named = patch[c].named
      /\ \A e \in Clients \ {c} : patch'[e] = patch[e]
  BY GoesOn DEF SettingsInv
<1>2. SettingsTypeOK' /\ NotThere'
  BY <1>1 DEF SettingsInv, SettingsTypeOK, NotThere
<1>3. Creating(c)' /\ Writing(c)'
  BY <1>1 DEF Creating, Writing, Named, etag
<1>4. ASSUME NEW e \in Clients, e # c PROVE Creating(e)' /\ Writing(e)'
  BY <1>1, <1>4, OthersKeep, SettingViewsAssumption
<1> QED BY <1>2, <1>3, <1>4 DEF SettingsInv

LEMMA ComparesKeep == ASSUME SettingsInv, NEW c \in Clients, compared(c) PROVE SettingsInv'
<1>1. CASE ~Named(c)
  BY <1>1, RefusalKeeps DEF compared
<1>2. CASE Named(c) /\ settings_row.exists
  <2>1. patch[c] \in Busy /\ settings_row \in SettingsRow
    BY BusyTyped DEF compared, SettingsInv, SettingsTypeOK
  <2>2. /\ Goes_On(c, "setting", settings_row) /\ row_holder' = c /\ row_holder = Nobody_Holds
        /\ UNCHANGED <<settings_row, holder_fields, known>>
    BY <1>2 DEF compared, Lockable
  <2> QED BY <1>2, <2>1, <2>2, MovedKeeps
<1>3. CASE Named(c) /\ ~settings_row.exists
  <2>1. patch[c] \in Busy
    BY BusyTyped DEF compared, SettingsInv
  <2>2. /\ Goes_On(c, "creating", No_Settings)
        /\ UNCHANGED <<settings_row, holder_fields, known, row_holder>>
    BY <1>3 DEF compared
  <2>3. patch[c].star \/ patch[c].named = Defaults_Etag
    BY <1>3 DEF SettingsInv, NotThere, Named, etag, No_Settings
  <2> QED BY <2>1, <2>2, <2>3, NoSettingsTyped, MovedKeeps
<1> QED BY <1>1, <1>2, <1>3

LEMMA CreatesKeep == ASSUME SettingsInv, NEW c \in Clients, creates(c) PROVE SettingsInv'
<1>1. CASE settings_row.exists
  BY <1>1, RefusalKeeps DEF creates
<1>2. CASE ~settings_row.exists
  <2> DEFINE r == [No_Settings EXCEPT !.exists = TRUE]
  <2>1. patch[c] \in Busy /\ r \in SettingsRow
    BY BusyTyped, NoSettingsTyped DEF creates, SettingsInv, SettingsRow
  <2>2. /\ settings_row = No_Settings
        /\ r.forced = settings_row.forced /\ r.chosen = settings_row.chosen
    BY <1>2 DEF SettingsInv, NotThere, No_Settings
  <2>3. /\ Goes_On(c, "setting", r) /\ row_holder' = c /\ row_holder = Nobody_Holds
        /\ UNCHANGED <<settings_row, holder_fields, known>>
    BY <1>2 DEF creates
  <2>4. Named(c)
    BY <2>2 DEF SettingsInv, creates, Creating, Named, etag, No_Settings
  <2> HIDE DEF r
  <2> QED BY <2>1, <2>2, <2>3, <2>4, MovedKeeps
<1> QED BY <1>1, <1>2

LEMMA SetsKeep == ASSUME SettingsInv, NEW c \in Clients, sets(c) PROVE SettingsInv'
<1>1. CASE Refuses_Patch(c)
  BY <1>1, RefusalKeeps
<1>2. CASE ~Refuses_Patch(c)
  <2> DEFINE name == patch[c].name
             old_row == patch[c].row
             r == [old_row EXCEPT !.chosen = IF name \in On_Row
                                             THEN [@ EXCEPT ![name] = patch[c].value] ELSE @]
  <2>1. patch[c] \in Busy /\ patch[c].at = "setting"
    BY BusyTyped DEF sets, SettingsInv
  <2>2. old_row \in SettingsRow /\ patch[c].value \in Own_Values
    BY <2>1 DEF Busy
  <2>3. r \in SettingsRow
    BY <2>2 DEF SettingsRow
  <2>4. /\ r.forced = old_row.forced
        /\ \A other \in On_Row \ {name} : r.chosen[other] = old_row.chosen[other]
    BY <2>2 DEF SettingsRow
  <2>5. /\ name \notin old_row.forced
        /\ UNCHANGED <<settings_row, holder_fields, row_holder, known>>
    BY <1>2 DEF sets
  <2>6. patch' = [patch EXCEPT ![c].at = "answering", ![c].row = r]
    BY <1>2, <2>1 DEF sets, Busy, SettingsInv, SettingsTypeOK
  <2>7. /\ row_holder = c /\ Named(c) /\ old_row.forced = settings_row.forced
        /\ \A other \in On_Row \ {name} : old_row.chosen[other] = settings_row.chosen[other]
    BY <2>1 DEF SettingsInv, Writing
  <2>8. Goes_On(c, "answering", r)
    BY <2>6 DEF Goes_On
  <2> HIDE DEF r
  <2> QED BY <2>1, <2>3, <2>4, <2>5, <2>7, <2>8, MovedKeeps
<1> QED BY <1>1, <1>2

LEMMA SavedTyped ==
    ASSUME SettingsTypeOK, NEW r \in SettingsRow PROVE As_Saved(r) \in SettingsRow
<1>1. settings_row.version + 1 \in Nat
  BY DEF SettingsTypeOK, SettingsRow
<1>2. ASSUME NEW v \in Nat PROVE [r EXCEPT !.exists = TRUE, !.version = v] \in SettingsRow
  BY DEF SettingsRow
<1> QED BY <1>1, <1>2 DEF SettingsTypeOK, As_Saved

\* A row is written over only by who holds it or finds it free, and nobody else was to
\* write it.
LEMMA WrittenKeeps ==
    ASSUME SettingsInv, NEW r \in SettingsRow, r.exists, settings_row' = As_Saved(r),
           NEW e \in Clients, patch'[e] = patch[e], row_holder # e
    PROVE  NotThere' /\ Creating(e)' /\ Writing(e)'
BY DEF SettingsInv, NotThere, Creating, Writing, As_Saved, SettingsTypeOK, SettingsRow

LEMMA StaffKeep ==
    ASSUME SettingsInv, NEW forced \in SUBSET OnAny, Staff_Saves(forced)
    PROVE  SettingsInv'
<1> DEFINE r == [settings_row EXCEPT !.exists = TRUE, !.forced = forced]
<1>1. r \in SettingsRow /\ r.exists
  BY DEF SettingsInv, SettingsTypeOK, SettingsRow
<1>2. settings_row' = As_Saved(r) /\ row_holder = Nobody_Holds
      /\ UNCHANGED <<holder_fields, row_holder, patch, known>>
  BY DEF Staff_Saves, Lockable
<1> HIDE DEF r
<1>3. SettingsTypeOK'
  BY <1>1, <1>2, SavedTyped DEF SettingsInv, SettingsTypeOK
<1>4. NotThere'
  BY <1>1, <1>2 DEF NotThere, As_Saved, SettingsInv, SettingsTypeOK, SettingsRow
<1>5. ASSUME NEW e \in Clients PROVE Creating(e)' /\ Writing(e)'
  BY <1>1, <1>2, <1>5, WrittenKeeps, SettingViewsAssumption
<1> QED BY <1>3, <1>4, <1>5 DEF SettingsInv

LEMMA CommitsKeep == ASSUME SettingsInv, NEW c \in Clients, commits(c) PROVE SettingsInv'
<1>1. patch[c] \in Busy /\ patch[c].at = "answering" /\ row_holder = c
  BY BusyTyped DEF commits, SettingsInv, Writing
<1>2. patch[c].row \in SettingsRow /\ patch[c].name \in OnAny /\ patch[c].value \in Own_Values
  BY <1>1 DEF Busy
<1>3. settings_row' = As_Saved(patch[c].row) /\ settings_row' \in SettingsRow
  BY <1>2, SavedTyped DEF commits, SettingsInv
<1>4. SettingsTypeOK'
  BY <1>2, <1>3 DEF commits, SettingsInv, SettingsTypeOK, No_Patch, etag, SettingsRow
<1>5. NotThere'
  BY <1>3 DEF NotThere, As_Saved, SettingsInv, SettingsTypeOK, SettingsRow
<1>6. Creating(c)' /\ Writing(c)'
  BY DEF commits, SettingsInv, SettingsTypeOK, Creating, Writing, No_Patch
<1>7. ASSUME NEW e \in Clients, e # c PROVE Creating(e)' /\ Writing(e)'
  <2>1. patch'[e] = patch[e]
    BY <1>7 DEF commits, SettingsInv, SettingsTypeOK
  <2> QED BY <1>1, <1>3, <1>7, <2>1 DEF SettingsInv, NotThere, Creating, Writing, As_Saved,
              SettingsTypeOK, SettingsRow, No_Settings
<1> QED BY <1>4, <1>5, <1>6, <1>7 DEF SettingsInv

LEMMA SettingsNextHolds == SettingsInv /\ [SettingsNext]_settingsVars => SettingsInv'
<1> SUFFICES ASSUME SettingsInv, [SettingsNext]_settingsVars PROVE SettingsInv'
  OBVIOUS
<1>1. CASE UNCHANGED settingsVars
  BY <1>1 DEF settingsVars, SettingsInv, SettingsTypeOK, NotThere, Creating, Writing, Named, etag
<1>2. ASSUME NEW c \in Clients,
             \/ lists(c)
             \/ \E name \in OnAny, value \in Own_Values, star \in BOOLEAN :
                    partial_update(c, name, value, star)
      PROVE  SettingsInv'
  BY <1>2, PatchAsksKeep
<1>3. ASSUME NEW c \in Clients, compared(c) \/ creates(c) \/ sets(c) \/ commits(c) \/ dies(c)
      PROVE  SettingsInv'
  BY <1>3, ComparesKeep, CreatesKeep, SetsKeep, CommitsKeep, RefusalKeeps DEF dies
<1>4. ASSUME NEW name \in OnAny, forces(name) \/ releases(name) PROVE SettingsInv'
  <2>1. settings_row.forced \in SUBSET OnAny
    BY DEF SettingsInv, SettingsTypeOK, SettingsRow
  <2> QED BY <1>4, <2>1, StaffKeep DEF forces, releases
<1> QED BY <1>1, <1>2, <1>3, <1>4 DEF SettingsNext, OnAny

\* A PATCH answered as done named the version it landed on, of a setting nobody had forced,
\* and left the others alone, for any clients and settings - the first two at once included.
THEOREM PatchLandsOnNamed == SettingsSpec => AppliedToNamed
<1>1. SettingsInv /\ [SettingsNext]_settingsVars =>
        [\A c \in Clients : patch[c].at = "answering" /\ patch'[c].said = "ok" =>
            /\ Named(c)
            /\ patch[c].name \notin settings_row.forced
            /\ settings_row'.forced = settings_row.forced
            /\ \A other \in On_Row \ {patch[c].name} :
                    settings_row'.chosen[other] = settings_row.chosen[other]]_settingsVars
  <2> SUFFICES ASSUME SettingsInv, SettingsNext, NEW c \in Clients,
                      patch[c].at = "answering", patch'[c].said = "ok"
               PROVE  /\ Named(c)
                      /\ patch[c].name \notin settings_row.forced
                      /\ settings_row'.forced = settings_row.forced
                      /\ \A other \in On_Row \ {patch[c].name} :
                              settings_row'.chosen[other] = settings_row.chosen[other]
    OBVIOUS
  <2>1. patch[c] \in Busy /\ patch[c].said = "nothing"
    BY BusyTyped DEF SettingsInv, Busy
  <2>2. commits(c)
    <3>1. DOMAIN patch = Clients /\ patch'[c] # patch[c]
      BY <2>1 DEF SettingsInv, SettingsTypeOK
    <3>2. ASSUME NEW d \in Clients, dies(d) PROVE FALSE
      BY <3>1, <3>2 DEF dies, Refuses_Patch, No_Patch
    <3>3. ASSUME NEW d \in Clients, lists(d) \/ compared(d) \/ creates(d) \/ sets(d) PROVE FALSE
      BY <3>1, <3>3 DEF lists, compared, creates, sets, Refuses_Patch, Goes_On, No_Patch
    <3>4. ASSUME NEW d \in Clients, commits(d) PROVE d = c
      BY <3>1, <3>4 DEF commits
    <3>5. ASSUME NEW d \in Clients, NEW name, NEW value, NEW star, partial_update(d, name, value, star)
          PROVE  FALSE
      BY <3>1, <3>5 DEF partial_update, Refuses_Patch, No_Patch
    <3>6. ASSUME NEW name, forces(name) \/ releases(name) PROVE FALSE
      BY <3>1, <3>6 DEF forces, releases, Staff_Saves
    <3> QED BY <3>2, <3>3, <3>4, <3>5, <3>6 DEF SettingsNext
  <2>3. settings_row' = As_Saved(patch[c].row) /\ patch[c].row \in SettingsRow
    BY <2>1, <2>2 DEF commits, Busy
  <2>4. Writing(c)
    BY DEF SettingsInv
  <2> QED BY <2>3, <2>4 DEF Writing, As_Saved, SettingsRow
<1>2. SettingsSpec => []SettingsInv
  BY SettingsInitHolds, SettingsNextHolds, PTL DEF SettingsSpec
<1> QED BY <1>1, <1>2, PTL DEF SettingsSpec, AppliedToNamed

-----------------------------------------------------------------------------
\* What a grant, and its revocation, are: a grant has a span, and is made, and revoked,
\* before now.
OneGrant == [starts_at : Time, expires_at : Time \cup {Never}, created_at : Time]
GrantsTyped ==
    /\ clock \in Time /\ prompt \in BOOLEAN /\ held \in BOOLEAN /\ lost \in BOOLEAN
    /\ grants \in [GrantIds -> OneGrant \cup {Ungranted}]
    /\ revoked_at \in [GrantIds -> Time \cup {Never}]
    /\ swept_at \in Time \cup {Never} /\ next_sweep_at \in Time \cup {Never}
    /\ scheduled \subseteq Nat /\ sweeping \in [Sweepers -> Time \cup {Never}]
    /\ called \subseteq GrantIds /\ asking \in [GrantIds -> Time \cup {Never}]

Gone(t) == t = Never \/ t <= clock
Behind_Now ==
    /\ Gone(swept_at) /\ \A s \in Sweepers : Gone(sweeping[s])
    /\ \A g \in Granted : grants[g].created_at <= clock
    /\ \A g \in GrantIds : /\ Gone(revoked_at[g]) /\ (revoked_at[g] # Never => g \in Granted)
                           /\ Gone(asking[g])

\* Once the sweep has caught up, calls are made: every grant and revocation is from before
\* the cursor, and no sweep is behind it.
InTurn ==
    prompt =>
        /\ \A r, s \in Sweepers : sweeping[r] # Never /\ sweeping[s] # Never => r = s
        /\ \A s \in Sweepers : swept_at # Never => swept_at <= sweeping[s]
        /\ \A g \in Granted : swept_at # Never /\ grants[g].created_at <= swept_at
        /\ \A g \in GrantIds : revoked_at[g] # Never => revoked_at[g] <= swept_at

\* What was last told is what held at the cursor.
ToldAtCursor ==
    prompt => held = (swept_at # Never /\ live_grants(swept_at) # {})

\* A grant's boundaries to come, and whom they are left to: a call that is still to read
\* the clock, or that read it once the run last put off was due.
Coming(g) == {b \in ByTime(g) : b > clock}
Entrusted(g) == g \in called \/ (asking[g] # Never /\ next_sweep_at <= asking[g])

\* The run of the next sweep's time is put off, or on its way, or over with every boundary
\* to come left to its grant's own call.
NextRuns ==
    /\ swept_at = Never => next_sweep_at = Never
    /\ ~lost /\ next_sweep_at # Never =>
        \/ next_sweep_at \in scheduled
        \/ \E s \in Sweepers : sweeping[s] # Never /\ next_sweep_at <= sweeping[s]
        \/ next_sweep_at <= clock /\ \A g \in Active : Coming(g) # {} => Entrusted(g)

GrantsInv == GrantsTyped /\ Behind_Now /\ InTurn /\ ToldAtCursor /\ NextRuns /\ NextIsScheduled

\* Numbers have a least one, and those of a span a greatest.
Below == {pair \in Nat \X Nat : pair[1] < pair[2]}
LEMMA Nearest ==
  ASSUME NEW T \in SUBSET Nat, T # {}
  PROVE  Min(T) \in T /\ \A t \in T : Min(T) <= t
<1>1. IsWellFoundedOn(Below, Nat)
  BY NatLessThanWellFounded DEF OpToRel, Below
<1>2. PICK m \in T : \A t \in T : ~(<<t, m>> \in Below)
  BY <1>1, WFMin
<1>3. ASSUME NEW t \in T PROVE m <= t
  <2>1. ~(t < m)
    BY <1>2 DEF Below
  <2> QED BY <2>1
<1> QED BY <1>2, <1>3 DEF Min

LEMMA Farthest ==
  ASSUME NEW n \in Nat, NEW T \in SUBSET (0..n), T # {}
  PROVE  Max(T) \in T /\ \A t \in T : t <= Max(T)
<1> DEFINE Rest == {n - t : t \in T}
<1>1. Rest \in SUBSET Nat /\ Rest # {}
  <2>1. \A t \in T : n - t \in Nat
    OBVIOUS
  <2> QED BY <2>1
<1>2. PICK m \in T : n - m = Min(Rest)
  BY <1>1, Nearest
<1>3. ASSUME NEW t \in T PROVE m >= t
  <2>1. n - m <= n - t
    BY <1>1, <1>2, Nearest
  <2> QED BY <2>1
<1> QED BY <1>2, <1>3 DEF Max

-----------------------------------------------------------------------------
LEMMA ClockIs == MaxClock \in Nat /\ Never = MaxClock + 1 /\ Never \notin Time /\ Time \subseteq Nat
BY GrantsAssumption DEF Never, Time

LEMMA GrantIs ==
  ASSUME GrantsTyped, NEW g \in Granted
  PROVE  /\ g \in GrantIds /\ grants[g] \in OneGrant
         /\ grants[g].starts_at \in Time /\ grants[g].expires_at \in Time \cup {Never}
         /\ grants[g].created_at \in Time
<1>1. g \in GrantIds /\ grants[g] \in OneGrant
  BY DEF Granted, GrantsTyped
<1> QED BY <1>1 DEF OneGrant

LEMMA UngrantedIs == Ungranted \notin OneGrant
BY ClockIs DEF Ungranted, OneGrant

\* In force is what holds now.
LEMMA InForceIs ==
  ASSUME GrantsTyped, Behind_Now
  PROVE  In_force <=> live_grants(clock) # {}
<1>1. \A g \in GrantIds : revoked_at[g] = Never <=> revoked_at[g] > clock
  BY ClockIs DEF GrantsTyped, Behind_Now, Gone, Time
<1> QED BY <1>1 DEF In_force, live_grants, Active, Granted, revoked_after

\* The boundaries between the cursor and `n` that moved the feature.
Crossed(n) == {t \in Crossings(swept_at, n) : (live_before(t) = {}) # (live_grants(t) = {})}

LEMMA CrossedIs ==
  ASSUME NEW n \in Time, GrantsTyped, swept_at # Never, NEW t \in Crossed(n)
  PROVE  t \in Time /\ swept_at < t /\ t <= n
<1>1. PICK g \in Granted : t \in ByTime(g)
  BY DEF Crossed, Crossings
<1> QED BY <1>1, GrantIs DEF Crossed, Crossings, ByTime

\* After the cursor, nothing but a boundary makes what holds another.
LEMMA OnlyAtBoundary ==
  ASSUME GrantsInv, prompt, swept_at # Never, NEW n \in Time, NEW t \in Time,
         swept_at < t, t <= n, t - 1 \in Nat,
         (live_grants(t - 1) = {}) # (live_grants(t) = {})
  PROVE  t \in Crossed(n)
<1> USE DEF GrantsInv
<1>1. swept_at \in Nat /\ t \in Nat /\ t # Never /\ t < Never
  BY ClockIs DEF GrantsTyped, Time
<1>2. \A g \in Granted : /\ grants[g].starts_at \in Nat /\ grants[g].expires_at \in Nat
                         /\ revoked_at[g] \in Nat /\ grants[g].created_at \in Nat
                         /\ grants[g].created_at < t /\ revoked_at[g] # t
  BY ClockIs, GrantIs, <1>1 DEF GrantsTyped, InTurn, Time
<1>3. live_before(t) = live_grants(t - 1)
  <2>1. ASSUME NEW g \in Granted
        PROVE  /\ grants[g].starts_at < t <=> grants[g].starts_at <= t - 1
               /\ grants[g].expires_at >= t <=> grants[g].expires_at > t - 1
               /\ revoked_at[g] >= t <=> revoked_at[g] > t - 1
    BY <1>1, <1>2
  <2> QED BY <2>1 DEF live_before, live_grants, revoked_after
<1>4. PICK g \in Granted : revoked_at[g] > t /\ t \in {grants[g].starts_at, grants[g].expires_at}
  <2>1. PICK g \in Granted : (g \in live_before(t)) # (g \in live_grants(t))
    BY <1>3 DEF live_before, live_grants
  <2> QED BY <1>1, <1>2, <2>1 DEF live_before, live_grants, revoked_after
<1>5. t \in ByTime(g) /\ revoked_after(g, t)
  BY <1>1, <1>2, <1>4 DEF ByTime, revoked_after
<1> QED BY <1>3, <1>5 DEF Crossed, Crossings

\* Where no boundary is crossed between two moments, what holds at one holds at the other.
LEMMA HoldsBetween ==
  ASSUME GrantsInv, prompt, swept_at # Never, NEW n \in Time, NEW m \in Time,
         swept_at <= m, m <= n,
         \A t \in Crossed(n) : t <= m
  PROVE  (live_grants(n) = {}) = (live_grants(m) = {})
<1> DEFINE T == {t \in m..n : (live_grants(t) = {}) # (live_grants(m) = {})}
<1>1. SUFFICES ASSUME T # {} PROVE FALSE
  BY ClockIs DEF Time
<1>2. T \in SUBSET Nat /\ swept_at \in Nat /\ m \in Nat /\ n \in Nat /\ n <= MaxClock
  BY ClockIs DEF Time, GrantsInv, GrantsTyped
<1>3. Min(T) \in T /\ \A t \in T : Min(T) <= t
  BY <1>1, <1>2, Nearest
<1> DEFINE k == Min(T)
<1>4. k \in Nat /\ m < k /\ k <= n /\ (live_grants(k) = {}) # (live_grants(m) = {})
  <2>1. k \in m..n /\ (live_grants(k) = {}) # (live_grants(m) = {})
    BY <1>3
  <2> HIDE DEF k
  <2>2. k # m
    BY <2>1
  <2> QED BY <1>2, <2>1, <2>2
<1>5. (live_grants(k - 1) = {}) = (live_grants(m) = {})
  <2>1. k - 1 \in m..n /\ ~(k <= k - 1)
    BY <1>2, <1>4
  <2>2. k - 1 \notin T
    BY <1>3, <2>1
  <2> QED BY <2>1, <2>2
<1> HIDE DEF k
<1>6. k \in Time /\ k - 1 \in Nat /\ swept_at < k
  <2>1. k <= MaxClock /\ k - 1 \in Nat
    BY <1>2, <1>4, ClockIs
  <2>2. swept_at < k
    BY <1>2, <1>4
  <2> QED BY <1>4, <2>1, <2>2, ClockIs DEF Time
<1>7. k \in Crossed(n)
  BY <1>4, <1>5, <1>6, OnlyAtBoundary
<1> QED BY <1>2, <1>4, <1>7

\* So what a sweep tells is what holds at the time it swept to.
LEMMA SweepTells ==
  ASSUME GrantsInv, prompt, NEW n \in Time, swept_at # Never => swept_at <= n,
         held' = IF swept_at = Never \/ Crossed(n) = {} THEN held ELSE live_grants(Max(Crossed(n))) # {}
  PROVE  held' = (live_grants(n) # {})
<1>1. CASE swept_at = Never
  <2>1. Granted = {}
    BY <1>1 DEF GrantsInv, InTurn
  <2>2. live_grants(n) = {} /\ held = FALSE
    BY <1>1, <2>1 DEF live_grants, GrantsInv, ToldAtCursor
  <2> QED BY <1>1, <2>2
<1>2. CASE swept_at # Never
  <2>1. swept_at \in Time /\ held = (live_grants(swept_at) # {}) /\ GrantsTyped
    BY <1>2 DEF GrantsInv, ToldAtCursor, GrantsTyped
  <2>2. CASE Crossed(n) = {}
    <3>1. (live_grants(n) = {}) = (live_grants(swept_at) = {})
      BY <1>2, <2>1, <2>2, HoldsBetween, ClockIs
    <3> QED BY <2>1, <2>2, <3>1
  <2>3. CASE Crossed(n) # {}
    <3>1. Crossed(n) \in SUBSET (0..n) /\ n \in Nat
      BY <1>2, <2>1, CrossedIs, ClockIs DEF Time
    <3>2. Max(Crossed(n)) \in Crossed(n) /\ \A t \in Crossed(n) : t <= Max(Crossed(n))
      BY <2>3, <3>1, Farthest
    <3>3. Max(Crossed(n)) \in Time /\ swept_at <= Max(Crossed(n)) /\ Max(Crossed(n)) <= n
      <4>1. \A t \in Crossed(n) : t \in Time /\ swept_at < t /\ t <= n
        BY <1>2, <2>1, CrossedIs
      <4>2. \A t \in Time : swept_at < t => swept_at <= t
        BY <2>1 DEF Time
      <4> QED BY <3>2, <4>1, <4>2
    <3>4. (live_grants(n) = {}) = (live_grants(Max(Crossed(n))) = {})
      BY <1>2, <2>1, <3>2, <3>3, ClockIs, HoldsBetween
    <3> QED BY <1>2, <2>3, <3>4
  <2> QED BY <2>2, <2>3
<1> QED BY <1>1, <1>2

-----------------------------------------------------------------------------
\* Every step keeps a grant's shape, and what is past past.
LEMMA GrantsInitHolds == GrantsInit => GrantsInv
<1> SUFFICES ASSUME GrantsInit PROVE GrantsInv
  OBVIOUS
<1>1. GrantsTyped
  <2>1. clock \in Time /\ prompt \in BOOLEAN
    BY GrantsAssumption DEF GrantsInit, Time
  <2> QED BY <2>1 DEF GrantsInit, GrantsTyped
<1>2. Granted = {} /\ swept_at = Never
  BY DEF GrantsInit, Granted
<1>3. Behind_Now /\ InTurn
  BY <1>2 DEF GrantsInit, Behind_Now, Gone, InTurn
<1>4. ToldAtCursor /\ NextRuns /\ NextIsScheduled
  BY <1>2 DEF GrantsInit, ToldAtCursor, NextRuns, NextIsScheduled
<1> QED BY <1>1, <1>3, <1>4 DEF GrantsInv

\* The boundaries after `now` of the grants that are active.
Ahead(now) == {t \in UNION {ByTime(g) : g \in Active} : t > now}

\* What schedule_next_sweep() leaves: what was put off stays so, and a run is put off to
\* no later than each boundary to come, or was already.
LEMMA Schedules ==
  ASSUME GrantsTyped, NEW now \in Time, NEW cursor, schedule_next_sweep(now, cursor)
  PROVE  /\ scheduled' \subseteq Nat /\ scheduled \subseteq scheduled'
         /\ next_sweep_at' \in Time \cup {Never}
         /\ lost' = (lost /\ next_sweep_at # Never /\ now < next_sweep_at)
         /\ cursor = Never => next_sweep_at' = next_sweep_at
         /\ cursor # Never =>
              \/ Ahead(now) = {} /\ UNCHANGED <<scheduled, next_sweep_at>>
              \/ /\ next_sweep_at # Never /\ now < next_sweep_at
                 /\ \A t \in Ahead(now) : next_sweep_at <= t
                 /\ UNCHANGED <<scheduled, next_sweep_at>>
              \/ next_sweep_at' \in scheduled' /\ \A t \in Ahead(now) : next_sweep_at' <= t
<1> DEFINE ahead == Ahead(now)
           soon == now + SWEEP_LOOKAHEAD
           due == Min({soon} \cup ahead)
<1>1. ahead \subseteq Time
  BY GrantIs DEF Ahead, Active, ByTime
<1>2. now \in Nat /\ soon \in Nat /\ {soon} \cup ahead \in SUBSET Nat
  <2>1. now \in Nat /\ soon \in Nat
    BY ClockIs, GrantsAssumption
  <2> QED BY <1>1, <2>1, ClockIs
<1>3. due \in {soon} \cup ahead /\ \A t \in {soon} \cup ahead : due <= t
  BY <1>2, Nearest
<1>4. due \in Nat /\ (ahead # {} => due \in Time)
  <2>1. CASE ahead = {}
    BY <1>2, <1>3, <2>1
  <2>2. CASE ahead # {}
    <3>1. PICK t \in ahead : TRUE
      BY <2>2
    <3>2. due <= t /\ t \in Time /\ due \in Nat
      BY <1>1, <1>2, <1>3, <3>1
    <3> QED BY <3>2, ClockIs DEF Time
  <2> QED BY <2>1, <2>2
<1>5. /\ IF cursor = Never
         THEN scheduled' = scheduled \cup {now} /\ UNCHANGED next_sweep_at
         ELSE IF ahead = {} \/ Standing(now, due)
         THEN UNCHANGED <<scheduled, next_sweep_at>>
         ELSE scheduled' = scheduled \cup {due} /\ next_sweep_at' = due
      /\ lost' = (lost /\ next_sweep_at # Never /\ now < next_sweep_at)
  BY DEF schedule_next_sweep, Ahead
<1> HIDE DEF due, soon, ahead
<1>6. CASE cursor = Never
  BY <1>2, <1>5, <1>6 DEF GrantsTyped
<1>7. CASE cursor # Never /\ ahead = {}
  BY <1>5, <1>7 DEF GrantsTyped, ahead
<1>8. CASE cursor # Never /\ Standing(now, due)
  <2>1. next_sweep_at \in Nat
    BY ClockIs DEF GrantsTyped
  <2>2. \A t \in ahead : next_sweep_at <= t
    <3> SUFFICES ASSUME NEW t \in ahead PROVE next_sweep_at <= t
      OBVIOUS
    <3>1. t \in Nat /\ due <= t /\ next_sweep_at <= due
      BY <1>1, <1>3, <1>8, ClockIs DEF Standing
    <3> QED BY <1>4, <2>1, <3>1
  <2> QED BY <1>5, <1>8, <2>2 DEF GrantsTyped, Standing, ahead
<1>9. CASE cursor # Never /\ ahead # {} /\ ~Standing(now, due)
  BY <1>3, <1>4, <1>5, <1>9 DEF GrantsTyped, ahead
<1> QED BY <1>6, <1>7, <1>8, <1>9

\* A grant made adds one, in force or to come: with a boundary to come, a call to make.
LEMMA GrantAdds ==
  ASSUME GrantsInv, NEW g \in GrantIds, grant(g)
  PROVE  \E from \in Time, to \in Time \cup {Never} :
           /\ grants' = [grants EXCEPT ![g] = [starts_at |-> from, expires_at |-> to,
                                               created_at |-> clock]]
           /\ grants'[g] \in OneGrant
           /\ held' = IF AsWritten(from, to) /\ ~In_force THEN TRUE ELSE held
           /\ called' = IF from > clock \/ to # Never THEN called \cup {g} ELSE called
           /\ g \notin Granted /\ Granted' = Granted \cup {g} /\ Active' = Active \cup {g}
           /\ revoked_at[g] = Never /\ revoked_at' = revoked_at
<1>1. PICK from \in Time, to \in Time \cup {Never} :
         /\ grants' = [grants EXCEPT ![g] = [starts_at |-> from, expires_at |-> to,
                                             created_at |-> clock]]
         /\ held' = IF AsWritten(from, to) /\ ~In_force THEN TRUE ELSE held
         /\ called' = IF from > clock \/ to # Never THEN called \cup {g} ELSE called
  BY DEF grant
<1>2. grants'[g] = [starts_at |-> from, expires_at |-> to, created_at |-> clock]
  BY <1>1 DEF GrantsInv, GrantsTyped
<1>3. grants'[g] \in OneGrant
  BY <1>2 DEF GrantsInv, GrantsTyped, OneGrant
<1>4. g \notin Granted /\ revoked_at[g] = Never /\ revoked_at' = revoked_at
  BY DEF grant, GrantsInv, Granted, Behind_Now
<1>5. Ungranted' = Ungranted /\ Never' = Never
  BY DEF Ungranted, Never
<1>6. Granted' = Granted \cup {g}
  <2>1. \A h \in GrantIds : h # g => grants'[h] = grants[h]
    BY <1>1 DEF GrantsInv, GrantsTyped
  <2> QED BY <1>3, <1>5, <2>1, UngrantedIs DEF Granted
<1>7. Active' = Active \cup {g}
  BY <1>4, <1>5, <1>6 DEF Active
<1> QED BY <1>1, <1>3, <1>4, <1>6, <1>7

LEMMA SweepIs ==
  ASSUME GrantsInv, NEW s \in Sweepers, sweep_boundaries(s)
  PROVE  /\ sweeping[s] \in Time /\ sweeping[s] <= clock /\ swept_at' = sweeping[s]
         /\ held' = IF swept_at = Never \/ Crossed(sweeping[s]) = {} THEN held
                    ELSE live_grants(Max(Crossed(sweeping[s]))) # {}
         /\ schedule_next_sweep(sweeping[s], sweeping[s])
         /\ sweeping' = [sweeping EXCEPT ![s] = Never]
         /\ UNCHANGED <<clock, grants, revoked_at, callVars, prompt>>
BY DEF GrantsInv, GrantsTyped, Behind_Now, Gone, sweep_boundaries, Crossed

LEMMA TypedNext == GrantsInv /\ [GrantsNext]_grantsVars => GrantsTyped' /\ Behind_Now'
<1> SUFFICES ASSUME GrantsInv, [GrantsNext]_grantsVars PROVE GrantsTyped' /\ Behind_Now'
  OBVIOUS
<1> USE DEF GrantsInv
<1>0. Never' = Never /\ Time' = Time /\ OneGrant' = OneGrant /\ Ungranted' = Ungranted
  BY DEF Never, Time, OneGrant, Ungranted
<1>1. CASE UNCHANGED grantsVars
  BY <1>0, <1>1 DEF grantsVars, callVars, GrantsTyped, Behind_Now, Gone, Granted
<1>2. CASE Passes
  <2>1. clock' \in Time /\ clock' = clock + 1 /\ clock \in Nat
    BY <1>2, ClockIs DEF Passes, GrantsTyped, Time
  <2>2. GrantsTyped'
    BY <1>0, <1>2, <2>1 DEF Passes, GrantsTyped, callVars
  <2>3. \A t \in Time \cup {Never} : Gone(t) => t = Never \/ t <= clock'
    BY <2>1, ClockIs DEF Gone, Time
  <2>4. \A g \in Granted : grants[g].created_at \in Time /\ grants[g].created_at <= clock'
    BY <2>1, GrantIs, ClockIs DEF Behind_Now, Time
  <2> QED BY <1>0, <1>2, <2>2, <2>3, <2>4
          DEF Passes, GrantsTyped, Behind_Now, Gone, Granted, callVars
<1>3. CASE revoke
  <2>1. clock <= clock
    BY ClockIs DEF GrantsTyped
  <2> QED BY <1>0, <1>3, <2>1
          DEF revoke, GrantsTyped, Behind_Now, Gone, Granted, Active, callVars
<1>4. CASE LosesRun
  BY <1>0, <1>4 DEF LosesRun, GrantsTyped, Behind_Now, Gone, Granted, callVars
<1>5. ASSUME NEW g \in GrantIds, grant(g) PROVE GrantsTyped' /\ Behind_Now'
  <2>1. PICK from \in Time, to \in Time \cup {Never} :
           /\ grants' = [grants EXCEPT ![g] = [starts_at |-> from, expires_at |-> to,
                                               created_at |-> clock]]
           /\ grants'[g] \in OneGrant
           /\ held' = IF AsWritten(from, to) /\ ~In_force THEN TRUE ELSE held
           /\ called' = IF from > clock \/ to # Never THEN called \cup {g} ELSE called
           /\ g \notin Granted /\ Granted' = Granted \cup {g} /\ Active' = Active \cup {g}
           /\ revoked_at[g] = Never /\ revoked_at' = revoked_at
    BY <1>5, GrantAdds
  <2>2. \A h \in GrantIds : h # g => grants'[h] = grants[h]
    BY <2>1 DEF GrantsTyped
  <2>3. grants' \in [GrantIds -> OneGrant \cup {Ungranted}]
    BY <2>1, <2>2 DEF GrantsTyped
  <2>4. called' \subseteq GrantIds
    BY <2>1 DEF GrantsTyped
  <2>5. GrantsTyped'
    BY <1>0, <1>5, <2>1, <2>3, <2>4 DEF grant, GrantsTyped
  <2>6. grants'[g].created_at = clock /\ clock <= clock
    BY <2>1, ClockIs DEF GrantsTyped
  <2>7. Behind_Now'
    BY <1>0, <1>5, <2>1, <2>2, <2>6 DEF grant, Behind_Now, Gone, Granted
  <2> QED BY <2>5, <2>7
<1>6. ASSUME NEW s \in Sweepers, Starts(s) PROVE GrantsTyped' /\ Behind_Now'
  <2>1. clock <= clock /\ scheduled' \subseteq scheduled
    BY <1>6, ClockIs DEF GrantsTyped, Starts
  <2>2. sweeping' \in [Sweepers -> Time \cup {Never}] /\ \A r \in Sweepers : Gone(sweeping'[r])
    BY <1>6, <2>1 DEF GrantsTyped, Starts, Behind_Now, Gone
  <2> QED BY <1>0, <1>6, <2>1, <2>2 DEF Starts, GrantsTyped, Behind_Now, Gone, Granted, callVars
<1>7. ASSUME NEW s \in Sweepers, sweep_boundaries(s) PROVE GrantsTyped' /\ Behind_Now'
  <2>1. /\ sweeping[s] \in Time /\ sweeping[s] <= clock /\ swept_at' = sweeping[s]
        /\ schedule_next_sweep(sweeping[s], sweeping[s])
        /\ sweeping' = [sweeping EXCEPT ![s] = Never]
        /\ UNCHANGED <<clock, grants, revoked_at, callVars, prompt>>
    BY <1>7, SweepIs
  <2>2. scheduled' \subseteq Nat /\ next_sweep_at' \in Time \cup {Never} /\ lost' \in BOOLEAN
    BY <2>1, Schedules DEF GrantsTyped
  <2>3. held' \in BOOLEAN
    BY <1>7 DEF GrantsTyped, sweep_boundaries
  <2> QED BY <1>0, <2>1, <2>2, <2>3 DEF GrantsTyped, Behind_Now, Gone, Granted, callVars
<1>8. ASSUME NEW s \in Sweepers, FailsRun(s) PROVE GrantsTyped' /\ Behind_Now'
  BY <1>0, <1>8 DEF FailsRun, GrantsTyped, Behind_Now, Gone, Granted, callVars
<1>9. ASSUME NEW g \in GrantIds, OnCommit(g) \/ PutsOff(g) \/ PutsNoneOff(g)
      PROVE  GrantsTyped' /\ Behind_Now'
  <2>1. /\ asking'[g] \in {clock, Never} /\ \A h \in GrantIds : h # g => asking'[h] = asking[h]
        /\ asking' \in [GrantIds -> Time \cup {Never}] /\ called' \subseteq GrantIds
        /\ clock <= clock
    BY <1>9, ClockIs DEF OnCommit, PutsOff, PutsNoneOff, GrantsTyped
  <2>2. scheduled' \subseteq Nat /\ next_sweep_at' \in Time \cup {Never} /\ lost' \in BOOLEAN
    <3>1. CASE PutsOff(g)
      <4>1. asking[g] \in Time /\ schedule_next_sweep(asking[g], swept_at)
        BY <3>1 DEF PutsOff, GrantsTyped
      <4> QED BY <4>1, Schedules DEF GrantsTyped
    <3>2. CASE OnCommit(g) \/ PutsNoneOff(g)
      BY <3>2 DEF OnCommit, PutsNoneOff, GrantsTyped
    <3> QED BY <1>9, <3>1, <3>2
  <2>3. UNCHANGED <<clock, grants, revoked_at, swept_at, sweeping, held, prompt>>
    BY <1>9 DEF OnCommit, PutsOff, PutsNoneOff
  <2>4. \A h \in GrantIds : Gone(asking[h])'
    BY <1>0, <2>1, <2>3 DEF Behind_Now, Gone
  <2> QED BY <1>0, <2>1, <2>2, <2>3, <2>4 DEF GrantsTyped, Behind_Now, Gone, Granted
<1> QED BY <1>1, <1>2, <1>3, <1>4, <1>5, <1>6, <1>7, <1>8, <1>9 DEF GrantsNext

LEMMA InTurnNext == GrantsInv /\ [GrantsNext]_grantsVars => InTurn'
<1> SUFFICES ASSUME GrantsInv, [GrantsNext]_grantsVars, prompt' PROVE InTurn'
  BY DEF InTurn
<1> USE DEF GrantsInv
<1>0. Never' = Never /\ Ungranted' = Ungranted
  BY DEF Never, Ungranted
<1>1. prompt
  BY DEF GrantsNext, grantsVars, Passes, revoke, LosesRun, grant, OnCommit, PutsOff, PutsNoneOff,
         Starts, sweep_boundaries, FailsRun
<1>2. CASE UNCHANGED <<grants, revoked_at, swept_at>> /\ \E s \in Sweepers : FailsRun(s)
  <2>1. PICK s \in Sweepers : sweeping' = [sweeping EXCEPT ![s] = Never]
    BY <1>2 DEF FailsRun
  <2>2. swept_at # Never => swept_at <= Never
    BY ClockIs DEF GrantsTyped, Time
  <2>3. \A q \in Sweepers : sweeping'[q] \in {sweeping[q], Never}
    BY <2>1 DEF GrantsTyped
  <2> QED BY <1>0, <1>1, <1>2, <2>2, <2>3 DEF InTurn, Granted
<1>3. CASE UNCHANGED <<grants, revoked_at, swept_at, sweeping>>
  BY <1>0, <1>1, <1>3 DEF InTurn, Granted
<1>4. CASE revoke
  <2>1. swept_at = clock /\ clock <= clock /\ swept_at # Never
    BY <1>1, <1>4, ClockIs DEF revoke, CaughtUp, GrantsTyped
  <2> QED BY <1>0, <1>1, <1>4, <2>1 DEF revoke, InTurn, Granted, GrantsTyped
<1>5. ASSUME NEW g \in GrantIds, grant(g) PROVE InTurn'
  <2>1. swept_at = clock /\ clock <= clock /\ swept_at # Never
    BY <1>1, <1>5, ClockIs DEF grant, CaughtUp, GrantsTyped
  <2>2. /\ Granted' = Granted \cup {g} /\ revoked_at' = revoked_at
        /\ \E from \in Time, to \in Time \cup {Never} :
              grants' = [grants EXCEPT ![g] = [starts_at |-> from, expires_at |-> to,
                                               created_at |-> clock]]
    BY <1>5, GrantAdds
  <2>3. grants'[g].created_at = clock /\ \A h \in Granted \ {g} : grants'[h] = grants[h]
    BY <2>2 DEF GrantsTyped, Granted
  <2> QED BY <1>0, <1>1, <1>5, <2>1, <2>2, <2>3 DEF grant, InTurn
<1>6. ASSUME NEW s \in Sweepers, Starts(s) PROVE InTurn'
  <2>1. /\ \A q \in Sweepers : sweeping[q] = Never
        /\ sweeping' = [sweeping EXCEPT ![s] = clock] /\ UNCHANGED <<grants, revoked_at, swept_at>>
    BY <1>1, <1>6 DEF Starts, Between
  <2>2. swept_at # Never => swept_at <= clock /\ swept_at <= Never
    BY ClockIs DEF GrantsTyped, Behind_Now, Gone, Time
  <2>3. sweeping'[s] = clock /\ \A q \in Sweepers : q # s => sweeping'[q] = Never
    BY <2>1 DEF GrantsTyped
  <2>4. \A q \in Sweepers : swept_at # Never => swept_at <= sweeping'[q]
    BY <2>2, <2>3
  <2> QED BY <1>0, <1>1, <2>1, <2>3, <2>4 DEF InTurn, Granted
<1>7. ASSUME NEW s \in Sweepers, sweep_boundaries(s) PROVE InTurn'
  <2>1. /\ sweeping[s] \in Time /\ swept_at' = sweeping[s]
        /\ sweeping' = [sweeping EXCEPT ![s] = Never] /\ UNCHANGED <<grants, revoked_at>>
    BY <1>7, SweepIs
  <2>2. \A q \in Sweepers : sweeping'[q] = Never
    BY <1>1, <2>1, ClockIs DEF InTurn, GrantsTyped
  <2>3. sweeping[s] # Never /\ sweeping[s] <= Never /\ sweeping[s] \in Nat
    BY <2>1, ClockIs DEF Time
  <2>4. swept_at # Never => swept_at <= sweeping[s] /\ swept_at \in Nat
    BY <1>1, <2>1, ClockIs DEF InTurn, GrantsTyped
  <2>5. \A g \in Granted : grants[g].created_at <= sweeping[s]
    <3> SUFFICES ASSUME NEW g \in Granted PROVE grants[g].created_at <= sweeping[s]
      OBVIOUS
    <3>1. grants[g].created_at \in Nat
      BY GrantIs, ClockIs
    <3> QED BY <1>1, <2>3, <2>4, <3>1 DEF InTurn
  <2>6. \A g \in GrantIds : revoked_at[g] # Never => revoked_at[g] <= sweeping[s]
    <3> SUFFICES ASSUME NEW g \in GrantIds, revoked_at[g] # Never PROVE revoked_at[g] <= sweeping[s]
      OBVIOUS
    <3>1. revoked_at[g] \in Nat /\ g \in Granted
      BY ClockIs DEF GrantsTyped, Behind_Now
    <3> QED BY <1>1, <2>3, <2>4, <3>1 DEF InTurn
  <2> QED BY <1>0, <1>1, <2>1, <2>2, <2>3, <2>5, <2>6 DEF InTurn, Granted
<1> QED BY <1>2, <1>3, <1>4, <1>5, <1>6, <1>7
        DEF GrantsNext, grantsVars, Passes, LosesRun, FailsRun, OnCommit, PutsOff, PutsNoneOff

\* What was told is kept: calls tell what they move as of the cursor, a sweep what time moved.
LEMMA ToldNext == GrantsInv /\ [GrantsNext]_grantsVars => ToldAtCursor'
<1> SUFFICES ASSUME GrantsInv, [GrantsNext]_grantsVars, prompt' PROVE ToldAtCursor'
  BY DEF ToldAtCursor
<1> USE DEF GrantsInv
<1>0. Never' = Never /\ Ungranted' = Ungranted
  BY DEF Never, Ungranted
<1>1. prompt
  BY DEF GrantsNext, grantsVars, Passes, revoke, LosesRun, grant, OnCommit, PutsOff, PutsNoneOff,
         Starts, sweep_boundaries, FailsRun
<1>2. CASE UNCHANGED <<grants, revoked_at, swept_at, held>>
  <2>1. live_grants(swept_at)' = live_grants(swept_at)
    BY <1>0, <1>2 DEF live_grants, Granted, revoked_after
  <2> QED BY <1>0, <1>1, <1>2, <2>1 DEF ToldAtCursor
<1>3. CASE revoke
  <2>1. swept_at = clock /\ swept_at # Never /\ swept_at' = swept_at /\ clock' = clock /\ clock \in Nat
    BY <1>1, <1>3, ClockIs DEF revoke, CaughtUp, GrantsTyped
  <2>2. live_grants(swept_at)' = {}
    <3> SUFFICES ASSUME NEW g \in GrantIds, grants[g] # Ungranted PROVE ~(revoked_at'[g] > clock)
      BY <1>0, <1>3, <2>1 DEF revoke, live_grants, revoked_after, Granted
    <3>1. revoked_at[g] # Never => revoked_at[g] \in Nat /\ revoked_at[g] <= clock
      BY ClockIs DEF GrantsTyped, Behind_Now, Gone
    <3>2. revoked_at'[g] \in {clock, revoked_at[g]} /\ (g \in Active => revoked_at'[g] = clock)
      BY <1>3 DEF revoke
    <3> QED BY <2>1, <3>1, <3>2 DEF Active, Granted
  <2>3. held' = FALSE
    BY <1>1, <1>3, <2>1, InForceIs DEF revoke, ToldAtCursor
  <2> QED BY <1>0, <2>1, <2>2, <2>3 DEF ToldAtCursor
<1>4. ASSUME NEW g \in GrantIds, grant(g) PROVE ToldAtCursor'
  <2>1. /\ swept_at = clock /\ swept_at # Never /\ swept_at' = swept_at /\ clock' = clock
        /\ clock \in Time
    BY <1>1, <1>4, ClockIs DEF grant, CaughtUp, GrantsTyped
  <2>2. PICK from \in Time, to \in Time \cup {Never} :
           /\ grants' = [grants EXCEPT ![g] = [starts_at |-> from, expires_at |-> to,
                                               created_at |-> clock]]
           /\ held' = IF AsWritten(from, to) /\ ~In_force THEN TRUE ELSE held
           /\ g \notin Granted /\ Granted' = Granted \cup {g}
           /\ revoked_at[g] = Never /\ revoked_at' = revoked_at
    BY <1>4, GrantAdds
  <2>3. /\ grants'[g].starts_at = from /\ grants'[g].expires_at = to
        /\ \A h \in Granted : grants'[h] = grants[h] /\ h # g
    BY <2>2 DEF GrantsTyped, Granted
  <2>4. Never > clock
    BY <2>1, ClockIs DEF Time
  <2>5. live_grants(swept_at)' = live_grants(clock) \cup (IF AsWritten(from, to) THEN {g} ELSE {})
    BY <2>1, <2>2, <2>3, <2>4 DEF live_grants, revoked_after, AsWritten
  <2>6. held = (live_grants(clock) # {}) /\ (In_force <=> live_grants(clock) # {})
    BY <1>1, <2>1, InForceIs DEF ToldAtCursor
  <2> QED BY <1>0, <2>1, <2>2, <2>5, <2>6 DEF ToldAtCursor
<1>5. ASSUME NEW s \in Sweepers, sweep_boundaries(s) PROVE ToldAtCursor'
  <2> DEFINE n == sweeping[s]
  <2>1. /\ n \in Time /\ swept_at' = n /\ n # Never /\ UNCHANGED <<grants, revoked_at>>
        /\ held' = IF swept_at = Never \/ Crossed(n) = {} THEN held
                   ELSE live_grants(Max(Crossed(n))) # {}
    BY <1>5, SweepIs, ClockIs
  <2>2. swept_at # Never => swept_at <= n
    BY <1>1 DEF InTurn
  <2> HIDE DEF n
  <2>3. held' = (live_grants(n) # {})
    BY <1>1, <2>1, <2>2, SweepTells
  <2>4. live_grants(swept_at)' = live_grants(n)
    BY <1>0, <2>1 DEF live_grants, Granted, revoked_after
  <2> QED BY <1>0, <2>1, <2>3, <2>4 DEF ToldAtCursor
<1> QED BY <1>2, <1>3, <1>4, <1>5
        DEF GrantsNext, grantsVars, Passes, LosesRun, FailsRun, Starts, OnCommit, PutsOff,
            PutsNoneOff

\* A boundary to come is provided for by a run put off, or by a sweep or a call on its way.
Provided(g, b) ==
    \/ \E eta \in scheduled : eta <= b
    \/ \E s \in Sweepers : sweeping[s] <= b
    \/ g \in called \/ asking[g] <= b
Provides == \A g \in Active : \A b \in Coming(g) : Provided(g, b)

LEMMA ScheduledIs == NextIsScheduled <=> (~lost /\ swept_at # Never => Provides)
BY DEF NextIsScheduled, Provides, Provided, Coming

LEMMA ComingIs ==
  ASSUME GrantsTyped, NEW g \in Active, NEW b \in Coming(g)
  PROVE  b \in Time /\ b \in Nat /\ clock \in Nat /\ b > clock
BY GrantIs, ClockIs DEF Active, Coming, ByTime, GrantsTyped

\* Where nothing put off, or on its way, is over, and each boundary to come was one already
\* or is left to a call that is still to read the clock, or reads it now.
LEMMA RunsKept ==
  ASSUME GrantsInv, UNCHANGED <<scheduled, next_sweep_at, sweeping, swept_at, lost>>,
         GrantsTyped', clock <= clock',
         \A g \in Active' :
            \/ Coming(g)' = {} \/ g \in called' \/ asking'[g] = clock'
            \/ /\ g \in Active /\ Coming(g)' \subseteq Coming(g)
               /\ g \notin called /\ asking'[g] = asking[g]
  PROVE  NextRuns' /\ NextIsScheduled'
<1>0. Never' = Never
  BY DEF Never
<1>1. clock' \in Nat /\ clock' # Never
  BY <1>0, ClockIs DEF GrantsTyped, Time
<1>2. NextIsScheduled'
  <2>1. SUFFICES ASSUME ~lost, swept_at # Never, NEW g \in Active', NEW b \in Coming(g)'
                 PROVE  Provided(g, b)'
    BY <1>0, ScheduledIs DEF NextIsScheduled, Provided, Coming
  <2>2. CASE asking'[g] = clock'
    <3>1. b \in Nat /\ b > clock'
      <4>1. /\ GrantsTyped' /\ g \in Active' /\ b \in Coming(g)'
        BY <2>1
      <4>2. b \in (Time \cup {Never})' /\ b > clock'
        BY <4>1 DEF GrantsTyped, Active, Granted, Coming, ByTime, OneGrant, Ungranted
      <4> QED BY <4>2, ClockIs DEF Time, Never
    <3> QED BY <1>1, <2>2, <3>1 DEF Provided
  <2>3. CASE g \in Active /\ b \in Coming(g) /\ g \notin called /\ asking'[g] = asking[g]
    BY <2>1, <2>3, ScheduledIs DEF GrantsInv, Provides, Provided
  <2>4. CASE g \in called'
    BY <2>4 DEF Provided
  <2> QED BY <2>1, <2>2, <2>3, <2>4
<1>3. NextRuns'
  <2>1. next_sweep_at # Never /\ next_sweep_at <= clock => next_sweep_at <= clock'
    BY <1>1, ClockIs DEF GrantsInv, GrantsTyped, Time
  <2>2. ASSUME next_sweep_at # Never, next_sweep_at <= clock,
               \A g \in Active : Coming(g) # {} => Entrusted(g)
        PROVE  \A g \in Active' : Coming(g)' # {} => Entrusted(g)'
    BY <1>0, <1>1, <2>1, <2>2 DEF Entrusted
  <2> QED BY <1>0, <2>1, <2>2 DEF NextRuns, GrantsInv
<1> QED BY <1>2, <1>3

\* Where a run is put off to no later than any of them.
LEMMA RunPutOff ==
  ASSUME next_sweep_at' \in scheduled', swept_at' # Never',
         \A g \in Active' : \A b \in Coming(g)' : next_sweep_at' <= b
  PROVE  NextRuns' /\ NextIsScheduled'
BY DEF NextRuns, NextIsScheduled, Coming

\* What a call of schedule_next_sweep() leaves is so, a grant's or a sweep's: one that takes
\* no notice has a run to rely on that its own reading is not.
LEMMA CallRuns ==
  ASSUME GrantsInv, NEW now \in Time, now <= clock, NEW cursor, cursor # Never, swept_at' # Never,
         schedule_next_sweep(now, cursor), UNCHANGED <<clock, grants, revoked_at, called>>,
         \A r \in Sweepers : sweeping'[r] = sweeping[r] \/ sweeping[r] = now,
         \A g \in GrantIds : asking'[g] = asking[g] \/ asking[g] = now
  PROVE  NextRuns' /\ NextIsScheduled'
<1> USE DEF GrantsInv
<1>0. Never' = Never /\ Ungranted' = Ungranted
  BY DEF Never, Ungranted
<1>1. now \in Nat /\ clock \in Nat /\ now # Never
  BY ClockIs DEF GrantsTyped
<1>2. /\ Active' = Active /\ \A g \in Active : Coming(g)' = Coming(g) /\ g \in GrantIds
  BY <1>0 DEF Active, Granted, Coming, ByTime
<1>3. \A g \in Active : \A b \in Coming(g) : b \in Nat /\ b > clock /\ b \in Ahead(now)
  <2> SUFFICES ASSUME NEW g \in Active, NEW b \in Coming(g)
               PROVE  b \in Nat /\ b > clock /\ b \in Ahead(now)
    OBVIOUS
  <2>1. b \in Nat /\ b > clock
    BY ComingIs
  <2>2. b > now
    BY <1>1, <2>1
  <2> QED BY <2>1, <2>2 DEF Ahead, Coming
<1>4. /\ scheduled \subseteq scheduled'
      /\ lost' = (lost /\ next_sweep_at # Never /\ now < next_sweep_at)
      /\ \/ Ahead(now) = {} /\ UNCHANGED <<scheduled, next_sweep_at>>
         \/ /\ next_sweep_at # Never /\ now < next_sweep_at
            /\ \A t \in Ahead(now) : next_sweep_at <= t
            /\ UNCHANGED <<scheduled, next_sweep_at>>
         \/ next_sweep_at' \in scheduled' /\ \A t \in Ahead(now) : next_sweep_at' <= t
  BY Schedules
<1>5. next_sweep_at # Never => next_sweep_at \in Nat
  BY ClockIs DEF GrantsTyped
<1>6. \A r \in Sweepers : sweeping[r] # Never => sweeping[r] \in Nat /\ sweeping[r] <= clock
  BY ClockIs DEF GrantsTyped, Behind_Now, Gone
<1>7. CASE lost'
  BY <1>0, <1>7 DEF NextRuns, NextIsScheduled
<1>8. CASE ~lost' /\ Ahead(now) = {} /\ UNCHANGED <<scheduled, next_sweep_at>>
  <2>1. \A g \in Active' : Coming(g)' = {}
    BY <1>2, <1>3, <1>8
  <2>2. next_sweep_at # Never => next_sweep_at \in scheduled \/ next_sweep_at <= clock
    <3> SUFFICES ASSUME next_sweep_at # Never PROVE next_sweep_at \in scheduled \/ next_sweep_at <= clock
      OBVIOUS
    <3>1. CASE lost
      <4>1. ~(now < next_sweep_at)
        BY <1>4, <1>8, <3>1
      <4> QED BY <1>1, <1>5, <4>1
    <3>2. CASE ~lost
      <4>1. ASSUME NEW r \in Sweepers, sweeping[r] # Never, next_sweep_at <= sweeping[r]
            PROVE  next_sweep_at <= clock
        BY <1>1, <1>5, <1>6, <4>1
      <4> QED BY <3>2, <4>1 DEF NextRuns
    <3> QED BY <3>1, <3>2
  <2>3. NextRuns'
    BY <1>0, <1>8, <2>1, <2>2 DEF NextRuns
  <2> QED BY <2>1, <2>3 DEF NextIsScheduled, Coming
<1>9. CASE /\ ~lost' /\ next_sweep_at # Never /\ now < next_sweep_at
           /\ \A t \in Ahead(now) : next_sweep_at <= t
           /\ UNCHANGED <<scheduled, next_sweep_at>>
  <2>1. ~lost
    BY <1>4, <1>9
  <2>2. CASE next_sweep_at \in scheduled
    BY <1>0, <1>2, <1>3, <1>9, <2>2, RunPutOff
  <2>3. ASSUME NEW r \in Sweepers, sweeping[r] # Never, next_sweep_at <= sweeping[r]
        PROVE  NextRuns' /\ NextIsScheduled'
    <3>1. sweeping[r] \in Nat /\ sweeping[r] <= clock
      BY <1>6, <2>3
    <3>2. sweeping[r] # now
      BY <1>1, <1>5, <1>9, <2>3, <3>1
    <3>3. sweeping'[r] = sweeping[r]
      BY <3>2
    <3>4. \A g \in Active' : \A b \in Coming(g)' : sweeping'[r] <= b
      <4>1. \A g \in Active : \A b \in Coming(g) : sweeping[r] <= b
        BY <1>1, <1>3, <3>1
      <4> QED BY <1>2, <3>3, <4>1
    <3> QED BY <1>0, <1>9, <2>3, <3>3, <3>4 DEF NextRuns, NextIsScheduled, Coming
  <2>4. CASE next_sweep_at <= clock /\ \A g \in Active : Coming(g) # {} => Entrusted(g)
    <3>1. \A g \in Active : Coming(g) # {} => Entrusted(g)' /\ \A b \in Coming(g) : Provided(g, b)'
      <4> SUFFICES ASSUME NEW g \in Active, Coming(g) # {}
                   PROVE  Entrusted(g)' /\ \A b \in Coming(g) : Provided(g, b)'
        OBVIOUS
      <4>1. CASE g \in called
        BY <4>1 DEF Entrusted, Provided
      <4>2. CASE asking[g] # Never /\ next_sweep_at <= asking[g]
        <5>1. asking[g] \in Nat /\ asking[g] <= clock /\ g \in GrantIds
          BY <1>2, <4>2, ClockIs DEF GrantsTyped, Behind_Now, Gone
        <5>2. asking'[g] = asking[g]
          <6>1. asking[g] # now
            BY <1>1, <1>5, <1>9, <4>2, <5>1
          <6> QED BY <5>1, <6>1
        <5>3. \A b \in Coming(g) : asking'[g] <= b
          BY <1>1, <1>3, <5>1, <5>2
        <5> QED BY <1>0, <1>9, <4>2, <5>2, <5>3 DEF Entrusted, Provided
      <4> QED BY <2>4, <4>1, <4>2 DEF Entrusted
    <3>2. NextRuns'
      BY <1>0, <1>2, <1>9, <2>4, <3>1 DEF NextRuns
    <3>3. NextIsScheduled'
      <4>1. \A g \in Active' : \A b \in Coming(g)' : Provided(g, b)'
        BY <1>2, <3>1
      <4> QED BY <4>1 DEF NextIsScheduled, Provided, Coming
    <3> QED BY <3>2, <3>3
  <2> QED BY <1>9, <2>1, <2>2, <2>3, <2>4 DEF NextRuns
<1>10. CASE next_sweep_at' \in scheduled' /\ \A t \in Ahead(now) : next_sweep_at' <= t
  BY <1>0, <1>2, <1>3, <1>10, RunPutOff
<1> QED BY <1>4, <1>7, <1>8, <1>9, <1>10

LEMMA GrantRuns ==
  ASSUME GrantsInv, GrantsTyped', NEW g \in GrantIds, grant(g)
  PROVE  NextRuns' /\ NextIsScheduled'
<1> USE DEF GrantsInv
<1>0. Never' = Never
  BY DEF Never
<1>1. PICK from \in Time, to \in Time \cup {Never} :
         /\ grants' = [grants EXCEPT ![g] = [starts_at |-> from, expires_at |-> to,
                                             created_at |-> clock]]
         /\ called' = IF from > clock \/ to # Never THEN called \cup {g} ELSE called
         /\ g \notin Granted /\ Active' = Active \cup {g}
  BY GrantAdds
<1>2. /\ UNCHANGED <<clock, swept_at, next_sweep_at, scheduled, sweeping, lost, asking>>
      /\ clock \in Nat /\ clock <= clock
  BY ClockIs DEF grant, GrantsTyped
<1>3. /\ grants'[g].starts_at = from /\ grants'[g].expires_at = to
      /\ \A h \in GrantIds : h # g => grants'[h] = grants[h]
  BY <1>1 DEF GrantsTyped
<1>4. Coming(g)' = {} \/ g \in called'
  BY <1>0, <1>1, <1>2, <1>3 DEF Coming, ByTime
<1>5. ASSUME NEW h \in Active, h # g
      PROVE  Coming(h)' = Coming(h) /\ (h \in called => h \in called')
  BY <1>0, <1>1, <1>2, <1>3, <1>5 DEF Coming, ByTime, Active, Granted
<1> QED BY <1>1, <1>2, <1>4, <1>5, RunsKept

LEMMA SweepRuns ==
  ASSUME GrantsInv, NEW s \in Sweepers, sweep_boundaries(s)
  PROVE  NextRuns' /\ NextIsScheduled'
<1>1. /\ sweeping[s] \in Time /\ sweeping[s] <= clock /\ swept_at' = sweeping[s]
      /\ schedule_next_sweep(sweeping[s], sweeping[s])
      /\ sweeping' = [sweeping EXCEPT ![s] = Never]
      /\ UNCHANGED <<clock, grants, revoked_at, callVars, prompt>>
  BY SweepIs
<1>2. \A r \in Sweepers : sweeping'[r] = sweeping[r] \/ sweeping[r] = sweeping[s]
  BY <1>1 DEF GrantsInv, GrantsTyped
<1>3. sweeping[s] # Never /\ swept_at' # Never
  BY <1>1, ClockIs
<1> QED BY <1>1, <1>2, <1>3, CallRuns DEF callVars

\* A grant's call finds a cursor, or puts off the run that makes one.
LEMMA CallMadeRuns ==
  ASSUME GrantsInv, NEW g \in GrantIds, PutsOff(g)
  PROVE  NextRuns' /\ NextIsScheduled'
<1>0. Never' = Never
  BY DEF Never
<1>1. /\ asking[g] \in Time /\ asking[g] <= clock /\ schedule_next_sweep(asking[g], swept_at)
      /\ UNCHANGED <<clock, grants, revoked_at, swept_at, called, sweeping>>
      /\ \A h \in GrantIds : asking'[h] = asking[h] \/ asking[h] = asking[g]
  BY DEF PutsOff, GrantsInv, GrantsTyped, Behind_Now, Gone
<1>2. CASE swept_at = Never
  <2>1. next_sweep_at' = Never /\ swept_at' = Never
    BY <1>1, <1>2, Schedules DEF GrantsInv, NextRuns
  <2> QED BY <1>0, <2>1 DEF NextRuns, NextIsScheduled
<1>3. CASE swept_at # Never
  BY <1>0, <1>1, <1>3, CallRuns
<1> QED BY <1>2, <1>3

LEMMA StartRuns ==
  ASSUME GrantsInv, NEW s \in Sweepers, Starts(s)
  PROVE  NextRuns' /\ NextIsScheduled'
<1> USE DEF GrantsInv
<1>0. Never' = Never /\ Ungranted' = Ungranted
  BY DEF Never, Ungranted
<1>1. /\ sweeping[s] = Never /\ sweeping' = [sweeping EXCEPT ![s] = clock]
      /\ UNCHANGED <<clock, grants, revoked_at, swept_at, next_sweep_at, callVars, lost>>
      /\ \A eta \in scheduled : eta \in scheduled' \/ eta <= clock
  BY DEF Starts
<1>2. /\ sweeping'[s] = clock /\ \A r \in Sweepers : r # s => sweeping'[r] = sweeping[r]
      /\ clock \in Nat /\ clock # Never
  BY <1>1, ClockIs DEF GrantsTyped
<1>3. Active' = Active /\ \A g \in Active : Coming(g)' = Coming(g) /\ Entrusted(g)' = Entrusted(g)
  BY <1>0, <1>1 DEF Coming, ByTime, Active, Granted, Entrusted, callVars
<1>4. NextIsScheduled'
  <2>1. \A g \in Active : \A b \in Coming(g) : clock <= b
    <3> SUFFICES ASSUME NEW g \in Active, NEW b \in Coming(g) PROVE clock <= b
      OBVIOUS
    <3>1. b \in Nat /\ b > clock
      BY ComingIs
    <3> QED BY <1>2, <3>1
  <2>2. \A g \in Active' : \A b \in Coming(g)' : Provided(g, b)'
    BY <1>2, <1>3, <2>1 DEF Provided
  <2> QED BY <2>2 DEF NextIsScheduled, Provided, Coming
<1>5. NextRuns'
  <2>1. next_sweep_at <= clock => \E r \in Sweepers : sweeping'[r] # Never /\ next_sweep_at <= sweeping'[r]
    BY <1>2
  <2>2. \A r \in Sweepers : sweeping[r] # Never => sweeping'[r] = sweeping[r]
    BY <1>1, <1>2
  <2> QED BY <1>0, <1>1, <2>1, <2>2 DEF NextRuns
<1> QED BY <1>4, <1>5

LEMMA RunsNext == GrantsInv /\ GrantsTyped' /\ [GrantsNext]_grantsVars => NextRuns' /\ NextIsScheduled'
<1> SUFFICES ASSUME GrantsInv, GrantsTyped', [GrantsNext]_grantsVars PROVE NextRuns' /\ NextIsScheduled'
  OBVIOUS
<1>0. Never' = Never /\ Ungranted' = Ungranted
  BY DEF Never, Ungranted
<1>1. clock <= clock /\ clock \in Nat
  BY ClockIs DEF GrantsInv, GrantsTyped
<1>2. CASE UNCHANGED grantsVars
  <2>1. Active' = Active /\ \A g \in Active : Coming(g)' = Coming(g)
    BY <1>0, <1>2 DEF grantsVars, Coming, ByTime, Active, Granted
  <2> QED BY <1>1, <1>2, <2>1, RunsKept DEF grantsVars, callVars
<1>3. CASE Passes
  <2>1. clock <= clock' /\ \A b \in Time : b > clock' => b > clock
    BY <1>1, <1>3, ClockIs DEF Passes, Time
  <2>2. Active' = Active /\ \A g \in Active : ByTime(g)' = ByTime(g) /\ ByTime(g) \subseteq Time
    BY <1>0, <1>3, GrantIs DEF Passes, ByTime, Active, Granted, GrantsInv
  <2>3. \A g \in Active : Coming(g)' \subseteq Coming(g)
    BY <2>1, <2>2 DEF Coming
  <2> QED BY <1>3, <2>1, <2>2, <2>3, RunsKept DEF Passes, callVars
<1>4. CASE revoke
  <2>1. Active' = {}
    BY <1>0, <1>4, <1>1, ClockIs DEF revoke, Active, Granted, GrantsInv, GrantsTyped
  <2> QED BY <1>1, <1>4, <2>1, RunsKept DEF revoke
<1>5. CASE LosesRun \/ (\E s \in Sweepers : FailsRun(s)) \/ \E g \in GrantIds : PutsNoneOff(g)
  <2>1. lost' = TRUE /\ swept_at' = swept_at /\ next_sweep_at' = next_sweep_at
    BY <1>5 DEF LosesRun, FailsRun, PutsNoneOff
  <2> QED BY <1>0, <2>1 DEF NextRuns, NextIsScheduled, GrantsInv
<1>6. ASSUME NEW g \in GrantIds, OnCommit(g) PROVE NextRuns' /\ NextIsScheduled'
  <2>1. /\ UNCHANGED <<clock, grants, revoked_at, scheduled, next_sweep_at, sweeping, swept_at, lost>>
        /\ called' = called \ {g} /\ asking'[g] = clock'
        /\ \A h \in GrantIds : h # g => asking'[h] = asking[h]
    BY <1>6 DEF OnCommit, GrantsInv, GrantsTyped
  <2>2. Active' = Active /\ \A h \in Active : Coming(h)' = Coming(h) /\ h \in GrantIds
    BY <1>0, <2>1 DEF Coming, ByTime, Active, Granted
  <2> QED BY <1>1, <2>1, <2>2, RunsKept
<1> QED BY <1>2, <1>3, <1>4, <1>5, <1>6, GrantRuns, SweepRuns, CallMadeRuns, StartRuns DEF GrantsNext

LEMMA GrantsInvIsKept == GrantsSpec => []GrantsInv
<1>1. GrantsInv /\ [GrantsNext]_grantsVars => GrantsInv'
  BY TypedNext, InTurnNext, ToldNext, RunsNext DEF GrantsInv
<1> QED BY <1>1, GrantsInitHolds, PTL DEF GrantsSpec

\* feature_changed is true: where calls are made once the sweep has caught up, what was
\* last told of a feature is whether it is in force whenever the sweep has caught up
\* again, for any grants, any number of boundaries between two runs, and runs lost.
THEOREM ToldWhatHoldsHolds == GrantsSpec => []ToldWhatHolds
<1>1. GrantsInv => ToldWhatHolds
  <2> SUFFICES ASSUME GrantsInv, prompt, CaughtUp PROVE held = In_force
    BY DEF ToldWhatHolds
  <2>1. swept_at # Never /\ swept_at = clock
    BY ClockIs DEF CaughtUp, GrantsInv, GrantsTyped
  <2>2. (held <=> live_grants(clock) # {}) /\ held \in BOOLEAN
    BY <2>1 DEF GrantsInv, ToldAtCursor
  <2>3. (In_force <=> live_grants(clock) # {}) /\ In_force \in BOOLEAN
    BY InForceIs DEF GrantsInv, In_force
  <2> QED BY <2>2, <2>3
<1> QED BY <1>1, GrantsInvIsKept, PTL

\* With SWEEP "next_boundary" no boundary goes unswept: a run is put off to no later than it,
\* or a sweep, or its grant's own call, is on its way to put one off, however many sweeps
\* and calls overlap - but from when the broker loses a run, a sweep fails or a call dies,
\* until a later one finds the run last put off to be past, from which on it is so again.
THEOREM NextIsScheduledHolds == GrantsSpec => []NextIsScheduled
<1>1. GrantsInv => NextIsScheduled
  BY DEF GrantsInv
<1> QED BY <1>1, GrantsInvIsKept, PTL
-----------------------------------------------------------------------------
(***************************************************************************)
(* A command's settings.  Each is resolved once, after what its tests      *)
(* read, so that what it came to stays true of it to the end; and an       *)
(* option is only known in a group that was peeked as it was resolved.     *)
(***************************************************************************)
Sources_Of_Values == Given_Places \cup {"question", "current", "default", "none"}
CliTyped ==
    /\ offers \in Invocations
    /\ cli \in [at: {"peek", "parse", "resolve", "refused", "runs"}, peeked: {cli.peeked},
                asks: BOOLEAN, next: Nat \ {0},
                settings: [Names -> [value: Nat, source: Sources_Of_Values]]]

Given(s) == option(s) \cup offers[s].option_file
Done(s) == \E i \in 1..(cli.next - 1) : i \in DOMAIN Order /\ Order[i] = s

\* What a setting that was resolved has come to.
Found(s) ==
    IF ~Decl[s].included THEN cli.settings[s] = Without(s)
    ELSE /\ ~Unreadable(s)
         /\ IF ~Holds(Decl[s].only_when)
            THEN read_option(s) \cup read_env(s) = {} /\ cli.settings[s] = Without(s)
            ELSE /\ ~Has_Only_Bad(s, offers[s].current) /\ cli.settings[s] \in Each_From(s)
                 /\ ~hard_error(s, cli.settings[s])

\* Each setting the run came to has been resolved where it applies, and no other.
Progress ==
    /\ cli.at \in {"peek", "parse"} => cli.next = 1
    /\ cli.at # "refused" =>
        \A s \in Names : IF Done(s) /\ chosen(s) THEN Found(s) ELSE cli.settings[s] = Unresolved
    /\ cli.at # "refused" =>
        \A s \in Names : Done(s) /\ Decl[s].under # {} => has_value(Value_Of(TheSelector))

\* The options there were are of the group that was peeked.
Label == IF _last(TheSelector) # {} THEN _last(TheSelector) ELSE Quietly_Read
Heeded ==
    /\ cli.at \in {"parse", "resolve", "runs"} => cli.peeked = peek(Label)
    /\ cli.at \in {"resolve", "runs"} =>
        \A s \in Names : (Given(s) # {} => s \in entries) /\ option(s) \subseteq Decl[s].takes

\* A run that began has come to every setting, and found nothing against it.
Accepted ==
    cli.at = "runs" =>
        /\ cli.next > Len(Order) /\ check_relations
        /\ \A s \in Soft : cli.settings[s].source # "question" => Overridden(s)

CliInv == CliTyped /\ Progress /\ Heeded /\ Accepted
-----------------------------------------------------------------------------
\* What the arguments give an option, in either reading, is one value if any, and stays.
LEMMA ArgumentsAre ==
    ASSUME CliTyped, NEW s \in Names
    PROVE  At_Most_One(option(s)) /\ At_Most_One(_last(s))
<1>1. offers[s].args \in Seq([form: Forms, value: Nat])
  BY InvocationsAssumption DEF CliTyped
<1>2. ASSUME NEW args \in Seq([form: Forms, value: Nat]), NEW forms
      PROVE  At_Most_One(Last_Of(args, forms))
  <2>1. \A i \in DOMAIN args : args[i].value \in Nat /\ i \in Nat
    <3> DEFINE Token == [form: Forms, value: Nat]
    <3>1. args \in Seq(Token)
      BY <1>2
    <3> HIDE DEF Token
    <3>2. \A i \in DOMAIN args : args[i] \in Token /\ i \in Nat
      BY <3>1
    <3> QED BY <3>2 DEF Token
  <2>2. \A i, j \in Nat : i <= j /\ j <= i => i = j
    OBVIOUS
  <2> QED BY <2>1, <2>2 DEF At_Most_One, Last_Of
<1> QED BY <1>1, <1>2 DEF option, _last

LEMMA ArgumentsStay ==
    ASSUME UNCHANGED offers
    PROVE  /\ \A s : option(s)' = option(s) /\ _last(s)' = _last(s) /\ Given(s)' = Given(s)
           /\ peek(Label)' = peek(Label)
<1>1. \A s : option(s)' = option(s) /\ _last(s)' = _last(s)
  BY DEF option, _last
<1>2. Label' = Label
  BY <1>1 DEF Label, Quietly_Read, Both_Set, Variable
<1> QED BY <1>1, <1>2 DEF peek, Given

LEMMA OrderFacts ==
    /\ Order \in Seq(Names)
    /\ \A i \in DOMAIN Order : Order[i] \in Names
    /\ DOMAIN Order = 1..Len(Order) /\ Len(Order) \in Nat
<1>1. \A i \in DOMAIN Order : Order[i] \in Names
  BY DEF Names
<1>2. Order \in Seq(Names)
  BY OrderAssumption
<1>3. DOMAIN Order = 1..Len(Order) /\ Len(Order) \in Nat
  <2> HIDE DEF Names
  <2> QED BY <1>2
<1> QED BY <1>1, <1>2, <1>3

\* A test of a setting reads what was resolved before it: it stays as it is while that does.
LEMMA SameTests ==
    ASSUME NEW s \in Names,
           \A other \in Decl[s].only_when \cup Decl[s].ask_when :
                cli'.settings[other] = cli.settings[other],
           Decl[s].under # {} => cli'.settings[TheSelector] = cli.settings[TheSelector]
    PROVE  /\ chosen(s)' = chosen(s)
           /\ Holds(Decl[s].only_when)' = Holds(Decl[s].only_when)
           /\ Holds(Decl[s].ask_when)' = Holds(Decl[s].ask_when)
<1>1. chosen(s)' = chosen(s)
  BY DEF chosen, Value_Of
<1>2. /\ Holds(Decl[s].only_when)' = Holds(Decl[s].only_when)
      /\ Holds(Decl[s].ask_when)' = Holds(Decl[s].ask_when)
  BY DEF Holds, Value_Of
<1> QED BY <1>1, <1>2

LEMMA FoundStays ==
    ASSUME NEW s \in Names, Found(s), UNCHANGED offers, cli'.asks = cli.asks,
           cli'.settings[s] = cli.settings[s],
           Holds(Decl[s].only_when)' = Holds(Decl[s].only_when),
           Holds(Decl[s].ask_when)' = Holds(Decl[s].ask_when)
    PROVE  Found(s)'
<1>1. /\ Unreadable(s)' = Unreadable(s) /\ Without(s)' = Without(s)
      /\ read_option(s)' = read_option(s) /\ read_env(s)' = read_env(s)
  BY ArgumentsStay DEF Unreadable, Has_Only_Bad, Both_Set, read_option, read_env, Variable, Without
<1>2. Each_From(s)' = Each_From(s)
  BY <1>1, ArgumentsStay DEF Each_From, Each
<1> QED BY <1>1, <1>2 DEF Found, Has_Only_Bad, hard_error

\* While one setting is resolved, what those before it came to stays.
LEMMA OthersStand ==
    ASSUME CliInv, cli.at = "resolve", cli.next \in DOMAIN Order, UNCHANGED offers,
           cli'.asks = cli.asks, cli'.next = cli.next + 1, cli'.at = "resolve",
           NEW s \in Names, s = Order[cli.next],
           \A other \in Names \ {s} : cli'.settings[other] = cli.settings[other]
    PROVE  /\ ~Done(s) /\ \A r \in Names : Done(r)' <=> Done(r) \/ r = s
           /\ \A r \in Names : Done(r) => chosen(r)' = chosen(r) /\ (chosen(r) => Found(r)')
           /\ \A r \in Names : Done(r) \/ r = s =>
                (Decl[r].under # {} => Value_Of(TheSelector)' = Value_Of(TheSelector))
           /\ chosen(s)' = chosen(s)
           /\ Holds(Decl[s].only_when)' = Holds(Decl[s].only_when)
           /\ Holds(Decl[s].ask_when)' = Holds(Decl[s].ask_when)
<1> USE OrderFacts
<1>1. cli.next \in Nat \ {0}
  BY DEF CliInv, CliTyped
<1>2. ~Done(s)
  BY <1>1, OrderAssumption DEF Done
<1>3. \A r \in Names : Done(r)' <=> Done(r) \/ r = s
  BY <1>1 DEF Done
<1>4. ASSUME NEW r \in Names, Done(r) \/ r = s
      PROVE  /\ \A other \in Decl[r].only_when \cup Decl[r].ask_when :
                    cli'.settings[other] = cli.settings[other]
             /\ Decl[r].under # {} => cli'.settings[TheSelector] = cli.settings[TheSelector]
  <2>1. PICK i \in DOMAIN Order : i <= cli.next /\ Order[i] = r
    BY <1>1, <1>4 DEF Done
  <2>2. \A other : (\E j \in 1..(i - 1) : Order[j] = other) =>
                        cli'.settings[other] = cli.settings[other]
    <3> SUFFICES ASSUME NEW other, NEW j \in 1..(i - 1), Order[j] = other
                 PROVE  cli'.settings[other] = cli.settings[other]
      OBVIOUS
    <3>1. j \in DOMAIN Order /\ j # cli.next
      BY <1>1, <2>1
    <3> QED BY <3>1, OrderAssumption
  <2> QED BY <2>1, <2>2, OrderAssumption DEF Before
<1>5. ASSUME NEW r \in Names, Done(r) \/ r = s
      PROVE  /\ chosen(r)' = chosen(r)
             /\ Holds(Decl[r].only_when)' = Holds(Decl[r].only_when)
             /\ Holds(Decl[r].ask_when)' = Holds(Decl[r].ask_when)
             /\ Decl[r].under # {} => Value_Of(TheSelector)' = Value_Of(TheSelector)
  <2>1. /\ \A other \in Decl[r].only_when \cup Decl[r].ask_when :
                    cli'.settings[other] = cli.settings[other]
        /\ Decl[r].under # {} => cli'.settings[TheSelector] = cli.settings[TheSelector]
    BY <1>4, <1>5
  <2> QED BY <2>1, SameTests DEF Value_Of
<1>6. ASSUME NEW r \in Names, Done(r), chosen(r) PROVE Found(r)'
  <2>1. Found(r)
    BY <1>6 DEF CliInv, Progress
  <2>2. cli'.settings[r] = cli.settings[r]
    BY <1>2, <1>6
  <2> QED BY <1>5, <1>6, <2>1, <2>2, FoundStays
<1> QED BY <1>2, <1>3, <1>5, <1>6
-----------------------------------------------------------------------------
LEMMA CliInitHolds == CliInit => CliInv
<1> SUFFICES ASSUME CliInit PROVE CliInv
  OBVIOUS
<1>1. CliTyped
  BY DEF CliInit, CliTyped, Unresolved, Sources_Of_Values, Empty
<1>2. \A s \in Names : ~Done(s)
  BY DEF CliInit, Done
<1>3. Progress
  BY <1>2 DEF CliInit, Progress
<1>4. Heeded /\ Accepted
  BY DEF CliInit, Heeded, Accepted
<1> QED BY <1>1, <1>3, <1>4 DEF CliInv

LEMMA PeeksHolds == CliInv /\ Peeks => CliInv'
<1> SUFFICES ASSUME CliInv, Peeks PROVE CliInv'
  OBVIOUS
<1>1. /\ cli'.at = "parse" /\ cli'.peeked = peek(Label)' /\ cli'.next = cli.next /\ cli.next = 1
      /\ cli'.settings = cli.settings /\ cli.at = "peek" /\ UNCHANGED offers
  <2>1. Peeks /\ cli'.peeked = peek(Label)
    BY DEF Peeks, CliInv, CliTyped, Label
  <2> QED BY <2>1, ArgumentsStay DEF Peeks, CliInv, CliTyped, Progress
<1>2. CliTyped'
  BY DEF CliInv, CliTyped, Peeks
<1>3. \A s \in Names : ~Done(s) /\ ~Done(s)'
  BY <1>1 DEF Done
<1>4. \A s \in Names : cli.settings[s] = Unresolved
  BY <1>1, <1>3 DEF CliInv, Progress
<1>5. Progress'
  BY <1>1, <1>3, <1>4 DEF Progress
<1>6. Heeded' /\ Accepted'
  BY <1>1 DEF Heeded, Accepted
<1> QED BY <1>2, <1>5, <1>6 DEF CliInv

LEMMA RefuseHolds == CliInv /\ Refuse /\ UNCHANGED offers => CliInv'
<1> SUFFICES ASSUME CliInv, Refuse, UNCHANGED offers PROVE CliInv'
  OBVIOUS
<1>1. cli'.at = "refused" /\ CliTyped'
  BY DEF Refuse, CliInv, CliTyped
<1> QED BY <1>1 DEF CliInv, Progress, Heeded, Accepted

LEMMA ParsesHolds == CliInv /\ Parses => CliInv'
<1> SUFFICES ASSUME CliInv, Parses PROVE CliInv'
  OBVIOUS
<1>0. CASE Refuse
  BY <1>0, RefuseHolds DEF Parses
<1>1. CASE ~Refuse
  <2>1. PICK asks \in BOOLEAN : cli' = [cli EXCEPT !.at = "resolve", !.asks = asks]
    BY <1>1 DEF Parses
  <2>2. /\ \A s \in Names : (Given(s) # {} => s \in entries) /\ option(s) \subseteq Decl[s].takes
        /\ cli.at = "parse" /\ UNCHANGED offers
    BY <1>1 DEF Parses, Given
  <2>3. /\ cli'.at = "resolve" /\ cli'.peeked = cli.peeked /\ cli'.next = cli.next /\ cli.next = 1
        /\ cli'.settings = cli.settings /\ CliTyped'
    BY <2>1, <2>2 DEF CliInv, CliTyped, Progress
  <2>4. \A s \in Names : ~Done(s) /\ ~Done(s)'
    BY <2>3 DEF Done
  <2>5. Progress'
    <3>1. \A s \in Names : cli.settings[s] = Unresolved
      BY <2>2, <2>4 DEF CliInv, Progress
    <3> QED BY <2>3, <2>4, <3>1 DEF Progress
  <2>6. Heeded'
    <3>1. entries' = entries /\ (\A s \in Names : Given(s)' = Given(s)) /\ peek(Label)' = peek(Label)
      BY <2>2, <2>3, ArgumentsStay DEF entries
    <3>2. cli.peeked = peek(Label)
      BY <2>2 DEF CliInv, Heeded
    <3> QED BY <2>2, <2>3, <3>1, <3>2, ArgumentsStay DEF Heeded
  <2>7. Accepted'
    BY <2>3 DEF Accepted
  <2> QED BY <2>3, <2>5, <2>6, <2>7 DEF CliInv
<1> QED BY <1>0, <1>1

\* A value found is a number, and of a place.
LEMMA EachTyped ==
    ASSUME CliTyped, NEW s \in Names
    PROVE  /\ Without(s) \in [value: Nat, source: Sources_Of_Values]
           /\ ~Has_Only_Bad(s, offers[s].current) =>
                Each_From(s) \subseteq [value: Nat, source: Sources_Of_Values]
<1>1. /\ Decl[s].takes \subseteq Nat /\ Decl[s].default \in Nat
  BY CommandSettingsAssumption DEF Empty
<1>2. /\ option(s) \subseteq Nat /\ offers[s].option_file \subseteq Nat
      /\ offers[s].env \subseteq Nat /\ offers[s].env_file \subseteq Nat /\ offers[s].current \subseteq Nat
  BY InvocationsAssumption, ArgumentsAre DEF CliTyped, At_Most_One
<1>3. read_env(s) \subseteq Nat
  BY <1>2 DEF read_env, Variable
<1>4. Without(s) \in [value: Nat, source: Sources_Of_Values]
  BY <1>1 DEF Without, Sources_Of_Values, Empty
<1>5. \A found : \A source \in Sources_Of_Values :
        found \subseteq Nat => Each(found, source) \subseteq [value: Nat, source: Sources_Of_Values]
  BY DEF Each
<1>6. {"option", "option-file", "env", "env-file", "question", "current", "default"}
        \subseteq Sources_Of_Values
  BY DEF Sources_Of_Values, Given_Places
<1>7. {v \in Decl[s].takes : v <= Decl[s].max} \subseteq Nat /\ {Decl[s].default} \subseteq Nat
  BY <1>1
<1> QED BY <1>2, <1>3, <1>4, <1>5, <1>6, <1>7 DEF Each_From

LEMMA ResolvesHolds == CliInv /\ Resolves => CliInv'
<1> SUFFICES ASSUME CliInv, Resolves PROVE CliInv'
  OBVIOUS
<1>0. CASE Refuse
  BY <1>0, RefuseHolds DEF Resolves
<1>1. CASE ~Refuse
  <2>0. PICK s \in Names : s = Order[cli.next]
    BY OrderFacts DEF Resolves
  <2>1. s \in Names /\ cli.at = "resolve" /\ cli.next \in DOMAIN Order /\ UNCHANGED offers
    BY DEF Resolves
  <2>2. \/ ~chosen(s) /\ has_value(Value_Of(TheSelector)) /\ cli' = [cli EXCEPT !.next = @ + 1]
        \/ /\ chosen(s) /\ ~Decl[s].included /\ Settles(s, Without(s))
        \/ /\ chosen(s) /\ Decl[s].included /\ ~Unreadable(s) /\ ~Holds(Decl[s].only_when)
           /\ read_option(s) \cup read_env(s) = {} /\ Settles(s, Without(s))
        \/ /\ chosen(s) /\ Decl[s].included /\ ~Unreadable(s) /\ Holds(Decl[s].only_when)
           /\ ~Has_Only_Bad(s, offers[s].current)
           /\ \E found \in Each_From(s) : ~hard_error(s, found) /\ Settles(s, found)
    BY <1>1, <2>0 DEF Resolves, resolve_setting
  <2>3. CliTyped
    BY DEF CliInv
  <2>4. /\ CliTyped' /\ cli'.asks = cli.asks /\ cli'.next = cli.next + 1 /\ cli'.at = "resolve"
        /\ cli'.peeked = cli.peeked
        /\ \A other \in Names \ {s} : cli'.settings[other] = cli.settings[other]
    <3>1. ASSUME NEW found \in [value: Nat, source: Sources_Of_Values], Settles(s, found)
          PROVE  /\ CliTyped' /\ cli'.asks = cli.asks /\ cli'.next = cli.next + 1 /\ cli'.at = "resolve"
                 /\ cli'.peeked = cli.peeked
                 /\ \A other \in Names \ {s} : cli'.settings[other] = cli.settings[other]
      <4>1. PICK new \in [Names -> [value: Nat, source: Sources_Of_Values]] :
                /\ new = [cli.settings EXCEPT ![s] = found]
                /\ \A other \in Names \ {s} : new[other] = cli.settings[other]
        <5>1. cli.settings \in [Names -> [value: Nat, source: Sources_Of_Values]]
          BY <2>3 DEF CliTyped
        <5> QED BY <5>1
      <4>2. cli' = [cli EXCEPT !.settings = new, !.next = cli.next + 1]
        BY <3>1, <4>1 DEF Settles
      <4>3. cli.next + 1 \in Nat \ {0}
        BY <2>3 DEF CliTyped
      <4> QED BY <2>1, <2>3, <4>1, <4>2, <4>3 DEF CliTyped
    <3>2. CASE cli' = [cli EXCEPT !.next = @ + 1]
      BY <2>1, <2>3, <3>2 DEF CliTyped
    <3> QED BY <2>1, <2>2, <2>3, <3>1, <3>2, EachTyped
  <2>5. /\ ~Done(s) /\ \A r \in Names : Done(r)' <=> Done(r) \/ r = s
        /\ \A r \in Names : Done(r) => chosen(r)' = chosen(r) /\ (chosen(r) => Found(r)')
        /\ \A r \in Names : Done(r) \/ r = s =>
             (Decl[r].under # {} => Value_Of(TheSelector)' = Value_Of(TheSelector))
        /\ chosen(s)' = chosen(s)
        /\ Holds(Decl[s].only_when)' = Holds(Decl[s].only_when)
        /\ Holds(Decl[s].ask_when)' = Holds(Decl[s].ask_when)
    BY <2>0, <2>1, <2>4, OthersStand DEF CliInv
  <2>6. /\ Unreadable(s)' = Unreadable(s) /\ Without(s)' = Without(s)
        /\ read_option(s)' = read_option(s) /\ read_env(s)' = read_env(s)
    BY <2>1, ArgumentsStay
    DEF Unreadable, Has_Only_Bad, Both_Set, read_option, read_env, Variable, Without
  <2>7. Each_From(s)' = Each_From(s)
    BY <2>1, <2>4, <2>5, <2>6, ArgumentsStay DEF Each_From, Each
  <2>8. chosen(s) => Found(s)'
    <3>1. ASSUME NEW found, Settles(s, found) PROVE cli'.settings[s] = found
      BY <2>1, <2>3, <3>1 DEF Settles, CliTyped
    <3> QED BY <2>1, <2>2, <2>5, <2>6, <2>7, <3>1 DEF Found, Has_Only_Bad, hard_error
  <2>9. ~chosen(s) => cli'.settings[s] = Unresolved /\ has_value(Value_Of(TheSelector))
    <3>1. cli.settings[s] = Unresolved
      BY <2>1, <2>5 DEF CliInv, Progress
    <3> QED BY <2>2, <2>3, <3>1 DEF CliTyped
  <2>10. ASSUME NEW r \in Names
         PROVE  IF Done(r)' /\ chosen(r)' THEN Found(r)' ELSE cli'.settings[r] = Unresolved
    <3>1. CASE r = s
      BY <2>5, <2>8, <2>9, <3>1
    <3>2. CASE r # s
      <4>1. IF Done(r) /\ chosen(r) THEN Found(r) ELSE cli.settings[r] = Unresolved
        BY <2>1 DEF CliInv, Progress
      <4>2. cli'.settings[r] = cli.settings[r]
        BY <2>4, <3>2
      <4> QED BY <2>5, <3>2, <4>1, <4>2
    <3> QED BY <3>1, <3>2
  <2>11. ASSUME NEW r \in Names, Done(r)', Decl[r].under # {}
         PROVE  has_value(Value_Of(TheSelector)')
    <3>1. CASE r = s
      <4>1. CASE chosen(s)
        BY <2>1, <2>5, <3>1, <4>1, <2>11, CommandSettingsAssumption DEF chosen, has_value
      <4>2. CASE ~chosen(s)
        BY <2>5, <2>9, <2>11, <3>1, <4>2
      <4> QED BY <4>1, <4>2
    <3>2. CASE r # s
      <4>1. Done(r) /\ has_value(Value_Of(TheSelector))
        BY <2>1, <2>5, <2>11, <3>2 DEF CliInv, Progress
      <4> QED BY <2>5, <2>11, <4>1
    <3> QED BY <3>1, <3>2
  <2>12. Progress'
    BY <2>4, <2>10, <2>11 DEF Progress, has_value
  <2>13. Heeded'
    <3>1. entries' = entries /\ (\A r \in Names : Given(r)' = Given(r)) /\ peek(Label)' = peek(Label)
      BY <2>1, <2>4, ArgumentsStay DEF entries
    <3> QED BY <2>1, <2>4, <3>1, ArgumentsStay DEF CliInv, Heeded
  <2> QED BY <2>4, <2>12, <2>13 DEF CliInv, Accepted
<1> QED BY <1>0, <1>1

LEMMA AcceptsHolds == CliInv /\ Accepts => CliInv'
<1> SUFFICES ASSUME CliInv, Accepts PROVE CliInv'
  OBVIOUS
<1>0. CASE Refuse
  BY <1>0, RefuseHolds DEF Accepts
<1>1. CASE ~Refuse
  <2>1. /\ cli.at = "resolve" /\ cli.next > Len(Order) /\ UNCHANGED offers
        /\ check_relations /\ cli' = [cli EXCEPT !.at = "runs"]
        /\ \A s \in Soft : cli.settings[s].source # "question" => Overridden(s)
    BY <1>1 DEF Accepts
  <2>2. /\ CliTyped' /\ cli'.at = "runs" /\ cli'.next = cli.next /\ cli'.settings = cli.settings
        /\ cli'.asks = cli.asks /\ cli'.peeked = cli.peeked
    BY <2>1 DEF CliInv, CliTyped
  <2>3. \A s \in Names :
            /\ chosen(s)' = chosen(s) /\ Done(s)' = Done(s)
            /\ Holds(Decl[s].only_when)' = Holds(Decl[s].only_when)
            /\ Holds(Decl[s].ask_when)' = Holds(Decl[s].ask_when)
    BY <2>2 DEF chosen, Done, Holds, Value_Of
  <2>4. \A s \in Names : Found(s) => Found(s)'
    BY <2>1, <2>2, <2>3, FoundStays
  <2>5. Progress'
    BY <2>1, <2>2, <2>3, <2>4 DEF CliInv, Progress, Value_Of, has_value
  <2>6. Heeded'
    <3>1. entries' = entries /\ (\A s \in Names : Given(s)' = Given(s)) /\ peek(Label)' = peek(Label)
      BY <2>1, <2>2, ArgumentsStay DEF entries
    <3> QED BY <2>1, <2>2, <3>1, ArgumentsStay DEF CliInv, Heeded
  <2>7. Accepted'
    <3>1. check_relations'
      BY <2>1, <2>2 DEF check_relations, Value_Of
    <3>2. Soft' = Soft /\ \A s \in Names : Overridden(s)' = Overridden(s)
      BY <2>2, <2>3 DEF Soft, Overridden, Value_Of
    <3> QED BY <2>1, <2>2, <3>1, <3>2 DEF Accepted, Soft
  <2> QED BY <2>2, <2>5, <2>6, <2>7 DEF CliInv
<1> QED BY <1>0, <1>1

LEMMA CliInvIsKept == CliSpec => []CliInv
<1>1. CliInv /\ [CliNext]_cliVars => CliInv'
  <2> SUFFICES ASSUME CliInv, [CliNext]_cliVars PROVE CliInv'
    OBVIOUS
  <2>1. CASE CliNext
    BY <2>1, PeeksHolds, ParsesHolds, ResolvesHolds, AcceptsHolds DEF CliNext
  <2>2. CASE UNCHANGED cliVars
    <3>1. CliTyped' /\ Progress'
      <4>1. \A s \in Names :
                /\ chosen(s)' = chosen(s) /\ Done(s)' = Done(s)
                /\ Holds(Decl[s].only_when)' = Holds(Decl[s].only_when)
                /\ Holds(Decl[s].ask_when)' = Holds(Decl[s].ask_when)
        BY <2>2 DEF cliVars, chosen, Done, Holds, Value_Of
      <4>2. \A s \in Names : Found(s) => Found(s)'
        BY <2>2, <4>1, FoundStays DEF cliVars
      <4> QED BY <2>2, <4>1, <4>2 DEF cliVars, CliInv, CliTyped, Progress, Value_Of, has_value
    <3>2. Heeded' /\ Accepted'
      BY <2>2, ArgumentsStay DEF cliVars, CliInv, Heeded, entries, Accepted, check_relations, Soft, Overridden, Holds, Value_Of
    <3> QED BY <3>1, <3>2 DEF CliInv
  <2> QED BY <2>1, <2>2
<1> QED BY <1>1, CliInitHolds, PTL DEF CliSpec
-----------------------------------------------------------------------------
\* The first place that has a value is the one with none before it.
LEMMA FirstPlaceIs ==
    ASSUME NEW s, NEW i \in 1..7, Places(s)[i].has # {},
           \A earlier \in 1..(i - 1) : Places(s)[earlier].has = {}
    PROVE  First_Place(s) = i
<1> DEFINE First(j) == /\ Places(s)[j].has # {}
                       /\ \A earlier \in 1..(j - 1) : Places(s)[earlier].has = {}
<1>1. DOMAIN Places(s) = 1..7
  BY DEF Places
<1>2. First_Place(s) = CHOOSE j \in 1..7 : First(j)
  BY <1>1 DEF First_Place
<1>3. First(i)
  OBVIOUS
<1>4. \A j \in 1..7 : First(j) => j = i
  <2> SUFFICES ASSUME NEW j \in 1..7, First(j) PROVE j = i
    OBVIOUS
  <2>1. ~(j < i) /\ ~(i < j)
    BY <1>3
  <2> QED BY <2>1
<1> HIDE DEF First
<1> QED BY <1>2, <1>3, <1>4

\* What was found for a setting is of the first place, and within its hard limit.
LEMMA FoundFirst ==
    ASSUME CliTyped, NEW s \in Names, Found(s), Decl[s].included, Holds(Decl[s].only_when)
    PROVE  LET setting == cli.settings[s]
               first == Places(s)[First_Place(s)]
           IN /\ setting.source = first.source /\ setting.value \in first.has
              /\ setting.value <= Decl[s].max /\ setting.source # "none"
<1> DEFINE setting == cli.settings[s]
           asks == cli.asks /\ Decl[s].asked /\ Holds(Decl[s].ask_when)
           Of(i) == /\ Places(s)[i].has # {}
                    /\ \A earlier \in 1..(i - 1) : Places(s)[earlier].has = {}
                    /\ setting.source = Places(s)[i].source /\ setting.value \in Places(s)[i].has
<1>1. /\ ~Unreadable(s) /\ setting \in Each_From(s) /\ ~hard_error(s, setting)
      /\ setting.value \in Nat /\ Decl[s].max \in Nat
  BY CommandSettingsAssumption DEF Found, CliTyped
<1>2. \A found, source : setting \in Each(found, source) =>
            setting.source = source /\ setting.value \in found
  BY DEF Each
<1>3. \A i \in 1..7 : Of(i) => /\ setting.source = Places(s)[First_Place(s)].source
                               /\ setting.value \in Places(s)[First_Place(s)].has
  BY FirstPlaceIs
<1> HIDE DEF setting
<1>4. setting.source # "question" => setting.value <= Decl[s].max
  BY <1>1 DEF hard_error
<1>5. CASE option(s) # {}
  <2>1. setting.source = "option" /\ setting.value \in option(s)
    BY <1>1, <1>2, <1>5 DEF Each_From
  <2>2. Of(1)
    BY <1>5, <2>1 DEF Places
  <2> QED BY <1>3, <1>4, <2>1, <2>2 DEF setting
<1>6. CASE option(s) = {} /\ offers[s].option_file # {}
  <2>1. setting.source = "option-file" /\ setting.value \in offers[s].option_file
    BY <1>1, <1>2, <1>6 DEF Each_From
  <2>2. Of(2)
    BY <1>6, <2>1 DEF Places
  <2> QED BY <1>3, <1>4, <2>1, <2>2 DEF setting
<1>7. CASE option(s) = {} /\ offers[s].option_file = {} /\ read_env(s) # {}
  <2>1. /\ setting.source = IF offers[s].env # {} THEN "env" ELSE "env-file"
        /\ setting.value \in read_env(s)
    BY <1>1, <1>2, <1>7 DEF Each_From
  <2>2. CASE offers[s].env # {}
    <3>1. read_env(s) = offers[s].env
      BY <1>1, <2>2 DEF Unreadable, Both_Set, read_env, Variable
    <3>2. Of(3)
      BY <1>7, <2>1, <2>2, <3>1 DEF Places
    <3> QED BY <1>3, <1>4, <2>1, <2>2, <3>2 DEF setting
  <2>3. CASE offers[s].env = {}
    <3>1. read_env(s) = IF Decl[s].env_file THEN offers[s].env_file ELSE {}
      BY <2>3 DEF read_env, Variable
    <3>2. Of(4)
      BY <1>7, <2>1, <2>3, <3>1 DEF Places
    <3> QED BY <1>3, <1>4, <2>1, <2>3, <3>2 DEF setting
  <2> QED BY <2>2, <2>3
<1>8. CASE option(s) = {} /\ offers[s].option_file = {} /\ read_env(s) = {}
  <2>1. offers[s].env = {} /\ (Decl[s].env_file => offers[s].env_file = {})
    BY <1>8 DEF read_env, Variable
  <2>2. CASE asks
    <3>1. /\ setting.source = "question" /\ setting.value \in Decl[s].takes
          /\ setting.value <= Decl[s].max
      BY <1>1, <1>2, <1>8, <2>2 DEF Each_From
    <3>2. Of(5)
      BY <1>8, <2>1, <2>2, <3>1 DEF Places
    <3> QED BY <1>3, <3>1, <3>2 DEF setting
  <2>3. CASE ~asks /\ offers[s].current # {}
    <3>1. setting.source = "current" /\ setting.value \in offers[s].current
      BY <1>1, <1>2, <1>8, <2>3 DEF Each_From
    <3>2. Of(6)
      BY <1>8, <2>1, <2>3, <3>1 DEF Places
    <3> QED BY <1>3, <1>4, <3>1, <3>2 DEF setting
  <2>4. CASE ~asks /\ offers[s].current = {}
    <3>1. ~Decl[s].required /\ setting.source = "default" /\ setting.value \in {Decl[s].default}
      BY <1>1, <1>2, <1>8, <2>4 DEF Each_From
    <3>2. Of(7)
      BY <1>8, <2>1, <2>4, <3>1 DEF Places
    <3> QED BY <1>3, <1>4, <3>1, <3>2 DEF setting
  <2> QED BY <2>2, <2>3, <2>4
<1> QED BY <1>5, <1>6, <1>7, <1>8

\* A command that runs has come to every setting.
LEMMA AllFound ==
    ASSUME CliInv, cli.at = "runs", NEW s \in Names
    PROVE  /\ IF chosen(s) THEN Found(s) ELSE cli.settings[s] = Unresolved
           /\ Decl[s].under # {} => has_value(Value_Of(TheSelector))
<1>1. Done(s)
  <2>1. PICK i \in DOMAIN Order : Order[i] = s
    BY DEF Names
  <2>2. cli.next \in Nat /\ cli.next > Len(Order) /\ DOMAIN Order = 1..Len(Order) /\ Len(Order) \in Nat
    BY OrderFacts DEF CliInv, CliTyped, Accepted
  <2> QED BY <2>1, <2>2 DEF Done
<1> QED BY <1>1 DEF CliInv, Progress

\* Nothing given for a setting that does not apply, or one that has its default.
LEMMA NothingGiven ==
    ASSUME NEW s \in Names, Found(s), Decl[s].included,
           ~Holds(Decl[s].only_when) \/ cli.settings[s].source \notin Given_Places
    PROVE  /\ Given(s) = {} /\ offers[s].env = {} /\ (Decl[s].env_file => offers[s].env_file = {})
<1>1. read_option(s) = {} /\ read_env(s) = {}
  <2>1. CASE ~Holds(Decl[s].only_when)
    BY <2>1 DEF Found
  <2>2. CASE Holds(Decl[s].only_when)
    BY <2>2 DEF Found, Each_From, Each, Given_Places, read_option
  <2> QED BY <2>1, <2>2
<1> QED BY <1>1 DEF read_option, read_env, Variable, Given

\* Where it can be known, the group that was peeked is the one that was chosen.
LEMMA PeekedIsChosen ==
    ASSUME CliInv, cli.at = "runs", Foreseen, has_value(Value_Of(TheSelector))
    PROVE  cli.peeked = Value_Of(TheSelector)
<1> DEFINE sel == TheSelector
           setting == cli.settings[sel]
<1>1. sel \in Names /\ chosen(sel) /\ Decl[sel].included
  BY CommandSettingsAssumption DEF chosen
<1>2. Found(sel) /\ cli.peeked = peek(Label)
  BY <1>1, AllFound DEF CliInv, Heeded
<1>3. CASE setting.source \in Given_Places
  <2>1. Holds(Decl[sel].only_when)
    BY <1>1, <1>2, <1>3 DEF Found, Without, Given_Places
  <2>2. /\ ~Unreadable(sel) /\ setting \in Each_From(sel)
        /\ At_Most_One(option(sel)) /\ At_Most_One(offers[sel].env)
        /\ At_Most_One(offers[sel].env_file)
    BY <1>1, <1>2, <2>1, InvocationsAssumption, ArgumentsAre DEF Found, CliInv, CliTyped
  <2>3. setting.value \in Label /\ Label \subseteq Decl[sel].takes /\ At_Most_One(Label)
    <3>1. CASE option(sel) # {}
      BY <1>1, <2>2, <3>1 DEF Foreseen, Each_From, Each, Label, CliInv, Heeded
    <3>2. CASE option(sel) = {}
      <4>1. /\ setting.source \in {"env", "env-file"} /\ read_env(sel) # {}
            /\ setting.value \in read_env(sel)
        BY <1>3, <2>2, <3>2 DEF Foreseen, Each_From, Each, Given_Places
      <4>2. Quietly_Read = read_env(sel)
        BY <2>2, <4>1 DEF Foreseen, Quietly_Read, read_env, Variable, Unreadable, Both_Set
      <4>3. read_env(sel) \subseteq Decl[sel].takes
        BY <2>2 DEF Unreadable, Has_Only_Bad
      <4>4. At_Most_One(read_env(sel))
        BY <2>2 DEF At_Most_One, read_env, Variable, Unreadable, Both_Set
      <4> QED BY <3>2, <4>1, <4>2, <4>3, <4>4 DEF Label, Foreseen
    <3> QED BY <3>1, <3>2
  <2>4. peek(Label) = CHOOSE choice \in Label : TRUE
    BY <2>3 DEF peek
  <2>5. (CHOOSE choice \in Label : TRUE) \in Label
    BY <2>3
  <2> HIDE DEF setting
  <2> QED BY <1>2, <2>3, <2>4, <2>5 DEF At_Most_One, Value_Of, setting
<1>4. CASE setting.source \notin Given_Places
  <2>1. option(sel) = {} /\ offers[sel].env = {} /\ offers[sel].env_file = {}
    BY <1>1, <1>2, <1>4, NothingGiven DEF Foreseen, Given
  <2>2. Label = {}
    BY <2>1 DEF Label, Foreseen, Quietly_Read, Variable
  <2>3. setting.source = "default" /\ setting.value # Empty
    BY <1>4 DEF Foreseen, Given_Places, has_value, Value_Of
  <2>4. ~Decl[sel].required /\ setting.value = Decl[sel].default
    <3>1. CASE ~Holds(Decl[sel].only_when)
      BY <1>1, <1>2, <2>3, <3>1 DEF Found, Without
    <3>2. CASE Holds(Decl[sel].only_when)
      <4>1. setting \in Each_From(sel)
        BY <1>1, <1>2, <3>2 DEF Found
      <4> QED BY <2>3, <4>1 DEF Each_From, Each
    <3> QED BY <3>1, <3>2
  <2> QED BY <1>2, <2>2, <2>4 DEF peek, Value_Of
<1> QED BY <1>3, <1>4

\* A command that runs heeded what it was given: each setting that applies is from the first
\* place that had it and within its limits, and nothing was given that is not heeded.
THEOREM AcceptedAsDeclaredHolds == CliSpec => []AcceptedAsDeclared
<1>1. CliInv => AcceptedAsDeclared
  <2> SUFFICES ASSUME CliInv, cli.at = "runs", NEW s \in Names, Decl[s].included
               PROVE  LET setting == cli.settings[s]
                          given == option(s) \cup offers[s].option_file
                      IN /\ chosen(s) /\ Holds(Decl[s].only_when) =>
                            /\ setting.source = Places(s)[First_Place(s)].source
                            /\ setting.value \in Places(s)[First_Place(s)].has
                            /\ setting.value <= Decl[s].max
                            /\ setting.value > Decl[s].soft_max /\ setting.source # "question" =>
                                    Overridden(s)
                         /\ chosen(s) /\ ~Holds(Decl[s].only_when) =>
                            given = {} /\ offers[s].env = {}
                                /\ (Decl[s].env_file => offers[s].env_file = {})
                         /\ Foreseen /\ given # {} => setting.source \in {"option", "option-file"}
                         /\ \A other \in Decl[s].excludes :
                            has_value(setting.value) /\ Decl[other].included =>
                                option(other) \cup offers[other].option_file
                                    \cup offers[other].env = {}
    BY DEF AcceptedAsDeclared
  <2>1. ASSUME chosen(s), Holds(Decl[s].only_when)
        PROVE  /\ cli.settings[s].source = Places(s)[First_Place(s)].source
               /\ cli.settings[s].value \in Places(s)[First_Place(s)].has
               /\ cli.settings[s].value <= Decl[s].max
               /\ cli.settings[s].value > Decl[s].soft_max /\ cli.settings[s].source # "question" =>
                        Overridden(s)
    <3>1. Found(s) /\ CliTyped
      BY <2>1, AllFound DEF CliInv
    <3>2. /\ cli.settings[s].source = Places(s)[First_Place(s)].source
          /\ cli.settings[s].value \in Places(s)[First_Place(s)].has
          /\ cli.settings[s].value <= Decl[s].max /\ cli.settings[s].source # "none"
      BY <2>1, <3>1, FoundFirst
    <3>3. ASSUME cli.settings[s].value > Decl[s].soft_max, cli.settings[s].source # "question"
          PROVE  Overridden(s)
      <4>1. s \in Soft
        BY <2>1, <3>2, <3>3 DEF Soft, Value_Of
      <4> QED BY <3>3, <4>1 DEF CliInv, Accepted
    <3> QED BY <3>2, <3>3
  <2>2. ASSUME chosen(s), ~Holds(Decl[s].only_when)
        PROVE  Given(s) = {} /\ offers[s].env = {} /\ (Decl[s].env_file => offers[s].env_file = {})
    BY <2>2, AllFound, NothingGiven
  <2>3. ASSUME Foreseen, Given(s) # {}
        PROVE  cli.settings[s].source \in {"option", "option-file"}
    <3>1. chosen(s)
      <4>1. s \in entries
        BY <2>3 DEF CliInv, Heeded
      <4>2. CASE Decl[s].under = {}
        BY <4>2 DEF chosen
      <4>3. CASE Decl[s].under # {}
        BY <2>3, <4>1, <4>3, AllFound, PeekedIsChosen DEF entries, chosen
      <4> QED BY <4>2, <4>3
    <3>2. Found(s) /\ Holds(Decl[s].only_when)
      BY <2>2, <2>3, <3>1, AllFound
    <3>3. cli.settings[s] \in Each_From(s)
      BY <3>2 DEF Found
    <3> QED BY <2>3, <3>3 DEF Each_From, Each, Given
  <2>4. ASSUME NEW other \in Decl[s].excludes, has_value(cli.settings[s].value), Decl[other].included
        PROVE  Given(other) = {} /\ offers[other].env = {}
    <3>1. other \in Names /\ Decl[other].under = Decl[s].under
      BY CommandSettingsAssumption
    <3>2. chosen(s)
      BY <2>4, AllFound DEF Unresolved, has_value
    <3>3. Found(other)
      BY <3>1, <3>2, AllFound DEF chosen
    <3>4. cli.settings[other].source \notin Given_Places
      BY <2>4 DEF CliInv, Accepted, check_relations, Value_Of
    <3> QED BY <2>4, <3>1, <3>3, <3>4, NothingGiven
  <2> QED BY <2>1, <2>2, <2>3, <2>4 DEF Given
<1> QED BY <1>1, CliInvIsKept, PTL
=============================================================================
