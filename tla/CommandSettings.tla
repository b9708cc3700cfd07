---------------------------- MODULE CommandSettings ----------------------------
(***************************************************************************)
(* One run of a command that options() was put on (cli/commands.py), and   *)
(* what its settings resolve to (common/settings/resolution.py).  Which    *)
(* group a selector picks is peeked from the raw arguments, since click    *)
(* needs the group's options before it can parse them; each setting then   *)
(* comes from the first place that has it, one after the other.            *)
(***************************************************************************)
EXTENDS Naturals, Sequences

CONSTANTS Order,        \* the settings' names in the order they are resolved, groups' in place
          Decl,         \* each one's declaration
          Invocations,  \* what a run may be given: per setting and place, one value or none
          TheSelector   \* the setting whose value picks which group's settings there are

VARIABLES offers,       \* what this run was given
          cli           \* where the run is, the group peeked, whether it asks, what it resolved
cliVars == <<offers, cli>>

Names == {Order[i] : i \in DOMAIN Order}
Empty == 0              \* "", (), UNSET and False: no value, to what asks whether there is one
has_value(value) == value # Empty
Given_Places == {"option", "option-file", "env", "env-file"}

\* takes: the values that texts of its kind convert to; under: the group it belongs to, if
\* any; soft_override: the setting that allows values over soft_max, if any.
ASSUME CommandSettingsAssumption ==
    /\ TheSelector \in Names /\ Decl[TheSelector].under = {}
    /\ \A s \in Names :
        /\ Decl[s].takes \subseteq Nat /\ Decl[s].under \subseteq Decl[TheSelector].takes
        /\ Decl[s].requires \cup Decl[s].excludes \cup Decl[s].soft_override \subseteq Names
        /\ \A other \in Decl[s].requires \cup Decl[s].excludes : Decl[other].under = Decl[s].under
        /\ Decl[s].default \in Decl[s].takes \cup {Empty}
        /\ Decl[s].max \in Nat
    /\ Decl[TheSelector].included /\ Empty \notin Decl[TheSelector].takes

\* Each is resolved once, after what its tests read and, in a group, after the selector.
Before(i, names) == names \subseteq {Order[j] : j \in 1..(i - 1)}
ASSUME OrderAssumption ==
    /\ Order \in Seq(Names)
    /\ \A i, j \in DOMAIN Order : Order[i] = Order[j] => i = j
    /\ \A i \in DOMAIN Order :
        /\ Before(i, Decl[Order[i]].only_when \cup Decl[Order[i]].ask_when)
        /\ Decl[Order[i]].under # {} => Before(i, {TheSelector})

\* How the option's name and a value for it stand in the arguments: as two words or with "=",
\* as a short option joined to its value or to others before it, or where click takes the
\* name for something else, after "--" or as the value of another option.
Forms == {"word", "joined", "stray"}

At_Most_One(values) == values \subseteq Nat /\ \A v, w \in values : v = w
ASSUME InvocationsAssumption ==
    \A given \in Invocations : \A s \in Names :
        /\ given[s].args \in Seq([form: Forms, value: Nat]) /\ At_Most_One(given[s].option_file)
        /\ At_Most_One(given[s].env) /\ At_Most_One(given[s].env_file)
        /\ At_Most_One(given[s].current)

\* A setting with neither value nor source yet.
Unresolved == [value |-> Empty, source |-> "none"]
Refuse == cli' = [cli EXCEPT !.at = "refused"]

-----------------------------------------------------------------------------
CliInit ==
    /\ offers \in Invocations
    /\ cli = [at |-> "peek", peeked |-> Empty, asks |-> FALSE, next |-> 1,
              settings |-> [s \in Names |-> Unresolved]]

\* The last value in `forms`: as click parses it, and as _last() finds it in the raw arguments.
Last_Of(args, forms) ==
    LET known == {i \in DOMAIN args : args[i].form \in forms}
    IN {args[i].value : i \in {i \in known : \A j \in known : j <= i}}
option(s) == Last_Of(offers[s].args, {"word", "joined"})
_last(s) == Last_Of(offers[s].args, {"word", "stray"})

\* read_variable(): KEY, or the file KEY_FILE names; both is an error.
Variable(s, files) == offers[s].env \cup (IF files THEN offers[s].env_file ELSE {})
Both_Set(s, files) == files /\ offers[s].env # {} /\ offers[s].env_file # {}
\* peek(): the last value found of the option, else the variable's, else the default; a value that is
\* no choice leaves the default, and so does a variable that cannot be read.
Quietly_Read_No_Variable == {}
Quietly_Read == IF Both_Set(TheSelector, TRUE) THEN {} ELSE Variable(TheSelector, TRUE)
peek(label) ==
    IF label \cap Decl[TheSelector].takes # {} THEN CHOOSE choice \in label : TRUE
    ELSE IF ~Decl[TheSelector].required THEN Decl[TheSelector].default
    ELSE CHOOSE first \in Decl[TheSelector].takes :
            \A choice \in Decl[TheSelector].takes : first <= choice
Peeks ==
    /\ cli.at = "peek"
    /\ LET given == _last(TheSelector)
       IN cli' = [cli EXCEPT !.at = "parse",
                             !.peeked = peek(IF given # {} THEN given ELSE Quietly_Read)]
    /\ UNCHANGED offers

\* click knows the options of the settings the peeked group has, and refuses others, and
\* what an option's type refuses. It hands them over in the order they came: _given()
\* refuses a file's option after the option itself, and lets the option replace the file's.
\* The policy, any function of what is given and of the terminal, says whether to ask.
entries == {s \in Names : Decl[s].included /\ Decl[s].under \subseteq {cli.peeked}}
Parses ==
    /\ cli.at = "parse"
    /\ IF \A s \in Names : /\ option(s) \cup offers[s].option_file # {} => s \in entries
                           /\ option(s) \subseteq Decl[s].takes
       THEN \/ \E asks \in BOOLEAN : cli' = [cli EXCEPT !.at = "resolve", !.asks = asks]
            \/ /\ \E s \in Names : option(s) # {} /\ offers[s].option_file # {}
               /\ Refuse
       ELSE Refuse
    /\ UNCHANGED offers

-----------------------------------------------------------------------------
Value_Of(s) == cli.settings[s].value
\* Settings of the group that was chosen in the end, and of the class itself.
chosen(s) == Decl[s].under \subseteq {Value_Of(TheSelector)}
Holds(test) == \A other \in test : has_value(Value_Of(other))

read_option(s) == IF option(s) # {} THEN option(s) ELSE offers[s].option_file
read_env(s) == Variable(s, Decl[s].env_file)
Has_Only_Bad(s, found) == ~(found \subseteq Decl[s].takes)
Unreadable(s) ==
    \/ Has_Only_Bad(s, read_option(s)) \/ Both_Set(s, Decl[s].env_file)
    \/ Has_Only_Bad(s, read_env(s))

\* Every [value, source] a setting may come to: several only where a question is asked,
\* which is asked again until the answer is within the hard limits.
Each(found, source) == {[value |-> v, source |-> source] : v \in found}
Each_From(s) ==
    LET o == offers[s]
    IN IF option(s) # {} THEN Each(option(s), "option")
       ELSE IF o.option_file # {} THEN Each(o.option_file, "option-file")
       ELSE IF read_env(s) # {}
       THEN Each(read_env(s), IF o.env # {} THEN "env" ELSE "env-file")
       ELSE IF cli.asks /\ Decl[s].asked /\ Holds(Decl[s].ask_when)
       THEN Each({v \in Decl[s].takes : v <= Decl[s].max}, "question")
       ELSE IF o.current # {} THEN Each(o.current, "current")
       ELSE IF ~Decl[s].required THEN Each({Decl[s].default}, "default")
       ELSE {}
Without(s) == [value |-> IF Decl[s].required THEN Empty ELSE Decl[s].default, source |-> "default"]

\* What is wrong with it: over a hard limit, or empty though required.
hard_error(s, found) == found.source # "question" /\ found.value > Decl[s].max
Empty_But_Required(s, found) == Decl[s].required /\ ~has_value(found.value)

Settles(s, found) ==
    cli' = [cli EXCEPT !.settings[s] = found, !.next = @ + 1]
resolve_setting(s) ==
    IF ~Decl[s].included THEN Settles(s, Without(s))
    ELSE IF Unreadable(s) THEN Refuse
    ELSE IF ~Holds(Decl[s].only_when)
    THEN IF read_option(s) \cup read_env(s) # {} THEN Refuse ELSE Settles(s, Without(s))
    ELSE IF Has_Only_Bad(s, offers[s].current) \/ Each_From(s) = {} THEN Refuse
    ELSE \E found \in Each_From(s) :
            IF hard_error(s, found) \/ Empty_But_Required(s, found) THEN Refuse
            ELSE Settles(s, found)

\* A selector is resolved before its group is reached, and the other groups never are. One
\* without a value - required, where its only_when leaves it out - has no group: a KeyError.
Resolves ==
    /\ cli.at = "resolve" /\ cli.next \in DOMAIN Order
    /\ LET s == Order[cli.next]
       IN IF chosen(s) THEN resolve_setting(s)
          ELSE IF has_value(Value_Of(TheSelector)) THEN cli' = [cli EXCEPT !.next = @ + 1]
          ELSE Refuse
    /\ UNCHANGED offers

\* A value, where it is one, needs what it requires, and not be given what it excludes.
check_relations ==
    \A s \in Names : has_value(Value_Of(s)) =>
        /\ \A other \in Decl[s].requires : has_value(Value_Of(other))
        /\ \A other \in Decl[s].excludes : cli.settings[other].source \notin Given_Places

\* Values over a soft limit that were noted as they were resolved: given ones need their
\* override, and answers are confirmed together.
Soft == {s \in Names : /\ cli.settings[s].source # "none" /\ Value_Of(s) > Decl[s].soft_max
                       /\ Decl[s].included /\ Holds(Decl[s].only_when)}
Overridden(s) == \E other \in Decl[s].soft_override : has_value(Value_Of(other))
Accepts ==
    /\ cli.at = "resolve" /\ cli.next > Len(Order)
    /\ LET answered == {s \in Soft : cli.settings[s].source = "question"}
       IN IF check_relations /\ \A s \in Soft \ answered : Overridden(s)
          THEN \/ cli' = [cli EXCEPT !.at = "runs"]
               \/ answered # {} /\ Refuse
          ELSE Refuse
    /\ UNCHANGED offers

CliNext == Peeks \/ Parses \/ Resolves \/ Accepts
CliSpec == CliInit /\ [][CliNext]_cliVars

-----------------------------------------------------------------------------
\* The places a value may come from, the first that has it taking precedence.
Places(s) ==
    LET o == offers[s]
    IN <<[source |-> "option", has |-> option(s)],
         [source |-> "option-file", has |-> o.option_file],
         [source |-> "env", has |-> o.env],
         [source |-> "env-file", has |-> IF Decl[s].env_file THEN o.env_file ELSE {}],
         [source |-> "question", has |-> IF cli.asks /\ Decl[s].asked /\ Holds(Decl[s].ask_when)
                                         THEN Decl[s].takes ELSE {}],
         [source |-> "current", has |-> o.current],
         [source |-> "default", has |-> IF Decl[s].required THEN {} ELSE {Decl[s].default}]>>
First_Place(s) ==
    LET places == Places(s)
    IN CHOOSE i \in DOMAIN places :
        places[i].has # {} /\ \A before \in 1..(i - 1) : places[before].has = {}

\* Whether what a selector comes to can be known before anything is resolved: by an option
\* that shows in the raw arguments as click parses it, by a variable, or by its default with
\* nobody asked.
Foreseen ==
    /\ cli.settings[TheSelector].source \in {"option", "env", "env-file", "default"}
    /\ _last(TheSelector) = option(TheSelector)
    /\ Decl[TheSelector].env_file \/ offers[TheSelector].env_file = {}

\* A command that runs has every setting it applies to from the first place that had it,
\* and within its limits or with leave to be over the soft one; it was given none that do
\* not apply; and where the group was foreseen, it heeded every option it was given.
AcceptedAsDeclared ==
    cli.at = "runs" =>
        \A s \in {s \in Names : Decl[s].included} :
            LET setting == cli.settings[s]
                given == option(s) \cup offers[s].option_file
            IN /\ chosen(s) /\ Holds(Decl[s].only_when) =>
                    /\ setting.source = Places(s)[First_Place(s)].source
                    /\ setting.value \in Places(s)[First_Place(s)].has
                    /\ setting.value <= Decl[s].max
                    /\ setting.value > Decl[s].soft_max /\ setting.source # "question" => Overridden(s)
               /\ chosen(s) /\ ~Holds(Decl[s].only_when) =>
                    given = {} /\ offers[s].env = {} /\ (Decl[s].env_file => offers[s].env_file = {})
               /\ Foreseen /\ given # {} => setting.source \in {"option", "option-file"}
               /\ \A other \in Decl[s].excludes :
                    has_value(setting.value) /\ Decl[other].included =>
                        option(other) \cup offers[other].option_file \cup offers[other].env = {}
===============================================================================
