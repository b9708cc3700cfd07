----------------------------- MODULE SettingViews -----------------------------
(***************************************************************************)
(* A holder's settings over REST (features/drf.py): a PATCH names the      *)
(* version of the settings it was shown, which is that of the one row of   *)
(* overrides - a row that the first PATCH makes, and that forces change    *)
(* meanwhile.  Each PATCH is a transaction (ATOMIC_REQUESTS).              *)
(***************************************************************************)
EXTENDS Naturals

CONSTANTS Clients,
          On_Row, On_Holder,    \* the settings, by where the holder's own value is kept
          Own_Values,
          MaxVersion            \* bound on the versions of the row

VARIABLES settings_row,         \* the row committed, or that there is none
          holder_fields,        \* the holder's own values of the settings kept on it
          row_holder,           \* who has the row locked, or inserted and not committed it
          patch,                \* each client's request, and the copies it is about to write
          known                 \* the version each client was last shown
settingsVars == <<settings_row, holder_fields, row_holder, patch, known>>

Nobody_Holds == "nobody"
Not_Chosen == 0
Defaults_Etag == 0
ASSUME SettingViewsAssumption ==
    /\ Nobody_Holds \notin Clients /\ Not_Chosen \notin Own_Values
    /\ On_Row \cap On_Holder = {} /\ MaxVersion \in Nat

No_Settings == [exists |-> FALSE, version |-> Defaults_Etag,
                chosen |-> [s \in On_Row |-> Not_Chosen], forced |-> {}]
No_Patch == [at |-> "idle", said |-> "nothing"]
SettingsInit ==
    /\ settings_row = No_Settings /\ holder_fields = [s \in On_Holder |-> Not_Chosen]
    /\ row_holder = Nobody_Holds
    /\ patch = [c \in Clients |-> No_Patch] /\ known = [c \in Clients |-> Defaults_Etag]

\* What a row written over another has for its version: its own, unless it was changed.
As_Saved(row) ==
    IF row = settings_row THEN row
    ELSE [row EXCEPT !.exists = TRUE, !.version = settings_row.version + 1]
etag(row) == row.version
\* Whether the row can be locked, or who asks for it waits.
Lockable_Unlocked == TRUE
Lockable == row_holder = Nobody_Holds

-----------------------------------------------------------------------------
lists(c) ==
    /\ patch[c].at = "idle" /\ known' = [known EXCEPT ![c] = etag(settings_row)]
    /\ UNCHANGED <<settings_row, holder_fields, row_holder, patch>>

\* A PATCH of a setting that is not forced as it is asked, naming a version or "*".
Refuses_Patch(c) ==
    /\ patch' = [patch EXCEPT ![c] = [No_Patch EXCEPT !.said = "refused"]]
    /\ row_holder' = IF row_holder = c THEN Nobody_Holds ELSE row_holder
    /\ UNCHANGED <<settings_row, holder_fields, known>>
partial_update(c, name, value, star) ==
    /\ patch[c].at = "idle"
    /\ IF name \in settings_row.forced THEN Refuses_Patch(c)
       ELSE /\ patch' = [patch EXCEPT ![c] =
                [at |-> "comparing", said |-> "nothing", name |-> name, value |-> value,
                 star |-> star, named |-> known[c], row |-> No_Settings]]
            /\ UNCHANGED <<settings_row, holder_fields, row_holder, known>>

\* The row is locked, and its version compared; a row that another is inserting is not
\* seen, and so not waited for.
Named(c) == patch[c].star \/ patch[c].named = etag(settings_row)
Goes_On(c, at, row) == patch' = [patch EXCEPT ![c].at = at, ![c].row = row]
compared(c) ==
    /\ patch[c].at = "comparing"
    /\ settings_row.exists => Lockable
    /\ IF ~Named(c) THEN Refuses_Patch(c)
       ELSE /\ IF settings_row.exists
               THEN row_holder' = c /\ Goes_On(c, "setting", settings_row)
               ELSE Goes_On(c, "creating", No_Settings) /\ UNCHANGED row_holder
            /\ UNCHANGED <<settings_row, holder_fields, known>>

\* The first write makes the row, once whoever is making it too has ended - and is refused
\* if they made it.
creates(c) ==
    /\ patch[c].at = "creating" /\ row_holder = Nobody_Holds
    /\ IF settings_row.exists THEN Refuses_Patch(c)
       ELSE /\ row_holder' = c
            /\ Goes_On(c, "setting", [No_Settings EXCEPT !.exists = TRUE])
            /\ UNCHANGED <<settings_row, holder_fields, known>>

\* set_setting(): refused while forced - or for the value, or want of a feature.
sets(c) ==
    /\ patch[c].at = "setting"
    /\ \/ Refuses_Patch(c)
       \/ /\ patch[c].name \notin patch[c].row.forced
          /\ patch' = [patch EXCEPT ![c].at = "answering",
                ![c].row.chosen = IF patch[c].name \in On_Row
                                  THEN [@ EXCEPT ![patch[c].name] = patch[c].value] ELSE @]
          /\ UNCHANGED <<settings_row, holder_fields, row_holder, known>>

\* It answers with the version it leaves, and commits.
commits(c) ==
    /\ patch[c].at = "answering"
    /\ settings_row' = As_Saved(patch[c].row)
    /\ holder_fields' = IF patch[c].name \in On_Holder
                        THEN [holder_fields EXCEPT ![patch[c].name] = patch[c].value]
                        ELSE holder_fields
    /\ known' = [known EXCEPT ![c] = etag(settings_row')]
    /\ patch' = [patch EXCEPT ![c] = [No_Patch EXCEPT !.said = "ok"]]
    /\ row_holder' = Nobody_Holds

\* Its server dies, and its transaction with it.
dies(c) == patch[c].at # "idle" /\ Refuses_Patch(c)

\* Staff force a setting, or release it, waiting for whoever has the row.
Staff_Saves(forced) ==
    /\ Lockable
    /\ settings_row' = As_Saved([settings_row EXCEPT !.exists = TRUE, !.forced = forced])
    /\ UNCHANGED <<holder_fields, row_holder, patch, known>>
forces(name) == name \notin settings_row.forced /\ Staff_Saves(settings_row.forced \cup {name})
releases(name) == name \in settings_row.forced /\ Staff_Saves(settings_row.forced \ {name})

SettingsNext ==
    /\ \/ \E c \in Clients :
            \/ lists(c) \/ compared(c) \/ creates(c) \/ sets(c) \/ commits(c) \/ dies(c)
            \/ \E name \in On_Row \cup On_Holder, value \in Own_Values, star \in BOOLEAN :
                    partial_update(c, name, value, star)
       \/ \E name \in On_Row \cup On_Holder : forces(name) \/ releases(name)
    /\ settings_row'.version <= MaxVersion
SettingsSpec == SettingsInit /\ [][SettingsNext]_settingsVars

-----------------------------------------------------------------------------
\* A PATCH that is answered as done named the version it landed on, of a setting nobody had
\* forced, and left the others as they were - the first two writes at once included.
AppliedToNamed ==
    [][\A c \in Clients : patch[c].at = "answering" /\ patch'[c].said = "ok" =>
            /\ Named(c)
            /\ patch[c].name \notin settings_row.forced
            /\ settings_row'.forced = settings_row.forced
            /\ \A other \in On_Row \ {patch[c].name} :
                    settings_row'.chosen[other] = settings_row.chosen[other]]_settingsVars

\* One version covers all of a holder's settings (features/bases.py:142): none of them
\* changes under it.
VersionCoversAll ==
    [][settings_row' # settings_row \/ holder_fields' # holder_fields =>
            etag(settings_row') # etag(settings_row)]_settingsVars
===============================================================================
