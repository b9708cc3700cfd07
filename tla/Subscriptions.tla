---------------------------- MODULE Subscriptions ----------------------------
(***************************************************************************)
(* One person's subscriptions to one kind: what they choose, what staff    *)
(* force, and what they get (notifications/audience/helpers.py, with the   *)
(* VariantGuard trigger of notifications/triggers.py).  Each call runs in  *)
(* one transaction at READ COMMITTED: it reads committed rows and its own, *)
(* an UPDATE or DELETE waits for the row's last writer, and the guard's    *)
(* advisory lock on the person and kind is held to the commit.             *)
(***************************************************************************)
EXTENDS Naturals, FiniteSets

CONSTANTS Writers,      \* each makes one call after another
          MaxAsked,     \* bound on the calls made
          Variants,     \* the kind's declared variants
          Every,        \* a row that names no variant
          KindPolicies, \* the policies the kind may have
          Apart         \* {TRUE}: no two calls are at once that Alongside() forbids

VARIABLES policy,       \* the kind's, as its policy row has it
          apart, asked, \* the regime; how many calls were made
          subs, guard, rowlock, staged, call, fetched,
          choice        \* what the person last chose of each, as their calls were answered
subsVars == <<policy, apart, asked, subs, guard, rowlock, staged, call, fetched, choice>>

Keys == Variants \cup {Every}
Nobody == "nobody"
Absent == [forced |-> FALSE, chosen |-> FALSE]      \* no row: every row is one or the other
Subscription == [forced: BOOLEAN, chosen: BOOLEAN, enabled: BOOLEAN, forced_enabled: BOOLEAN]
Same == [same |-> TRUE]                            \* not written in this transaction

ASSUME SubscriptionsAssumption ==
    /\ Every \notin Variants /\ "nobody" \notin Writers /\ Apart \subseteq BOOLEAN
    /\ MaxAsked \in Nat
    /\ KindPolicies \subseteq {"mandatory", "default_on", "default_off"}

NoCall == [name |-> "none", at |-> "idle", key |-> Every, on |-> TRUE]

View(w) == [k \in Keys |-> IF staged[w][k] = Same THEN subs[k] ELSE staged[w][k]]
Rows(w) == {k \in Keys : View(w)[k] # Absent}
Covered_Exact(k) == {k}
Covered(k) == IF k = Every THEN Keys ELSE {k}
Staff(name) == name \in {"force", "release"}
Free(w, keys) == \A k \in keys : rowlock[k] \in {Nobody, w}

\* gets(): a force, else their own choice, else the policy.
gets(row) ==
    IF policy = "mandatory" THEN TRUE
    ELSE IF row = Absent THEN policy = "default_on"
    ELSE IF row.forced THEN row.forced_enabled ELSE row.enabled

matching_variant(variant) == {k \in {Every, variant} : subs[k] # Absent}

\* Whether a kind's audience has the person: Subscribers looks for a row that is enabled,
\* forced or not; any other names them by the notice - of whom it does not, nothing is asked.
recipients(audience, variant) ==
    audience = "Subscribers" => \E k \in matching_variant(variant) : subs[k].enabled

\* chosen_users(), as it may answer: of several rows that match, whichever came last.
FanOutGets(audience, variant) ==
    IF ~recipients(audience, variant) THEN {FALSE}
    ELSE IF policy = "mandatory" \/ matching_variant(variant) = {} THEN {gets(Absent)}
    ELSE {gets(subs[k]) : k \in matching_variant(variant)}

\* What every view says of a variant, or of the whole kind.
shown_row(variant) ==
    IF variant # Every /\ subs[variant] # Absent THEN subs[variant] ELSE subs[Every]
kind_states_NoFallback(variant) == gets(subs[variant])
kind_states(variant) == gets(shown_row(variant))

-----------------------------------------------------------------------------
SubsInit ==
    /\ policy \in KindPolicies /\ apart \in Apart /\ asked = 0
    /\ subs = [k \in Keys |-> Absent]
    /\ guard = Nobody /\ rowlock = [k \in Keys |-> Nobody]
    /\ staged = [w \in Writers |-> [k \in Keys |-> Same]]
    /\ call = [w \in Writers |-> NoCall]
    /\ fetched = [w \in Writers |-> Absent]
    /\ choice = [k \in Keys |-> "none"]

At(w, name, at) == call[w].name \in name /\ call[w].at = at
Goes(w, at) == call' = [call EXCEPT ![w].at = at]

\* An error leaves the transaction as it found things.
Refused(w) ==
    /\ call' = [call EXCEPT ![w] = NoCall]
    /\ staged' = [staged EXCEPT ![w] = [k \in Keys |-> Same]]
    /\ guard' = IF guard = w THEN Nobody ELSE guard
    /\ rowlock' = [k \in Keys |-> IF rowlock[k] = w THEN Nobody ELSE rowlock[k]]
    /\ fetched' = [fetched EXCEPT ![w] = Absent]
    /\ UNCHANGED <<subs, choice>>

\* The regime ForceHolds speaks of: staff never call beside the person, nor force a
\* variant beside the whole kind.
Alongside(other, name, key) ==
    /\ Staff(other.name) = Staff(name)
    /\ other.name = "force" /\ name = "force" => (other.key = Every) = (key = Every)

Call(w) ==
    /\ call[w].at = "idle" /\ asked < MaxAsked /\ asked' = asked + 1
    /\ \E name \in {"subscribe", "unsubscribe", "force", "release"}, key \in Keys, on \in BOOLEAN :
        /\ apart => \A v \in Writers : call[v].at = "idle" \/ Alongside(call[v], name, key)
        /\ call' = [call EXCEPT ![w] = [name |-> name, at |-> "check", key |-> key, on |-> on]]
    /\ UNCHANGED <<policy, apart, subs, guard, rowlock, staged, fetched, choice>>

Stage(w, new) == staged' = [staged EXCEPT ![w] = [k \in Keys |-> IF k \in DOMAIN new THEN new[k] ELSE @[k]]]
Lock(w, keys) == rowlock' = [k \in Keys |-> IF k \in keys THEN w ELSE rowlock[k]]

\* _choosable_kind() and _refuse_forced(), or the refusals of force_subscription():
\* each a read of its own.
Check(w) ==
    /\ At(w, {"subscribe", "unsubscribe", "force"}, "check")
    /\ LET key == call[w].key
           forced == {k \in IF call[w].name = "force" THEN Covered(key) \ {key} ELSE Covered(key) :
                        subs[k].forced}
       IN IF forced # {} \/ (policy = "mandatory" /\ call[w].name # "unsubscribe")
          THEN Refused(w)
          ELSE /\ Goes(w, IF call[w].name = "unsubscribe" THEN "delete" ELSE "clear")
               /\ UNCHANGED <<subs, guard, rowlock, staged, fetched, choice>>
    /\ UNCHANGED <<policy, apart, asked>>

\* checked_force() or checked_release(): the source does not allow it.
Declined(w) ==
    /\ At(w, {"force", "release"}, "check")
    /\ Refused(w)
    /\ UNCHANGED <<policy, apart, asked>>

Deletes(w, keys) == Free(w, keys) /\ Stage(w, [k \in keys |-> Absent]) /\ Lock(w, keys)

Unsubscribe(w) ==
    /\ At(w, {"unsubscribe"}, "delete")
    /\ Deletes(w, Covered(call[w].key) \cap Rows(w))
    /\ Goes(w, "commit")
    /\ UNCHANGED <<policy, apart, asked, subs, guard, fetched, choice>>

\* For every variant, the rows naming one go first; beside a row for every
\* variant, naming one is refused.
Clear(w) ==
    /\ At(w, {"subscribe", "force"}, "clear")
    /\ IF call[w].key = Every
       THEN /\ Deletes(w, Rows(w) \ {Every})
            /\ Goes(w, "fetch")
            /\ UNCHANGED <<subs, guard, fetched, choice>>
       ELSE IF Every \in Rows(w) THEN Refused(w)
       ELSE Goes(w, "fetch") /\ UNCHANGED <<subs, guard, rowlock, staged, fetched, choice>>
    /\ UNCHANGED <<policy, apart, asked>>

\* update_or_create() fetches its row under a lock; force_subscription() does not.
Fetch(w) ==
    /\ At(w, {"subscribe", "force"}, "fetch")
    /\ LET key == call[w].key
       IN /\ fetched' = [fetched EXCEPT ![w] = View(w)[key]]
          /\ IF call[w].name = "subscribe" /\ key \in Rows(w)
             THEN Free(w, {key}) /\ Lock(w, {key})
             ELSE UNCHANGED rowlock
    /\ Goes(w, "write")
    /\ UNCHANGED <<policy, apart, asked, subs, guard, staged, choice>>

\* VariantGuard._exclusive(): the advisory lock, then a look at the other rows.
Guarded_ByNoLock(w) == TRUE
Guarded(w) == guard \in {Nobody, w}
Exclusive(w, key) == \A k \in Rows(w) \ {key} : (k = Every) = (key = Every)

\* What subscribe() leaves of the row, and what force_subscription() does: save()
\* of every field, which inserts the row anew when it is gone.
Chosen(on, now) ==
    IF now = Absent
    THEN [forced |-> FALSE, chosen |-> TRUE, enabled |-> on, forced_enabled |-> FALSE]
    ELSE [now EXCEPT !.enabled = on]
Forced(on, read) ==
    IF read = Absent
    THEN [forced |-> TRUE, chosen |-> FALSE, enabled |-> TRUE, forced_enabled |-> on]
    ELSE [read EXCEPT !.forced = TRUE, !.forced_enabled = on]

\* A row made meanwhile is the unique constraint's to refuse, which
\* update_or_create() answers by fetching that row instead.
Write(w) ==
    /\ At(w, {"subscribe", "force"}, "write")
    /\ Guarded(w) /\ Free(w, {call[w].key})
    /\ LET key == call[w].key
           now == View(w)[key]
           new == IF call[w].name = "subscribe" THEN Chosen(call[w].on, now)
                  ELSE Forced(call[w].on, fetched[w])
       IN IF ~Exclusive(w, key) \/ (call[w].name = "force" /\ fetched[w] = Absent /\ now # Absent)
          THEN Refused(w)
          ELSE /\ Stage(w, [k \in {key} |-> new])
               /\ guard' = w /\ Lock(w, {key})
               /\ Goes(w, "commit")
               /\ UNCHANGED <<subs, fetched, choice>>
    /\ UNCHANGED <<policy, apart, asked>>

\* release_subscription(): the row under FOR UPDATE, if it is forced.
Release(w) ==
    /\ At(w, {"release"}, "check")
    /\ LET key == call[w].key
       IN IF ~subs[key].forced THEN Refused(w)
          ELSE /\ Free(w, {key}) /\ Lock(w, {key})
               /\ IF subs[key].chosen
                  THEN /\ Guarded(w) /\ guard' = w
                       /\ Stage(w, [k \in {key} |->
                            [subs[key] EXCEPT !.forced = FALSE, !.forced_enabled = FALSE]])
                  ELSE Stage(w, [k \in {key} |-> Absent]) /\ UNCHANGED guard
               /\ Goes(w, "commit")
               /\ UNCHANGED <<subs, fetched, choice>>
    /\ UNCHANGED <<policy, apart, asked>>

Word(on) == IF on THEN "on" ELSE "off"

Commit(w) ==
    /\ call[w].at = "commit"
    /\ subs' = View(w)
    /\ choice' = [k \in Keys |->
            IF call[w].name = "subscribe" /\ k = call[w].key THEN Word(call[w].on)
            ELSE IF staged[w][k] = Absent /\ call[w].name # "release" THEN "none"
            ELSE choice[k]]
    /\ call' = [call EXCEPT ![w] = NoCall]
    /\ fetched' = [fetched EXCEPT ![w] = Absent]
    /\ staged' = [staged EXCEPT ![w] = [k \in Keys |-> Same]]
    /\ guard' = IF guard = w THEN Nobody ELSE guard
    /\ rowlock' = [k \in Keys |-> IF rowlock[k] = w THEN Nobody ELSE rowlock[k]]
    /\ UNCHANGED <<policy, apart, asked>>

SubsNext ==
    \E w \in Writers :
        \/ Call(w) \/ Check(w) \/ Declined(w) \/ Unsubscribe(w) \/ Clear(w) \/ Fetch(w)
        \/ Write(w) \/ Release(w) \/ Commit(w)

SubsSpec == SubsInit /\ [][SubsNext]_subsVars

-----------------------------------------------------------------------------
SubsTypeOK ==
    /\ policy \in KindPolicies /\ apart \in Apart /\ asked \in 0..MaxAsked
    /\ subs \in [Keys -> Subscription \cup {Absent}]
    /\ guard \in Writers \cup {Nobody} /\ rowlock \in [Keys -> Writers \cup {Nobody}]
    /\ staged \in [Writers -> [Keys -> Subscription \cup {Absent, Same}]]
    /\ call \in [Writers -> [name: {"none", "subscribe", "unsubscribe", "force", "release"},
                            at: {"idle", "check", "delete", "clear", "fetch", "write", "commit"},
                            key: Keys, on: BOOLEAN]]
    /\ fetched \in [Writers -> Subscription \cup {Absent}]
    /\ choice \in [Keys -> {"none", "on", "off"}]

\* A row for every variant never sits beside one naming a variant, however many
\* calls race: the guard's lock makes each look see the other's row, or wait.
EveryAlone == \A k \in Variants : subs[k] # Absent => subs[Every] = Absent

\* The fan-out and every view give one answer about each variant, and about a notice that
\* names none, to whom the kind's audience names. Of Subscribers, the fan-out reaches only
\* those of them whose own row is enabled: not whom the policy alone turns on, nor who chose
\* off and is forced on - and never whom a view calls off.
ViewsAgreeWithFanOut ==
    \A v \in Keys :
        LET asked_for == shown_row(v) # Absent /\ shown_row(v).enabled
        IN /\ FanOutGets("named", v) = {kind_states(v)}
           /\ FanOutGets("Subscribers", v) = {kind_states(v) /\ asked_for}

ForceLifted(k) == subs[k].forced /\ (~subs'[k].forced \/ subs'[k].forced_enabled # subs[k].forced_enabled)
ByStaff == \E w \in Writers : Staff(call[w].name) /\ call[w].at = "commit" /\ call'[w].at = "idle"
ChoiceKept ==
    \A k \in Keys : IF subs[k].chosen THEN choice[k] = Word(subs[k].enabled) ELSE choice[k] = "none"

\* What is forced stays as forced until staff change it, and the person's own choice
\* is there under it, to come back when it is released.
ForceHolds == [][apart => /\ \A k \in Keys : ForceLifted(k) => ByStaff
                          /\ ChoiceKept']_subsVars
=============================================================================
