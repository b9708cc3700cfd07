-------------------------------- MODULE Grants --------------------------------
(***************************************************************************)
(* One holder's grants of one feature, and who is told when it comes into  *)
(* force or ends (features/operations.py, features/resolution.py): grant() *)
(* and revoke() tell what they move, and the boundary sweep tells what     *)
(* time moved, run by a beat or, with SWEEP "next_boundary", by the run    *)
(* that schedule_next_sweep() has put off until then. A grant has that     *)
(* called once it is committed, in a transaction of its own.               *)
(***************************************************************************)
EXTENDS Integers, FiniteSets, FiniteSetsExt

CONSTANTS GrantIds, Sweepers,
          MaxClock,             \* bound on time
          SWEEP_LOOKAHEAD,
          Promptness            \* {TRUE}: calls are made once a sweep has caught up

VARIABLES clock, grants, revoked_at,
          swept_at, next_sweep_at,   \* the sweep's cursor, Never before its first run
          scheduled,                 \* the runs put off, by the time each is due
          called,                    \* the grants committed, on_commit() yet to be run
          asking,                    \* and each one's call: its reading of the clock, or Never
          sweeping,                  \* each sweep's reading of the clock, Never between runs
          held,                      \* what feature_changed last told
          lost,                      \* whether a run, or a call to put one off, was lost, and
                                     \* none since has found the one last put off to be past
          prompt                     \* the regime
callVars == <<called, asking>>
grantsVars == <<clock, grants, revoked_at, swept_at, next_sweep_at, scheduled, callVars, sweeping,
                held, lost, prompt>>

Time == 0..MaxClock
Never == MaxClock + 1
Ungranted == [starts_at |-> Never, expires_at |-> Never, created_at |-> Never]

ASSUME GrantsAssumption ==
    MaxClock \in Nat /\ SWEEP_LOOKAHEAD \in Nat \ {0} /\ Promptness \subseteq BOOLEAN

Granted == {g \in GrantIds : grants[g] # Ungranted}
Active == {g \in Granted : revoked_at[g] = Never}
revoked_after(g, at) == revoked_at[g] > at

\* live_grants(): at a moment, and just before it.
live_grants(at) ==
    {g \in Granted : grants[g].starts_at <= at /\ grants[g].expires_at > at /\ revoked_after(g, at)}
live_before(at) ==
    {g \in Granted : grants[g].starts_at < at /\ grants[g].expires_at >= at /\ revoked_at[g] >= at}
In_force == \E g \in Active : grants[g].starts_at <= clock /\ grants[g].expires_at > clock

\* A grant's boundaries that time brings: the others were told as it was written.
ByTime(g) == {t \in {grants[g].starts_at, grants[g].expires_at} \ {Never} : t > grants[g].created_at}

-----------------------------------------------------------------------------
GrantsInit ==
    /\ clock = 0 /\ held = FALSE /\ lost = FALSE /\ prompt \in Promptness
    /\ grants = [g \in GrantIds |-> Ungranted] /\ revoked_at = [g \in GrantIds |-> Never]
    /\ swept_at = Never /\ next_sweep_at = Never /\ scheduled = {}
    /\ called = {} /\ asking = [g \in GrantIds |-> Never]
    /\ sweeping = [s \in Sweepers |-> Never]

Between == \A s \in Sweepers : sweeping[s] = Never
CaughtUp == Between /\ swept_at = clock

Passes ==
    /\ clock < MaxClock
    /\ clock' = clock + 1
    /\ UNCHANGED <<grants, revoked_at, swept_at, next_sweep_at, scheduled, callVars, sweeping, held,
                   lost, prompt>>

-----------------------------------------------------------------------------
\* In force as it is written: told now, where no other grant holds it.
AsWritten_Started(from, to) == from < clock /\ to > clock
AsWritten(from, to) == from <= clock /\ to > clock
grant(g) ==
    /\ grants[g] = Ungranted /\ (prompt => CaughtUp)
    /\ \E from \in Time, to \in Time \cup {Never} :
        /\ from < to
        /\ grants' = [grants EXCEPT ![g] =
                        [starts_at |-> from, expires_at |-> to, created_at |-> clock]]
        /\ held' = IF AsWritten(from, to) /\ ~In_force THEN TRUE ELSE held
        /\ called' = IF from > clock \/ to # Never THEN called \cup {g} ELSE called
    /\ UNCHANGED <<clock, revoked_at, swept_at, next_sweep_at, scheduled, asking, sweeping, lost,
                   prompt>>

revoke ==
    /\ Active # {} /\ (prompt => CaughtUp)
    /\ revoked_at' = [g \in GrantIds |-> IF g \in Active THEN clock ELSE revoked_at[g]]
    /\ held' = IF In_force THEN FALSE ELSE held
    /\ UNCHANGED <<clock, grants, swept_at, next_sweep_at, scheduled, callVars, sweeping, lost, prompt>>

-----------------------------------------------------------------------------
\* schedule_next_sweep(), under the cursor's lock: of a run due no later it takes no
\* notice once that is past. `now` was read before the lock.
Standing_PastToo(now, due) == next_sweep_at # Never /\ next_sweep_at <= due
Standing(now, due) == next_sweep_at # Never /\ now < next_sweep_at /\ next_sweep_at <= due
schedule_next_sweep(now, cursor) ==
    LET to_come == {t \in UNION {ByTime(g) : g \in Active} : t > now}
        due == Min({now + SWEEP_LOOKAHEAD} \cup to_come)
    IN /\ IF cursor = Never
          THEN scheduled' = scheduled \cup {now} /\ UNCHANGED next_sweep_at
          ELSE IF to_come = {} \/ Standing(now, due)
          THEN UNCHANGED <<scheduled, next_sweep_at>>
          ELSE scheduled' = scheduled \cup {due} /\ next_sweep_at' = due
       /\ lost' = (lost /\ next_sweep_at # Never /\ now < next_sweep_at)

\* on_commit(): the call reads the clock, and then has the cursor; or the process dies, or
\* has no broker to send to, at any point of it.
OnCommit(g) ==
    /\ g \in called
    /\ called' = called \ {g}
    /\ asking' = [asking EXCEPT ![g] = clock]
    /\ UNCHANGED <<clock, grants, revoked_at, swept_at, next_sweep_at, scheduled, sweeping, held,
                   lost, prompt>>
PutsOff(g) ==
    /\ asking[g] # Never
    /\ schedule_next_sweep(asking[g], swept_at)
    /\ asking' = [asking EXCEPT ![g] = Never]
    /\ UNCHANGED <<clock, grants, revoked_at, swept_at, called, sweeping, held, prompt>>
PutsNoneOff(g) ==
    /\ g \in called \/ asking[g] # Never
    /\ called' = called \ {g} /\ asking' = [asking EXCEPT ![g] = Never]
    /\ lost' = TRUE
    /\ UNCHANGED <<clock, grants, revoked_at, swept_at, next_sweep_at, scheduled, sweeping, held,
                   prompt>>

\* A sweep starts, from the beat or as a run that is due, and reads the clock.
Starts(s) ==
    /\ sweeping[s] = Never /\ (prompt => Between)
    /\ sweeping' = [sweeping EXCEPT ![s] = clock]
    /\ \E run \in {{}} \cup {{eta} : eta \in {eta \in scheduled : eta <= clock}} :
            scheduled' = scheduled \ run
    /\ UNCHANGED <<clock, grants, revoked_at, swept_at, next_sweep_at, callVars, held, lost, prompt>>

Crossings(since, now) ==
    {t \in UNION {{t \in ByTime(g) : revoked_after(g, t)} : g \in Granted} : since < t /\ t <= now}

\* _sweep(): each boundary since the last run, as of its own moment.
sweep_boundaries(s) ==
    LET now == sweeping[s]
        moved == IF swept_at = Never THEN {}
                 ELSE {t \in Crossings(swept_at, now) : (live_before(t) = {}) # (live_grants(t) = {})}
    IN /\ now # Never
       /\ swept_at' = now
       /\ held' = IF moved = {} THEN held ELSE live_grants(Max(moved)) # {}
       /\ schedule_next_sweep(now, now)
       /\ sweeping' = [sweeping EXCEPT ![s] = Never]
       /\ UNCHANGED <<clock, grants, revoked_at, callVars, prompt>>

\* The broker loses a run put off, or one fails.
LosesRun ==
    /\ \E eta \in scheduled : scheduled' = scheduled \ {eta}
    /\ lost' = TRUE
    /\ UNCHANGED <<clock, grants, revoked_at, swept_at, next_sweep_at, callVars, sweeping, held,
                   prompt>>
FailsRun(s) ==
    /\ sweeping[s] # Never
    /\ sweeping' = [sweeping EXCEPT ![s] = Never]
    /\ lost' = TRUE
    /\ UNCHANGED <<clock, grants, revoked_at, swept_at, next_sweep_at, scheduled, callVars, held,
                   prompt>>

GrantsNext ==
    \/ Passes \/ revoke \/ LosesRun
    \/ \E g \in GrantIds : grant(g) \/ OnCommit(g) \/ PutsOff(g) \/ PutsNoneOff(g)
    \/ \E s \in Sweepers : Starts(s) \/ sweep_boundaries(s) \/ FailsRun(s)
GrantsSpec == GrantsInit /\ [][GrantsNext]_grantsVars

-----------------------------------------------------------------------------
\* Where calls are made once the sweep has caught up, what was last told of the feature
\* is so whenever it has caught up again, however many boundaries went by between.
ToldWhatHolds == prompt /\ CaughtUp => held = In_force

\* A run is put off to no later than each boundary to come, or a sweep or the grant's own
\* call is on its way to put one off - but from when a run was lost or failed, or a call
\* died, until one that finds the run last put off to be past.
NextIsScheduled ==
    ~lost /\ swept_at # Never =>
        \A g \in Active : \A b \in {b \in ByTime(g) : b > clock} :
            \/ \E eta \in scheduled : eta <= b
            \/ \E s \in Sweepers : sweeping[s] <= b
            \/ g \in called \/ asking[g] <= b
=============================================================================
