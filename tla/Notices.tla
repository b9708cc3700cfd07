------------------------------- MODULE Notices -------------------------------
(***************************************************************************)
(* How notices of one kind come to be written: raised by the application   *)
(* (notifications/kinds.py), written by a trigger (triggers.py), or as the *)
(* record of an email its caller sent (record_email() of pipeline.py) -    *)
(* while the kind is mirrored by migrate (sync.py) and retired by hand     *)
(* (management/commands/notices.py).  Each caller makes one call, in one   *)
(* transaction at READ COMMITTED; all emails are sent under one key.       *)
(***************************************************************************)
EXTENDS Naturals, Sequences, FiniteSets

CONSTANTS Callers, Sources

VARIABLES source,            \* the kind's: "application", "trigger" or "recorded"
          status,            \* its policy row's, "missing" before it is mirrored
          share,             \* who holds that row FOR SHARE
          caller,            \* where each call is
          outcome,           \* whether each caller's send() came through
          written,           \* the notices committed, by their callers
          email, emaillock,  \* the delivery recorded under the key, and who holds it
          attempts,          \* the attempts recorded of it, by their callers, oldest first
          since              \* how many were recorded when each call began
noticesVars == <<source, status, share, caller, outcome, written, email, emaillock, attempts, since>>

ASSUME NoticesAssumption == Sources \subseteq {"application", "trigger", "recorded"}

NoticesInit ==
    /\ source \in Sources /\ status \in {"missing", "active"}
    /\ share = {} /\ written = {} /\ attempts = <<>> /\ emaillock = {}
    /\ caller = [c \in Callers |-> "idle"]
    /\ outcome = [c \in Callers |-> FALSE] /\ since = [c \in Callers |-> 0]
    /\ email = [state |-> "none", attempt_count |-> 0]

To(c, at) == caller' = [caller EXCEPT ![c] = at]
From(c, at) == caller[c] = at
Ends(c, at) == To(c, at) /\ share' = share \ {c} /\ emaillock' = emaillock \ {c}

-----------------------------------------------------------------------------
\* The policy row: migrate adds or updates it, never its status, and --retire
\* retires it; each UPDATE waits for who holds the row FOR SHARE.
mirror_kinds ==
    /\ share = {}
    /\ status' = IF status = "missing" THEN "active" ELSE status
    /\ UNCHANGED <<source, share, caller, outcome, written, email, emaillock, attempts, since>>

Retirable_NoWait == status = "active"
Retirable == status = "active" /\ share = {}
retire ==
    /\ Retirable
    /\ status' = "retired"
    /\ UNCHANGED <<source, share, caller, outcome, written, email, emaillock, attempts, since>>

-----------------------------------------------------------------------------
\* A call begins: record_email() sends first, whatever comes of it.
Begins(c) ==
    /\ From(c, "idle")
    /\ IF source = "recorded"
       THEN /\ \E ok \in BOOLEAN : outcome' = [outcome EXCEPT ![c] = ok]
            /\ since' = [since EXCEPT ![c] = Len(attempts)]
            /\ To(c, "look")
       ELSE To(c, IF source = "trigger" THEN "insert" ELSE "check") /\ UNCHANGED <<outcome, since>>
    /\ UNCHANGED <<source, status, share, written, email, emaillock, attempts>>

\* _recorded_under(key): the row is held, once it is there.
Found_Never(c) == FALSE
Found(c) == email.state # "none"
Looks(c) ==
    /\ From(c, "look") /\ (Found(c) => emaillock = {})
    /\ emaillock' = IF Found(c) THEN {c} ELSE emaillock
    /\ To(c, IF Found(c) THEN "again" ELSE "check")
    /\ UNCHANGED <<source, status, share, outcome, written, email, attempts, since>>

\* _retired(): refused - or, of an email already sent, logged.
Checks(c) ==
    /\ From(c, "check")
    /\ IF status = "retired"
       THEN Ends(c, "refused")
       ELSE /\ share' = IF status = "missing" THEN share ELSE share \cup {c}
            /\ To(c, "insert") /\ UNCHANGED emaillock
    /\ UNCHANGED <<source, status, outcome, written, email, attempts, since>>

\* write_notice() needs the kind's row; the trigger's INSERT ... SELECT finds it
\* active or writes nothing.  A key another call has inserted is waited for.
Inserts(c) ==
    /\ From(c, "insert")
    /\ IF source = "recorded" /\ status # "missing"
       THEN /\ \A d \in Callers : ~From(d, "inserted")
            /\ IF email.state # "none" THEN Ends(c, "unrecorded")
               ELSE To(c, "inserted") /\ UNCHANGED <<share, emaillock>>
       ELSE IF status = "missing" \/ (source = "trigger" /\ status = "retired")
       THEN Ends(c, "refused")
       ELSE To(c, "inserted") /\ UNCHANGED <<share, emaillock>>
    /\ UNCHANGED <<source, status, outcome, written, email, attempts, since>>

_finished(ok) == IF ok THEN "sent" ELSE "abandoned"

\* The transaction commits what the call wrote.
Commits(c) ==
    /\ From(c, "inserted")
    /\ Ends(c, "done")
    /\ written' = written \cup {c}
    /\ IF source = "recorded"
       THEN /\ email' = [state |-> _finished(outcome[c]), attempt_count |-> 1]
            /\ attempts' = Append(attempts, c)
       ELSE UNCHANGED <<email, attempts>>
    /\ UNCHANGED <<source, status, outcome, since>>

_tried_again_StateKept(c) ==
    email' = [email EXCEPT !.attempt_count = @ + 1]
_tried_again(c) ==
    email' = [state |-> _finished(outcome[c]), attempt_count |-> email.attempt_count + 1]
Again(c) ==
    /\ From(c, "again")
    /\ _tried_again(c)
    /\ attempts' = Append(attempts, c)
    /\ Ends(c, "done")
    /\ UNCHANGED <<source, status, outcome, written, since>>

\* The transaction is rolled back, or the process dies: an email is then sent and
\* not recorded.
Dies(c) ==
    /\ caller[c] \in {"look", "again", "check", "insert", "inserted"}
    /\ Ends(c, "died")
    /\ UNCHANGED <<source, status, outcome, written, email, attempts, since>>

NoticesNext ==
    \/ mirror_kinds \/ retire
    \/ \E c \in Callers : \/ Begins(c) \/ Looks(c) \/ Checks(c) \/ Inserts(c)
                          \/ Commits(c) \/ Again(c) \/ Dies(c)
NoticesSpec == NoticesInit /\ [][NoticesNext]_noticesVars

-----------------------------------------------------------------------------
NoticesTypeOK ==
    /\ source \in Sources /\ status \in {"missing", "active", "retired"}
    /\ share \subseteq Callers /\ emaillock \subseteq Callers /\ written \subseteq Callers
    /\ caller \in [Callers -> {"idle", "look", "again", "check", "insert", "inserted",
                               "done", "refused", "unrecorded", "died"}]
    /\ outcome \in [Callers -> BOOLEAN] /\ email \in [state: {"none", "sent", "abandoned"}, attempt_count: Nat]
    /\ attempts \in Seq(Callers) /\ since \in [Callers -> Nat]

\* Once a kind is retired, no notice of it that was raised or recorded is still to
\* commit: --retire waits for every transaction that found the kind's row active.
RetiredIsQuiet ==
    [][\A c \in written' \ written : c \in share => status = "active"]_noticesVars

\* A recorded email counts the attempts recorded of it, and its state is what came of
\* the one recorded last.
RecordTruthful ==
    /\ email.attempt_count = Len(attempts)
    /\ attempts # <<>> => email.state = _finished(outcome[attempts[Len(attempts)]])

\* A try that goes unrecorded over its key had another recorded while it was made: one
\* that began after the others were recorded adds its attempt.
LaterIsRecorded == \A c \in Callers : caller[c] = "unrecorded" => Len(attempts) > since[c]
=============================================================================
