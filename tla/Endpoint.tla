------------------------------- MODULE Endpoint -------------------------------
(***************************************************************************)
(* One webhook endpoint: its failures in a row, counted and parked by the  *)
(* workers sending to it (WebhookChannel of channels/webhook.py), beside   *)
(* the requests that edit it or unpark it (notifications/drf.py).  What    *)
(* came of an attempt is written in the transaction that finishes its      *)
(* delivery, which holds the endpoint's row once it has counted and may    *)
(* still be rolled back.                                                   *)
(***************************************************************************)
EXTENDS Naturals, Sequences, FiniteSets

CONSTANTS Workers,        \* each sends one delivery; one that is rolled back sends it again
          DISABLE_AFTER,
          MaxUnparked     \* bound on how often the endpoint is unparked

VARIABLES endpoint,       \* [failures, parked, url]: the row as committed
          holder,         \* who holds it
          worker,         \* each worker's step
          read,           \* the endpoint as each read it before sending
          succeeded,      \* what came of each attempt
          counted,        \* the row as each transaction leaves it
          history,        \* what came of the attempts written since it was last unparked
          signals,        \* endpoint_parked, sent by transactions that committed, since then
          unparked
endpointVars == <<endpoint, holder, worker, read, succeeded, counted, history, signals, unparked>>

ASSUME EndpointAssumption == DISABLE_AFTER \in Nat \ {0} /\ MaxUnparked \in Nat

Made == [failures |-> 0, parked |-> FALSE, url |-> "a"]

EndpointInit ==
    /\ endpoint = Made
    /\ holder = {}
    /\ worker = [w \in Workers |-> "idle"]
    /\ read = [w \in Workers |-> Made] /\ counted = [w \in Workers |-> Made]
    /\ succeeded = [w \in Workers |-> FALSE]
    /\ history = <<>> /\ signals = 0 /\ unparked = 0

\* send(): a parked endpoint's delivery is abandoned unsent, a failure like any other.
Sends(w) ==
    /\ worker[w] = "idle"
    /\ read' = [read EXCEPT ![w] = endpoint]
    /\ \E ok \in BOOLEAN :
        /\ endpoint.parked => ~ok
        /\ succeeded' = [succeeded EXCEPT ![w] = ok]
    /\ worker' = [worker EXCEPT ![w] = "sent"]
    /\ UNCHANGED <<endpoint, holder, counted, history, signals, unparked>>

\* attempted(): the first update clears the count, or counts from the row as it is
\* once its turn has come, and the second parks it; both are one transaction's.
AfterCount_FromRead(w) ==
    [endpoint EXCEPT !.failures = IF succeeded[w] THEN 0 ELSE read[w].failures + 1]
AfterCount(w) ==
    [endpoint EXCEPT !.failures = IF succeeded[w] THEN 0 ELSE @ + 1]
Parks(w, row) == ~row.parked /\ row.failures >= DISABLE_AFTER /\ ~succeeded[w]
attempted(w) ==
    /\ worker[w] = "sent" /\ holder = {}
    /\ holder' = {w}
    /\ LET row == AfterCount(w)
       IN counted' = [counted EXCEPT ![w] = [row EXCEPT !.parked = @ \/ Parks(w, row)]]
    /\ worker' = [worker EXCEPT ![w] = IF Parks(w, AfterCount(w)) THEN "signalled" ELSE "counted"]
    /\ UNCHANGED <<endpoint, read, succeeded, history, signals, unparked>>

Forgets(w) ==
    /\ read' = [read EXCEPT ![w] = Made] /\ counted' = [counted EXCEPT ![w] = Made]
    /\ succeeded' = [succeeded EXCEPT ![w] = FALSE]

Finishes(w) ==
    /\ worker[w] \in {"counted", "signalled"}
    /\ endpoint' = counted[w] /\ holder' = {}
    /\ history' = Append(history, succeeded[w])
    /\ signals' = signals + (IF worker[w] = "signalled" THEN 1 ELSE 0)
    /\ worker' = [worker EXCEPT ![w] = "done"]
    /\ Forgets(w)
    /\ UNCHANGED unparked

\* The transaction, or the worker, fails: the delivery is sent again later.
RollsBackAttempt(w) ==
    /\ worker[w] \in {"sent", "counted", "signalled"}
    /\ holder' = holder \ {w}
    /\ worker' = [worker EXCEPT ![w] = "idle"]
    /\ Forgets(w)
    /\ UNCHANGED <<endpoint, history, signals, unparked>>

\* A PATCH, or the unpark action: PreconditionMixin locks the row and reads it again
\* before save() writes every field of it.
Edits ==
    /\ holder = {} /\ endpoint.url = "a"
    /\ endpoint' = [endpoint EXCEPT !.url = "b"]
    /\ UNCHANGED <<holder, worker, read, succeeded, counted, history, signals, unparked>>

unpark ==
    /\ holder = {} /\ unparked < MaxUnparked
    /\ endpoint' = [endpoint EXCEPT !.failures = 0, !.parked = FALSE]
    /\ history' = <<>> /\ signals' = 0 /\ unparked' = unparked + 1
    /\ UNCHANGED <<holder, worker, read, succeeded, counted>>

EndpointNext ==
    \/ \E w \in Workers : Sends(w) \/ attempted(w) \/ Finishes(w) \/ RollsBackAttempt(w)
    \/ Edits \/ unpark
EndpointSpec == EndpointInit /\ [][EndpointNext]_endpointVars

-----------------------------------------------------------------------------
InARow == Cardinality({i \in DOMAIN history : \A j \in i..Len(history) : ~history[j]})

\* However many workers fail and succeed at once, the endpoint's count is that of the
\* failures written since the last success; and DISABLE_AFTER of them in a row park it
\* until it is unparked, which is said once.
ParkedForItsFailures ==
    /\ endpoint.failures = InARow
    /\ endpoint.parked <=> \E i \in DOMAIN history : \A j \in i..(i + DISABLE_AFTER - 1) :
                              j \in DOMAIN history /\ ~history[j]
    /\ signals = IF endpoint.parked THEN 1 ELSE 0
=============================================================================
