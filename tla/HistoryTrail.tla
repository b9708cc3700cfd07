----------------------------- MODULE HistoryTrail -----------------------------
(***************************************************************************)
(* Who the history names (common/middleware/history.py, celery/tasks.py),  *)
(* and the order a view lists it in (drf/viewsets/history.py): requests    *)
(* and the tasks they dispatch change rows in transactions of their own,   *)
(* each change recorded as an event with the context then open.            *)
(***************************************************************************)
EXTENDS Naturals, FiniteSets

CONSTANTS Servers,      \* threads, which serve requests, tasks and commands in turn
          People, Objects,
          MaxEvents,    \* bound on the events recorded, uncommitted ones included, and on the
                        \* transactions begun
          MaxSent       \* bound on the messages sent

VARIABLES serving,      \* what each thread does, who for, and the context it has open
          _open_history_context,  \* each thread's, Closed outside a request
          wrote, on_commit,       \* what its transaction recorded, and is to send once it commits
          events,                 \* the events committed
          messages,               \* those the broker holds
          made                    \* how many of each there were: a sequence, and a clock
trailVars == <<serving, _open_history_context, wrote, on_commit, events, messages, made>>

Nobody_Named == "nobody"
Closed == [user |-> Nobody_Named, caused_by |-> "none"]
System == [user |-> Nobody_Named, caused_by |-> "system"]
Idle_Server == [does |-> "nothing", asker |-> Nobody_Named, context |-> Closed, began |-> 0]

ASSUME HistoryTrailAssumption ==
    /\ Nobody_Named \notin People /\ MaxEvents \in Nat /\ MaxSent \in Nat

-----------------------------------------------------------------------------
TrailInit ==
    /\ serving = [s \in Servers |-> Idle_Server]
    /\ _open_history_context = [s \in Servers |-> Closed]
    /\ wrote = [s \in Servers |-> {}] /\ on_commit = [s \in Servers |-> {}]
    /\ events = {} /\ messages = {}
    /\ made = [events |-> 0, messages |-> 0, begun |-> 0, committed |-> 0]

Serves(s, does) == serving[s].does = does
Now_Serves(s, does, asker, context) ==
    serving' = [serving EXCEPT ![s] =
                    [does |-> does, asker |-> asker, context |-> context, began |-> 0]]

\* HistoryContextMiddleware opens a context, and keeps the dict pghistory adds to.
Opens(s) ==
    /\ Serves(s, "nothing")
    /\ LET opened == [user |-> Nobody_Named, caused_by |-> "request"]
       IN /\ Now_Serves(s, "request", Nobody_Named, opened)
          /\ _open_history_context' = [_open_history_context EXCEPT ![s] = opened]
    /\ UNCHANGED <<wrote, on_commit, events, messages, made>>

\* DRF authenticates who asks, into the open context.
Authenticates(s, person) ==
    /\ Serves(s, "request") /\ serving[s].asker = Nobody_Named
    /\ serving' = [serving EXCEPT ![s].context.user = person, ![s].asker = person]
    /\ _open_history_context' = [_open_history_context EXCEPT ![s].user = person]
    /\ UNCHANGED <<wrote, on_commit, events, messages, made>>

\* A command, or a beat: no context at all.
Commands(s) ==
    /\ Serves(s, "nothing")
    /\ Now_Serves(s, "command", Nobody_Named, Closed)
    /\ UNCHANGED <<_open_history_context, wrote, on_commit, events, messages, made>>

\* A transaction begins, which is the time its events are recorded at.
Begins_Change(s) ==
    /\ ~Serves(s, "nothing") /\ serving[s].began = 0 /\ made.begun < MaxEvents
    /\ made' = [made EXCEPT !.begun = @ + 1]
    /\ serving' = [serving EXCEPT ![s].began = made.begun + 1]
    /\ UNCHANGED <<_open_history_context, wrote, on_commit, events, messages>>

\* A row is written, once nobody else holds it, and its event stamped from the context
\* then open, under the next number of the table's sequence.
Holds_Row(s, object) == \E event \in wrote[s] : event.object = object
Writes_Row(s) ==
    /\ serving[s].began # 0 /\ made.events < MaxEvents
    /\ made' = [made EXCEPT !.events = @ + 1]
    /\ \E object \in Objects :
            /\ \A other \in Servers \ {s} : ~Holds_Row(other, object)
            /\ wrote' = [wrote EXCEPT ![s] = @ \cup
                {[pgh_id |-> made.events + 1, object |-> object, pgh_created_at |-> serving[s].began,
                  asker |-> serving[s].asker, user |-> serving[s].context.user, committed |-> 0]}]
    /\ UNCHANGED <<serving, _open_history_context, on_commit, events, messages>>

-----------------------------------------------------------------------------
\* apply_async(): the cause is read now, and the message sent once the transaction
\* commits - of a task, in a worker, nobody asked.
history_cause(s) ==
    IF _open_history_context[s] = Closed THEN System ELSE _open_history_context[s]
Sends_Then(s, message) ==
    on_commit' = [on_commit EXCEPT ![s] = @ \cup {message}] /\ UNCHANGED messages
apply_async(s) ==
    /\ ~Serves(s, "nothing") /\ made.messages < MaxSent
    /\ Sends_Then(s, [id |-> made.messages + 1, cause |-> history_cause(s),
                      asker |-> IF Serves(s, "request") THEN serving[s].asker ELSE Nobody_Named,
                      with |-> {event.pgh_id : event \in wrote[s]}])
    /\ made' = [made EXCEPT !.messages = @ + 1]
    /\ UNCHANGED <<serving, _open_history_context, wrote, events>>

\* A worker runs a task in the cause it was sent with; a message may come twice.
__call__(s, message) ==
    /\ Serves(s, "nothing")
    /\ Now_Serves(s, "task", message.asker, message.cause)
    /\ \E left \in {messages, messages \ {message}} : messages' = left
    /\ UNCHANGED <<_open_history_context, wrote, on_commit, events, made>>

Commits_Trail(s) ==
    /\ wrote[s] # {} \/ on_commit[s] # {}
    /\ made' = [made EXCEPT !.committed = @ + (IF wrote[s] # {} THEN 1 ELSE 0)]
    /\ events' = events \cup {[event EXCEPT !.committed = made.committed + 1] : event \in wrote[s]}
    /\ messages' = messages \cup on_commit[s]
    /\ wrote' = [wrote EXCEPT ![s] = {}] /\ on_commit' = [on_commit EXCEPT ![s] = {}]
    /\ serving' = [serving EXCEPT ![s].began = 0]
    /\ UNCHANGED _open_history_context

\* It answers, rolling back what is not committed, and leaves no context open.
Reset_Forgotten(s) == _open_history_context
Reset(s) == [_open_history_context EXCEPT ![s] = Closed]
Ends_Serving(s) ==
    /\ ~Serves(s, "nothing")
    /\ serving' = [serving EXCEPT ![s] = Idle_Server]
    /\ _open_history_context' = Reset(s)
    /\ wrote' = [wrote EXCEPT ![s] = {}] /\ on_commit' = [on_commit EXCEPT ![s] = {}]
    /\ UNCHANGED <<events, messages, made>>

TrailNext ==
    \E s \in Servers :
        \/ Opens(s) \/ Commands(s) \/ Begins_Change(s) \/ Writes_Row(s) \/ apply_async(s)
        \/ \E person \in People : Authenticates(s, person)
        \/ \E message \in messages : __call__(s, message)
        \/ Commits_Trail(s) \/ Ends_Serving(s)
TrailSpec == TrailInit /\ [][TrailNext]_trailVars

-----------------------------------------------------------------------------
\* Whether one event is listed before another: by number in an object's own history, by
\* time first in one merged with its parts'.
_history_order_Merged(one, other) ==
    \/ one.pgh_created_at > other.pgh_created_at
    \/ one.pgh_created_at = other.pgh_created_at /\ one.pgh_id > other.pgh_id
_history_order(one, other) == one.pgh_id > other.pgh_id
get_history_queryset(object) == {event \in events : event.object = object}

\* Whoever an event names asked for what it records - themselves or through a task, on
\* whichever thread - and no task is sent for what was never committed.
CausesAreTrue ==
    /\ \A event \in events : event.user = event.asker
    /\ \A message \in messages : message.with \subseteq {event.pgh_id : event \in events}

\* An object's history, newest first, is the order its changes took effect in, whichever
\* transactions they were made by and whenever those began.
NewestFirst ==
    \A object \in Objects : \A one, other \in get_history_queryset(object) :
        _history_order(one, other) => one.committed >= other.committed
=============================================================================
