# Verification of isik

TLA+ models of the parts of `isik` in which several processes act on the same
rows, or a long sequence of legal calls could end wrong; the TLC runs that check
them on small instances; and theorems about them that TLAPS checks. Paths are
relative to the repository (`src/`); `notifications/` and its like are under
`isik/django/apps/`.

- [The system](#the-system)
- [Modules](#modules)
- [Runs, bounds and what they show](#runs-bounds-and-what-they-show)
- [Fairness](#fairness)
- [Proofs](#proofs)
- [What the code and its documentation disagree on](#what-the-code-and-its-documentation-disagree-on)
- [What is abstracted](#what-is-abstracted)
- [Not modelled](#not-modelled)
- [Plan](#plan)

## The system

`isik` is a library of Django apps over Postgres, with Celery for background
work and a small toolkit for commands. Most of it is declarations: model makers,
serializers, generated triggers and constraints, OpenAPI output. State that
several processes change at once is kept in a few places.

| part | state | operations | what is hard | what makes it correct |
|---|---|---|---|---|
| **delivery** (`notifications/pipeline.py`, `tasks.py`) | the delivery rows: `state`, `attempt_count`, `attempts_before_run`, `retry_trigger`, `next_attempt_at`, `claimed_at`; their attempts; the tasks the broker holds | `send()`, `reap_stranded()`, `retry_delivery()` | the row is the queue and a task only a hint; claims are stamps of the clock; the send is outside any transaction; the reaper takes claims back under a worker that may only be slow | one live claim at a time; a late worker changes nothing; runs within `MAX_ATTEMPTS`; every delivery settles |
| **fan-out and shards** (`pipeline.py`, `partitions.py`) | notices (`fanned_out_at`), shards, delivery rows | `fan_out()`, `run_shard()`, the shard half of `reap_stranded()` | batches held with SKIP LOCKED; one bad notice among good ones; shards retried; partitions dropped | no target reached twice, no partition forgotten, nothing finished or abandoned begins again, every notice is fanned out |
| **retention** (`prune_notices()`, `prune_attempts()`) | notices and what hangs off them | prune, beside retry by hand | a snapshot read followed by locks; two lock orders | nothing unfinished is deleted, but what a retry put back before the lock |
| **idempotency** (`idempotency/claims.py`, `drf.py`) | claims; the transaction of each request | insert the claim, wait for another's, replay, refuse, record, release | a retry meets the first request at every point of it, or after it died - before the commit, or past it with no answer sent | a key is spent once; every answer is true |
| **kinds and the email log** (`notifications/kinds.py`, `sync.py`, `triggers.py`, `record_email()`) | a kind's policy row; notices; one recorded email | mirror, retire, raise, record | retire against raise; two callers of one key | no notice of a retired kind; a recorded email is what its attempts were |
| **endpoints** (`notifications/channels/webhook.py`) | failures in a row, parked | count, park, edit, unpark | counted by workers at once, in transactions rolled back | parked for its own failures, and said so once |
| **subscriptions** (`notifications/audience/`, `triggers.py`) | a person's rows of a kind, per variant or for every one | choose, force, release | two writers unseen by each other's check; rows covering each other; an audience that reads the same rows | the views agree with the fan-out, for whom the audience names; a choice does not lift a force |
| **preconditions** (`drf/viewsets/preconditions.py`, `common/db/concurrency.py`, `models.py`) | a row's concurrency token, in four kinds | `If-Match`, `If-None-Match`, the triggers | read, lock, read again | no lost update; what is compared is what is written over |
| **features** (`features/`) | grants; the sweep's cursor; a holder's one row of overrides | grant, and its on-commit call, revoke, sweep; force, release, choose, over REST too | boundaries that time crosses; a run put off after the commit, or never; whole rows saved; a version of a row that may not be there yet | what was last told holds; no call undoes another's; Python and SQL agree; a PATCH lands on what it named |
| **uuid7** (`common/db/models.py`) | a process's last time and counter | make a key | the clock steps back, the counter runs out | keys sort as they were made |
| **comments** (`feedback/comments/`) | a tree of rows | reply, edit, delete | depth counted by walking parents that change | replies have parents on their own target, at a depth allowed |
| **guarded writes** (`drf/permissions.py`, `drf/viewsets/guarded_fields.py`, `drf/serializers/guarded_save.py`) | one row; a request's instance | create, update, handlers that bypass the serializer | predicates unknown without a row; writes guards never saw | a guarded change is committed only where its guard allows it, an error returned past the guards apart |
| **history** (`common/middleware/history.py`, `celery/tasks.py`, `drf/viewsets/history.py`) | each thread's context; messages; events | serve, dispatch, run, list | threads reused; transactions that overlap | an event names who caused it; an object's changes are listed as they took effect |
| **a command's settings** (`cli/commands.py`, `common/settings/resolution.py`, `common/config/environment.py`) | what one run was given and resolved | peek, parse, resolve, refuse | a group peeked before anything is parsed, by another rule than it is parsed by; five places in order | what is accepted is as declared |

How they interact: a trigger writes a notice in the transaction that raises it;
`fan_out()` (beat, every 10 s) turns notices into deliveries or shards, for the
people whose subscriptions say so; `run_shard()` turns a shard into deliveries;
each delivery written is dispatched as a `send` task once its transaction commits;
a webhook's answer is counted on its endpoint in the transaction that finishes its
delivery; `reap_stranded()` (beat, every minute) takes back what workers left
behind and dispatches what is overdue; `prune_notices()` deletes what is done with;
`retry_delivery()` is called by people. They share no memory: only rows, their
locks, and tasks that may be lost, late or doubled. The rest are independent of all
that and of each other, and share only Postgres: requests meet at a unique index
(idempotency), at a row's token (preconditions, guarded writes) or at a holder's one
row (overrides).

`PROJECT.json` lists every component, modelled or not, and under `hazards` what
is hard to test in each, at its line, with the properties that cover it.

## Modules

| module | models | in the code |
|---|---|---|
| `Outbox` | what the app promises of a delivery: no workers, claims, clocks or tasks | abstract |
| `Delivery` | `send()` step by step in every worker, the reaper a statement at a time, retry by hand, the broker, crashes, the clock | `notifications/pipeline.py:220-227, 306-425, 524-546` |
| `FanOut` | `fan_out()`, `run_shard()`, the reaper's shard half, partitions dropped | `notifications/pipeline.py:89-283, 524-558` |
| `Retention` | `prune_notices()` beside `retry_delivery()`, a row lock at a time | `notifications/pipeline.py:396-425, 575-600` |
| `Notices` | one kind: mirrored, retired, raised, written by its trigger, recorded as an email | `notifications/kinds.py`, `sync.py`, `triggers.py`, `pipeline.py` (`record_email`) |
| `Endpoint` | one webhook endpoint beside its workers and its editors | `notifications/channels/webhook.py`, `drf.py` |
| `Subscriptions` | one person and kind: choices, forces, the guard on variants, what fan-out and the views make of it | `notifications/audience/helpers.py`, `bases.py`, `triggers.py` |
| `Idempotency` | requests of one caller under one key, each a transaction | `idempotency/claims.py`, `drf.py` |
| `Preconditions` | conditional requests on one row, under every kind of version and setting of the view | `drf/viewsets/preconditions.py`, `common/db/concurrency.py`, `models.py` |
| `Grants` | one holder's grants of a feature, told as they are written or by the sweep | `features/operations.py`, `resolution.py` |
| `Overrides` | one holder's row of overrides beside concurrent calls, and the resolution of each setting in Python and in SQL | `features/operations.py`, `resolution.py` |
| `SettingViews` | the settings over REST: a PATCH by version of a row that the first PATCH makes | `features/drf.py` |
| `Uuid7` | `uuid7()` in the threads of one process, over a clock that steps back | `common/db/models.py` |
| `Comments` | a thread's replies, edits and deletions | `feedback/comments/_comments.py`, `feedback/viewsets.py` |
| `GuardedWrites` | guards' three-valued predicates, and the rollback of a write they never saw | `drf/permissions.py`, `drf/viewsets/guarded_fields.py`, `drf/serializers/guarded_save.py` |
| `HistoryTrail` | the context an event is recorded with, through requests, messages and tasks; a view's order of events | `common/middleware/history.py`, `celery/tasks.py`, `drf/viewsets/history.py` |
| `CommandSettings` | one run of a command: peek, parse, resolve, accept or refuse | `cli/commands.py`, `common/settings/resolution.py`, `common/config/environment.py` |
| `DeliveryProofs`, `DeliveryRefinement`, `FanOutProofs`, `NoticesProofs`, `KeysProofs`, `PeopleProofs`, `SettingsProofs`, `RequestsProofs` | theorems, for every value of the constants | |
| `MC*` | instances for TLC: constants and symmetry. `MCRegistry` explores twelve parts, one by one | |

**Delivery.** A row's columns are functions over `Deliveries` under their own
names. A worker's `pc` is the place in `send()` it has reached: *claiming* (it
has read the clock, `now`), *sending* (its claim is committed), *finishing* (the
channel has answered). The two transactions of `send()` are the actions `Claim`
and `Finish`/`Superseded`, which do all that the transaction does, the attempt's
record and the next task included. `Crash` may happen anywhere; it is also what
an exception from `channel.attempted()` comes to. `ReapAbandon`, `ReapRelease`
and `ReapAsk` are the reaper's statements, each committed by itself, so that
workers and retries act in between.

A claim is a reading of the clock, in the code a `datetime` with microseconds.
Two workers' readings are never equal, so a reading is `[by, at]`: whose it is and
the tick it fell in; that two readings in a tick still differ is what tells a
worker's claim from the one that replaced it. All instants are relative to the
present and age with `Tick`, down to `Horizon`, past which no comparison in the
code can tell them apart; this keeps the state space finite with a clock that
never stops.

`Outbox` sees of this a stage, the tries of the current run, and the answer of
the try under way. The refinement mapping takes `SENDING` for *trying*, counts
tries from `attempts_before_run`, and takes for the answer what the worker that
still holds the claim has heard (`Hears`). A superseded worker has thus no
answer, and its finish must be a step `Outbox` does not see.

**FanOut.** Shards are rows keyed by notice, partition and, for null partitions,
a copy number, since the unique constraint lets nulls repeat. Time is reduced to
what the code asks: due, overdue, claim too old. `run_shard()` reads the clock in one
step (`RunShard`) and claims with that `reading` in another (`ClaimShard`), as
`send()` does: a claim may be older than `STRANDED_AFTER` as it is stamped, and
a row counts those it had (`stale`). The whole batch of `fan_out()`
is held from `TakeBatch` and written in `FanOutBatch`, in which every notice may
fail and be set aside on its own. A shard's work is read in `Read` and written
in `FinishShard`, between which other workers, the reaper and dropped partitions
have their turn.

**Retention.** Here the lock is the unit: a retry takes the delivery's row, then
the notice's; a prune selects in a snapshot (`PruneSelect`), gets to one notice
at a time and skips those locked (`PruneScan`), then deletes, waiting for rows
that a retry holds. Who waits for whom is explicit, and Postgres resolves a cycle
by ending one transaction (`DeadlockVictim`). What the rest of the pipeline does to
these rows is one step per transaction. `slipped` remembers, of each prune, what was
retried between its look at a notice and its lock on it.

**Notices.** A call to raise looks for the active policy row and keeps it FOR
SHARE; retiring is an UPDATE that waits for `share` to be empty. A recorded email
is one notice and delivery by key, its row held (`emaillock`) by whoever inserts or
ends it; `attempts` lists what was recorded in order.

**Endpoint.** A worker reads the endpoint, sends, and counts in the transaction
that finishes its delivery, which may still be rolled back: `counted` is the row as
that transaction leaves it, `endpoint` as committed. `history` and `signals` restart
when the endpoint is unparked.

**Subscriptions.** `subs` is committed, `staged` what each writer's transaction has
changed of it, `guard` the advisory lock the trigger takes at a write and
keeps to the commit. A call's steps are those of the helper it models: look, write each row,
commit. `FanOutGets` starts where the
fan-out does, with the kind's audience: one that names people by the notice, or the
`Subscribers` the package ships, which looks for enabled rows. Under the regime
`Apart`, no two calls are under way that `Alongside()` forbids:
staff's and the person's, or staff's force of a variant and of the whole kind.

**Idempotency.** `claim` is the committed claim, `holder` the request whose insert
is not yet committed. A request inserts, or waits for the holder, or times out, or
collides with a committed claim and then reads it in a statement of its own.
Between these another request, a crash, or the project deleting claims and rows
may come. `Commit` and `Respond` are two steps: a server that dies between them
leaves the work done and its caller with an error, and the retry is answered from the
claim.

**Preconditions.** A row has its own fields, a bit for what related rows its version
covers, and a token; the triggers move the token as the strategy says (`token`,
`computed`, `column`, `parts`). A request goes *get*, *lock*, *compare*, *answer*,
*commit* as its method and the view's settings have it, and what it wrote is in `tx`
until it commits. Writers that send no precondition, bulk updates, touches and
changes of related rows run beside it.

**Grants, Overrides, SettingViews.** A grant's start and end are times on a bounded
clock; what `feature_changed` last told is `held`. `grant()` leaves the run to put off
to `on_commit()`: once committed it is `called`, its call then reads the clock
(`OnCommit`, `asking`) and takes the cursor (`PutsOff`), and the process may die
before either (`PutsNoneOff`). `lost` is set then, or when the broker loses a run, or
one fails, and cleared by the next call that finds the run last put off to be past.
`Overrides` keeps each call's `copy` of the row and, beside the code's state, what
each committed call *meant* of its one setting. `SettingViews` is the same row seen by
clients that hold a version: a PATCH compares under the row's lock, or makes the row
when there is none, and staff force and release settings meanwhile.

**Uuid7, Comments, GuardedWrites, HistoryTrail.** Each is one component whose
calls are cut at the statements another call may come between: inside and outside
`uuid7()`'s lock; a query a level in a comment's thread, `anew` saying
whether an edit has put back a comment that was gone; a guarded write's fetch,
lock, check, save and commit, the handler choosing a success or an error of its own as
it saves; a transaction's begin, each event it records, its
commit and what it dispatches then.

**CommandSettings.** A run is given at most one value per setting and place (option's
file, variable, variable's file, current), and any sequence of its option: as a word
(`--x 1`, `--x=1`), *joined* (`-x1`, or in a cluster), which click parses and
`_last()` does not see, or *stray* (after `--`, or taken as another option's value),
which `_last()` sees and click does not. `Peeks` picks the selector's group from the
raw arguments by the last that `_last()` finds; `Parses` refuses the options of other
groups; `Resolves` takes settings in order, each from the first place that has it, and
asks where it may, and ends in an error at a group whose selector was left without a
value; `Accepts` ends the run, unless a limit or a relation is broken.

## Runs, bounds and what they show

| run | instance | shows |
|---|---|---|
| `delivery` | 1 delivery, 2 workers, 2 tries a run, 1 retry by hand | a worker keeps its claim for `STRANDED_AFTER`; attempts agree with their delivery; no run is over `MAX_ATTEMPTS`; `manual` marks the first attempt of a retried run and no other; what is released is overdue; every step is one of `Outbox` |
| `delivery_live` | 2 deliveries, 1 worker, the reaper asks for one at a time | every delivery ends sent or abandoned |
| `fan_out` | 1 cross-partition notice, 2 partitions that share a target, one dropped at any time, 2 workers | a notice is in one batch at a time; a target is written once; no partition is forgotten; tries are bounded by `MAX_ATTEMPTS` and one more for each claim stale as it was made; what is over stays over, and stamped stays stamped |
| `fan_out_live` | 2 notices, the first refused every time, batches of one, 1 worker | both leave the queue, every shard ends |
| `idempotency` | 2 tries each of 2 requests, one of them not replayable, one with a lock timeout | a key is spent once; every answer is true, and an error is all that a death past the commit leaves; nobody waits for ever |
| `preconditions` | 3 requests over 2 fields of 2 values, 7 ways a view is set up | a write lands on the version it was compared with; no update is lost; a 304 is true |
| `registry` | twelve parts, each by itself | see below |
| `cross_set_aside`, `scatter_loop`, `retention_retry`, `torn_read`, `settings_version` | as above, smaller | counterexamples: see [the disagreements](#what-the-code-and-its-documentation-disagree-on) |

`registry` is one run over twelve state machines that share nothing: `part` says
which one moves, the others stay as they begin. Of each:

| part | instance | shows |
|---|---|---|
| `subscriptions` | 2 writers, 3 calls, 2 variants, each of 3 policies, staff and the person apart or at once | fan-out and views agree, for whom the audience names, and how far they do for `Subscribers`; where they are apart, forces hold and choices come back |
| `notices` | 3 callers, each of 3 sources | nothing is written of a retired kind; a recorded email is what its attempts were; a try goes unrecorded only if another was recorded meanwhile |
| `endpoint` | 3 workers, parked after 2 failures, unparked once | the count is of failures since the last success; parked exactly then, and signalled once |
| `grants` | 2 grants, 1 sweeper, 3 instants, a look-ahead of 1, the prompt regime | what was last told holds once the sweep has caught up; a run is put off to every boundary to come, or a grant's call is on its way to, save from a loss to the call that finds it |
| `overrides` | 2 callers, 2 settings, 2 values, a source staff may lift and one they may not | no call undoes another's setting; Python and SQL agree; one at a time, what was told is so |
| `settings` | 2 clients, 2 settings on the row and 1 on the holder | a PATCH done landed on the version it named, of a setting not forced, and on nothing else |
| `uuid7` | 2 threads, 5 keys, fields 2, 2, 1 and 1 bits wide | keys sort as they were made |
| `comments` | 2 commenters, 4 comments, 2 targets, depth 2, 5 calls | replies have their parents, on their target, no deeper than allowed unless an edit put a comment back |
| `guarded_writes` | 3 requesters, one of them staff, 2 values, 8 declarations of a guard | nobody not allowed a guarded value brings the row to it, but past the guards by an error response of the handler's own |
| `history` | 2 threads, 2 people, 2 objects, 2 events, 1 message | events name who asked; messages are of what committed; an object's events are listed as they took effect |
| `command` | 7 settings, 2016 invocations | what is accepted is as declared |
| `retention` | 2 notices, one with a delivery, 1 retrier, 2 pruners, batches of one | nothing unfinished is deleted, as of its deletion and not only of the prune's look - but for a retry committed after that prune's look and before its lock, which `retention_retry` shows |

Why the bounds are enough for these questions:

- *Deliveries* touch one another only in the reaper's batch, so one suffices for
  safety and two with a batch of one for liveness. *Two workers* are a claim and the
  claim that replaced it; a third adds a second superseded worker, which acts as
  the first. The theorems below are for any number.
- `MaxAttempts = 2` has a try that is not the last and one that is; `MaxRetries`
  (bound) `= 1` a run that began at 0 and one that did not.
- `StrandedAfter = 1`, `MaxBackoff = 1`: `Horizon` is one tick more, so a stamp is
  fresh, exactly at the limit, or past it; the next try is due now or later.
- `PauseBound` (bound) is how many ticks a worker may take between reading the
  clock and claiming. The code has no such bound. It equals `StrandedAfter` in the
  runs. With a longer pause a run may take one try too many: its claim is old as it
  is made, and may be released by the reaper's second statement after the first
  has passed it by. The theorems that need the bound name it.
- In `FanOut`, `MaxCopies` (bound) limits the shards with no partition of one
  notice, which the code does not; a scattering past it is not taken. It is 1 in
  `scatter_loop` and 0 elsewhere, where no audience is without a partition.
- `MaxStale` (bound) is how many claims of shards are made, among all there are, from a
  reading of the clock already older than `STRANDED_AFTER`; the code has no such bound. One is
  enough to come between the reaper's two statements and be released past
  `MAX_ATTEMPTS`, and the theorem counts any number. In the liveness run it is 0: time
  there passes for every row alike.
- `OneCall` (bound) has one grant at a time with its run yet to be put off, beside sweeps
  and revokes; the theorem is of any number of calls at once.
- In `guarded_writes` and `command` what a handler returns, and how an option
  is written, is any of what the modules tell apart; the invocations are those in `Offered`.
- In `Idempotency`, a request is one try: two tries of two requests is the least
  in which a retry of the right request and a misuse of the key can both meet a first
  request.
- In `Preconditions`, `MaxToken` (bound) `= 4`: three requests write at most three
  versions after the first, and a fourth would wait. Three are a writer that
  compares, one that slips in, and one that is shown what the second left. The
  seven ways a view is set up take each kind of version, with and without
  related rows, weak tags ignored or not, `*` allowed or not, rows deleted or not.
  Writes that name no version are left out where rows are deleted, which they would
  insert anew, and a computed version is read with its row, save in `torn_read`: the
  two conditions of the theorems, which the passing run evaluates (`ConditionsHold`).
- *Two writers* are what one row lock, guard or unique index lets meet: the first and
  whoever waits. `MaxAsked`, `MaxCalls`, `MaxKeys`, `MaxEvents`, `MaxSent`,
  `MaxUnparked`, `MaxClock`, `MaxVersion` (bounds) end runs that the code would let
  go on. Three calls are a force over a choice and its release; five, a thread two
  deep and a deletion under way; three instants, a grant that starts, one that ends
  and a sweep between; five keys, more than two milliseconds of a 2-bit counter hold,
  so that it runs out and the time is moved on - and fewer
  than the theorem's bound, which is sharp: with a counter of 2 bits and a time of 1,
  TLC finds no fault in 6 keys and one in 7.
- `DISABLE_AFTER = 2` has a failure that parks and one that does not; three workers
  one that began before the endpoint was parked and one that began before it was
  unparked.

Requests and calls end, so `idempotency`, `preconditions`, `torn_read`, `registry` and
`settings_version` do not check deadlock. The runs of `Delivery` and `FanOut` do.

Every property of a passing run has been seen to fail under a mutant, an operator
beside the one it replaces that has a plausible mistake (`PROJECT.json`, `mutants`).

## Fairness

`Delivery` and `FanOut` assume what beat and a working broker give, and no more:

- time passes (strong fairness of `Tick`, which pauses while a reap or a worker that
  is about to claim is between two statements);
- beat goes on calling `reap_stranded()` (`notifications/schedule.py:18-25`), and not
  every call dies half-way;
- a worker does not die between a task, its reading of the clock and its claim every
  single time (`Looked`); once it
  has claimed, it is answered or dies, and it *may die there every time*: the run is
  then used up by the reaper;
- the broker does not lose every task it is ever given for one delivery (or shard).
  Nothing says that a task given is received: the reaper asking again is what
  liveness rests on.

`FanOut` adds that a fan-out is begun again and again, and not always cut short by
a crash. Nothing assumes that work succeeds.

`Idempotency` assumes that a handler returns or its server dies, and that a
request's own statements go on. Waiting for the key is not assumed to end; that it
does is the property.

The other modules state no fairness: what they promise is safety.

## Proofs

All are checked by TLAPS from the modules' definitions, for every value of the
constants that satisfies the modules' named assumptions: `MAX_ATTEMPTS` and the like
positive, nobody's name not somebody's, finitely many partitions; a command's settings
resolved once each, after what their tests read and after the selector
(`OrderAssumption`: `_selectors_first()` refuses a class that is not so, and a test
that read a later setting would find no such attribute), with at most one value in a
place; and the laws of powers of two that `Uuid7` uses (`PowersAssumption`: `^` has no
definition the provers know, and nothing here can induct on it; TLC evaluates it for
the widths of the run).

*Delivery.* `ClaimKept` is not inductive. A worker's stamp may be on a row for
two reasons: it is this claim's, or one the same worker made before it died.
`StampExact` says that a row in `SENDING` under an in-flight worker's name bears
its present reading, not an older one; `CopyCurrent` that the worker's copy of the row
is the row while the claim is its own; `AtWork` and `Copied` are the typing both
need. `ClaimInv` is their conjunction with `ClaimKept`, and inductive
(`InitClaim`, `StepClaim`). From it follow `ClaimIsKept`, `LedgerIsTruthful` and
`ReleasedAreOverdue`, without any bound on pauses.

`RunBounded` needs more: that a waiting delivery has a try left, that a worker about
to claim read the clock at most `PauseBound` ago, and that between the reaper's
statements nothing stranded is spent (`SpentReaped`). The last is why the theorem
assumes `PauseBound <= StrandedAfter`: a claim made between the statements must be too
young for the second. The bound is sharp, and `RunIsBounded` states it.

`ManualIsFirst` adds that `retry_trigger` is on a row exactly while the run a retry
began has had no try (`TriggerExact`), and that the copy of a worker whose claim is
still its own says *manual* for just that try (`CopyManual`).

*Refinement.* `DeliveryImplementsOutbox` has the same assumption and rests on the
same invariants, with `HasAnswer` (a worker about to finish has been answered).
At most one worker hears for a delivery (`OneHears`), as the claim names it. Claim
is `Try`, an answer is `Answer` if the worker still holds the claim and nothing
otherwise, `Finish` is `Settle`, a crash may lose an answer, the reaper's
statements take tries back, each a set of deliveries at once; time passing changes
nothing because a claim and its worker's reading age alike, and `StampExact`
keeps a stranger's stamp from coming to look like the worker's at `Horizon`.

*FanOut.* `HeldOnce` is inductive with the typing of workers, batches and rows:
a batch is taken of notices nobody holds, and given up as they are stamped.
`OnePerTarget` follows one insertion at a time, from what `Collides` refuses.
`OverIsFinal` is an action property, of shards and of stamps: each action changes a row
that is claimed or waiting, and none takes a stamp away. `TriesAreBounded` has the
strengthening that a waiting row has a try left, one more for each stale claim it
had, and that between the reaper's statements a claim on a spent row is young, or one of
those (`TriesLeft`), and the condition `MaxAttempts > 1`: a shard set aside by its
notice's failure begins with one try counted and waits nevertheless, so that with
one try allowed it is tried twice. `NothingIsLost` adds what each plan read, not yet
written, still reaches (`PlansReach`), and the condition that a cross-partition
notice names no subject's partition (`SubjectsApart`): exactly what
`cross_set_aside` shows broken without. `FinishedReaches` is its corollary: under
that condition a notice whose shards have all finished has reached everyone.

*Idempotency.* The inductive invariant relates the holder to where it is, says that
no one has been answered out of work that is not committed (`Answerable`: who is to answer
has committed, and who has committed is answering, has answered as it committed, or
died), and includes `SpentOnce` and `AnswersTrue`; `HandlesOneAtATime` follows from it.

*Notices.* Whoever holds the policy row FOR SHARE found it active and keeps it so
(`ShareActive`): `--retire` waits for the set to be empty. With `Recorded` (the
delivery counts its attempts and has the last one's state) and `Firsts` (who inserts
the first has nothing recorded before it), it is inductive.

*Retention.* `UnfinishedIsKept` is the locks' doing. What a prune found done with can
begin again only by a retry (`Settled_For`); a retry is decided holding the notice, and
what a prune is to delete it holds (`NoticesLocked`), so that a retry commits before the
lock, and is among what slipped past that prune (`AcceptedSlips`), or waits for the
prune to end. The mutant, a retry that does not lock the notice, breaks just that.
The window that is left is what `retention_retry` shows.

*Endpoint.* `FailuresPark` needs that whoever has counted holds the row, and is to leave
it as it is counted once more (`CountedHolds`). Failures in a row are the last of a
sequence, and a run of `DISABLE_AFTER` is there exactly if a failure came as the
`DISABLE_AFTER`th of those (`RunAppended`): that is induction one outcome at a time.

*Subscriptions.* `EveryAlone` needs that whoever has written a row it means to leave
holds the guard (`GuardedWriters`), that a call that has not reached its writes has
none (`FreshCalls`), and the same of each writer's own view (`ViewsAlone`): between
its check of the rows and its commit nobody else's rows change. `OneAnswer` follows,
for an audience that names people by the notice and for `Subscribers`, whose rows are the
same.
`ForceHolds` is of calls apart (`ChoiceInv`): what each call read is then still so when
it saves (`Mine`), since those beside it are on its own side (`AllAlongside`), and each row
there is forced or chosen, as the person last chose (`EitherOr`, `ChoiceKept`).

*Overrides.* Whoever writes holds the row's lock, and its copy is the committed row
until it writes and what its call makes of it after (`Holding`, `Copied`): that is
why a whole row saved undoes nothing. `ToldIsTrue` adds that, one call at a time,
each call's `before` is what was last told.

*SettingViews.* `PatchLandsOnNamed`: a PATCH that writes holds the row, whose version it
named, and its copy differs in its own setting alone (`Writing`). A first PATCH names the
defaults' version (`Creating`), which is the version of a row that is not there
(`NotThere`) - that of two at once only one inserts it is the row's uniqueness.

*Preconditions.* Two locks held at once never conflict (`NoConflict`); who compares or
has compared holds the row FOR UPDATE (`ComparedLocks`), who wrote holds a lock
(`WrittenLocks`), and what is compared was read again under the lock (`ReadAgain`).
So nothing the version covers changes from the comparison to the commit, under any
strategy and setting of the view: `LandsOnCompared`.

`NoUpdateIsLost` and `NotModifiedHolds` speak of every version ever shown. Tokens only
grow, so a version that the row has moved on from never names it again, and one shown
names the body it was shown with. Two settings would break the last, and are the
theorems' conditions: a computed version read apart from its body (`WholeReads`; without
it, `torn_read`), and a write that names no version where rows are deleted, whose
save inserts an old body with its old token (`NoneInsertedAnew`).

*HistoryTrail.* A thread writes under its asker's context, and has none open outside a
request (`ServedForAsker`); what is not committed, and what is in a message, is as true
as what is (`UncommittedTrue`, `MessagesTrue`). A context left open by one request
would break the first at the next, and `CausesAreTrue` only later, on that thread.
`NewestFirst` is `OrderInv`: who has written an object's row holds it to the commit
(`RowHeld`), and whatever it has not committed has a number above all of that object's
committed (`UncommittedNewer`). Nothing of the kind is true of two objects.

*GuardedWrites.* `GuardedInv`: a request in hand holds the row, so that there is one, and
what it read is the row (`HoldsRow`); where its guards ran, they passed what it is to
write (`Passed`), and where they did not, a success is rolled back. An error the handler
returns is not, and is the theorem's exception.

*Grants.* The sweep's cursor splits time: up to it, what was last told is what the
grants say (`ToldAtCursor`), and beyond it each boundary has a run put off to no later
than it, or somebody under way who will put one off: a sweep, or the call of a grant
that is committed (`NextRuns`, `Entrusted`). A call's reading of the clock may be old
as it takes the cursor: `CallRuns` is that the run it leaves be serves nevertheless.
The next boundary is the least of a set of numbers, and exists by the well-foundedness
of `<` (`Nearest`), not by recursion. `NextIsScheduled` holds however many sweeps
overlap; `ToldWhatHolds` where they do not.

*Uuid7.* `UuidInv`: a thread that has counted, and not stored yet, has counted past the last
(`NextIsLater`), every key sorts below any of a later time and count (`KeysBelow`), and
what time and counter have moved on by leaves room in the key's first field for the keys
still to be made (`Room`). Hence `MaxKeys <= 2^COUNTER_BITS + 2`, for any widths: with the
code's 42 bits, more keys than a process lives to make.

*Comments.* A comment's parent never changes, and no key is used twice: what a call
has read of a comment is so while that comment is there (`PostAsIs`, `EditAsIs`). The
walk counts the comments up from a reply one by one (`Counted`), and none is put in
between, save where an edit puts back a comment that was gone as the walk passed:
`ThreadsHold` bounds the depth unless that has happened, or the walk is one query,
which cannot miss it.

*CommandSettings.* `CliInv`: each setting that has been come to, and applies, has what
the first place that had one gave it (`Progress`, `FirstPlaceIs`), which stays true as
later ones are resolved, since its tests read earlier ones only. The options accepted
were those of the group peeked (`Heeded`), and that is the group chosen where it could
be foreseen (`PeekedIsChosen`): where, of the selector's option, the raw arguments
show what click parses, whatever else stands in them.

Only model-checked: liveness under fairness (`EventuallySettled`,
`EventuallyFannedOut`, `EventuallyRun`, `EventuallyAnswered`), which rests on ENABLED
and is beyond the prover. Every safety property of a passing run is stated by a
theorem.

## What the code and its documentation disagree on

Each of these is a run that ends in a counterexample; `PROJECT.json`, `findings`,
quotes the lines.

1. `cross_set_aside`: a cross-partition notice with a subject partition whose first
   fan-out fails is set aside as a shard of that partition, and the others are never
   reached, though every shard ends finished (`notifications/pipeline.py:170`,
   `237-239`).
2. `scatter_loop`: a cross-partition audience that names no partition scatters a
   shard with none, which scatters another, without end (`pipeline.py:237`).
3. `retention_retry`: a prune that began before a retry committed, and gets to its
   notice after, deletes the delivery just retried (`pipeline.py:591`). `UnfinishedKept`
   is how far it goes: between the two, and no further.
4. `torn_read`: under a computed version, an ETag is read in a statement after the
   body it is put on, so a body may be answered with the version of a later one.
5. `settings_version`: a PATCH of a setting whose own value is kept on the holder
   leaves the version of the settings where it was (`features/operations.py:231`).

Others were met while modelling. Where a property would fail on one of these, it
states the condition under which it holds, or the model leaves the case out, as said
here:

- `_set_aside()` counts a failed fan-out as the shard's first try and leaves it
  waiting whatever `MAX_ATTEMPTS` is (`pipeline.py:172`): with 1, it is tried twice.
  `TriesAreBounded` has the condition.
- `claim_idempotency_key()` reads the claim it collided with in another statement, and
  nothing catches it gone (`idempotency/claims.py:265`), although
  `idempotency/README.md:72` calls deleting old ones always safe. In `Idempotency`
  such a request ends with the answer *gone*.
- Staff and the person at one row at once: `_refuse_forced()` reads without a lock and
  `force_subscription()` saves every field of a row it read unlocked, so a force may
  be lifted by a choice, or a choice lost. Staff's own force of a variant and of the whole
  kind, at once, come to the same, and a choice forgotten meanwhile comes back with the
  force's save (`audience/helpers.py:147-153`). `ForceHolds` is of calls apart.
- The views' docs claim that no list can disagree with the fan-out
  (`notifications/drf.py:407-409`). It can under `Subscribers`, whose recipients are
  the rows enabled, whatever is forced (`notifications/audience/audiences.py:81-91`):
  a person who chose off and is forced on is told on, and never reached, and so is
  one with no row under a policy that is on by default or mandatory.
  `ViewsAgreeWithFanOut` says exactly how they differ.
- A response that a handler returns as an error keeps its writes and is asked nothing of
  guards (`drf/viewsets/guarded_fields.py:228-229`, `250`), as its comment says: a
  guarded value may be committed unchecked that way. `GuardedIsAllowed` excepts it.
- `peek()` says the last occurrence wins, as click's does (`cli/commands.py:168-173`):
  not of `-xvalue` or a cluster, which `_last()` does not see, nor of a token after
  `--` or that another option took as its value, which only it sees. The group
  peeked is then not the one chosen. `Foreseen` excepts it.
- A kind mirrored *and* retired between `_retired()` finding no row and the notice's
  INSERT still has that notice written. Two overlapping `record_email()` calls under a
  new key keep the first's record alone: `LaterIsRecorded` says when.
- `revoke()` and `grant()` of a boundary that began and is not swept yet are told before
  it; overlapping sweeps move `swept_at` back; a grant that commits after a sweep
  has passed its start is never told. `ToldWhatHolds` is of calls made once a sweep
  has caught up.
- `_telling()` reads what a setting was without the row's lock: of two overlapping
  forces the second may move the value with nothing sent. `ToldWhatItIs` is of calls
  one at a time. `set_setting()` may write a value under a force made meanwhile.
- A PATCH naming `*` that loses the race of two first writes is answered 412, though
  `features/rest.md:50` has `*` match any.
- A save by a writer that read before a deletion inserts the row again, a comment or a
  versioned row alike, where no lock is asked for. `check_parent()` takes a parent that is
  gone for the thread's top (`feedback/comments/_comments.py:269`): a walk that passes
  while the thread is deleted ends there, and edits that put its comments back leave a
  reply deeper than `max_depth`. `ThreadsHold` has the condition `~anew`.
- A merged history is ordered by `pgh_created_at`, a transaction's start, and so is not
  always newest first (`drf/viewsets/history.py:587-593`); an object's own is.
- A required selector that its `only_when` leaves out has no value, and the first setting of
  any group then ends the command in a KeyError (`common/settings/resolution.py:297`).
- A command given `--x-file` before `--x` takes the option silently, and refuses them the
  other way round; where the selector is answered by a question, by the present value
  or from its own file, the group whose options were accepted may not be the one chosen
  (`cli/commands.py:168-184`, `232-268`). `AcceptedAsDeclared` has the condition
  `Foreseen`.

## What is abstracted

- A channel is its answer (ok, failed, permanent); what it sends, and to whom it
  decides to, is data. Kinds, policies and quiet hours decide it before a row
  exists, and `FanOut` takes each notice's audience as given and constant.
- Notices all wait when `FanOut` begins; later ones would join the end of a
  queue that the oldest leave first. Housekeeping batches and the clock are in
  `Delivery`, and `FanOut` keeps of them what its own statements ask.
- `Retention` takes a pipeline transaction as one step, since none holds a notice
  and waits. `prune_attempts()` deletes rows nothing reads.
- `Idempotency` is one caller and one key: claims of others never meet it.
  Fingerprints are values, equal or not.
- `Preconditions` has one row. Related rows are in its version or not. A view without a
  transaction a request is left out: the code's checks ask for `ATOMIC_REQUESTS`.
- `chosen_users()` reads an audience and then its people's rows; `Subscriptions` reads both
  in one step. An audience is `Subscribers` or one that names people whatever their rows.
- In `Grants` a holder has one feature. In `Overrides` the feature comes and goes by itself.
- `SettingViews` reads a list in one step: the code reads the values from a row it
  cached and the version from the row anew. Values a field refuses, and a feature
  missing, are the refusal any PATCH may meet.
- `GuardedWrites` is of viewsets with `PreconditionMixin`, whose updates lock. Without
  it a handler exempt from guards could write back a guarded value it read earlier.
- `HistoryTrail` has `dispatch_on_commit` as it is by default; a message sent outside a
  transaction counts as committed soon after.
- In `CommandSettings` a value is what its text converts to; a file that cannot be read
  and a prompt that is left are refusals; what a prompt accepts is any value within the
  limits.

## Not modelled

- *Devices* (`channels/push.py`), *votes, bookmarks and notes* (`feedback/`): rows that
  one request writes at a time, their uniqueness left to Postgres. Erasing a holder
  (`features/operations.py:344-383`) deletes rows nobody then reads.
- *Tags, constraints, conditions, triggers, history models*: what they generate is SQL
  or model classes, made once as a process starts. What Postgres then enforces is in the
  modules that rely on it.
- *System checks* (`apps/*/checks.py`), *exemptions*, *OpenAPI* (`drf/spectacular.py`,
  the schema of every view), *filters, permissions and serializers* as declarations,
  *migrations*: each is a function from declarations to messages, schemas or classes.
  They hold no state between calls, and are the greater part of the lines.
- *Templated fields, translation, formatting, error pages, help*: text, a function of it.
- *HTTP, SMTP and push clients*, and the guard on webhook addresses: input and output;
  their answers are inputs of `Delivery` and `Endpoint`.
- *The config builder, functional utilities, the test plugin*: no state.

## Plan

1. done: `Delivery` with `Outbox`, `FanOut`, `Retention`, `Idempotency`;
   `Preconditions`; `Subscriptions`, `Notices`, `Endpoint`; `Grants`, `Overrides`,
   `SettingViews`; `Uuid7`, `Comments`, `GuardedWrites`, `HistoryTrail`,
   `CommandSettings`. Proved: what [Proofs](#proofs) lists.
2. Proofs to add: every safety property a run checks is now proved. What could still be
   said for every constant: `ForceHolds` and `ThreadsHold` under weaker conditions (which calls
   beside one another lift a force; how much deeper an edit can leave a reply), and
   refinements like `Outbox`'s - `Idempotency` of a key that is spent at once,
   `Preconditions` of a register that compares and sets.
3. Modelling to add: devices that register while a push is answered; staff's force and a
   person's choice at once, as an abstract register the row locks would give; a shared
   transaction of `Notices` and `FanOut`, from the trigger to the delivery.
