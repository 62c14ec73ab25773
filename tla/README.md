# CoffeeBuddy in TLA+

CoffeeBuddy organises coffee runs in Slack channels: somebody opens a run,
others place orders, the run is closed, one participant is picked to go, and
they are reminded before pickup. These modules model the parts of it that keep
state and act concurrently, check them with TLC on small instances, and prove
what holds for every instance with TLAPS. Paths below are relative to
`src/coffeebuddy/` in the repository.

The repository holds its source twice: merged under `src/`, and by delivery under
`runs/kit/REQ-00n/src`. The copies are identical, but for `REQ-007`'s
older `reminder_worker.py`. A module of one delivery alone, and the abstract
specification of one, is mapped to that delivery's copy (`RunCommand` and
`CommandText` to REQ-001, `OrderBook` to REQ-002 and REQ-003, `Fairness`,
`FairRotation` and `ChannelHistory` to REQ-003, `ReminderLine` to REQ-004 and REQ-007,
`Admin` to REQ-005, the tables' rows to REQ-006, `Producer` to REQ-007), the
compositions (`CoffeeRuns`, `RowLocks`, `Reminders`) to `src/`.

## 1. The system

| Component | State | Operations | Hard behaviour | What makes it correct |
|---|---|---|---|---|
| Orders (`core/orders`) | `orders` | `submit_order`, `use_last_order`, `cancel_order` | concurrent requests of the same user; the run closes meanwhile; the ORM writes changed columns only | a request that succeeds has its effect; closed runs stay sealed; the count it returns is right |
| Preferences (`services/preferences`) | `user_preferences` | `get_preference`, `set_preference`, `mark_used` | stored by the same request as the order | order and preference are written together |
| Closing (`core/runs`) | `runs` | `close_run` | two closes of a run; orders arriving meanwhile; abort after the choice | a run is closed once, with a runner who took part |
| Fairness (`services/fairness`) | `runner_stats` | `assign_runner` | stale counts, fresh rows, tie breaks | nobody is sent more often than they should be |
| Database sessions (`api/slack_runs/dependencies.py`, `infra/db`) | one transaction per request | begin, commit, roll back | READ COMMITTED, flush order, row locks, unique keys | nothing of a failed request stays; nobody waits for ever |
| Reminder scheduler (`jobs/reminders`) | none | `schedule_for_run` | fails between two messages | asks only for reminders the channel wants |
| Kafka consumer (`infra/kafka/consumer.py`) | `_consumer`, `_task`, position | `start`, `stop`, the consume loop | auto commit, cancellation, failed start, failed loop, failed last commit, stop broken off, crash | nothing is passed over or repeated unnoticed |
| Reminder worker (`infra/kafka/reminder_worker.py`) | the message in hand | `process_event` | sleeps inside the loop; the sender fails | on time |
| Slash command (`api/slack_runs`) | `runs` | `parse_command_text`, `handle` | publishes before it commits; blocks the event loop; the parser raises or meets an error late | no run without its event, none that was not asked for |
| Administration (`api/admin`, `core/audit`) | `channels`, `channel_admin_actions` | update, enable, reset | reset while requests run, and the locks it takes; the audit row fails | settings in bounds, every change audited |
| Kafka producer (`infra/kafka/producer.py`) | `_producer` | `start`, `stop`, `send` | calls of several tasks between each other's awaits; a start that fails; a stop amid sends or broken off | no client is lost; what `send` says of its event is so; stopping ends |
| Start-up (`app.py`, `config.py`, `infra/db/session.py`) | settings, credentials | `fetch_with_backoff` | bounded retries of one caller | not modelled |

How they interact: every request gets a database session of its own and commits
it at the end. `close_run` calls `assign_runner` in its session. Orders store
preferences in theirs. The scheduler publishes to a Kafka topic, whose
consumer awaits the worker for each message. Some of the wiring is not in the
repository: no Slack handler calls the order, closing and admin services, nothing
calls the scheduler with a real publisher (`EventPublisher.publish` and
`KafkaEventProducer.send` do not fit together), `infra/db.py` and
`infra/kafka.py` are shadowed by the packages of the same name, and
`models/run.py` declares a `Run` of its own beside `infra/db/models.py`. The
models take the services as they are and let callers call them in any order.
The statuses `canceled` and `failed` of a run are declared and never set.

## 2. The modules

| Module | Models | Kind |
|---|---|---|
| `Fairness` | the rule of `assign_runner`: which rows it loads, who is eligible, the sort key, the credit | operators |
| `FairRotation` | what the rule promises a channel, with any tie break | abstract specification |
| `ChannelHistory` | `assign_runner` called for one close after another of a channel | component, implements `FairRotation` |
| `CoffeeRuns` | orders, preferences, closing and fairness over the tables, in concurrent sessions | composition, core |
| `RunsApart` | what `CoffeeRuns` promises channels and users (`FairRotation`, `OrderBook`, read off the tables), which requests must not overlap for that, and the invariants that show why | properties of the core |
| `OrderBook` | what the order and closing services promise, without a database: a set of orders and a preference per user that place, cancel and close change at once | abstract specification |
| `RowLocks` | the row locks that order requests, closes and resets of one channel take, and the deadlock detector | composition |
| `ReminderLine` | what the way of a reminder promises: a line for each partition | abstract specification |
| `Reminders` | scheduler, topic, consumer and worker | composition, implements `ReminderLine` |
| `Producer` | `start`, `stop` and `send` of the producer wrapper called by several tasks | component |
| `CommandText` | the parser of the slash command, and what the texts mean | operators |
| `RunCommand` | the slash command: handler, event loop, connection pool, Kafka publisher, commit | component |
| `Admin` | settings, switching on and off, reset and their audit rows | component |
| `FairRotationProofs`, `ChannelHistoryProofs`, `CoffeeRunsProofs`, `RunsApartProofs`, `RunCommandProofs`, `RemindersProofs`, `ProducerProofs`, `RowLocksProofs` | theorems | proofs |
| `MC*` | instances, and properties quoted from documents | model checking |

Definitions marked "Mutant" right before a definition are wrong variants of it.
They are used nowhere; each property of a run fails when the marked definition
is replaced by one of them, which shows that the property can fail
(`PROJECT.json`, "mutants").

### CoffeeRuns

`runs`, `orders`, `prefs` and `stats` are the committed tables. `tx[s]` is what
session `s` has loaded and written. A request is one action per SQL statement:

| Action | Statement in the code |
|---|---|
| `SubmitOrder`, `UseLastOrder`, `CancelOrder`, `CloseRun` | reading the run and finding it open |
| `LoadPreference` | `get_preference` in `use_last_order` |
| `LoadOrder` | `get_order` in `upsert_order` or `cancel_order` |
| `FlushOrder` | the autoflush before the next query, which writes the order, and that query (`get_preference` or `count_active_orders`) |
| `FlushPreference` | the autoflush that writes the preference, and `count_active_orders` |
| `CommitOrder` | the commit |
| `LoadActiveOrders`, `LoadPreviousRunner`, `AssignRunner` | the three queries of `close_run`; the third with the choice that follows it in memory |
| `CommitClose` | the flush of run, orders and statistics at the commit |
| `Abort` | an exception at any point; `_session_manager` rolls back |

Three facts about the libraries shape it. At READ COMMITTED each statement
sees what was committed when it started, and nothing the code reads is locked.
SQLAlchemy writes, of an object it loaded, the attributes whose value has changed
(`Written`), so setting `canceled_at = None` on an order loaded as active
writes nothing. An UPDATE waits for the transaction that has the row
(`HoldsOrder`, `HoldsPreference`), and an INSERT that meets a row with its unique
key fails (`Collides`, `StatConflicts`).

Abstractions. `closed_at` and `last_run_at` are readings of a clock that ticks
once for each decision of a close; other time stamps and the provenance are left
out. Rows a user gets in `runner_stats` at the same reading are ordered by
`UserRank`, which stands for the remaining tie breaks of `_sort_key`. The row
locks of a close are taken at its commit in one step. Requests that end at
their first statement (no such run, run not open, text refused) change
nothing and are not steps. Runs exist from the start, open, as the slash
command leaves them.

`OrderBook` is what a reader of the services alone would expect: `Place`,
`PlaceUsual`, `Cancel` and `Close` are atomic, a closed run takes no more orders,
and its participants are those with an order at that moment.
`CoffeeRuns` implements it when the database rows are read as sets
(`ImplementsOrderBook`): the commit is the step, all statements before it are
stutters.

### RunsApart

Nothing in the code keeps two requests apart, so with overlapping ones the promises of
the services fail (`LedgerRace`, `LateOrder`, `LostEdit`). `RunsApart` says how far they must be
apart, one separation per conflict, each a condition on the requests under way:
`ClosesApart` (one close of a channel), `OrdersApartFromCloses` (no order request on a
run that is being closed), `UsersApart` (one order request of a user in a channel),
`OrdersApart` (one order request in a run). The code establishes none of them: they are
conditions on its callers, met for instance by a single worker (`OneAtATime`), and what a
repair with `SELECT ... FOR UPDATE` on the channel, run or preference would have to
provide.

### RowLocks

`CoffeeRuns` takes a close's locks in one step and has no reset. `RowLocks` keeps only
the locks, one at a time. `ahead` are the statements of a transaction, `todo`
the locks of the present one, `held` those it has; all go at its end (`Released`).
The order of the locks is where a deadlock comes from, and it is SQLAlchemy's:

- an order request flushes the order before it queries the preference, and
  writes the preference after it (`Statements`);
- a close flushes at its commit, the mappers by their dependencies and names
  (`orders`, `runs`, `runner_stats`), the UPDATEs of a table by primary key, then
  the INSERTs in the order of their objects' creation (`CloseLocks`);
- a reset's DELETEs take the rows each finds in any order (`DeleteLocks`), and the
  DELETE of the runs follows `ON DELETE CASCADE` to orders again.

The INSERT of an order shares its run's row (`FOR KEY SHARE`, of the foreign
key), which an UPDATE of the run's status does not mind and a DELETE does. A reset always
ends in a rollback, since its audit row is refused (Admin below). `DeadlockDetected`
aborts any transaction of a cycle. A lock that a transaction has is taken again
without waiting. With one run a deadlock needs a reset. Closes of two runs of a channel can also deadlock over `runner_stats`: one that read a row as missing
inserts it after others, while the other, which found it, updates it and then inserts one of
those. `DeadlocksNeedOthers` makes both the exception.

### Reminders

`log` and `committed` are the broker's; `consumer`, `task` and `position` are
`_consumer`, `_task` and the position of the `AIOKafkaConsumer`; `hand` and
`sending` say where `process_event` is. `Take` is one turn of the loop up to
the sleep, `WakeUp` the end of `_wait_until`, `Send` the sender's return or
exception. The rest of `start` after its await is `StartSucceeds`, `stop` is
`StopLoop` (cancel and await the task) and `StopConsumer`. On its way out the client commits
once more (`LastCommit`), and when that fails, with the broker away, it logs so and goes
on. `StopRaises` is a stop of the client that raises or is canceled: `_consumer` stays set
with a client that has been told to stop (`"closed"`), `start` does nothing, and the next
`stop` clears it at once (`StopAgain`). `attempts`, `dropped` and
`setbacks` are history variables. Time is in minutes. `Tick` waits for everything
that is ready to run: taking, publishing and sending a message is assumed to
take less than a minute. This makes the lateness that remains the code's
own. Not modelled: further consumers in the group and rebalancing (a worker that sleeps longer than
`max_poll_interval_ms` would trigger one), retention.

`ReminderLine` forgets time, tasks and the broker: reminders of a partition stand
in line, the first is served, a stop or a crash gives up at most that one, and a
setback, which is a crash or a stop whose last commit failed, goes back to what was saved. `Served` maps the consumer's position to it, less one
while a message is in hand. That `Save({p})` may count the reminder being served is what
auto commit adds to the promise.

### Producer

A task runs alone from one await to the next, and each of `start`, `stop` and `send`
awaits its client once; so each call is one step up to the await (`Start`, `Stop`,
`Send`) and one from it. `producer` is `_producer`; `client` gives the stage of each
`AIOKafkaProducer` ever made, of which the wrapper knows the latest at most. The client is
external: `Connection` and `Delivery` are what it may do, and a second `stop` of it
returns at once. `crossed` remembers whether a stop began while another start or stop
was under way: only then can `stop` clear a `_producer` that is not the one it stopped.
`StopRaises` is a stop of the client that raises or is canceled, at any time before its end:
the client may still be open (`"stray"`), but it counts as told to stop, so the next
`stop` gets no further than to clear `_producer`. `broken` remembers those clients. These
two are the only ways to lose a client (`ClientsAreKept`).

### RunCommand

Each command is in one `phase`. `Handle`, `Flush` and `Publish` are the parts of
`SlackRunCommandService.handle`; `handle_slack_command` awaits nothing between
reading the body and returning, so the command has the event `loop` all along.
`StartThread` is FastAPI running the rest of `get_session` in a thread, which
needs the loop to begin; `Commit`, `CommitFails` and `Rollback` are
`_session_manager`; `Respond` comes after them, as FastAPI 0.106 and later do
(the kit pins 0.111). `out` holds the sessions with a pooled connection. The
publisher waits ten seconds for Kafka: `PublishFails` leaves the event
stored, lost, or in the producer's buffer, from where `Deliver` may store it
later. The producer is not idempotent, so an event may be stored twice.
`CommitFails` and `Crash` include the commit that the database carried out and
could not confirm. Signatures count by their verdict
(`NotVerified`). The text of each command is a constant (`TextOf`) that `CommandText` reads:
tokens with a key and a value, or a text that `shlex.split` refuses with an
exception (`Unsplittable`), which nothing catches. `CommandText` has the loop of the
parser (`Parsed`, a fold) and what the texts mean without it (`WellFormed`,
`Asked`); that the two agree on every text of up to three tokens is an assumption of
`MCRunCommand` that TLC evaluates.

The model follows the slash command as its own delivery (`runs/kit/REQ-001`) has
it; in the merged tree its imports meet the shadowed modules named above.

### Admin

`UpdateConfig`, `SetEnabled` and `Reset` are the three operations up to the flush of
the audit row; `tx` holds what they have changed in the session. `LogAction` is that
flush and the commit after it, `Rollback` the caller's reaction when it fails. As the
code is, `LogAction` always fails: `ChannelAdminAction.created_at` has no default
in the mapping, so SQLAlchemy inserts NULL, which the table refuses. Its other
disjunct is what would happen with that repaired. Requests that are not authorized or
not valid change nothing and are not steps.

## 3. The runs

| Run | Instance | Shows |
|---|---|---|
| `ChannelHistory` | 3 users, 5 closes, any participants, repeats allowed or not | `assign_runner` implements `FairRotation`, and each close does so under the `allow_immediate_repeat` it asked for (`AssignsAsAsked`: `FairRotation` alone would forgive a runner picked twice, since it does not say which closes allow a repeat); counters are the history; regulars differ by at most one run |
| `Serial` | 1 session, 2 users, 2 runs, 1 text | without overlap the tables are an exact ledger, closed runs are sealed and final, every committed order request has the effect it asked for, counts are right, and the whole path from orders to commit implements `OrderBook` and `FairRotation` |
| `Concurrent` | 2 sessions, 2 users, 1 run, 1 text | what survives overlap: closed runs have a runner who ordered and was credited, statistics come from committed closes, orders and preferences go together, what a session has read stays good enough |
| `RowLocks` | 2 sessions, 1 run, 2 users with keys and names in opposite order | order requests are never in a deadlock, closes of a run do not deadlock with each other, every request ends |
| `Reminders` | 2 partitions, 1 call (2 reminders), 2 faults, 1 minute | nothing passed over, repeats only after crashes and stops whose last commit failed, late only behind another, every reminder gets its turn, all of it an implementation of `ReminderLine` |
| `Producer` | 3 tasks, 2 clients | `send` tells the truth, no client is lost without a stop amid another start or stop or a stop broken off, starting and stopping end |
| `RunCommand` | 4 commands (no parameters, repeated ones, an error, an open quote), pool of 1, 1 crash, an event stored up to twice | no run without its event, none that was not asked for, no false answer, no connection lost, every command answered |
| `LedgerRace`, `LateOrder`, `LostEdit` | the instance of `Concurrent` | violated: what overlap breaks (section 6) |
| `Punctual` | 1 partition, 2 calls, no faults | violated: a reminder waits behind a later one |
| `AdminAudit` | an administrator and a member, numbers in and out of bounds | violated: the audit row of every request is refused |

Bounds. Two sessions are enough for every conflict here, since each involves two
requests; two users give a conflict on one's order and a choice of runner; a
second run matters only through the channel's preferences and statistics
(`Serial`). In `RowLocks` two sessions give every cycle of two, and each cycle found is one;
the keys against the names make a close's orders and statistics disagree in order.
`MaxClock` = 2 allows each run to be closed once, `MaxCloses` = 5 lets a
user be passed over and come back. In `Reminders` one call of the scheduler
gives a reminder due later ahead of one due sooner (pickup at minute 2, offset 1, lead
2: due at 1 and at 0), the one minute lets the first become due, the second late, and
two faults give a stop followed by a crash, or two stops without their commit. In `Producer` the second client is
one made while the first is being stopped, and three tasks are two that stop beside one
that starts or sends. In `RunCommand` a pool of one makes the second command wait, and
the others show that commands after a failure find the pool as it was. Symmetry is used
for sessions or runs only, which no definition distinguishes, and never with a liveness property.

Fairness. In `RowLocks` a session that has begun goes on (weak fairness of
its statements and its end), and PostgreSQL looks for deadlocks after `deadlock_timeout`.
Taking a lock gets strong fairness: PostgreSQL serves waiters in turn, so a lock that is
free again and again is obtained. With weak fairness alone a stream of other requests
could starve it. In `Producer` connecting and delivering have timeouts, so they come
to an end; nothing is assumed of a send to a client that never connects, which is why
stopping must not wait for it. That a stop is broken off is possible and never needed.
In `Reminders` time passes, a call of the scheduler continues, and the event
loop resumes the worker. Nothing says that a consumer is started or a request made.
In `RunCommand` a request the server has begun goes on: the pool and the publisher
have timeouts, threads run and the loop comes round to what is ready. Delivery of
buffered events is not assumed.

## 4. The proofs

Assumptions are those the modules name: user ranks differ, `NoUser` and `NoText`
are not users or texts, users are finite, each run has a channel, the channel whose rotation
is looked at (`kitchen`) is one. In `RowLocks`
also: sessions and runs are finite, primary keys differ.

`CoffeeRunsProofs` proves `Inv` of `CoffeeRuns` inductive, for any number of
users, runs, channels, texts and sessions, and from it the invariants that
`Concurrent` checks. The claims about tables are not inductive: a commit
writes what was loaded earlier. The strengthening is `SessionsConsistent`
(`OrderTxOK`, `CloseTxOK`), which says for each step of a request what its
loaded values still guarantee, and `MissingStatsEmpty`. An action either
changes one session and no table (`SessionStep` shows what must then be proved of
the new record) or commits. Commits only let the tables grow
(`TablesGrow`), which keeps every other session consistent (`SessionsKeep`).

`RunsApartProofs` proves the promises of `RunsApart`, for any number of users, runs,
channels, texts and concurrent sessions, each from the separations it needs:

| Promise | From | Shown to fail without, in run |
|---|---|---|
| `LedgerExact` | `ClosesApart` | `LedgerRace` |
| `ClosedOrdersFinal` | `OrdersApartFromCloses` | `LateOrder` |
| `RequestTakesEffect` | `UsersApart`, `OrdersApartFromCloses` | `LostEdit` |
| `CountAccurate` | `OrdersApart` | |
| `ImplementsOrderBook` | `UsersApart`, `OrdersApartFromCloses` | |
| `ImplementsRotation`, `FairSpread` | `ClosesApart`, `OrdersApartFromCloses` | |

Its theorems have the form `Spec /\ []Separation => Promise`. Each rests on an invariant
which says that what a request has read is still what the tables say when it commits
(`ClosesSeeLedger`, `ClosesSeeOrders`, `RequestsSeeTables`, `CountsSeeOrders`,
`ChoicesAreFair`), and on `Inv` above, which needs no separation. `LedgerExact` becomes
inductive with two facts more: a user without a row has the blank one
(`MissingStatsBlank`), and the closed runs of a channel are finite in number, each with a
`closed_at` of its own (`ClosesOrdered`), which also makes "the previous runner" one user.
The two refinements go step by step: a commit is the step of the abstract specification and
every other statement a stutter. Two closes of one run, which `ImplementsOrderBook` allows, show as
one step, since the second finds every order final. `FairSpread` comes from
`FairRotationProofs` through the refinement. The invariants were checked with TLC on
two sessions, two users and two runs, restricted to behaviours that keep the separation, as deep
as it got; that instance is too large for a run of the project. `OneAtATimeKeepsPromises`
sums up: requests served one at a time, as in `Serial`, keep all of them.

`FairRotationProofs` proves that users who take part in every run differ by at
most one, whoever else comes and goes. The bound alone is not inductive: when
the latest runner is passed over, it holds because they had served most among the
regulars (`LastServedMost`). `ChannelHistoryProofs` proves that `ChannelHistory`
implements `FairRotation` and so inherits that bound, and that the counters are
the history. It also proves that every close is fair under the policy it asked
for (`ClosesAreAsAsked`).

`RunCommandProofs` proves the safety of `RunCommand` for any number of commands,
connections, copies and crashes. That a run has its event is not inductive:
`Traces` adds what each phase has left behind, above all that a request which is
to commit has its event stored and that one not yet published has left
nothing.

It also proves that runs and events are what the commands asked for, as far as the parser reads
their texts right (`RunsFollowTexts`): the parser is a fold over the tokens, and what it
computes for texts of any length is left to TLC.

`RemindersProofs` proves the safety of `Reminders` for any number of partitions, calls,
faults and minutes. `Base` adds to the types that consumer, task and message in
hand go together and that everything published is wanted. `NothingPassedOver` is then nearly
inductive. `RepeatsNeedSetback` is not: `TriedBefore` counts the attempts of a message
yet to be taken against the setbacks so far, which leaves one for the attempt to
come. Nor is `LateOnlyBehindAnother`, which speaks of the past:
`LateOnesWait` says that a reminder which is late and still to be sent stands behind one due
later that is in hand, or was. Publishing, starting and the passing of a minute are the
steps at which it could fail. `RemindersKeepTheLine` is the refinement of `ReminderLine`, step
by step.

`ProducerProofs` proves the safety of `Producer` for any number of tasks and clients. The
invariant says which calls may be under way on a client at each stage of it and that,
unless a stop has crossed another call, the client that is open is `_producer`, or its own
stop was broken off.

`RowLocksProofs` proves who can be in a deadlock, for any number of sessions, runs and
users. The invariant follows each kind of request from lock to lock (`OrderStage`,
`CloseStage`, `ResetStage`): what it has comes before what it waits for, sessions have
no locks that conflict (`Apart`), and a row being inserted is not yet there (`Unwritten`).
From a state to its cycles there is one argument, `NoWayIn`: in a finite cycle, a set
of sessions that the cycle does not leave is not entered either. An order
request that waits for a preference waits for a reset that has come that far. Such a reset,
and a close that has come to the statistics, wait only for their like (`Late`), so the
request, which is not one of them, is in no cycle with them. One that waits for its order has nothing
that others wait for, or only the order it inserts, for which only requests with
nothing wait. For closes of one run the
set is that of those who want an order with a greater key.

Only model-checked: liveness (`RequestsEnd`, `ReminderGetsItsTurn`, `LifecycleEnds`,
`CommandsAreAnswered`), which is beyond the prover, and what the parser computes
for texts of any length.

## 5. What is left

1. An instance of `RowLocks` with two runs, which would exhibit the closes that
   deadlock; it is too large for a quick run.
2. `Admin` has no theorems: all its requests fail in the code as it is.

Not modelled, and why: the credentials from Vault (`infra/db/session.py`, lines 73 to
122) are a bounded loop of one caller with a sleep, at start-up, that a unit test covers;
signatures (HMAC) are arithmetic on strings; message wording, metrics, the application's
wiring, and the provisioning of tables and topics keep no state that changes.
A reset that commits is not modelled, since none can (Admin).

## 6. Findings

- Two closes of a run can both commit. `close_run` reads the status without a lock
  (`LedgerRace`).
- An order can be committed on a run that has just been closed (`LateOrder`).
- An edit that overlaps a cancellation succeeds and leaves the order canceled
  (`LostEdit`).
- Every administrative request fails on its audit row (`AdminAudit`).
- An event may be published for a run that is then rolled back: the event precedes
  the commit. `RunCommand` checks what remains true (no run without an event, and
  Slack is never shown such a run).
- Reminders wait in line behind later ones (`Punctual`).
- A reminder may be sent again without a crash, after a stop of the consumer whose last
  commit failed (`RepeatsNeedSetback` and `ImplementsLine` say how far it goes back).
- A stop of the producer that is broken off and tried again forgets a client whose
  connections are open, as does a stop amid another start or stop (`ClientsAreKept`).
- A command with an open quote ends in an uncaught `ValueError` of `shlex.split`
  (`api/slack_runs/parsers.py:16`), where `docs/harper/SPEC.md:404` promises a usage hint for
  invalid syntax. `RunCommand` has the step, and checks that it leaves no run and no
  connection behind.

The quoted lines of documents and code are in `PROJECT.json`. Three promises of the
documents have no code behind them, so no run is needed to see it:
a reminder that Slack refuses is not tried again (`docs/harper/PLAN.md:123` plans a retry, and
`README_REQ-004.md:15` puts it in the consumer, which has none),
`fairness_window_runs` is read nowhere and counts are for life
(`docs/harper/SPEC.md:53`), and the slash command does not look at
`channels.enabled` (`docs/harper/PLAN.md:129`).
