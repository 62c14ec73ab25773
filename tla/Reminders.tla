------------------------------ MODULE Reminders ------------------------------
(***************************************************************************)
(* Reminders on their way from jobs/reminders through the Kafka topic to   *)
(* the Slack sender: the scheduler, the consumer harness of infra/kafka    *)
(* and the reminder worker it calls.                                       *)
(*                                                                         *)
(* schedule_for_run publishes up to two reminders and forgets them.  The   *)
(* consumer takes messages one at a time and awaits the worker, which      *)
(* sleeps until the reminder is due, before it takes the next one.  Its    *)
(* position moves when a message is taken; auto commit copies the position *)
(* to the broker in the background, and once more when the consumer stops, *)
(* whether or not the handler has finished.  That last commit may fail     *)
(* without a word, and stopping may be broken off.                         *)
(*                                                                         *)
(* Time is counted in minutes, the unit of the offsets and of the worker's *)
(* tolerance.  Taking a message, publishing and sending are assumed to     *)
(* take less than one (Tick).                                              *)
(*                                                                         *)
(* Left out: several consumers in the group and rebalances, retention,     *)
(* metrics and logs, messages that do not parse (the scheduler, the only   *)
(* publisher, builds them from the same schema).                           *)
(***************************************************************************)
EXTENDS Integers, Sequences, FiniteSets

CONSTANTS
    Partitions,     \* of REMINDER_EVENTS_TOPIC
    Pickups,        \* pickup times of runs
    Offset,         \* channels.reminder_offset_minutes
    Lead,           \* last_call_lead_minutes
    MaxCalls,       \* bound: calls of schedule_for_run
    MaxFaults,      \* bound: times the consumer is stopped or fails
    MaxTime         \* bound: the clock

ASSUME RemindersAssumption ==
    /\ Offset \in Nat /\ Lead \in Nat \ {0}
    /\ \A pickup \in Pickups : pickup \in Nat /\ pickup >= Offset /\ pickup >= Lead
    /\ MaxCalls \in Nat /\ MaxFaults \in Nat /\ MaxTime \in Nat

VARIABLES
    now,
    calls,          \* calls of schedule_for_run so far
    pending,        \* what the current call has yet to publish
    log,            \* the messages of each partition
    committed,      \* the group's committed offset in each partition
    consumer,       \* _consumer: "none" or the stage of its client; a stop
                    \* that was broken off leaves it set, but "closed"
    task,           \* _task: "none", "running" or "failed"
    position,       \* the next offset to take in each partition
    since,          \* when the running consumer was started
    hand,           \* the message the handler is working on, or Nothing
    sending,        \* the worker has called the sender
    faults,         \* how many faults so far
    setbacks,       \* history: how often the next position was an older one
    attempts,       \* history: what has been handed to the sender
    dropped         \* history: messages whose handler was interrupted

schedulerVars == <<calls, pending>>
brokerVars == <<log, committed>>
consumerVars == <<consumer, task, position, since, faults, setbacks>>
workerVars == <<hand, sending, attempts, dropped>>
vars == <<now, schedulerVars, brokerVars, consumerVars, workerVars>>

-----------------------------------------------------------------------------
\* ReminderPayload with the event's occurred_at.  wanted stands for the channel
\* settings in it, as far as its type depends on them.
Reminder == [type : {"runner", "last_call"}, due : Nat, wanted : BOOLEAN,
             issued : Nat]

\* A message of the topic, by partition and offset from 1.
Message == Partitions \X (Nat \ {0})

Nothing == <<>>

At(m) == log[m[1]][m[2]]

Published == {m \in Partitions \X (1..2 * MaxCalls) : m[2] <= Len(log[m[1]])}

Init ==
    /\ now = 0
    /\ calls = 0
    /\ pending = <<>>
    /\ log = [p \in Partitions |-> <<>>]
    /\ committed = [p \in Partitions |-> 0]
    /\ consumer = "none"
    /\ task = "none"
    /\ position = [p \in Partitions |-> 0]
    /\ since = 0
    /\ hand = Nothing
    /\ sending = FALSE
    /\ faults = 0
    /\ setbacks = 0
    /\ attempts = <<>>
    /\ dropped = {}

-----------------------------------------------------------------------------
(* jobs/reminders/scheduler.py *)

\* What schedule_for_run publishes for a run with a pickup time.  Without
\* one it does nothing.
Payloads(pickup, runner, enabled, lastCall) ==
    LET payload(type, due, wanted) ==
            [type |-> type, due |-> due, wanted |-> wanted, issued |-> now]
    IN  (IF enabled /\ runner
         THEN <<payload("runner", pickup - Offset, enabled)>> ELSE <<>>)
        \o
        (IF enabled /\ lastCall
         THEN <<payload("last_call", pickup - Lead, enabled /\ lastCall)>>
         ELSE <<>>)

Schedule(pickup, runner, enabled, lastCall) ==
    /\ pending = <<>>
    /\ calls < MaxCalls
    /\ calls' = calls + 1
    /\ pending' = Payloads(pickup, runner, enabled, lastCall)
    /\ UNCHANGED <<now, brokerVars, consumerVars, workerVars>>

\* publish carries no key: the message may go to any partition.
Publish ==
    /\ pending # <<>>
    /\ \E p \in Partitions : log' = [log EXCEPT ![p] = Append(@, Head(pending))]
    /\ pending' = Tail(pending)
    /\ UNCHANGED <<now, calls, committed, consumerVars, workerVars>>

\* publish raises: the call ends, and what it has published stays.
PublishFails ==
    /\ pending # <<>>
    /\ pending' = <<>>
    /\ UNCHANGED <<now, calls, brokerVars, consumerVars, workerVars>>

-----------------------------------------------------------------------------
(* infra/kafka/consumer.py: start and stop, awaited by one caller          *)

\* start does nothing if there is a _consumer already.
Start ==
    /\ consumer = "none"
    /\ consumer' = "starting"
    /\ UNCHANGED <<now, schedulerVars, brokerVars, task, position, since,
                   faults, setbacks, workerVars>>

\* Mutants: seek one message back; start with what comes next; start all over.
StartOneBack == [p \in Partitions |-> committed[p] - 1]

StartAtEnd == [p \in Partitions |-> Len(log[p])]

StartAllOver == [p \in Partitions |-> 0]

\* Where the group left off; "earliest" where it has committed nothing.
StartPosition == committed

StartSucceeds ==
    /\ consumer = "starting"
    /\ consumer' = "started"
    /\ task' = "running"
    /\ position' = StartPosition
    /\ since' = now
    /\ UNCHANGED <<now, schedulerVars, brokerVars, faults, setbacks, workerVars>>

\* The broker is not there.  _consumer stays set: only stop clears it.
StartFails ==
    /\ consumer = "starting"
    /\ faults < MaxFaults
    /\ faults' = faults + 1
    /\ consumer' = "started"
    /\ UNCHANGED <<now, schedulerVars, brokerVars, task, position, since,
                   setbacks, workerVars>>

\* A call of the sender for the message in hand.  inTime: the message was
\* published, and this consumer started, before it was due.
Attempt(ok) ==
    LET r == At(hand)
    IN  [of |-> hand, at |-> now, ok |-> ok,
         inTime |-> r.issued <= r.due /\ since <= r.due]

\* The message in hand is given up where it is.  A call of the sender that is
\* under way may have reached Slack all the same.
Interrupt ==
    /\ hand' = Nothing
    /\ sending' = FALSE
    /\ dropped' = IF hand = Nothing THEN dropped ELSE dropped \cup {hand}
    /\ \/ UNCHANGED attempts
       \/ sending /\ attempts' = Append(attempts, Attempt(TRUE))

\* stop cancels the loop and awaits it.  If the loop has failed, awaiting it
\* raises its exception out of stop, and nothing is cleared.
StopLoop ==
    /\ consumer = "started"
    /\ task # "failed"
    /\ faults < MaxFaults
    /\ faults' = faults + 1
    /\ consumer' = "stopping"
    /\ task' = "none"
    /\ since' = 0
    /\ Interrupt
    /\ UNCHANGED <<now, schedulerVars, brokerVars, position, setbacks>>

\* AIOKafkaConsumer.stop commits the position, as a whole, on its way out.  If
\* that fails it only logs so, and the next consumer starts where the group
\* left off before.
LastCommit ==
    \/ /\ committed' = position
       /\ UNCHANGED <<position, setbacks>>
    \/ /\ committed # position
       /\ position' = committed
       /\ setbacks' = setbacks + 1
       /\ UNCHANGED committed

StopConsumer ==
    /\ consumer = "stopping"
    /\ consumer' = "none"
    /\ LastCommit
    /\ UNCHANGED <<now, schedulerVars, log, task, since, faults, workerVars>>

\* The client's stop raises or is canceled, before or after the commit.
\* _consumer stays set, with a client that has been told to stop.
StopRaises ==
    /\ consumer = "stopping"
    /\ consumer' = "closed"
    /\ LastCommit
    /\ UNCHANGED <<now, schedulerVars, log, task, since, faults, workerVars>>

\* The next stop: such a client returns from its stop at once.
StopAgain ==
    /\ consumer = "closed"
    /\ consumer' = "none"
    /\ UNCHANGED <<now, schedulerVars, brokerVars, task, position, since,
                   faults, setbacks, workerVars>>

\* Taking the next message raises: the loop ends and nobody looks.
LoopFails ==
    /\ task = "running"
    /\ hand = Nothing
    /\ faults < MaxFaults
    /\ faults' = faults + 1
    /\ task' = "failed"
    /\ UNCHANGED <<now, schedulerVars, brokerVars, consumer, position, since,
                   setbacks, workerVars>>

\* The process dies and is replaced by a fresh one.
Crash ==
    /\ consumer # "none"
    /\ faults < MaxFaults
    /\ faults' = faults + 1
    /\ setbacks' = setbacks + 1
    /\ consumer' = "none"
    /\ task' = "none"
    /\ position' = committed
    /\ since' = 0
    /\ Interrupt
    /\ UNCHANGED <<now, schedulerVars, brokerVars>>

\* In the background as long as there is a consumer, the loop's task or not.
AutoCommit ==
    /\ consumer = "started"
    /\ committed # position
    /\ committed' = position
    /\ UNCHANGED <<now, schedulerVars, log, consumerVars, workerVars>>

-----------------------------------------------------------------------------
(* _consume_loop and infra/kafka/reminder_worker.py *)

Waiting(p) == position[p] < Len(log[p])

\* _should_dispatch; a runner reminder always names a runner.
ShouldDispatch(r) == r.wanted

\* Take a message and, unless it is skipped, begin to wait.
Take(p) ==
    LET m == <<p, position[p] + 1>>
    IN  /\ task = "running"
        /\ hand = Nothing
        /\ Waiting(p)
        /\ position' = [position EXCEPT ![p] = @ + 1]
        /\ hand' = IF ShouldDispatch(At(m)) THEN m ELSE Nothing
        /\ UNCHANGED <<now, schedulerVars, brokerVars, consumer, task, since,
                       faults, setbacks, sending, attempts, dropped>>

\* Mutants: a minute too long; only at the very minute.
DueAfter(r) == now > r.due

DueExactly(r) == now = r.due

Due(r) == now >= r.due

\* _wait_until returns.
WakeUp ==
    /\ hand # Nothing
    /\ ~sending
    /\ Due(At(hand))
    /\ sending' = TRUE
    /\ UNCHANGED <<now, schedulerVars, brokerVars, consumerVars, hand,
                   attempts, dropped>>

\* The sender returns or raises.  The worker lets the exception through and
\* the loop logs it and goes on: either way the message is done with.
Send(ok) ==
    /\ sending
    /\ attempts' = Append(attempts, Attempt(ok))
    /\ hand' = Nothing
    /\ sending' = FALSE
    /\ UNCHANGED <<now, schedulerVars, brokerVars, consumerVars, dropped>>

\* A minute passes when the worker has nothing to do but sleep.
Tick ==
    /\ now < MaxTime
    /\ pending = <<>>
    /\ consumer \notin {"starting", "stopping"}
    /\ task = "running" =>
          IF hand = Nothing THEN \A p \in Partitions : ~Waiting(p)
          ELSE ~Due(At(hand))
    /\ now' = now + 1
    /\ UNCHANGED <<schedulerVars, brokerVars, consumerVars, workerVars>>

-----------------------------------------------------------------------------
Scheduler ==
    \/ \E pickup \in Pickups, runner, enabled, lastCall \in BOOLEAN :
          Schedule(pickup, runner, enabled, lastCall)
    \/ Publish
    \/ PublishFails

Lifecycle ==
    \/ Start \/ StartSucceeds \/ StartFails
    \/ StopLoop \/ StopConsumer \/ StopRaises \/ StopAgain
    \/ LoopFails \/ Crash

Worker ==
    \/ \E p \in Partitions : Take(p)
    \/ WakeUp
    \/ \E ok \in BOOLEAN : Send(ok)

Next == Scheduler \/ Lifecycle \/ Worker \/ AutoCommit \/ Tick

Spec == Init /\ [][Next]_vars

\* Time passes, a call of schedule_for_run goes on and a running event loop
\* resumes its tasks.  That a consumer is ever started, or a run scheduled, is
\* up to the caller.
FairSpec ==
    Spec /\ WF_vars(Worker) /\ WF_vars(Tick) /\ WF_vars(Publish \/ PublishFails)

-----------------------------------------------------------------------------
TypeOK ==
    /\ now \in Nat /\ since \in Nat /\ calls \in Nat
    /\ faults \in Nat /\ setbacks \in Nat
    /\ pending \in Seq(Reminder)
    /\ log \in [Partitions -> Seq(Reminder)]
    /\ committed \in [Partitions -> Nat] /\ position \in [Partitions -> Nat]
    /\ consumer \in {"none", "starting", "started", "stopping", "closed"}
    /\ task \in {"none", "running", "failed"}
    /\ hand \in Message \cup {Nothing} /\ sending \in BOOLEAN
    /\ attempts \in Seq([of : Message, at : Nat, inTime : BOOLEAN,
                        ok : BOOLEAN])
    /\ dropped \subseteq Message

AttemptsOf(m) == {i \in DOMAIN attempts : attempts[i].of = m}

\* The consumer's position never leaves a reminder behind: whatever it has
\* passed has been handed to the sender, or is in hand, or was in hand when the
\* consumer was stopped or the process died.  In particular the worker's own
\* check of the channel settings agrees with the scheduler's.
NothingPassedOver ==
    \A m \in Published : m[2] <= position[m[1]] =>
        m = hand \/ AttemptsOf(m) # {} \/ m \in dropped

\* A reminder is handed to the sender again only after a crash, or a stop whose
\* last commit did not get through: a stop that commits, a start that fails and
\* a loop that fails never repeat one.  Neither does a failed send, although
\* docs/harper/PLAN.md:123 plans for a retry.
RepeatsNeedSetback ==
    \A m \in Published : Cardinality(AttemptsOf(m)) <= 1 + setbacks

\* No reminder is early, and one that was published in time to a consumer that
\* was running by then is late only because the worker was sleeping on another
\* one that was due later.
LateOnlyBehindAnother ==
    \A i \in DOMAIN attempts :
        LET a == attempts[i]
            r == At(a.of)
        IN  /\ a.at >= r.due
            /\ (a.at > r.due /\ a.inTime) =>
                  \E j \in DOMAIN attempts :
                      /\ j < i
                      /\ attempts[j].at \in r.due..a.at
                      /\ At(attempts[j].of).due > r.due

\* As long as the consumer runs, every reminder of the topic gets its turn.
ReminderGetsItsTurn ==
    \A m \in Partitions \X (1..2 * MaxCalls) :
        m \in Published ~> \/ AttemptsOf(m) # {}
                           \/ m \in dropped
                           \/ task # "running"

\* A reminder in hand still stands first in its line.
Served == [p \in Partitions |->
    IF hand # Nothing /\ hand[1] = p THEN position[p] - 1 ELSE position[p]]

Line == INSTANCE ReminderLine WITH
    length <- [p \in Partitions |-> Len(log[p])],
    served <- Served,
    saved <- committed,
    tries <- [i \in DOMAIN attempts |-> attempts[i].of],
    lost <- dropped

\* Scheduler, consumer and worker keep the reminders of a partition in line:
\* they are sent in the order published, none is skipped, a stop or a crash
\* gives up at most the one in hand, only a crash or a stop without its commit
\* goes back, and not before the last commit.  The commit is not the worker's:
\* it may precede the end of the reminder in hand, never that of one behind it.
ImplementsLine == Line!Spec
=============================================================================
