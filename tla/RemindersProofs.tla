--------------------------- MODULE RemindersProofs ---------------------------
(***************************************************************************)
(* The safety of Reminders for any number of partitions, runs, faults and  *)
(* minutes.                                                                *)
(***************************************************************************)
EXTENDS Reminders, SequenceTheorems, FiniteSetTheorems, TLAPS

InLog == {m \in Message : m[2] <= Len(log[m[1]])}

\* Consumer, task, position and the message in hand go together.
Together ==
    /\ task = "running" => consumer = "started"
    /\ hand # Nothing => /\ task = "running"
                         /\ hand \in InLog
                         /\ hand[2] = position[hand[1]]
    /\ sending => hand # Nothing /\ Due(At(hand))
    /\ consumer \in {"none", "starting", "closed"} => position = committed
    /\ \A p \in Partitions : /\ committed[p] <= position[p]
                             /\ position[p] <= Len(log[p])

\* The scheduler publishes only what the worker will not skip, and within the
\* minute.
Asked ==
    /\ \A m \in InLog : At(m).wanted
    /\ \A i \in DOMAIN pending : pending[i].wanted /\ pending[i].issued = now

Base == TypeOK /\ Together /\ Asked

AttemptRecord == [of : Message, at : Nat, inTime : BOOLEAN, ok : BOOLEAN]

-----------------------------------------------------------------------------
(* Messages and the log *)

LEMMA MessageParts ==
  /\ \A m \in Message : m[1] \in Partitions /\ m[2] \in Nat \ {0}
  /\ \A m \in Message : m = <<m[1], m[2]>>
  /\ \A p \in Partitions, n \in Nat \ {0} :
        <<p, n>> \in Message /\ <<p, n>>[1] = p /\ <<p, n>>[2] = n
  /\ Nothing \notin Message
  BY DEF Message, Nothing

LEMMA LogEntries ==
  ASSUME TypeOK
  PROVE  /\ \A p \in Partitions : log[p] \in Seq(Reminder) /\ Len(log[p]) \in Nat
         /\ \A m \in InLog : /\ m \in Message /\ At(m) \in Reminder
                             /\ At(m).due \in Nat /\ At(m).issued \in Nat
  <1>1. \A p \in Partitions : log[p] \in Seq(Reminder) /\ Len(log[p]) \in Nat
    BY DEF TypeOK
  <1>2. \A m \in InLog : m \in Message /\ At(m) \in Reminder
    BY <1>1, MessageParts, ElementOfSeq DEF InLog, At
  <1> QED
    BY <1>1, <1>2 DEF Reminder

\* Publishing leaves what is in the log where it is.
LEMMA LogGrows ==
  ASSUME TypeOK, Publish
  PROVE  /\ pending \in Seq(Reminder) /\ pending # <<>>
         /\ Head(pending) \in Reminder
         /\ log' \in [Partitions -> Seq(Reminder)]
         /\ \E p \in Partitions :
               /\ Len(log'[p]) = Len(log[p]) + 1
               /\ log'[p][Len(log[p]) + 1] = Head(pending)
               /\ \A q \in Partitions \ {p} : log'[q] = log[q]
               /\ \A i \in 1..Len(log[p]) : log'[p][i] = log[p][i]
  <1>1. pending \in Seq(Reminder) /\ pending # <<>> /\ Head(pending) \in Reminder
    BY DEF TypeOK, Publish
  <1>2. PICK p \in Partitions :
           log' = [log EXCEPT ![p] = Append(@, Head(pending))]
    BY DEF Publish
  <1>3. log[p] \in Seq(Reminder)
    BY DEF TypeOK
  <1>4. /\ log'[p] = Append(log[p], Head(pending))
        /\ \A q \in Partitions \ {p} : log'[q] = log[q]
        /\ DOMAIN log' = Partitions
    BY <1>2 DEF TypeOK
  <1>5. /\ log'[p] \in Seq(Reminder)
        /\ Len(log'[p]) = Len(log[p]) + 1
        /\ log'[p][Len(log[p]) + 1] = Head(pending)
        /\ \A i \in 1..Len(log[p]) : log'[p][i] = log[p][i]
    BY <1>1, <1>3, <1>4, AppendProperties
  <1>6. log' \in [Partitions -> Seq(Reminder)]
    BY <1>2, <1>4, <1>5 DEF TypeOK
  <1> QED
    BY <1>1, <1>4, <1>5, <1>6

LEMMA LogStays ==
  ASSUME TypeOK, Publish
  PROVE  /\ InLog \subseteq InLog'
         /\ \A m \in InLog : At(m)' = At(m)
         /\ \A m \in InLog' \ InLog :
               /\ At(m)' = Head(pending)
               /\ m[2] = Len(log[m[1]]) + 1
         /\ \A p \in Partitions : Len(log'[p]) >= Len(log[p])
  <1>1. PICK p \in Partitions :
               /\ Len(log'[p]) = Len(log[p]) + 1
               /\ log'[p][Len(log[p]) + 1] = Head(pending)
               /\ \A q \in Partitions \ {p} : log'[q] = log[q]
               /\ \A i \in 1..Len(log[p]) : log'[p][i] = log[p][i]
    BY LogGrows
  <1>2. \A q \in Partitions : Len(log[q]) \in Nat
    BY LogEntries
  <1>3. \A m \in InLog : m \in InLog' /\ At(m)' = At(m)
    BY <1>1, <1>2, MessageParts DEF InLog, At
  <1>4. \A m \in InLog' \ InLog : m[1] = p /\ m[2] = Len(log[p]) + 1
    BY <1>1, <1>2, MessageParts DEF InLog
  <1> QED
    BY <1>1, <1>2, <1>3, <1>4 DEF At

-----------------------------------------------------------------------------
(* Base is inductive *)

LEMMA BaseInit ==
  ASSUME Init
  PROVE  Base
  <1>0. /\ pending \in Seq(Reminder)
        /\ log \in [Partitions -> Seq(Reminder)]
        /\ attempts \in Seq(AttemptRecord)
        /\ committed \in [Partitions -> Nat] /\ position \in [Partitions -> Nat]
    BY EmptySeq DEF Init
  <1>1. TypeOK
    BY <1>0 DEF Init, TypeOK, AttemptRecord
  <1>2. InLog = {}
    BY MessageParts DEF Init, InLog
  <1>3. Together
    BY DEF Init, Together, Nothing
  <1>4. Asked
    BY <1>2 DEF Init, Asked
  <1> QED
    BY <1>1, <1>3, <1>4 DEF Base

\* What a call of schedule_for_run is going to publish.
LEMMA PayloadsAreAsked ==
  ASSUME TypeOK,
         NEW pickup \in Pickups, NEW runner \in BOOLEAN,
         NEW enabled \in BOOLEAN, NEW lastCall \in BOOLEAN
  PROVE  LET s == Payloads(pickup, runner, enabled, lastCall)
         IN  /\ s \in Seq(Reminder)
             /\ \A i \in DOMAIN s : s[i].wanted /\ s[i].issued = now
  <1> DEFINE one == [type |-> "runner", due |-> pickup - Offset,
                     wanted |-> enabled, issued |-> now]
             two == [type |-> "last_call", due |-> pickup - Lead,
                     wanted |-> enabled /\ lastCall, issued |-> now]
             first == IF enabled /\ runner THEN <<one>> ELSE <<>>
             second == IF enabled /\ lastCall THEN <<two>> ELSE <<>>
  <1>1. now \in Nat /\ pickup - Offset \in Nat /\ pickup - Lead \in Nat
    BY RemindersAssumption DEF TypeOK
  <1>2. one \in Reminder /\ two \in Reminder
    BY <1>1 DEF Reminder
  <1>3. Payloads(pickup, runner, enabled, lastCall) = first \o second
    BY DEF Payloads
  <1>4. first \in Seq(Reminder) /\ second \in Seq(Reminder)
    BY <1>2
  <1>5. \A i \in DOMAIN first : first[i].wanted /\ first[i].issued = now
    <2>1. CASE enabled /\ runner
      BY <2>1
    <2>2. CASE ~(enabled /\ runner)
      BY <2>2
    <2> QED BY <2>1, <2>2
  <1>6. \A i \in DOMAIN second : second[i].wanted /\ second[i].issued = now
    <2>1. CASE enabled /\ lastCall
      <3>1. (enabled /\ lastCall) = TRUE
        BY <2>1
      <3>2. two = [type |-> "last_call", due |-> pickup - Lead,
                   wanted |-> TRUE, issued |-> now]
        BY <3>1, Zenon
      <3>3. two.wanted /\ two.issued = now
        BY <3>2
      <3> HIDE DEF two
      <3>4. second = <<two>>
        BY <2>1
      <3> HIDE DEF second
      <3> QED
        BY <3>3, <3>4
    <2>2. CASE ~(enabled /\ lastCall)
      BY <2>2
    <2> QED BY <2>1, <2>2
  <1> HIDE DEF first, second
  <1>7. /\ first \o second \in Seq(Reminder)
        /\ \A i \in DOMAIN (first \o second) :
              (first \o second)[i] = IF i <= Len(first) THEN first[i]
                                     ELSE second[i - Len(first)]
        /\ Len(first \o second) = Len(first) + Len(second)
    BY <1>4, ConcatProperties
  <1>8. \A i \in DOMAIN (first \o second) :
           \/ i \in DOMAIN first /\ (first \o second)[i] = first[i]
           \/ /\ i - Len(first) \in DOMAIN second
              /\ (first \o second)[i] = second[i - Len(first)]
    BY <1>4, <1>7
  <1> QED
    BY <1>3, <1>5, <1>6, <1>7, <1>8

LEMMA BaseSchedule ==
  ASSUME Base, Scheduler
  PROVE  Base'
  <1> USE DEF Base
  <1>1. ASSUME NEW pickup \in Pickups, NEW runner \in BOOLEAN,
               NEW enabled \in BOOLEAN, NEW lastCall \in BOOLEAN,
               Schedule(pickup, runner, enabled, lastCall)
        PROVE  Base'
    <2>1. /\ pending' \in Seq(Reminder)
          /\ \A i \in DOMAIN pending' : pending'[i].wanted /\ pending'[i].issued = now
      <3>1. pending' = Payloads(pickup, runner, enabled, lastCall)
        BY <1>1 DEF Schedule
      <3> DEFINE s == Payloads(pickup, runner, enabled, lastCall)
      <3>2. s \in Seq(Reminder) /\ \A i \in DOMAIN s : s[i].wanted /\ s[i].issued = now
        <4>1. TypeOK
          OBVIOUS
        <4> QED BY <4>1, PayloadsAreAsked
      <3> HIDE DEF s
      <3>3. pending' = s
        BY <3>1 DEF s
      <3> QED BY <3>2, <3>3
    <2>2. TypeOK'
      BY <1>1, <2>1 DEF TypeOK, Schedule, brokerVars, consumerVars, workerVars
    <2>3. InLog' = InLog /\ \A m : At(m)' = At(m)
      BY <1>1 DEF Schedule, brokerVars, InLog, At
    <2>4. Together'
      BY <1>1, <2>3 DEF Together, Due, Schedule, brokerVars, consumerVars, workerVars
    <2>5. Asked'
      BY <1>1, <2>1, <2>3 DEF Asked, Schedule
    <2> QED BY <2>2, <2>4, <2>5
  <1>2. ASSUME Publish PROVE Base'
    <2>1. /\ pending \in Seq(Reminder) /\ pending # <<>>
          /\ log' \in [Partitions -> Seq(Reminder)]
      BY <1>2, LogGrows
    <2>2. pending' = Tail(pending) /\ pending' \in Seq(Reminder)
      BY <1>2, <2>1 DEF Publish
    <2>3. \A i \in DOMAIN pending' : i + 1 \in DOMAIN pending /\ pending'[i] = pending[i + 1]
      BY <2>1, <2>2
    <2>4. TypeOK'
      BY <1>2, <2>1, <2>2 DEF TypeOK, Publish, consumerVars, workerVars
    <2>5. /\ InLog \subseteq InLog'
          /\ \A m \in InLog : At(m)' = At(m)
          /\ \A m \in InLog' \ InLog : At(m)' = Head(pending)
          /\ \A p \in Partitions : Len(log'[p]) >= Len(log[p])
      BY <1>2, LogStays
    <2>6. 1 \in DOMAIN pending /\ Head(pending) = pending[1]
      BY <2>1
    <2>7. Asked'
      BY <1>2, <2>3, <2>5, <2>6 DEF Asked, Publish
    <2>8. \A p \in Partitions : /\ Len(log[p]) \in Nat /\ Len(log'[p]) \in Nat
                                /\ position[p] \in Nat
      BY <2>1, LogEntries DEF TypeOK
    <2>9. Together'
      BY <1>2, <2>5, <2>8 DEF Together, Due, Publish, consumerVars, workerVars
    <2> QED BY <2>4, <2>7, <2>9
  <1>3. ASSUME PublishFails PROVE Base'
    <2>1. InLog' = InLog /\ \A m : At(m)' = At(m)
      BY <1>3 DEF PublishFails, brokerVars, InLog, At
    <2>2. TypeOK'
      BY <1>3 DEF TypeOK, PublishFails, brokerVars, consumerVars, workerVars
    <2>3. Together'
      BY <1>3, <2>1 DEF Together, Due, PublishFails, brokerVars, consumerVars, workerVars
    <2>4. Asked'
      BY <1>3, <2>1 DEF Asked, PublishFails
    <2> QED BY <2>2, <2>3, <2>4
  <1> QED
    BY <1>1, <1>2, <1>3 DEF Scheduler

\* The consumer's actions leave the scheduler and the log alone.
SameLog == UNCHANGED <<now, pending, log>>

LEMMA SameLogFacts ==
  ASSUME SameLog
  PROVE  /\ InLog' = InLog
         /\ \A m : At(m)' = At(m)
         /\ Asked => Asked'
  <1>1. InLog' = InLog /\ \A m : At(m)' = At(m)
    BY DEF SameLog, InLog, At
  <1> QED
    BY <1>1 DEF SameLog, Asked

LEMMA AttemptType ==
  ASSUME Base, hand # Nothing, NEW ok \in BOOLEAN
  PROVE  /\ Attempt(ok) \in AttemptRecord
         /\ attempts \in Seq(AttemptRecord)
         /\ Append(attempts, Attempt(ok)) \in Seq(AttemptRecord)
         /\ Attempt(ok).of = hand /\ Attempt(ok).at = now
         /\ Attempt(ok).inTime = (At(hand).issued <= At(hand).due /\ since <= At(hand).due)
  <1>1. hand \in Message /\ now \in Nat /\ attempts \in Seq(AttemptRecord)
    BY DEF Base, TypeOK, AttemptRecord
  <1>2. (At(hand).issued <= At(hand).due /\ since <= At(hand).due) \in BOOLEAN
    OBVIOUS
  <1>3. /\ Attempt(ok) \in AttemptRecord
        /\ Attempt(ok).of = hand /\ Attempt(ok).at = now
    BY <1>1, <1>2 DEF Attempt, AttemptRecord
  <1>4. Attempt(ok).inTime = (At(hand).issued <= At(hand).due /\ since <= At(hand).due)
    BY Zenon DEF Attempt
  <1> QED
    BY <1>1, <1>3, <1>4, AppendProperties

\* What giving up the message in hand does to the types.
LEMMA InterruptType ==
  ASSUME Base, Interrupt
  PROVE  /\ hand' = Nothing /\ sending' = FALSE
         /\ attempts' \in Seq(AttemptRecord)
         /\ dropped' \subseteq Message
  <1>1. attempts \in Seq(AttemptRecord) /\ dropped \subseteq Message
        /\ hand \in Message \cup {Nothing}
    BY DEF Base, TypeOK, AttemptRecord
  <1>2. attempts' \in Seq(AttemptRecord)
    <2>1. CASE sending
      BY <2>1, <1>1, AttemptType DEF Interrupt, Base, Together
    <2>2. CASE ~sending
      BY <2>2, <1>1 DEF Interrupt
    <2> QED BY <2>1, <2>2
  <1> QED
    BY <1>1, <1>2 DEF Interrupt

LEMMA BaseLifecycle ==
  ASSUME Base, Lifecycle
  PROVE  Base'
  <1> USE DEF Base
  <1>1. SameLog
    BY DEF Lifecycle, Start, StartSucceeds, StartFails, StopLoop,
           StopConsumer, StopRaises, StopAgain, LastCommit, LoopFails, Crash,
           SameLog, schedulerVars, brokerVars
  <1>2. InLog' = InLog /\ (\A m : At(m)' = At(m)) /\ Asked'
    BY <1>1, SameLogFacts
  <1>3. \A p \in Partitions : /\ Len(log[p]) \in Nat
                              /\ position[p] \in Nat /\ committed[p] \in Nat
    BY LogEntries DEF TypeOK
  <1>4. CASE Start
    BY <1>2, <1>4 DEF TypeOK, Together, Due, Start, schedulerVars, brokerVars, workerVars
  <1>5. CASE StartSucceeds
    BY <1>2, <1>3, <1>5 DEF TypeOK, Together, Due, StartSucceeds, StartPosition,
                            schedulerVars, brokerVars, workerVars
  <1>6. CASE StartFails
    BY <1>2, <1>6 DEF TypeOK, Together, Due, StartFails, schedulerVars, brokerVars,
                      workerVars
  <1>7. CASE StopLoop
    <2>1. /\ hand' = Nothing /\ sending' = FALSE
          /\ attempts' \in Seq(AttemptRecord) /\ dropped' \subseteq Message
      BY <1>7, InterruptType DEF StopLoop
    <2>2. TypeOK'
      <3>1. /\ now' \in Nat /\ since' \in Nat /\ calls' \in Nat
            /\ faults' \in Nat /\ setbacks' \in Nat
            /\ pending' \in Seq(Reminder)
            /\ log' \in [Partitions -> Seq(Reminder)]
            /\ committed' \in [Partitions -> Nat] /\ position' \in [Partitions -> Nat]
            /\ consumer' \in {"none", "starting", "started", "stopping", "closed"}
            /\ task' \in {"none", "running", "failed"}
        BY <1>7 DEF TypeOK, StopLoop, schedulerVars, brokerVars
      <3> QED
        BY <2>1, <3>1 DEF TypeOK, AttemptRecord
    <2>3. Together'
      BY <1>2, <1>7, <2>1 DEF Together, StopLoop, brokerVars
    <2> QED BY <1>2, <2>2, <2>3
  <1>8. CASE StopConsumer \/ StopRaises
    <2>1. /\ consumer = "stopping" /\ consumer' \in {"none", "closed"}
          /\ UNCHANGED <<now, calls, pending, log, task, since, faults, hand,
                         sending, attempts, dropped>>
          /\ LastCommit
      BY <1>8 DEF StopConsumer, StopRaises, schedulerVars, workerVars
    <2>2. /\ position' = committed' /\ setbacks' \in Nat
          /\ position' \in {position, committed}
      BY <2>1 DEF LastCommit, TypeOK
    <2>3. task # "running" /\ hand = Nothing /\ ~sending
      BY <2>1 DEF Together
    <2>4. TypeOK'
      BY <2>1, <2>2 DEF TypeOK
    <2>5. Together'
      BY <1>2, <1>3, <2>1, <2>2, <2>3 DEF Together
    <2> QED BY <1>2, <2>4, <2>5
  <1>9. CASE LoopFails
    BY <1>2, <1>9 DEF TypeOK, Together, LoopFails, schedulerVars, brokerVars,
                      workerVars
  <1>10. CASE Crash
    <2>1. /\ hand' = Nothing /\ sending' = FALSE
          /\ attempts' \in Seq(AttemptRecord) /\ dropped' \subseteq Message
      BY <1>10, InterruptType DEF Crash
    <2>2. TypeOK'
      <3>1. /\ now' \in Nat /\ since' \in Nat /\ calls' \in Nat
            /\ faults' \in Nat /\ setbacks' \in Nat
            /\ pending' \in Seq(Reminder)
            /\ log' \in [Partitions -> Seq(Reminder)]
            /\ committed' \in [Partitions -> Nat] /\ position' \in [Partitions -> Nat]
            /\ consumer' \in {"none", "starting", "started", "stopping", "closed"}
            /\ task' \in {"none", "running", "failed"}
        BY <1>10 DEF TypeOK, Crash, schedulerVars, brokerVars
      <3> QED
        BY <2>1, <3>1 DEF TypeOK, AttemptRecord
    <2>3. Together'
      BY <1>2, <1>3, <1>10, <2>1 DEF Together, Crash, brokerVars
    <2> QED BY <1>2, <2>2, <2>3
  <1>11. CASE StopAgain
    BY <1>2, <1>11 DEF TypeOK, Together, Due, StopAgain, schedulerVars, brokerVars,
                       workerVars
  <1> QED
    BY <1>4, <1>5, <1>6, <1>7, <1>8, <1>9, <1>10, <1>11 DEF Lifecycle

LEMMA BaseWorker ==
  ASSUME Base, Worker
  PROVE  Base'
  <1> USE DEF Base
  <1>1. SameLog
    BY DEF Worker, Take, WakeUp, Send, SameLog, schedulerVars, brokerVars
  <1>2. InLog' = InLog /\ (\A m : At(m)' = At(m)) /\ Asked'
    BY <1>1, SameLogFacts
  <1>3. \A p \in Partitions : /\ Len(log[p]) \in Nat
                              /\ position[p] \in Nat /\ committed[p] \in Nat
    BY LogEntries DEF TypeOK
  <1>4. ASSUME NEW p \in Partitions, Take(p) PROVE Base'
    <2> DEFINE m == <<p, position[p] + 1>>
    <2>1. m \in Message /\ m \in InLog /\ m[1] = p /\ m[2] = position[p] + 1
      BY <1>3, <1>4, MessageParts DEF Take, Waiting, InLog
    <2>2. hand' = m
      BY <2>1, <1>4 DEF Asked, Take, ShouldDispatch
    <2>3. ~sending
      BY <1>4 DEF Together, Take
    <2>4. /\ position' = [position EXCEPT ![p] = @ + 1]
          /\ position'[p] = position[p] + 1
          /\ \A q \in Partitions : q # p => position'[q] = position[q]
      BY <1>4 DEF Take, TypeOK
    <2> HIDE DEF m
    <2>5. TypeOK'
      <3>1. position' \in [Partitions -> Nat]
        BY <1>3, <2>4 DEF TypeOK
      <3> QED
        BY <1>4, <2>1, <2>2, <3>1 DEF TypeOK, Take, schedulerVars, brokerVars
    <2>6. Together'
      BY <1>2, <1>3, <1>4, <2>1, <2>2, <2>3, <2>4
         DEF Together, Take, Waiting, brokerVars
    <2> QED BY <1>2, <2>5, <2>6
  <1>5. CASE WakeUp
    BY <1>2, <1>5 DEF TypeOK, Together, Due, WakeUp, schedulerVars, brokerVars,
                      consumerVars
  <1>6. ASSUME NEW ok \in BOOLEAN, Send(ok) PROVE Base'
    <2>1. hand # Nothing /\ attempts' \in Seq(AttemptRecord)
      BY <1>6, AttemptType DEF Together, Send
    <2> QED
      BY <1>2, <1>6, <2>1 DEF TypeOK, Together, AttemptRecord, Send, schedulerVars,
                              brokerVars, consumerVars
  <1> QED
    BY <1>4, <1>5, <1>6 DEF Worker

LEMMA BaseStep ==
  ASSUME Base, [Next]_vars
  PROVE  Base'
  <1> USE DEF Base
  <1>1. \A p \in Partitions : /\ Len(log[p]) \in Nat
                              /\ position[p] \in Nat /\ committed[p] \in Nat
    BY LogEntries DEF TypeOK
  <1>2. CASE AutoCommit
    <2>1. SameLog
      BY <1>2 DEF AutoCommit, SameLog, schedulerVars
    <2>2. InLog' = InLog /\ (\A m : At(m)' = At(m)) /\ Asked'
      BY <2>1, SameLogFacts
    <2> QED
      BY <1>1, <1>2, <2>2 DEF TypeOK, Together, Due, AutoCommit, schedulerVars,
                              consumerVars, workerVars
  <1>3. CASE Tick
    <2>1. InLog' = InLog /\ \A m : At(m)' = At(m)
      BY <1>3 DEF Tick, brokerVars, InLog, At
    <2>2. TypeOK'
      BY <1>3 DEF TypeOK, Tick, schedulerVars, brokerVars, consumerVars, workerVars
    <2>3. Asked'
      BY <1>3, <2>1 DEF Asked, Tick, schedulerVars
    <2>4. sending => hand \in InLog /\ At(hand).due \in Nat /\ now \in Nat
      BY LogEntries DEF Together, TypeOK
    <2>5. Together'
      BY <1>3, <2>1, <2>4 DEF Together, Due, Tick, schedulerVars, brokerVars, consumerVars,
                         workerVars
    <2> QED BY <2>2, <2>3, <2>5
  <1>4. CASE UNCHANGED vars
    <2>1. InLog' = InLog /\ \A m : At(m)' = At(m)
      BY <1>4 DEF vars, brokerVars, InLog, At
    <2> QED
      BY <1>4, <2>1 DEF TypeOK, Together, Due, Asked, vars, schedulerVars, brokerVars,
                        consumerVars, workerVars
  <1> QED
    BY <1>2, <1>3, <1>4, BaseSchedule, BaseLifecycle, BaseWorker DEF Next

\* The three facts hold in every reachable state.
LEMMA AlwaysBase == Spec => []Base
  BY BaseInit, BaseStep, PTL DEF Spec

\* Types are as stated (the dictionaries of jobs/reminders and infra/kafka).
THEOREM TypeCorrect == Spec => []TypeOK
  <1>1. Base => TypeOK
    BY DEF Base
  <1> QED
    BY <1>1, AlwaysBase, PTL

-----------------------------------------------------------------------------
(* What has been handed to the sender *)

\* A step hands at most the message in hand to the sender.
LEMMA OneAttempt ==
  ASSUME Base, [Next]_vars
  PROVE  \/ attempts' = attempts
         \/ /\ sending /\ hand # Nothing /\ hand' = Nothing /\ SameLog
            /\ \E ok \in BOOLEAN : attempts' = Append(attempts, Attempt(ok))
  <1>1. ASSUME attempts' # attempts
        PROVE  StopLoop \/ Crash \/ \E ok \in BOOLEAN : Send(ok)
    BY <1>1 DEF Next, Scheduler, Schedule, Publish, PublishFails, Lifecycle, Start,
                StartSucceeds, StartFails, StopConsumer, StopRaises,
                StopAgain, LastCommit, LoopFails, Worker, Take, WakeUp,
                AutoCommit, Tick, vars, workerVars
  <1>2. ASSUME StopLoop \/ Crash, attempts' # attempts
        PROVE  /\ sending /\ hand # Nothing /\ hand' = Nothing /\ SameLog
               /\ \E ok \in BOOLEAN : attempts' = Append(attempts, Attempt(ok))
    <2>1. Interrupt /\ SameLog
      BY <1>2 DEF StopLoop, Crash, SameLog, schedulerVars, brokerVars
    <2> QED
      BY <1>2, <2>1 DEF Interrupt, Base, Together
  <1>3. ASSUME NEW ok \in BOOLEAN, Send(ok)
        PROVE  /\ sending /\ hand # Nothing /\ hand' = Nothing /\ SameLog
               /\ attempts' = Append(attempts, Attempt(ok))
    BY <1>3 DEF Send, SameLog, schedulerVars, brokerVars, Base, Together
  <1> QED
    BY <1>1, <1>2, <1>3

LEMMA AttemptAdded ==
  ASSUME Base, hand # Nothing, NEW ok \in BOOLEAN,
         attempts' = Append(attempts, Attempt(ok))
  PROVE  /\ Len(attempts) \in Nat
         /\ DOMAIN attempts = 1..Len(attempts)
         /\ DOMAIN attempts' = 1..(Len(attempts) + 1)
         /\ \A i \in DOMAIN attempts : attempts'[i] = attempts[i]
         /\ attempts'[Len(attempts) + 1] = Attempt(ok)
  BY AttemptType, AppendProperties

LEMMA AttemptsAreFinite ==
  ASSUME TypeOK, NEW m
  PROVE  IsFiniteSet(AttemptsOf(m)) /\ Cardinality(AttemptsOf(m)) \in Nat
  <1>1. AttemptsOf(m) \subseteq 1..Len(attempts) /\ Len(attempts) \in Nat
    BY DEF TypeOK, AttemptsOf
  <1>2. IsFiniteSet(1..Len(attempts))
    BY <1>1, FS_Interval
  <1> QED
    BY <1>1, <1>2, FS_Subset, FS_CardinalityType

LEMMA CountAfterAttempt ==
  ASSUME Base, hand # Nothing, NEW ok \in BOOLEAN,
         attempts' = Append(attempts, Attempt(ok)), NEW m
  PROVE  /\ AttemptsOf(m) \subseteq AttemptsOf(m)'
         /\ m # hand => Cardinality(AttemptsOf(m)') = Cardinality(AttemptsOf(m))
         /\ m = hand => /\ AttemptsOf(m)' # {}
                        /\ Cardinality(AttemptsOf(m)') = Cardinality(AttemptsOf(m)) + 1
  <1> DEFINE n == Len(attempts)
  <1>1. /\ n \in Nat /\ DOMAIN attempts = 1..n /\ DOMAIN attempts' = 1..(n + 1)
        /\ \A i \in DOMAIN attempts : attempts'[i] = attempts[i]
        /\ attempts'[n + 1] = Attempt(ok)
    BY AttemptAdded
  <1>2. Attempt(ok).of = hand
    BY AttemptType
  <1> HIDE DEF n
  <1>3. m # hand => AttemptsOf(m)' = AttemptsOf(m)
    BY <1>1, <1>2 DEF AttemptsOf
  <1>4. m = hand => AttemptsOf(m)' = AttemptsOf(m) \cup {n + 1} /\ n + 1 \notin AttemptsOf(m)
    BY <1>1, <1>2 DEF AttemptsOf
  <1>5. IsFiniteSet(AttemptsOf(m)) /\ Cardinality(AttemptsOf(m)) \in Nat
    BY AttemptsAreFinite DEF Base
  <1>6. m = hand => Cardinality(AttemptsOf(m)') = Cardinality(AttemptsOf(m)) + 1
    BY <1>4, <1>5, FS_AddElement
  <1> QED
    BY <1>3, <1>4, <1>6

-----------------------------------------------------------------------------
(* Nothing is passed over *)

PassedDone ==
    \A m \in Message : m[2] <= position[m[1]] =>
        m = hand \/ AttemptsOf(m) # {} \/ m \in dropped

LEMMA PassedDoneStep ==
  ASSUME Base, PassedDone, [Next]_vars
  PROVE  PassedDone'
  <1> SUFFICES ASSUME NEW m \in Message, m[2] <= position'[m[1]]
               PROVE  m = hand' \/ AttemptsOf(m)' # {} \/ m \in dropped'
    BY DEF PassedDone
  <1>1. m[1] \in Partitions /\ m[2] \in Nat /\ m = <<m[1], m[2]>>
    BY MessageParts
  <1>2. AttemptsOf(m) \subseteq AttemptsOf(m)'
    <2>1. CASE attempts' = attempts
      BY <2>1 DEF AttemptsOf
    <2>2. CASE attempts' # attempts
      BY <2>2, OneAttempt, CountAfterAttempt
    <2> QED BY <2>1, <2>2
  <1>3. dropped \subseteq dropped'
    BY DEF Next, Scheduler, Schedule, Publish, PublishFails, Lifecycle, Start,
           StartSucceeds, StartFails, StopLoop, StopConsumer, StopRaises,
           StopAgain, LastCommit, LoopFails, Crash, Interrupt, Worker, Take,
           WakeUp, Send, AutoCommit, Tick, vars, workerVars
  <1>4. \A p \in Partitions : position[p] \in Nat /\ committed[p] \in Nat
                              /\ committed[p] <= position[p]
    BY DEF Base, TypeOK, Together
  <1>5. CASE m[2] <= position[m[1]]
    <2>1. CASE m # hand
      BY <1>2, <1>3, <1>5, <2>1 DEF PassedDone
    <2>2. CASE m = hand
      <3>1. hand # Nothing
        BY <2>2, MessageParts
      <3>2. hand' = hand \/ StopLoop \/ Crash \/ \E ok \in BOOLEAN : Send(ok)
        BY <3>1 DEF Next, Scheduler, Schedule, Publish, PublishFails, Lifecycle, Start,
           StartSucceeds, StartFails, StopConsumer, StopRaises, StopAgain,
           LastCommit, LoopFails, Worker, Take, WakeUp, AutoCommit, Tick,
           vars, workerVars
      <3>3. ASSUME StopLoop \/ Crash PROVE m \in dropped'
        BY <2>2, <3>1, <3>3 DEF StopLoop, Crash, Interrupt
      <3>4. ASSUME NEW ok \in BOOLEAN, Send(ok) PROVE AttemptsOf(m)' # {}
        BY <2>2, <3>1, <3>4, CountAfterAttempt DEF Send
      <3> QED BY <2>2, <3>2, <3>3, <3>4
    <2> QED BY <2>1, <2>2
  <1>6. CASE m[2] > position[m[1]]
    <2>1. position'[m[1]] # position[m[1]]
      BY <1>1, <1>4, <1>6
    <2>2. ~StartSucceeds /\ ~Crash /\ ~StopConsumer /\ ~StopRaises
      BY <1>1, <1>4, <1>6, <2>1
         DEF StartSucceeds, StartPosition, Crash, StopConsumer, StopRaises,
             LastCommit, Base, Together
    <2>3. PICK p \in Partitions : Take(p)
      BY <2>1, <2>2 DEF Next, Scheduler, Schedule, Publish, PublishFails, Lifecycle,
           Start, StartFails, StopLoop, StopConsumer, StopRaises, StopAgain,
           LastCommit, LoopFails, Worker, WakeUp, Send, AutoCommit, Tick,
           vars, consumerVars
    <2>4. m[1] = p /\ m[2] = position[p] + 1
      BY <1>1, <1>4, <1>6, <2>1, <2>3 DEF Take, Base, TypeOK
    <2>5. m \in InLog
      BY <1>1, <1>4, <2>3, <2>4, LogEntries DEF Take, Waiting, InLog, Base
    <2> QED
      BY <1>1, <2>3, <2>4, <2>5 DEF Take, ShouldDispatch, Base, Asked
  <1> QED
    BY <1>1, <1>4, <1>5, <1>6

\* The consumer of infra/kafka leaves no reminder behind: what its position has
\* passed was tried, is in hand, or was in hand when the consumer was stopped
\* or the process died.
THEOREM NoneIsPassedOver == Spec => []NothingPassedOver
  <1>1. Init => PassedDone
    BY MessageParts DEF Init, PassedDone
  <1>2. PassedDone => NothingPassedOver
    BY DEF PassedDone, NothingPassedOver, Published, Message
  <1> QED
    BY <1>1, <1>2, AlwaysBase, PassedDoneStep, PTL DEF Spec

-----------------------------------------------------------------------------
(* Repetition needs a setback *)

\* A message yet to be taken, or in hand, has been tried only before setbacks.
TriedBefore ==
    \A m \in Message :
        Cardinality(AttemptsOf(m)) <=
            IF m[2] > position[m[1]] \/ m = hand THEN setbacks ELSE 1 + setbacks

LEMMA TriedBeforeStep ==
  ASSUME Base, TriedBefore, [Next]_vars
  PROVE  TriedBefore'
  <1> SUFFICES ASSUME NEW m \in Message
               PROVE  Cardinality(AttemptsOf(m)') <=
                         IF m[2] > position'[m[1]] \/ m = hand'
                         THEN setbacks' ELSE 1 + setbacks'
    BY DEF TriedBefore
  <1> DEFINE count == Cardinality(AttemptsOf(m))
             after == Cardinality(AttemptsOf(m)')
             new == m[2] > position[m[1]] \/ m = hand
  <1>1. m[1] \in Partitions /\ m[2] \in Nat /\ m = <<m[1], m[2]>> /\ m # Nothing
    BY MessageParts
  <1>2. /\ position[m[1]] \in Nat /\ setbacks \in Nat /\ count \in Nat
        /\ count <= IF new THEN setbacks ELSE 1 + setbacks
    BY <1>1, AttemptsAreFinite DEF Base, TypeOK, TriedBefore
  <1>3. /\ attempts' = attempts => after = count
        /\ attempts' # attempts => /\ hand' = Nothing
                                   /\ m # hand => after = count
                                   /\ m = hand => after = count + 1
    <2>1. CASE attempts' = attempts
      BY <2>1 DEF AttemptsOf
    <2>2. CASE attempts' # attempts
      BY <2>2, OneAttempt, CountAfterAttempt
    <2> QED BY <2>1, <2>2
  <1>4. m = hand => m[2] = position[m[1]]
    BY <1>1 DEF Base, Together
  <1> HIDE DEF count, after
  <1>5. CASE setbacks' = setbacks + 1
    BY <1>2, <1>3, <1>5 DEF after
  <1>6. ASSUME NEW p \in Partitions, Take(p)
        PROVE  after <= IF m[2] > position'[m[1]] \/ m = hand'
                        THEN setbacks' ELSE 1 + setbacks'
    <2>1. /\ hand = Nothing /\ hand' \in {<<p, position[p] + 1>>, Nothing}
          /\ setbacks' = setbacks /\ attempts' = attempts
          /\ position' = [position EXCEPT ![p] = @ + 1]
      BY <1>6 DEF Take, consumerVars
    <2>2. m[2] > position'[m[1]] \/ m = hand' => new
      <3>1. position \in [Partitions -> Nat] /\ p \in Partitions
        BY DEF Base, TypeOK
      <3>2. position'[m[1]] \in Nat /\ position'[m[1]] >= position[m[1]]
        BY <1>1, <2>1, <3>1
      <3>3. m = hand' => m[1] = p /\ m[2] = position[p] + 1
        BY <1>1, <2>1
      <3> QED BY <1>1, <1>2, <3>1, <3>2, <3>3
    <2> QED
      BY <1>2, <1>3, <2>1, <2>2
  <1>7. CASE /\ setbacks' # setbacks + 1
             /\ ~(\E p \in Partitions : Take(p))
    <2>1. UNCHANGED position /\ UNCHANGED setbacks
      BY <1>7 DEF Crash, Next, Scheduler, Schedule, Publish, PublishFails, Lifecycle,
           Start, StartSucceeds, StartPosition, StartFails, StopLoop,
           StopConsumer, StopRaises, StopAgain, LastCommit, LoopFails,
           Worker, WakeUp, Send, AutoCommit, Tick, vars, consumerVars, Base,
           Together
    <2>2. hand' = hand \/ hand' = Nothing
      BY <1>7 DEF Crash, Next, Scheduler, Schedule, Publish, PublishFails, Lifecycle,
           Start, StartSucceeds, StartFails, StopLoop, StopConsumer,
           StopRaises, StopAgain, LastCommit, Interrupt, LoopFails, Worker,
           WakeUp, Send, AutoCommit, Tick, vars, workerVars
    <2> QED
      BY <1>1, <1>2, <1>3, <1>4, <2>1, <2>2 DEF after
  <1> QED
    BY <1>5, <1>6, <1>7 DEF after

\* Sending a reminder twice takes a setback between two commits: a crash of the
\* process, or a stop of KafkaEventConsumer whose last commit fails.
THEOREM OnlySetbacksRepeat == Spec => []RepeatsNeedSetback
  <1>1. Init => TriedBefore
    <2> SUFFICES ASSUME Init, NEW m \in Message
                 PROVE  Cardinality(AttemptsOf(m)) <=
                           IF m[2] > position[m[1]] \/ m = hand
                           THEN setbacks ELSE 1 + setbacks
      BY DEF TriedBefore
    <2>1. AttemptsOf(m) = {} /\ setbacks = 0
      BY DEF Init, AttemptsOf
    <2>2. Cardinality(AttemptsOf(m)) = 0
      BY <2>1, FS_EmptySet
    <2> QED
      BY <2>1, <2>2
  <1>2. Base /\ TriedBefore => RepeatsNeedSetback
    <2> SUFFICES ASSUME Base, TriedBefore, NEW m \in Published
                 PROVE  Cardinality(AttemptsOf(m)) <= 1 + setbacks
      BY DEF RepeatsNeedSetback
    <2>1. m \in Message /\ setbacks \in Nat /\ Cardinality(AttemptsOf(m)) \in Nat
      BY AttemptsAreFinite DEF Published, Message, Base, TypeOK
    <2> QED
      BY <2>1 DEF TriedBefore
  <1> QED
    BY <1>1, <1>2, AlwaysBase, TriedBeforeStep, PTL DEF Spec

-----------------------------------------------------------------------------
(* Lateness *)

\* Attempts are of published reminders, and not before they were due.
AfterDue ==
    \A i \in DOMAIN attempts :
        /\ attempts[i].of \in InLog
        /\ attempts[i].at <= now
        /\ attempts[i].at >= At(attempts[i].of).due

\* One of the attempts kept m waiting.
WasBehind(m) ==
    \E j \in DOMAIN attempts : /\ attempts[j].at >= At(m).due
                               /\ At(attempts[j].of).due > At(m).due

\* The message in hand keeps m waiting.
IsBehind(m) == hand \notin {Nothing, m} /\ At(hand).due > At(m).due

InTime(m) == At(m).issued <= At(m).due /\ since <= At(m).due

\* A reminder that is still to be sent, and late, was or is behind another.
LateOnesWait ==
    \A m \in InLog :
        /\ task = "running"
        /\ m[2] > position[m[1]] \/ m = hand
        /\ InTime(m)
        /\ now > At(m).due
        => WasBehind(m) \/ IsBehind(m)

LateInv == AfterDue /\ LateOnesWait /\ LateOnlyBehindAnother

LEMMA AttemptParts ==
  ASSUME Base, NEW i \in DOMAIN attempts
  PROVE  attempts[i].of \in Message /\ attempts[i].at \in Nat
  <1>1. attempts \in Seq(AttemptRecord)
    BY DEF Base, TypeOK, AttemptRecord
  <1>2. attempts[i] \in AttemptRecord
    BY <1>1
  <1> QED
    BY <1>2 DEF AttemptRecord

\* The attempts, and what is known of them, when none is added.
LEMMA AttemptsKept ==
  ASSUME Base, Base', LateInv, attempts' = attempts, now' >= now,
         \A m \in InLog : m \in InLog' /\ At(m)' = At(m)
  PROVE  /\ AfterDue' /\ LateOnlyBehindAnother'
         /\ \A m \in InLog : WasBehind(m) => WasBehind(m)'
  <1>1. /\ \A i \in DOMAIN attempts : /\ attempts[i].of \in InLog
                                      /\ attempts[i].at \in Nat
        /\ now \in Nat /\ now' \in Nat
    BY AttemptParts DEF Base, TypeOK, LateInv, AfterDue
  <1>2. AfterDue'
    BY <1>1 DEF LateInv, AfterDue
  <1>3. LateOnlyBehindAnother'
    BY <1>1 DEF LateInv, LateOnlyBehindAnother
  <1>4. \A m \in InLog : WasBehind(m) => WasBehind(m)'
    BY <1>1 DEF WasBehind
  <1> QED BY <1>2, <1>3, <1>4

\* And when the message in hand is handed to the sender.
LEMMA AttemptsExtended ==
  ASSUME Base, LateInv, sending, NEW ok \in BOOLEAN, SameLog,
         attempts' = Append(attempts, Attempt(ok))
  PROVE  /\ AfterDue' /\ LateOnlyBehindAnother'
         /\ \A m \in InLog : WasBehind(m) => WasBehind(m)'
         /\ \A m \in InLog : now > At(m).due /\ IsBehind(m) => WasBehind(m)'
  <1> DEFINE n == Len(attempts)
             a == Attempt(ok)
  <1>1. /\ hand # Nothing /\ hand \in InLog /\ task = "running" /\ Due(At(hand))
        /\ hand[2] = position[hand[1]]
    BY DEF Base, Together
  <1>2. /\ n \in Nat /\ DOMAIN attempts = 1..n /\ DOMAIN attempts' = 1..(n + 1)
        /\ \A i \in DOMAIN attempts : attempts'[i] = attempts[i]
        /\ attempts'[n + 1] = a
    BY <1>1, AttemptAdded
  <1>3. a.of = hand /\ a.at = now /\ (a.inTime = InTime(hand))
    BY <1>1, AttemptType DEF InTime
  <1>4. InLog' = InLog /\ (\A m : At(m)' = At(m)) /\ now' = now
    BY SameLogFacts DEF SameLog
  <1>5. /\ \A i \in DOMAIN attempts : /\ attempts[i].of \in InLog
                                      /\ attempts[i].at \in Nat
                                      /\ attempts[i].at <= now
                                      /\ attempts[i].at >= At(attempts[i].of).due
        /\ now \in Nat
    BY AttemptParts DEF Base, TypeOK, LateInv, AfterDue
  <1>6. \A m \in InLog : At(m).due \in Nat
    BY LogEntries DEF Base
  <1>7. now > At(hand).due /\ InTime(hand) => WasBehind(hand)
    BY <1>1 DEF LateInv, LateOnesWait, IsBehind
  <1>8. now >= At(hand).due
    BY <1>1 DEF Due
  <1> HIDE DEF n, a
  <1>9. AfterDue'
    BY <1>1, <1>2, <1>3, <1>4, <1>5, <1>8 DEF AfterDue
  <1>10. ASSUME NEW i \in DOMAIN attempts'
         PROVE  LET b == attempts'[i]
                    r == At(b.of)
                IN  /\ b.at >= r.due
                    /\ (b.at > r.due /\ b.inTime) =>
                          \E j \in DOMAIN attempts' :
                             /\ j < i
                             /\ attempts'[j].at \in r.due..b.at
                             /\ At(attempts'[j].of).due > r.due
    <2>1. CASE i \in DOMAIN attempts
      BY <1>2, <2>1 DEF LateInv, LateOnlyBehindAnother
    <2>2. CASE i = n + 1
      <3>1. attempts'[i] = a /\ a.of = hand /\ a.at = now
        BY <1>2, <1>3, <2>2
      <3>2. a.inTime => InTime(hand)
        BY <1>3, Zenon
      <3>3. now >= At(hand).due
        BY <1>8
      <3>4. ASSUME now > At(hand).due, a.inTime
            PROVE  \E j \in DOMAIN attempts' :
                             /\ j < i
                             /\ attempts'[j].at \in At(hand).due..now
                             /\ At(attempts'[j].of).due > At(hand).due
        <4>1. PICK j \in DOMAIN attempts : /\ attempts[j].at >= At(hand).due
                                           /\ At(attempts[j].of).due > At(hand).due
          BY <1>7, <3>2, <3>4 DEF WasBehind
        <4>2. j < i /\ j \in DOMAIN attempts' /\ attempts'[j] = attempts[j]
          BY <1>2, <2>2, <4>1
        <4>3. attempts[j].at \in At(hand).due..now
          BY <1>1, <1>5, <1>6, <4>1
        <4> QED BY <4>1, <4>2, <4>3
      <3> QED
        BY <3>1, <3>3, <3>4
    <2> QED
      BY <1>2, <2>1, <2>2
  <1>11. LateOnlyBehindAnother'
    BY <1>4, <1>10 DEF LateOnlyBehindAnother
  <1>12. \A m \in InLog : WasBehind(m) => WasBehind(m)'
    BY <1>2, <1>4 DEF WasBehind
  <1>13. \A m \in InLog : now > At(m).due /\ IsBehind(m) => WasBehind(m)'
    BY <1>1, <1>2, <1>3, <1>4, <1>5, <1>6 DEF WasBehind, IsBehind
  <1> QED
    BY <1>9, <1>11, <1>12, <1>13

\* Messages stay where and what they are, and the clock does not go back.
LEMMA PastStays ==
  ASSUME Base, [Next]_vars
  PROVE  /\ \A m \in InLog : m \in InLog' /\ At(m)' = At(m)
         /\ now' >= now
  <1>1. now \in Nat
    BY DEF Base, TypeOK
  <1>2. CASE Publish
    <2>1. TypeOK
      BY DEF Base
    <2>2. InLog \subseteq InLog' /\ \A m \in InLog : At(m)' = At(m)
      BY <1>2, <2>1, LogStays
    <2> QED
      BY <1>1, <1>2, <2>2 DEF Publish
  <1>3. CASE Tick
    BY <1>1, <1>3 DEF Tick, brokerVars, InLog, At
  <1>4. CASE ~Publish /\ ~Tick
    <2>1. now' = now /\ log' = log
      BY <1>4 DEF Next, Scheduler, Schedule, PublishFails, Lifecycle, Start,
           StartSucceeds, StartFails, StopLoop, StopConsumer, StopRaises,
           StopAgain, LastCommit, LoopFails, Crash, Worker, Take, WakeUp,
           Send, AutoCommit, vars, brokerVars
    <2> QED
      BY <1>1, <2>1 DEF InLog, At
  <1> QED
    BY <1>2, <1>3, <1>4

LEMMA LateInvStep ==
  ASSUME Base, Base', LateInv, [Next]_vars
  PROVE  LateInv'
  <1>1. /\ \A m \in InLog : m \in InLog' /\ At(m)' = At(m)
        /\ now' >= now /\ now \in Nat /\ now' \in Nat /\ since \in Nat
    BY PastStays DEF Base, TypeOK
  <1>2. AfterDue' /\ LateOnlyBehindAnother'
        /\ \A m \in InLog : WasBehind(m) => WasBehind(m)'
    <2>1. CASE attempts' = attempts
      BY <1>1, <2>1, AttemptsKept
    <2>2. CASE attempts' # attempts
      BY <2>2, OneAttempt, AttemptsExtended
    <2> QED BY <2>1, <2>2
  <1>3. /\ \A m \in InLog : /\ m \in Message /\ At(m).due \in Nat
                            /\ m[1] \in Partitions /\ m[2] \in Nat
                            /\ m = <<m[1], m[2]>> /\ m # Nothing
                            /\ position[m[1]] \in Nat
        /\ hand # Nothing => hand \in InLog
    BY LogEntries, MessageParts DEF Base, TypeOK, Together
  <1>4. LateOnesWait'
    <2> SUFFICES ASSUME NEW m \in InLog',
                        task' = "running",
                        m[2] > position'[m[1]] \/ m = hand',
                        InTime(m)', now' > At(m)'.due
                 PROVE  WasBehind(m)' \/ IsBehind(m)'
      BY DEF LateOnesWait
    <2>1. CASE Publish
      <3>1. /\ UNCHANGED <<now, consumer, task, position, since, hand>>
            /\ pending # <<>> /\ pending \in Seq(Reminder)
        BY <2>1 DEF Publish, consumerVars, workerVars, Base, TypeOK
      <3>2. m \in InLog
        <4> SUFFICES ASSUME m \in InLog' \ InLog PROVE FALSE
          OBVIOUS
        <4>1. At(m)' = Head(pending)
          BY <2>1, LogStays DEF Base
        <4>2. Head(pending).issued = now
          BY <3>1 DEF Base, Asked
        <4>3. Head(pending).due \in Nat
          BY <2>1, LogGrows DEF Base, Reminder
        <4> QED
          BY <1>1, <3>1, <4>1, <4>2, <4>3 DEF InTime
      <3> QED
        BY <1>1, <1>2, <1>3, <3>1, <3>2 DEF LateInv, LateOnesWait, InTime, IsBehind
    <2>2. CASE ~Publish
      <3>1. log' = log /\ InLog' = InLog /\ m \in InLog /\ \A k : At(k)' = At(k)
        <4>1. log' = log
          BY <2>2 DEF Next, Scheduler, Schedule, PublishFails, Lifecycle, Start,
               StartSucceeds, StartFails, StopLoop, StopConsumer, StopRaises,
               StopAgain, LastCommit, LoopFails, Crash, Worker, Take, WakeUp,
               Send, AutoCommit, Tick, vars, brokerVars
        <4> QED BY <4>1 DEF InLog, At
      <3>2. ASSUME NEW p \in Partitions, Take(p) PROVE WasBehind(m)'
        <4>1. /\ UNCHANGED <<now, task, since>> /\ hand = Nothing /\ task = "running"
              /\ hand' \in {<<p, position[p] + 1>>, Nothing}
              /\ position' = [position EXCEPT ![p] = @ + 1]
          BY <3>2 DEF Take, consumerVars
        <4>2. m[2] > position[m[1]]
          <5>1. m[1] \in Partitions /\ m[2] \in Nat /\ position[m[1]] \in Nat
            BY <1>3, <3>1
          <5>2. CASE m[2] > position'[m[1]]
            <6>1. position \in [Partitions -> Nat] /\ p \in Partitions
              BY DEF Base, TypeOK
            <6>2. position'[m[1]] \in Nat /\ position'[m[1]] >= position[m[1]]
              BY <4>1, <5>1, <6>1
            <6> QED BY <5>1, <5>2, <6>2
          <5>3. CASE m = hand'
            BY <1>3, <3>1, <4>1, <5>1, <5>3
          <5> QED BY <5>2, <5>3
        <4> QED
          BY <1>2, <3>1, <4>1, <4>2 DEF LateInv, LateOnesWait, InTime, IsBehind
      <3>3. ASSUME NEW ok \in BOOLEAN, Send(ok) PROVE WasBehind(m)'
        <4>1. /\ UNCHANGED <<now, task, since, position>> /\ sending /\ hand' = Nothing
              /\ attempts' = Append(attempts, Attempt(ok)) /\ SameLog
          BY <3>3 DEF Send, consumerVars, schedulerVars, brokerVars, SameLog
        <4>2. IsBehind(m) => WasBehind(m)'
          BY <1>1, <3>1, <4>1, AttemptsExtended
        <4> QED
          BY <1>2, <1>3, <3>1, <4>1, <4>2 DEF LateInv, LateOnesWait, InTime
      <3>4. CASE StartSucceeds
        BY <1>1, <1>3, <3>1, <3>4 DEF StartSucceeds, InTime
      <3>5. CASE Tick
        <4>1. /\ now' = now + 1 /\ UNCHANGED <<task, position, since, hand>>
              /\ IF hand = Nothing THEN \A p \in Partitions : ~Waiting(p)
                 ELSE ~Due(At(hand))
          BY <3>5 DEF Tick, consumerVars, workerVars
        <4>2. CASE now > At(m).due
          BY <1>2, <3>1, <4>1, <4>2 DEF LateInv, LateOnesWait, InTime, IsBehind
        <4>3. CASE ~(now > At(m).due)
          <5>1. now = At(m).due
            BY <1>1, <1>3, <3>1, <4>1, <4>3
          <5>2. hand # Nothing
            <6> SUFFICES ASSUME hand = Nothing PROVE FALSE
              OBVIOUS
            <6>1. m[2] > position[m[1]] /\ m[1] \in Partitions
              BY <1>3, <3>1, <4>1
            <6>2. m[2] <= Len(log[m[1]]) /\ Len(log[m[1]]) \in Nat
              BY <3>1, <6>1, LogEntries DEF InLog, Base
            <6> QED
              BY <1>3, <3>1, <4>1, <6>1, <6>2 DEF Waiting
          <5>3. At(hand).due > At(m).due /\ hand # m
            BY <1>1, <1>3, <4>1, <5>1, <5>2 DEF Due
          <5> QED
            BY <3>1, <4>1, <5>2, <5>3 DEF IsBehind
        <4> QED BY <4>2, <4>3
      <3>6. CASE /\ ~StartSucceeds /\ ~Tick
                 /\ ~(\E p \in Partitions : Take(p))
                 /\ ~(\E ok \in BOOLEAN : Send(ok))
        <4>1. /\ UNCHANGED <<now, since, task, hand>>
              /\ UNCHANGED position \/ task # "running"
          BY <2>2, <3>6 DEF Next, Scheduler, Schedule, PublishFails, Lifecycle,
               Start, StartFails, StopLoop, StopConsumer, StopRaises,
               StopAgain, LastCommit, LoopFails, Crash, Worker, WakeUp,
               AutoCommit, vars, consumerVars, workerVars, Base, Together
        <4> QED
          BY <1>2, <3>1, <4>1 DEF LateInv, LateOnesWait, InTime, IsBehind
      <3> QED
        BY <3>2, <3>3, <3>4, <3>5, <3>6
    <2> QED BY <2>1, <2>2
  <1> QED
    BY <1>2, <1>4 DEF LateInv

\* The worker is never early; of the reminders published in time to a consumer
\* that was running by then, it sends only those late that stood behind one
\* that was due later (_wait_until holds up the whole loop).
THEOREM LateFindsItsReason == Spec => []LateOnlyBehindAnother
  <1>1. Init => LateInv
    <2>1. Init => InLog = {} /\ attempts = <<>>
      BY MessageParts DEF Init, InLog
    <2> QED
      BY <2>1 DEF LateInv, AfterDue, LateOnesWait, LateOnlyBehindAnother
  <1>2. LateInv => LateOnlyBehindAnother
    BY DEF LateInv
  <1> QED
    BY <1>1, <1>2, AlwaysBase, LateInvStep, PTL DEF Spec

-----------------------------------------------------------------------------
(* The line is kept: Reminders implements ReminderLine                     *)

Length == [p \in Partitions |-> Len(log[p])]

Tries == [i \in DOMAIN attempts |-> attempts[i].of]

\* What the substituted variables of Line are.
LEMMA LineVars ==
  ASSUME Base
  PROVE  /\ Served \in [Partitions -> Int]
         /\ hand = Nothing => Served = position
         /\ hand # Nothing =>
               /\ hand[1] \in Partitions
               /\ Served = [position EXCEPT ![hand[1]] = @ - 1]
               /\ Served[hand[1]] + 1 = position[hand[1]]
               /\ position = [Served EXCEPT ![hand[1]] = @ + 1]
               /\ Served[hand[1]] < Len(log[hand[1]])
               /\ <<hand[1], Served[hand[1]] + 1>> = hand
         /\ Tries \in Seq(Message)
  <1>1. position \in [Partitions -> Nat]
        /\ \A p \in Partitions : Len(log[p]) \in Nat /\ position[p] <= Len(log[p])
    BY LogEntries DEF Base, TypeOK, Together
  <1>2. hand # Nothing => /\ hand \in Message /\ hand[1] \in Partitions
                          /\ hand = <<hand[1], hand[2]>>
                          /\ hand[2] = position[hand[1]]
    BY MessageParts DEF Base, Together, InLog
  <1>3. Tries \in Seq(Message)
    <2>1. /\ DOMAIN attempts = 1..Len(attempts) /\ Len(attempts) \in Nat
      BY DEF Base, TypeOK
    <2>2. \A i \in DOMAIN attempts : attempts[i].of \in Message
      BY AttemptParts
    <2> QED BY <2>1, <2>2, SeqDef DEF Tries
  <1>4. hand = Nothing => Served = position
    BY <1>1 DEF Served
  <1>6. Served \in [Partitions -> Int]
    BY <1>1 DEF Served
  <1>5. ASSUME hand # Nothing
        PROVE  /\ Served = [position EXCEPT ![hand[1]] = @ - 1]
               /\ Served[hand[1]] + 1 = position[hand[1]]
               /\ position = [Served EXCEPT ![hand[1]] = @ + 1]
    <2> DEFINE h == hand[1]
    <2>1. h \in Partitions /\ DOMAIN Served = Partitions
      BY <1>2, <1>5 DEF Served
    <2>2. \A p \in Partitions :
             Served[p] = IF p = h THEN position[p] - 1 ELSE position[p]
      BY <1>5 DEF Served
    <2>3. \A p \in Partitions : position[p] \in Nat
      BY <1>1
    <2> HIDE DEF h
    <2>4. Served = [position EXCEPT ![h] = @ - 1]
      BY <1>1, <2>1, <2>2, <1>6
    <2>5. Served[h] + 1 = position[h]
      BY <2>1, <2>2, <2>3
    <2>6. position = [Served EXCEPT ![h] = @ + 1]
      BY <1>1, <2>1, <2>2, <2>3, <2>5, <1>6
    <2> QED
      BY <2>4, <2>5, <2>6 DEF h
  <1> QED
    BY <1>1, <1>2, <1>3, <1>4, <1>5, <1>6

LEMMA TriesAppended ==
  ASSUME Base, hand # Nothing, NEW ok \in BOOLEAN,
         attempts' = Append(attempts, Attempt(ok))
  PROVE  Tries' = Append(Tries, hand)
  <1> DEFINE n == Len(attempts)
  <1>1. /\ n \in Nat /\ DOMAIN attempts = 1..n /\ DOMAIN attempts' = 1..(n + 1)
        /\ \A i \in DOMAIN attempts : attempts'[i] = attempts[i]
        /\ attempts'[n + 1] = Attempt(ok)
    BY AttemptAdded
  <1>2. Attempt(ok).of = hand
    BY AttemptType
  <1>3. Tries \in Seq(Message) /\ Tries' \in Seq(Message)
    <2>1. hand \in Message /\ Tries \in Seq(Message)
      BY LineVars DEF Base, TypeOK
    <2> HIDE DEF n
    <2>2. \A i \in 1..(n + 1) : attempts'[i].of \in Message
      BY <1>1, <1>2, <2>1, AttemptParts
    <2> QED
      BY <1>1, <2>1, <2>2, SeqDef DEF Tries
  <1> HIDE DEF n
  <1>4. /\ Len(Tries) = n /\ Len(Tries') = n + 1
        /\ \A i \in 1..n : Tries'[i] = Tries[i]
        /\ Tries'[n + 1] = hand
    BY <1>1, <1>2, <1>3 DEF Tries
  <1>5. /\ Append(Tries, hand) \in Seq(Message)
        /\ Len(Append(Tries, hand)) = n + 1
        /\ \A i \in 1..n : Append(Tries, hand)[i] = Tries[i]
        /\ Append(Tries, hand)[n + 1] = hand
    BY <1>1, <1>3, <1>4, AppendProperties DEF Base, TypeOK
  <1> QED
    BY <1>1, <1>3, <1>4, <1>5, SeqEqual

LEMMA LineInit ==
  ASSUME Init
  PROVE  Line!Init
  <1>1. Length = [p \in Partitions |-> 0] /\ Served = [p \in Partitions |-> 0]
    BY DEF Init, Length, Served, Nothing
  <1>2. Tries = <<>>
    BY DEF Init, Tries
  <1> QED
    BY <1>1, <1>2 DEF Init, Length, Tries, Line!Init

LineStutters == UNCHANGED <<Length, Served, committed, Tries, dropped>>

\* A message in hand that is given up is the first of its line.
LEMMA LineGivesUp ==
  ASSUME Base, Interrupt, hand # Nothing, NEW p \in Partitions, p = hand[1]
  PROVE  Line!GiveUp(p)
  <1>1. /\ hand[1] \in Partitions /\ Served[hand[1]] < Len(log[hand[1]])
        /\ <<hand[1], Served[hand[1]] + 1>> = hand
    BY LineVars
  <1>2. p \in Line!Waiting /\ Line!First(p) = hand
    BY <1>1 DEF Line!Waiting, Line!First
  <1>3. Tries' = Tries \/ Tries' = Append(Tries, hand)
    <2>1. CASE attempts' = attempts
      BY <2>1 DEF Tries
    <2>2. CASE sending /\ attempts' = Append(attempts, Attempt(TRUE))
      BY <2>2, TriesAppended
    <2> QED
      BY <2>1, <2>2 DEF Interrupt
  <1>4. dropped' = dropped \cup {hand}
    BY DEF Interrupt
  <1> QED
    BY <1>2, <1>3, <1>4 DEF Tries, Line!GiveUp

LEMMA LineStep ==
  ASSUME Base, Base', [Next]_vars
  PROVE  [Line!Next]_(Line!vars)
  <1> SUFFICES Line!Next \/ LineStutters
    BY DEF LineStutters, Length, Tries, Line!vars
  <1>1. CASE Publish
    <2>1. PICK p \in Partitions : log' = [log EXCEPT ![p] = Append(@, Head(pending))]
      BY <1>1 DEF Publish
    <2>2. /\ \A q \in Partitions : log[q] \in Seq(Reminder) /\ Len(log[q]) \in Nat
          /\ log \in [Partitions -> Seq(Reminder)]
          /\ Head(pending) \in Reminder
      BY <1>1, LogEntries, LogGrows DEF Base, TypeOK
    <2>3. \A q \in Partitions : Len(log'[q]) = IF q = p THEN Len(log[q]) + 1
                                                ELSE Len(log[q])
      BY <2>1, <2>2, AppendProperties
    <2>4. Length' = [Length EXCEPT ![p] = @ + 1]
      BY <2>3 DEF Length
    <2>5. UNCHANGED <<Served, committed, Tries, dropped>>
      BY <1>1 DEF Publish, consumerVars, workerVars, Served, Tries
    <2>6. Line!Publish(p)
      BY <2>4, <2>5 DEF Length, Tries, Line!Publish
    <2> QED
      BY <2>6 DEF Line!Next
  <1>2. ASSUME NEW ok \in BOOLEAN, Send(ok) PROVE Line!Next
    <2>1. /\ hand # Nothing /\ attempts' = Append(attempts, Attempt(ok))
          /\ hand' = Nothing
          /\ UNCHANGED <<log, committed, position, dropped>>
      BY <1>2 DEF Send, Base, Together, brokerVars, consumerVars
    <2>2. /\ hand[1] \in Partitions /\ Served[hand[1]] < Len(log[hand[1]])
          /\ <<hand[1], Served[hand[1]] + 1>> = hand
          /\ position = [Served EXCEPT ![hand[1]] = @ + 1]
      BY <2>1, LineVars
    <2> PICK p \in Partitions : p = hand[1]
      BY <2>2
    <2>3. p \in Line!Waiting /\ Line!First(p) = hand
      BY <2>2 DEF Line!Waiting, Line!First
    <2>4. Served' = position'
      BY <2>1 DEF Served, Base, TypeOK
    <2>5. Tries' = Append(Tries, hand) /\ Length' = Length
      BY <2>1, TriesAppended DEF Length
    <2>6. Line!Serve(p)
      BY <2>1, <2>2, <2>3, <2>4, <2>5 DEF Length, Tries, Line!Serve
    <2> QED
      BY <2>6 DEF Line!Next
  <1>3. CASE StopLoop
    <2>1. /\ Interrupt /\ hand' = Nothing
          /\ UNCHANGED <<log, committed, position>>
      BY <1>3 DEF StopLoop, Interrupt, brokerVars
    <2>2. Served' = position' /\ Length' = Length
      BY <2>1 DEF Served, Length, Base, TypeOK
    <2>3. CASE hand = Nothing
      <3>1. ~sending
        BY <2>3 DEF Base, Together
      <3>2. attempts' = attempts /\ dropped' = dropped
        BY <2>1, <2>3, <3>1 DEF Interrupt
      <3>3. Served = position
        BY <2>3, LineVars
      <3> QED
        BY <2>1, <2>2, <3>2, <3>3 DEF LineStutters, Tries
    <2>4. CASE hand # Nothing
      <3>1. /\ hand[1] \in Partitions
            /\ position = [Served EXCEPT ![hand[1]] = @ + 1]
        BY <2>4, LineVars
      <3> PICK p \in Partitions : p = hand[1]
        BY <3>1
      <3>2. Line!GiveUp(p)
        BY <2>1, <2>4, LineGivesUp
      <3>3. Line!Interrupt(p)
        BY <2>1, <2>2, <3>1, <3>2 DEF Length, Line!Interrupt
      <3> QED
        BY <3>3 DEF Line!Next
    <2> QED BY <2>3, <2>4
  <1>4. CASE Crash
    <2>1. /\ Interrupt /\ hand' = Nothing /\ position' = committed
          /\ UNCHANGED <<log, committed>>
      BY <1>4 DEF Crash, Interrupt, brokerVars
    <2>2. Served' = committed /\ Length' = Length
      BY <2>1 DEF Served, Length, Base, TypeOK
    <2>3. \/ UNCHANGED <<Tries, dropped>>
          \/ \E p \in Partitions : Line!GiveUp(p)
      <3>1. CASE hand = Nothing
        BY <2>1, <3>1 DEF Base, Together, Interrupt, Tries
      <3>2. CASE hand # Nothing
        <4> PICK p \in Partitions : p = hand[1]
          BY <3>2, LineVars
        <4>1. Line!GiveUp(p)
          BY <2>1, <3>2, LineGivesUp
        <4> QED BY <4>1
      <3> QED BY <3>1, <3>2
    <2>4. Line!Setback
      BY <2>1, <2>2, <2>3 DEF Length, Tries, Line!Setback
    <2> QED
      BY <2>4 DEF Line!Next
  <1>5. CASE \/ AutoCommit
             \/ (StopConsumer \/ StopRaises) /\ committed' = position
    <2>1. /\ committed' = position
          /\ UNCHANGED <<log, position, hand, attempts, dropped>>
      BY <1>5 DEF AutoCommit, StopConsumer, StopRaises, LastCommit, consumerVars,
                  workerVars
    <2>2. UNCHANGED <<Length, Served, Tries, dropped>>
      BY <2>1 DEF Length, Served, Tries
    <2>3. CASE hand = Nothing
      <3>1. committed' = [p \in Partitions |-> Served[p]]
        BY <2>1, <2>3, LineVars DEF Base, TypeOK
      <3>2. Line!Save({})
        BY <2>2, <3>1 DEF Length, Tries, Line!Save
      <3> QED
        BY <3>2 DEF Line!Next
    <2>4. CASE hand # Nothing
      <3>1. /\ hand[1] \in Partitions /\ Served[hand[1]] < Len(log[hand[1]])
            /\ position = [Served EXCEPT ![hand[1]] = @ + 1]
            /\ Served \in [Partitions -> Int]
        BY <2>4, LineVars
      <3>2. hand[1] \in Line!Waiting
        BY <3>1 DEF Line!Waiting
      <3>3. committed' = [p \in Partitions |->
                             IF p \in {hand[1]} THEN Served[p] + 1 ELSE Served[p]]
        BY <2>1, <3>1
      <3>4. Line!Save({hand[1]})
        BY <2>2, <3>3 DEF Length, Tries, Line!Save
      <3> QED
        BY <3>2, <3>4 DEF Line!Next
    <2> QED BY <2>3, <2>4
  <1>6. ASSUME NEW p \in Partitions, Take(p) PROVE LineStutters
    <2> DEFINE m == <<p, position[p] + 1>>
    <2>1. /\ hand = Nothing
          /\ position' = [position EXCEPT ![p] = @ + 1]
          /\ UNCHANGED <<log, committed, attempts, dropped>>
          /\ hand' = IF ShouldDispatch(At(m)) THEN m ELSE Nothing
      BY <1>6 DEF Take, brokerVars
    <2>2. position[p] \in Nat /\ Len(log[p]) \in Nat /\ position[p] < Len(log[p])
          /\ position \in [Partitions -> Nat]
      BY <1>6, LogEntries DEF Base, TypeOK, Take, Waiting
    <2>3. m \in InLog /\ m[1] = p /\ m # Nothing
      BY <2>2, MessageParts DEF InLog
    <2> HIDE DEF m
    <2>4. hand' = m
      BY <2>1, <2>3 DEF ShouldDispatch, Base, Asked
    <2>5. \A q \in Partitions : Served'[q] = position[q]
      BY <2>1, <2>2, <2>3, <2>4 DEF Served
    <2>6. Served' = Served
      BY <2>1, <2>2, <2>5, LineVars DEF Served
    <2> QED
      BY <2>1, <2>6 DEF LineStutters, Length, Tries
  <1>7. CASE (StopConsumer \/ StopRaises) /\ committed' # position
    <2>1. /\ hand' = Nothing /\ position' = committed
          /\ UNCHANGED <<log, committed, attempts, dropped>>
      BY <1>7 DEF StopConsumer, StopRaises, LastCommit, workerVars, Base, Together
    <2>2. Served' = committed /\ Length' = Length /\ Tries' = Tries
      BY <2>1 DEF Served, Length, Tries, Base, TypeOK
    <2>3. Line!Setback
      BY <2>1, <2>2 DEF Length, Tries, Line!Setback
    <2> QED
      BY <2>3 DEF Line!Next
  <1>8. CASE /\ ~Publish /\ ~StopLoop /\ ~Crash /\ ~AutoCommit
             /\ ~StopConsumer /\ ~StopRaises
             /\ ~(\E ok \in BOOLEAN : Send(ok))
             /\ ~(\E p \in Partitions : Take(p))
    <2>1. UNCHANGED <<log, committed, position, hand, attempts, dropped>>
      BY <1>8 DEF Next, Scheduler, Schedule, PublishFails, Lifecycle, Start,
           StartSucceeds, StartPosition, StartFails, StopAgain, LoopFails,
           Worker, WakeUp, Tick, vars, brokerVars, consumerVars, workerVars, Base, Together
    <2> QED
      BY <2>1 DEF LineStutters, Length, Served, Tries
  <1> QED
    BY <1>1, <1>2, <1>3, <1>4, <1>5, <1>6, <1>7, <1>8

\* Scheduler, consumer and worker implement the line of reminders.
THEOREM RemindersKeepTheLine == Spec => ImplementsLine
  BY LineInit, AlwaysBase, LineStep, PTL DEF Spec, ImplementsLine, Line!Spec
=============================================================================
