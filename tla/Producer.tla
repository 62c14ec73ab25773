------------------------------ MODULE Producer ------------------------------
(***************************************************************************)
(* The Kafka producer wrapper, infra/kafka/producer.py: start, stop and    *)
(* send called by several tasks of one event loop.                         *)
(*                                                                         *)
(* A task runs alone from one await to the next, and each call awaits its  *)
(* client, an AIOKafkaProducer, once.  The client is external: it connects *)
(* or fails to, takes a record into its buffer when it is connected, stops *)
(* when its buffer is empty, and returns from stop at once when it has     *)
(* been told to stop before, whether or not that stop got to its end.      *)
(* Metrics and logging are left out.                                       *)
(***************************************************************************)
EXTENDS Naturals, FiniteSets

CONSTANTS
    Callers,        \* tasks that call the wrapper, one call at a time each
    MaxClients      \* bound: how many clients start creates

ASSUME ProducerAssumption == MaxClients \in Nat \ {0}

VARIABLES
    producer,   \* _producer: a client, or NoClient
    client,     \* the stage of each client
    call,       \* the call each task is in
    stored,     \* the tasks whose latest event is in the topic
    answer,     \* how the latest send of each task ended
    crossed,    \* history: a stop began amid another start or stop
    broken      \* history: the clients whose stop was broken off

vars == <<producer, client, call, stored, answer, crossed, broken>>

NoClient == 0

Clients == 1..MaxClients

\* "dead" has failed to connect; "stray" has been told to stop and is not
\* closed, for it connected afterwards or its stop was broken off.
Stages == {"unborn", "opening", "dead", "open", "closing", "closed", "stray"}

ToldToStop == {"closing", "closed", "stray"}

Idle == [op |-> "idle"]

Calls == [op : {"start", "stop"}, on : Clients]
         \cup [op : {"send"}, on : Clients, buffered : BOOLEAN]

In(c, op) == call[c].op = op

OnClient(n, ops) ==
    {c \in Callers : call[c].op \in ops /\ call[c].on = n}

Lifecycle == {"start", "stop"}

Init ==
    /\ producer = NoClient
    /\ client = [n \in Clients |-> "unborn"]
    /\ call = [c \in Callers |-> Idle]
    /\ stored = {}
    /\ answer = [c \in Callers |-> "none"]
    /\ crossed = FALSE
    /\ broken = {}

\* Mutant: the client stays behind in the record.
ReturnPartly(c) == call' = [call EXCEPT ![c].op = "idle"]

Return(c) == call' = [call EXCEPT ![c] = Idle]

-----------------------------------------------------------------------------
(* start; it returns at once, with nothing changed, when there is a client *)

\* Mutant: a client that is still connecting does not count.
HasOpenClient == producer # NoClient /\ client[producer] = "open"

HasClient == producer # NoClient

Start(c, n) ==
    /\ call[c] = Idle
    /\ ~HasClient
    /\ client[n] = "unborn" /\ \A m \in 1..(n - 1) : client[m] # "unborn"
    /\ producer' = n
    /\ client' = [client EXCEPT ![n] = "opening"]
    /\ call' = [call EXCEPT ![c] = [op |-> "start", on |-> n]]
    /\ UNCHANGED <<stored, answer, crossed, broken>>

\* A client that has been told to stop meanwhile may connect all the same.
StartSucceeds(c) ==
    /\ In(c, "start")
    /\ client' = [client EXCEPT ![call[c].on] =
                     IF @ = "opening" THEN "open" ELSE "stray"]
    /\ Return(c)
    /\ UNCHANGED <<producer, stored, answer, crossed, broken>>

\* The exception leaves _producer as it is.
StartFails(c) ==
    /\ In(c, "start")
    /\ client' = [client EXCEPT ![call[c].on] =
                     IF @ = "opening" THEN "dead" ELSE @]
    /\ Return(c)
    /\ UNCHANGED <<producer, stored, answer, crossed, broken>>

-----------------------------------------------------------------------------
(* stop; it returns at once when there is no client *)

Stop(c) ==
    /\ call[c] = Idle
    /\ producer # NoClient
    /\ crossed' = (crossed \/ OnClient(producer, Lifecycle) # {})
    /\ \/ /\ client[producer] \in ToldToStop
          /\ producer' = NoClient
          /\ UNCHANGED <<client, call>>
       \/ /\ client[producer] \notin ToldToStop
          /\ client' = [client EXCEPT ![producer] = "closing"]
          /\ call' = [call EXCEPT ![c] = [op |-> "stop", on |-> producer]]
          /\ UNCHANGED producer
    /\ UNCHANGED <<stored, answer, broken>>

\* Mutant: stop waits for every send, also for those of a client that has
\* never connected.
FlushedAndIdle(n) == OnClient(n, {"send"}) = {}

\* The buffer is empty.
Flushed(n) == \A c \in OnClient(n, {"send"}) : ~call[c].buffered

StopEnds(c) ==
    /\ In(c, "stop")
    /\ Flushed(call[c].on)
    /\ client' = [client EXCEPT ![call[c].on] =
                     IF @ = "closing" THEN "closed" ELSE @]
    /\ producer' = NoClient
    /\ Return(c)
    /\ UNCHANGED <<stored, answer, crossed, broken>>

\* The client's stop raises or is canceled, while it waits for the buffer or
\* later.  _producer stays set, and the client counts as told to stop.
StopRaises(c) ==
    /\ In(c, "stop")
    /\ \E stage \in {"closed", "stray"} :
          /\ stage = "closed" => Flushed(call[c].on)
          /\ client' = [client EXCEPT ![call[c].on] =
                        IF @ = "closing" THEN stage ELSE @]
    /\ broken' = broken \cup {call[c].on}
    /\ Return(c)
    /\ UNCHANGED <<producer, stored, answer, crossed>>

-----------------------------------------------------------------------------
(* send *)

Send(c) ==
    /\ call[c] = Idle
    /\ stored' = stored \ {c}
    /\ \/ /\ producer = NoClient        \* RuntimeError
          /\ answer' = [answer EXCEPT ![c] = "refused"]
          /\ UNCHANGED call
       \/ /\ producer # NoClient
          /\ call' = [call EXCEPT ![c] =
                          [op |-> "send", on |-> producer, buffered |-> FALSE]]
          /\ answer' = [answer EXCEPT ![c] = "none"]
    /\ UNCHANGED <<producer, client, crossed, broken>>

\* The client takes the record when it is connected.  Until then send_and_wait
\* waits for the topic's metadata.
Buffer(c) ==
    /\ In(c, "send") /\ ~call[c].buffered
    /\ client[call[c].on] = "open"
    /\ call' = [call EXCEPT ![c].buffered = TRUE]
    /\ UNCHANGED <<producer, client, stored, answer, crossed, broken>>

Store(c) ==
    /\ In(c, "send") /\ call[c].buffered
    /\ c \notin stored
    /\ stored' = stored \cup {c}
    /\ UNCHANGED <<producer, client, call, answer, crossed, broken>>

\* Mutant: send instead of send_and_wait.
AcknowledgedAtOnce(c) == call[c].buffered

Acknowledged(c) == c \in stored

SendReturns(c) ==
    /\ In(c, "send")
    /\ Acknowledged(c)
    /\ answer' = [answer EXCEPT ![c] = "returned"]
    /\ Return(c)
    /\ UNCHANGED <<producer, client, stored, crossed, broken>>

\* The client is closed, the request times out, its answer is lost or the task
\* is canceled.
SendRaises(c) ==
    /\ In(c, "send")
    /\ answer' = [answer EXCEPT ![c] = "raised"]
    /\ Return(c)
    /\ UNCHANGED <<producer, client, stored, crossed, broken>>

-----------------------------------------------------------------------------
Connection(c) == StartSucceeds(c) \/ StartFails(c)

Delivery(c) == Buffer(c) \/ Store(c) \/ SendReturns(c)

Next ==
    \E c \in Callers :
        \/ \E n \in Clients : Start(c, n)
        \/ Connection(c)
        \/ Stop(c) \/ StopEnds(c) \/ StopRaises(c)
        \/ Send(c) \/ Delivery(c) \/ SendRaises(c)

Spec == Init /\ [][Next]_vars

\* Connecting and delivering come to an end, one way or the other: both have
\* timeouts.  Nothing says so of a send to a client that never connects.
Fairness ==
    \A c \in Callers :
        WF_vars(Connection(c)) /\ WF_vars(StopEnds(c)) /\ WF_vars(Delivery(c))

FairSpec == Spec /\ Fairness

-----------------------------------------------------------------------------
TypeOK ==
    /\ producer \in Clients \cup {NoClient}
    /\ client \in [Clients -> Stages]
    /\ call \in [Callers -> {Idle} \cup Calls]
    /\ stored \subseteq Callers
    /\ answer \in [Callers -> {"none", "refused", "returned", "raised"}]
    /\ crossed \in BOOLEAN
    /\ broken \subseteq Clients
    /\ \A c \in Callers : In(c, "send") => client[call[c].on] # "unborn"

\* A send that returns has its event in the topic; one that is refused for
\* want of a client has not; of one that raises nothing is known.
AnswersAreTrue ==
    \A c \in Callers : call[c] = Idle =>
        /\ answer[c] = "returned" => c \in stored
        /\ answer[c] = "refused" => c \notin stored

\* No connection is left open with nobody to close it: starts may overlap, as
\* _producer is set before the await, so the second one returns at once.  What
\* loses a client is a stop amid another start or stop, or a stop that was
\* broken off and is tried again: the second one returns at once, and stop
\* forgets a client that is still open.
ClientsAreKept ==
    \A n \in Clients :
        /\ client[n] \in {"open", "dead", "stray"}
        /\ OnClient(n, Lifecycle) = {}
        => producer = n \/ crossed \/ n \in broken

\* Shutting down is not held up for ever by the sends under way.
LifecycleEnds ==
    \A c \in Callers : call[c].op \in Lifecycle ~> call[c].op \notin Lifecycle
=============================================================================
