--------------------------- MODULE ProducerProofs ---------------------------
(***************************************************************************)
(* The safety of Producer for any number of tasks and clients.             *)
(***************************************************************************)
EXTENDS Producer, TLAPS

\* A send under way has no answer yet, so that what it stores contradicts
\* none.
Answers ==
    \A c \in Callers :
        /\ In(c, "send") => answer[c] = "none"
        /\ answer[c] = "returned" => c \in stored
        /\ answer[c] = "refused" => c \notin stored

\* As long as no stop has met another start or stop, there is at most one of
\* them at a time, it is about the client of the record, and no other client
\* is connected, unless its stop was broken off.
Orderly ==
    ~crossed =>
        /\ \A n \in Clients :
              /\ client[n] = "stray" => n \in broken
              /\ client[n] \in {"open", "dead"} => producer = n
        /\ \A c \in Callers :
              /\ In(c, "start") => /\ call[c].on = producer
                                   /\ client[producer] = "opening"
              /\ In(c, "stop") => /\ call[c].on = producer
                                  /\ client[producer] = "closing"
        /\ \A c, d \in Callers :
              call[c].op \in Lifecycle /\ call[d].op \in Lifecycle => c = d

Born == HasClient => client[producer] # "unborn"

Inv == TypeOK /\ Born /\ Answers /\ Orderly

-----------------------------------------------------------------------------
LEMMA ClientsAreNumbers ==
  /\ NoClient \notin Clients
  /\ \A n \in Clients : n \in Nat
  BY DEF NoClient, Clients

\* What a step may do to the call of a task.
LEMMA CallShapes ==
  ASSUME TypeOK, NEW c \in Callers
  PROVE  /\ call[c].op \in {"idle", "start", "stop", "send"}
         /\ call[c].op = "idle" <=> call[c] = Idle
         /\ call[c].op # "idle" => call[c].on \in Clients
         /\ call[c].op = "send" => call[c].buffered \in BOOLEAN
  BY DEF TypeOK, Calls, Idle

LEMMA InitInv == Init => Inv
  <1> SUFFICES ASSUME Init PROVE Inv
    OBVIOUS
  <1>1. \A c \in Callers : call[c] = Idle /\ call[c].op = "idle"
    BY DEF Init, Idle
  <1>2. TypeOK
    BY <1>1 DEF Init, TypeOK, Stages, In
  <1>3. Born /\ Answers
    BY <1>1 DEF Init, Born, Answers, HasClient, In
  <1>4. Orderly
    BY <1>1 DEF Init, Orderly, In, Lifecycle
  <1> QED
    BY <1>2, <1>3, <1>4 DEF Inv

LEMMA StartType ==
  ASSUME Inv, NEW c \in Callers, NEW n \in Clients, Start(c, n)
  PROVE  TypeOK' /\ Born' /\ Answers'
  <1>1. [op |-> "start", on |-> n] \in Calls
    BY DEF Calls
  <1>2. TypeOK'
    BY <1>1 DEF Inv, Start, TypeOK, Stages, In, Idle
  <1>3. Born'
    BY DEF Inv, Start, TypeOK, Stages, Born, HasClient
  <1>4. Answers'
    BY DEF Inv, Start, TypeOK, Answers, In, Idle
  <1> QED
    BY <1>2, <1>3, <1>4

\* With no client in the record, nobody is starting or stopping one.
LEMMA StartOrderly ==
  ASSUME Inv, NEW c \in Callers, NEW n \in Clients, Start(c, n)
  PROVE  Orderly'
  <1> SUFFICES ASSUME ~crossed'
               PROVE  Orderly'
    BY DEF Orderly
  <1>1. \A d \in Callers : call[d].op \notin Lifecycle
    BY CallShapes, ClientsAreNumbers
       DEF Inv, Start, Orderly, HasClient, In, Lifecycle
  <1>2. /\ producer' = n
        /\ client' = [client EXCEPT ![n] = "opening"]
        /\ call' = [call EXCEPT ![c] = [op |-> "start", on |-> n]]
        /\ producer = NoClient /\ ~crossed
    BY DEF Start, HasClient
  <1>3. \A m \in Clients :
           /\ client'[m] = "stray" => m \in broken'
           /\ client'[m] \in {"open", "dead"} => producer' = m
    BY <1>2, ClientsAreNumbers DEF Start, Inv, Orderly, TypeOK
  <1>4. \A d \in Callers : call'[d].op \in Lifecycle => d = c
    BY <1>1, <1>2 DEF Inv, TypeOK
  <1>5. call'[c] = [op |-> "start", on |-> n] /\ client'[n] = "opening"
    BY <1>2 DEF Inv, TypeOK
  <1> QED
    BY <1>2, <1>3, <1>4, <1>5 DEF Orderly, In, Lifecycle

LEMMA ConnectionInv ==
  ASSUME Inv, NEW c \in Callers, Connection(c)
  PROVE  Inv'
  <1> DEFINE n == call[c].on
  <1>1. /\ In(c, "start") /\ n \in Clients
        /\ call' = [call EXCEPT ![c] = Idle]
        /\ UNCHANGED <<producer, stored, answer, crossed, broken>>
        /\ client' \in [Clients -> Stages]
        /\ \A m \in Clients \ {n} : client'[m] = client[m]
        /\ client'[n] = client[n] \/ client'[n] \in {"open", "stray", "dead"}
        /\ client'[n] = "stray" => client[n] # "opening"
    BY CallShapes
       DEF Connection, StartSucceeds, StartFails, Return, Inv, TypeOK, Stages,
           In
  <1>2. TypeOK' /\ Born' /\ Answers'
    BY <1>1, CallShapes
       DEF Inv, TypeOK, Born, Answers, HasClient, In, Idle
  <1>3. Orderly'
    <2> SUFFICES ASSUME ~crossed'
                 PROVE  Orderly'
      BY DEF Orderly
    <2>1. /\ producer = n /\ client[n] = "opening"
          /\ \A d \in Callers : call[d].op \in Lifecycle => d = c
      BY <1>1 DEF Inv, Orderly, In, Lifecycle
    <2>2. \A d \in Callers : call'[d].op \notin Lifecycle
      BY <1>1, <2>1 DEF Inv, TypeOK, Idle, Lifecycle
    <2>3. \A m \in Clients :
             /\ client'[m] = "stray" => m \in broken'
             /\ client'[m] \in {"open", "dead"} => producer' = m
      BY <1>1, <2>1 DEF Inv, Orderly
    <2> QED
      BY <2>2, <2>3 DEF Orderly, In, Lifecycle
  <1> QED
    BY <1>2, <1>3 DEF Inv

LEMMA StopInv ==
  ASSUME Inv, NEW c \in Callers, Stop(c)
  PROVE  Inv'
  <1>1. /\ producer \in Clients /\ UNCHANGED <<stored, answer, broken>>
        /\ crossed' = (crossed \/ OnClient(producer, Lifecycle) # {})
        /\ call[c] = Idle
    BY DEF Stop, Inv, TypeOK
  <1>2. ASSUME ~crossed'
        PROVE  ~crossed /\ \A d \in Callers : call[d].op \notin Lifecycle
    <2>1. \A d \in Callers : ~(call[d].op \in Lifecycle /\ call[d].on = producer)
      BY <1>1, <1>2 DEF OnClient
    <2> QED
      BY <1>1, <1>2, <2>1 DEF Inv, Orderly, In, Lifecycle, TypeOK
  <1>3. CASE /\ client[producer] \in ToldToStop
             /\ producer' = NoClient
             /\ UNCHANGED <<client, call>>
    <2>1. TypeOK' /\ Born' /\ Answers'
      BY <1>1, <1>3 DEF Inv, TypeOK, Born, Answers, HasClient, In
    <2>2. Orderly'
      BY <1>1, <1>2, <1>3 DEF Inv, Orderly, ToldToStop, In, Lifecycle, TypeOK
    <2> QED
      BY <2>1, <2>2 DEF Inv
  <1>4. CASE /\ client' = [client EXCEPT ![producer] = "closing"]
             /\ call' = [call EXCEPT ![c] = [op |-> "stop", on |-> producer]]
             /\ UNCHANGED producer
    <2>1. [op |-> "stop", on |-> producer] \in Calls
      BY <1>1 DEF Calls
    <2>2. TypeOK' /\ Born' /\ Answers'
      BY <1>1, <1>4, <2>1
         DEF Inv, TypeOK, Born, Answers, HasClient, In, Stages, Idle
    <2>3. Orderly'
      <3> SUFFICES ASSUME ~crossed'
                   PROVE  Orderly'
        BY DEF Orderly
      <3>1. \A m \in Clients :
               /\ client'[m] = "stray" => m \in broken'
               /\ client'[m] \in {"open", "dead"} => producer' = m
        BY <1>1, <1>2, <1>4 DEF Inv, Orderly, TypeOK
      <3>2. \A d \in Callers : call'[d].op \in Lifecycle => d = c
        BY <1>2, <1>4 DEF Inv, TypeOK
      <3>3. /\ call'[c] = [op |-> "stop", on |-> producer]
            /\ client'[producer] = "closing"
        BY <1>1, <1>4 DEF Inv, TypeOK
      <3> QED
        BY <1>4, <3>1, <3>2, <3>3 DEF Orderly, In, Lifecycle
    <2> QED
      BY <2>2, <2>3 DEF Inv
  <1> QED
    BY <1>3, <1>4 DEF Stop

LEMMA StopEndsInv ==
  ASSUME Inv, NEW c \in Callers, StopEnds(c) \/ StopRaises(c)
  PROVE  Inv'
  <1> DEFINE n == call[c].on
  <1>1. /\ In(c, "stop") /\ n \in Clients
        /\ call' = [call EXCEPT ![c] = Idle]
        /\ UNCHANGED <<stored, answer, crossed>>
        /\ producer' \in {NoClient, producer}
        /\ broken' \subseteq Clients /\ broken \subseteq broken'
        /\ client' \in [Clients -> Stages]
        /\ \A m \in Clients \ {n} : client'[m] = client[m]
        /\ client'[n] \in {client[n], "closed", "stray"}
        /\ client'[n] # "closing"
        /\ client'[n] = "stray" => client[n] = "stray" \/ n \in broken'
    BY CallShapes DEF StopEnds, StopRaises, Return, Inv, TypeOK, Stages, In
  <1>2. TypeOK' /\ Born' /\ Answers'
    BY <1>1, CallShapes
       DEF Inv, TypeOK, Born, Answers, HasClient, In, Idle
  <1>3. Orderly'
    <2> SUFFICES ASSUME ~crossed'
                 PROVE  Orderly'
      BY DEF Orderly
    <2>1. /\ producer = n /\ client[n] = "closing"
          /\ \A d \in Callers : call[d].op \in Lifecycle => d = c
      BY <1>1 DEF Inv, Orderly, In, Lifecycle
    <2>2. \A d \in Callers : call'[d].op \notin Lifecycle
      BY <1>1, <2>1 DEF Inv, TypeOK, Idle, Lifecycle
    <2>3. \A m \in Clients : /\ client'[m] = "stray" => m \in broken'
                             /\ client'[m] \notin {"open", "dead"}
      BY <1>1, <2>1 DEF Inv, Orderly
    <2> QED
      BY <2>2, <2>3 DEF Orderly, In, Lifecycle
  <1> QED
    BY <1>2, <1>3 DEF Inv

LEMMA SendInv ==
  ASSUME Inv, NEW c \in Callers, Send(c)
  PROVE  Inv'
  <1>1. CASE producer = NoClient /\ UNCHANGED call
    BY <1>1
       DEF Send, Inv, TypeOK, Born, Answers, Orderly, HasClient, In, Idle
  <1>2. CASE /\ producer # NoClient
             /\ call' = [call EXCEPT ![c] =
                    [op |-> "send", on |-> producer, buffered |-> FALSE]]
             /\ answer' = [answer EXCEPT ![c] = "none"]
    <2>1. /\ [op |-> "send", on |-> producer, buffered |-> FALSE] \in Calls
          /\ producer \in Clients
      BY <1>2 DEF Calls, Inv, TypeOK
    <2>2. TypeOK' /\ Born' /\ Answers'
      BY <1>2, <2>1
         DEF Send, Inv, TypeOK, Born, Answers, HasClient, In
    <2>3. Orderly'
      BY <1>2, <2>1
         DEF Send, Inv, TypeOK, Orderly, In, Lifecycle
    <2> QED
      BY <2>2, <2>3 DEF Inv
  <1> QED
    BY <1>1, <1>2 DEF Send

\* A send that goes on leaves clients, starts and stops alone.
LEMMA SendGoesOn ==
  ASSUME Inv, NEW c \in Callers, Delivery(c) \/ SendRaises(c)
  PROVE  Inv'
  <1>1. /\ In(c, "send")
        /\ UNCHANGED <<producer, client, crossed, broken>>
        /\ call' \in [Callers -> {Idle} \cup Calls]
        /\ \A d \in Callers \ {c} : call'[d] = call[d]
        /\ call'[c].op \in {"idle", "send"}
        /\ call'[c].op = "send" => call'[c].on = call[c].on
    <2>1. CASE Buffer(c)
      <3>0. call[c] \in [op : {"send"}, on : Clients, buffered : BOOLEAN]
        BY <2>1 DEF Buffer, In, Inv, TypeOK, Calls, Idle
      <3>1. [call[c] EXCEPT !.buffered = TRUE] \in
                [op : {"send"}, on : Clients, buffered : BOOLEAN]
        BY <3>0
      <3>2. call' = [call EXCEPT ![c] = [call[c] EXCEPT !.buffered = TRUE]]
        BY <2>1 DEF Buffer
      <3>3. /\ call'[c] = [call[c] EXCEPT !.buffered = TRUE]
            /\ \A d \in Callers \ {c} : call'[d] = call[d]
            /\ call' \in [Callers -> {Idle} \cup Calls]
        BY <3>1, <3>2 DEF Inv, TypeOK, Calls
      <3>4. call'[c].op = "send" /\ call'[c].on = call[c].on
        BY <3>0, <3>3
      <3> QED
        BY <2>1, <3>3, <3>4 DEF Buffer
    <2>2. CASE Store(c)
      BY <2>2 DEF Store, In, Inv, TypeOK
    <2>3. CASE SendReturns(c) \/ SendRaises(c)
      BY <2>3 DEF SendReturns, SendRaises, Return, In, Inv, TypeOK, Idle
    <2> QED
      BY <2>1, <2>2, <2>3 DEF Delivery
  <1>2. /\ stored' \in SUBSET Callers
        /\ answer' \in [Callers -> {"none", "refused", "returned", "raised"}]
        /\ \A d \in Callers \ {c} : /\ d \in stored' <=> d \in stored
                                    /\ answer'[d] = answer[d]
        /\ call'[c].op = "send" => answer'[c] = "none"
        /\ answer'[c] = "returned" => c \in stored'
        /\ answer'[c] # "refused"
    BY <1>1
       DEF Delivery, Buffer, Store, SendReturns, SendRaises, Acknowledged,
           Return, Inv, TypeOK, Answers, In, Idle
  <1>3. TypeOK' /\ Born' /\ Answers'
    BY <1>1, <1>2 DEF Inv, TypeOK, Born, Answers, HasClient, In
  <1>4. Orderly'
    BY <1>1 DEF Inv, Orderly, In, Lifecycle, TypeOK
  <1> QED
    BY <1>3, <1>4 DEF Inv

LEMMA NextInv == Inv /\ [Next]_vars => Inv'
  <1> SUFFICES ASSUME Inv, [Next]_vars
               PROVE  Inv'
    OBVIOUS
  <1>1. CASE UNCHANGED vars
    BY <1>1 DEF vars, Inv, TypeOK, Born, Answers, Orderly, HasClient, In
  <1>2. ASSUME NEW c \in Callers, NEW n \in Clients, Start(c, n)
        PROVE  Inv'
    BY <1>2, StartType, StartOrderly DEF Inv
  <1>3. ASSUME NEW c \in Callers,
               \/ Connection(c) \/ Stop(c)
               \/ StopEnds(c) \/ StopRaises(c) \/ Send(c)
               \/ Delivery(c) \/ SendRaises(c)
        PROVE  Inv'
    BY <1>3, ConnectionInv, StopInv, StopEndsInv, SendInv, SendGoesOn
  <1> QED
    BY <1>1, <1>2, <1>3 DEF Next

-----------------------------------------------------------------------------
\* Tasks that call the wrapper in any order keep its record, its clients and
\* their own calls in shape; a send always has a client that start created.
THEOREM TypeCorrect == Spec => []TypeOK
  <1>1. Inv => TypeOK
    BY DEF Inv
  <1> QED
    BY <1>1, InitInv, NextInv, PTL DEF Spec

\* send returns only when its event is in the topic, and refuses only what is
\* not, whoever starts and stops the producer meanwhile.
THEOREM AnswersHold == Spec => []AnswersAreTrue
  <1>1. Inv => AnswersAreTrue
    BY DEF Inv, Answers, AnswersAreTrue
  <1> QED
    BY <1>1, InitInv, NextInv, PTL DEF Spec

\* No client is left open and forgotten unless a stop has met another start or
\* stop, or the client's own stop was broken off: that _producer is set before
\* the await is enough for starts.
THEOREM NoClientIsLost == Spec => []ClientsAreKept
  <1>1. Inv => ClientsAreKept
    BY DEF Inv, Orderly, ClientsAreKept
  <1> QED
    BY <1>1, InitInv, NextInv, PTL DEF Spec
=============================================================================
