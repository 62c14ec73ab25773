-------------------------- MODULE RunCommandProofs --------------------------
(***************************************************************************)
(* The safety of RunCommand for any number of commands, any pool and any   *)
(* number of copies and crashes.                                           *)
(***************************************************************************)
EXTENDS RunCommand, FiniteSetTheorems, TLAPS

\* How far a request has come says what it has left behind.
Traces ==
    \A c \in Commands :
        /\ answer[c] # "none" => phase[c] = "done"
        /\ phase[c] \in {"sent", "flush", "publish"} =>
              c \notin runs \cup buffered /\ copies[c] = 0
        /\ phase[c] \in {"returned", "commit", "succeeded"} => copies[c] > 0
        /\ phase[c] = "succeeded" => c \in runs

Inv == TypeOK /\ RunsAreAnnounced /\ AnswersAreTrue /\ Traces

Safe == Inv /\ ConnectionsComeBack

LEMMA InitSafe == Init => Safe
  <1> SUFFICES ASSUME Init PROVE Safe
    OBVIOUS
  <1>1. Cardinality({}) = 0
    BY FS_EmptySet
  <1>2. TypeOK
    BY CommandsAssumption, BoundsAssumption DEF Init, TypeOK, Phase, Answer
  <1>3. ConnectionsComeBack
    BY <1>1, BoundsAssumption DEF Init, ConnectionsComeBack
  <1>4. RunsAreAnnounced /\ AnswersAreTrue /\ Traces
    BY DEF Init, RunsAreAnnounced, AnswersAreTrue, Traces
  <1> QED
    BY <1>2, <1>3, <1>4 DEF Safe, Inv

-----------------------------------------------------------------------------
(* Runs, events and answers *)

LEMMA TurnAwayInv ==
  ASSUME Inv, NEW c \in Commands, NotVerified(c) \/ TextWrong(c)
  PROVE  Inv'
  BY CommandsAssumption
     DEF Inv, NotVerified, TextWrong, TurnAway, Goto, TypeOK, Phase, Answer,
         RunsAreAnnounced, AnswersAreTrue, Traces

LEMMA HandleInv ==
  ASSUME Inv, NEW c \in Commands, Handle(c)
  PROVE  Inv'
  BY CommandsAssumption
     DEF Inv, Handle, Goto, TypeOK, Phase, RunsAreAnnounced, AnswersAreTrue,
         Traces

LEMMA FlushInv ==
  ASSUME Inv, NEW c \in Commands, Flush(c) \/ FlushTimesOut(c)
  PROVE  Inv'
  BY CommandsAssumption
     DEF Inv, Flush, FlushTimesOut, Raise, Goto, TypeOK, Phase,
         RunsAreAnnounced, AnswersAreTrue, Traces

\* Storing an event leaves the other events alone.
LEMMA StoredCopies ==
  ASSUME TypeOK, NEW c \in Commands, NEW n \in 0..MaxCopies, Stored(c, n)
  PROVE  /\ copies' \in [Commands -> 0..MaxCopies]
         /\ copies'[c] = copies[c] + n
         /\ \A d \in Commands : copies'[d] >= copies[d]
         /\ \A d \in Commands \ {c} : copies'[d] = copies[d]
  BY BoundsAssumption DEF TypeOK, Stored

LEMMA PublishInv ==
  ASSUME Inv, NEW c \in Commands, Publish(c) \/ PublishFails(c)
  PROVE  Inv'
  <1>1. PICK n \in 0..MaxCopies :
           Stored(c, n) /\ (phase'[c] = "returned" => n > 0)
    <2>1. CASE Publish(c)
      BY <2>1, BoundsAssumption DEF Publish, Published
    <2>2. CASE PublishFails(c)
      BY <2>2 DEF PublishFails, Raise, Goto, Inv, TypeOK
    <2> QED
      BY <2>1, <2>2
  <1>2. /\ copies' \in [Commands -> 0..MaxCopies]
        /\ copies'[c] = copies[c] + n
        /\ \A d \in Commands : copies'[d] >= copies[d]
        /\ \A d \in Commands \ {c} : copies'[d] = copies[d]
    BY <1>1, StoredCopies DEF Inv
  <1>3. /\ phase[c] = "publish"
        /\ phase' \in [Commands -> Phase]
        /\ phase'[c] \in {"returned", "raised"}
        /\ \A d \in Commands \ {c} : phase'[d] = phase[d]
        /\ loop' = Free
        /\ buffered' \in SUBSET (buffered \cup {c})
        /\ UNCHANGED <<answer, out, runs, crashes>>
    BY DEF Inv, TypeOK, Phase, Publish, PublishFails, Published, Raise, Goto
  <1>4. TypeOK'
    BY <1>2, <1>3, CommandsAssumption DEF Inv, TypeOK, Phase
  <1>5. phase'[c] = "returned" => copies'[c] > 0
    BY <1>1, <1>2 DEF Inv, TypeOK
  <1>6. RunsAreAnnounced'
    BY <1>2, <1>3, BoundsAssumption DEF Inv, TypeOK, RunsAreAnnounced
  <1>7. AnswersAreTrue' /\ Traces'
    BY <1>2, <1>3, <1>5 DEF Inv, TypeOK, AnswersAreTrue, Traces
  <1> QED
    BY <1>4, <1>6, <1>7 DEF Inv

LEMMA DeliverInv ==
  ASSUME Inv, NEW c \in Commands, Deliver(c)
  PROVE  Inv'
  <1>1. PICK n \in 0..MaxCopies :
           Stored(c, n) \/ UNCHANGED copies
    BY BoundsAssumption DEF Deliver
  <1>2. /\ copies' \in [Commands -> 0..MaxCopies]
        /\ \A d \in Commands : copies'[d] >= copies[d]
        /\ \A d \in Commands \ {c} : copies'[d] = copies[d]
    BY <1>1, StoredCopies, BoundsAssumption DEF Inv, TypeOK
  <1>3. /\ c \in buffered
        /\ buffered' = buffered \ {c}
        /\ UNCHANGED <<phase, answer, loop, out, runs, crashes>>
    BY DEF Deliver
  <1>4. TypeOK' /\ AnswersAreTrue'
    BY <1>2, <1>3 DEF Inv, TypeOK, AnswersAreTrue
  <1>5. RunsAreAnnounced'
    BY <1>2, <1>3, BoundsAssumption DEF Inv, TypeOK, RunsAreAnnounced
  <1>6. Traces'
    BY <1>2, <1>3, BoundsAssumption DEF Inv, TypeOK, Traces
  <1> QED
    BY <1>4, <1>5, <1>6 DEF Inv

LEMMA EndInv ==
  ASSUME Inv, NEW c \in Commands,
         StartThread(c) \/ Commit(c) \/ CommitFails(c) \/ Rollback(c)
  PROVE  Inv'
  BY CommandsAssumption
     DEF Inv, StartThread, Commit, CommitFails, Rollback, Closed, Goto, TypeOK,
         Phase, RunsAreAnnounced, AnswersAreTrue, Traces

LEMMA RespondInv ==
  ASSUME Inv, NEW c \in Commands, Respond(c)
  PROVE  Inv'
  BY CommandsAssumption
     DEF Inv, Respond, Ready, Goto, TypeOK, Phase, Answer, RunsAreAnnounced,
         AnswersAreTrue, Traces

LEMMA CrashInv ==
  ASSUME Inv, Crash
  PROVE  Inv'
  <1>1. PICK committed \in SUBSET {c \in Commands : phase[c] = "commit"},
             sent \in SUBSET (buffered \cup {c \in Commands : phase[c] = "publish"}) :
           /\ runs' = runs \cup committed
           /\ \A c \in sent : copies[c] < MaxCopies
           /\ copies' = [c \in Commands |->
                            IF c \in sent THEN copies[c] + 1 ELSE copies[c]]
    BY DEF Crash
  <1>2. /\ phase' = [c \in Commands |-> IF phase[c] \in {"sent", "done"}
                                        THEN phase[c] ELSE "lost"]
        /\ loop' = Free /\ out' = {} /\ buffered' = {}
        /\ answer' = answer
        /\ crashes' \in 0..MaxCrashes
    BY BoundsAssumption DEF Crash, Inv, TypeOK
  <1>3. /\ copies' \in [Commands -> 0..MaxCopies]
        /\ \A c \in Commands : copies[c] > 0 => copies'[c] > 0
        /\ \A c \in Commands \ sent : copies'[c] = copies[c]
    BY <1>1, BoundsAssumption DEF Inv, TypeOK
  <1>4. TypeOK'
    <2>1. phase' \in [Commands -> Phase]
      BY <1>2 DEF Inv, TypeOK, Phase
    <2>2. runs' \in SUBSET Commands
      BY <1>1 DEF Inv, TypeOK
    <2>3. \A c \in Commands : phase'[c] \notin {"flush", "publish"}
      BY <1>2
    <2> QED
      BY <1>2, <1>3, <2>1, <2>2, <2>3, CommandsAssumption DEF Inv, TypeOK
  <1>5. RunsAreAnnounced'
    BY <1>1, <1>3 DEF Inv, TypeOK, RunsAreAnnounced, Traces
  <1>6. \A c \in Commands : phase[c] \in {"sent", "done"} => c \notin committed
    BY <1>1
  <1>7. \A c \in Commands : phase[c] = "sent" \/ answer[c] = "refused" =>
           c \notin sent
    BY <1>1 DEF Inv, Traces, AnswersAreTrue
  <1>8. AnswersAreTrue'
    BY <1>1, <1>2, <1>3, <1>6, <1>7 DEF Inv, AnswersAreTrue, Traces
  <1>9. Traces'
    BY <1>1, <1>2, <1>3, <1>6, <1>7 DEF Inv, Traces
  <1> QED
    BY <1>4, <1>5, <1>8, <1>9 DEF Inv

-----------------------------------------------------------------------------
(* Connections *)

LEMMA ConnectionsKept ==
  ASSUME Safe, [Next]_vars
  PROVE  ConnectionsComeBack'
  <1>1. /\ IsFiniteSet(out)
        /\ Cardinality(out) \in Nat
        /\ Cardinality(out) <= PoolSize
    BY CommandsAssumption, FS_Subset, FS_CardinalityType
       DEF Safe, Inv, TypeOK, ConnectionsComeBack
  <1>2. \A c \in Commands : /\ IsFiniteSet(out \ {c})
                            /\ Cardinality(out \ {c}) <= PoolSize
    BY <1>1, FS_RemoveElement, BoundsAssumption
  <1>3. ASSUME NEW c \in Commands, Flush(c)
        PROVE  ConnectionsComeBack'
    <2>1. c \notin out
      BY <1>3 DEF Flush, Safe, ConnectionsComeBack
    <2>2. Cardinality(out \cup {c}) = Cardinality(out) + 1
      BY <1>1, <2>1, FS_AddElement
    <2>3. loop = c
      BY <1>3 DEF Flush, Safe, Inv, TypeOK
    <2>4. Cardinality(out') <= PoolSize
      <3>1. Cardinality(out) + 1 <= PoolSize
        BY <1>1, <1>3, BoundsAssumption DEF Flush
      <3>2. CASE out' = out
        BY <1>1, <3>2
      <3>3. CASE out' = out \cup {c}
        BY <2>2, <3>1, <3>3
      <3> QED
        BY <1>3, <3>2, <3>3 DEF Flush
    <2>5. \A d \in out : d # c /\ phase'[d] = phase[d] /\ phase[d] # "publish"
      BY <1>3, <2>1, <2>3
         DEF Flush, Raise, Goto, Safe, Inv, TypeOK, ConnectionsComeBack
    <2>6. c \in out' => \/ phase'[c] = "raised"
                        \/ phase'[c] = "publish" /\ loop' = c
      BY <1>3, <2>1, <2>3 DEF Flush, Raise, Goto, Safe, Inv, TypeOK
    <2>7. out' \subseteq out \cup {c}
      BY <1>3 DEF Flush
    <2> QED
      BY <2>4, <2>5, <2>6, <2>7 DEF Safe, ConnectionsComeBack
  <1>4. ASSUME NEW c \in Commands,
               NotVerified(c) \/ TextWrong(c) \/ Handle(c)
               \/ FlushTimesOut(c) \/ Respond(c)
        PROVE  ConnectionsComeBack'
    BY <1>4, CommandsAssumption
       DEF Safe, Inv, TypeOK, ConnectionsComeBack, NotVerified, TextWrong,
           TurnAway, Handle,
           FlushTimesOut, Raise, Respond, Ready, Goto
  <1>5. ASSUME NEW c \in Commands,
               Publish(c) \/ PublishFails(c) \/ StartThread(c) \/ Deliver(c)
        PROVE  ConnectionsComeBack'
    BY <1>5
       DEF Safe, Inv, TypeOK, ConnectionsComeBack, Publish, PublishFails, Raise,
           StartThread, Deliver, Goto
  <1>6. ASSUME NEW c \in Commands, Commit(c) \/ CommitFails(c) \/ Rollback(c)
        PROVE  ConnectionsComeBack'
    BY <1>2, <1>6
       DEF Safe, Inv, TypeOK, ConnectionsComeBack, Commit, CommitFails,
           Rollback, Closed, Goto
  <1>7. CASE Crash
    BY <1>7, FS_EmptySet, BoundsAssumption DEF Crash, ConnectionsComeBack
  <1>8. CASE UNCHANGED vars
    BY <1>8 DEF vars, Safe, ConnectionsComeBack
  <1> QED
    BY <1>3, <1>4, <1>5, <1>6, <1>7, <1>8 DEF Next, Proceed

LEMMA NextSafe == Safe /\ [Next]_vars => Safe'
  <1> SUFFICES ASSUME Safe, [Next]_vars PROVE Safe'
    OBVIOUS
  <1>1. Inv'
    <2>1. CASE Next
      BY <2>1, TurnAwayInv, HandleInv, FlushInv, PublishInv, DeliverInv, EndInv,
         RespondInv, CrashInv DEF Next, Proceed, Safe
    <2>2. CASE UNCHANGED vars
      BY <2>2 DEF vars, Safe, Inv, TypeOK, RunsAreAnnounced, AnswersAreTrue,
                  Traces
    <2> QED
      BY <2>1, <2>2
  <1> QED
    BY <1>1, ConnectionsKept DEF Safe

LEMMA AlwaysSafe == Spec => []Safe
  BY InitSafe, NextSafe, PTL DEF Spec

\* The loop, the requests and the tables are well formed.
THEOREM TypeCorrect == Spec => []TypeOK
  BY AlwaysSafe, PTL DEF Safe, Inv

\* Publishing before the commit: no run without its event, whatever fails.
THEOREM NoSilentRun == Spec => []RunsAreAnnounced
  BY AlwaysSafe, PTL DEF Safe, Inv

\* What Slack is told of a run is so.
THEOREM AnswersHold == Spec => []AnswersAreTrue
  BY AlwaysSafe, PTL DEF Safe, Inv

\* Sessions give their connections back on every path.
THEOREM PoolIsKept == Spec => []ConnectionsComeBack
  BY AlwaysSafe, PTL DEF Safe

-----------------------------------------------------------------------------
(* Texts *)

\* A command that has left something behind has had its text accepted.
Begun(c) ==
    \/ phase[c] \notin {"sent", "done", "lost"}
    \/ c \in runs \cup buffered
    \/ copies[c] > 0

Admitted == \A c \in Commands : Begun(c) => InOrder(c)

\* A step begins no command but one whose text is in order.
LEMMA StepAdmits ==
  ASSUME TypeOK, Next, NEW d \in Commands, Begun(d)'
  PROVE  Begun(d) \/ InOrder(d)
  <1>1. ASSUME NEW c \in Commands, NotVerified(c) \/ TextWrong(c) \/ Handle(c)
        PROVE  Begun(d) \/ InOrder(d)
    BY <1>1 DEF NotVerified, TextWrong, TurnAway, Handle, Goto, Begun, TypeOK
  <1>2. ASSUME NEW c \in Commands, Flush(c) \/ FlushTimesOut(c)
        PROVE  Begun(d) \/ InOrder(d)
    BY <1>2 DEF Flush, FlushTimesOut, Raise, Goto, Begun, TypeOK
  <1>3. ASSUME NEW c \in Commands,
               Publish(c) \/ PublishFails(c) \/ Deliver(c)
        PROVE  Begun(d) \/ InOrder(d)
    <2>1. Begun(c)
      BY <1>3 DEF Publish, PublishFails, Deliver, Begun
    <2>2. d # c => Begun(d)
      <3>1. d # c => copies'[d] = copies[d]
        BY <1>3, BoundsAssumption
           DEF Publish, Published, PublishFails, Deliver, Stored, TypeOK
      <3> QED
        BY <1>3, <3>1
           DEF Publish, Published, PublishFails, Deliver, Raise, Goto, Begun,
               TypeOK
    <2> QED
      BY <2>1, <2>2
  <1>4. ASSUME NEW c \in Commands,
               \/ StartThread(c) \/ Commit(c) \/ CommitFails(c)
               \/ Rollback(c) \/ Respond(c)
        PROVE  Begun(d) \/ InOrder(d)
    BY <1>4
       DEF StartThread, Commit, CommitFails, Rollback, Respond, Ready, Goto,
           Begun, TypeOK
  <1>5. CASE Crash
    BY <1>5 DEF Crash, Begun, TypeOK
  <1> QED
    BY <1>1, <1>2, <1>3, <1>4, <1>5 DEF Next, Proceed

LEMMA NextAdmitted ==
  ASSUME TypeOK, Admitted, [Next]_vars
  PROVE  Admitted'
  <1>1. CASE Next
    BY <1>1, StepAdmits DEF Admitted, InOrder
  <1>2. CASE UNCHANGED vars
    BY <1>2 DEF vars, Admitted, Begun, InOrder
  <1> QED
    BY <1>1, <1>2

\* If the parser reads the texts right, which TLC finds for those of up to
\* three tokens, then runs and events are what the commands asked for.
THEOREM RunsFollowTexts ==
  ASSUME \A c \in Commands : ReadsRight(TextOf[c])
  PROVE  Spec => []RunsAreAsAsked
  <1>1. Init => Admitted
    BY DEF Init, Admitted, Begun
  <1>2. TypeOK /\ Admitted /\ [Next]_vars => Admitted'
    BY NextAdmitted
  <1>3. Admitted => RunsAreAsAsked
    BY DEF Admitted, Begun, InOrder, ReadsRight, RunsAreAsAsked
  <1>4. Spec => []TypeOK
    BY TypeCorrect
  <1> QED
    BY <1>1, <1>2, <1>3, <1>4, PTL DEF Spec
=============================================================================
