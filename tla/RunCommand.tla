----------------------------- MODULE RunCommand -----------------------------
(***************************************************************************)
(* The slash command that opens a run (api/slack_runs): it inserts the run, *)
(* publishes run_created and then commits, so that a run and its event are *)
(* two writes of which either may fail.                                    *)
(*                                                                         *)
(* handle_slack_command is a coroutine without an await after the body has *)
(* been read.  From there to its return it keeps the event loop, through   *)
(* the blocking flush and the blocking wait for Kafka.  The commit or the  *)
(* rollback that follows runs in a thread, which the loop must start; the  *)
(* response goes out after that, on the loop again.  A session takes a     *)
(* connection from the pool at its flush and gives it back when it is      *)
(* closed.                                                                 *)
(*                                                                         *)
(* The run and its event carry the options read from the command's text.   *)
(***************************************************************************)
EXTENDS Naturals, FiniteSets, CommandText

CONSTANTS
    Commands,   \* the slash commands Slack delivers
    TextOf,     \* [Commands -> a sequence of tokens, or Unsplittable]
    PoolSize,   \* connections of the pool
    MaxCopies,  \* bound: how often Kafka stores one event
    MaxCrashes, \* bound: how often the process dies
    Free        \* nobody keeps the event loop

ASSUME CommandsAssumption == Free \notin Commands /\ IsFiniteSet(Commands)

ASSUME BoundsAssumption ==
    /\ PoolSize \in Nat \ {0}
    /\ MaxCopies \in Nat \ {0}
    /\ MaxCrashes \in Nat

VARIABLES
    phase,      \* [Commands -> Phase]: where the request is
    answer,     \* [Commands -> Answer]: what Slack has been told
    loop,       \* the command that keeps the event loop, or Free
    out,        \* the commands whose session has a connection
    runs,       \* the commands whose run is committed
    copies,     \* [Commands -> Nat]: copies of the run's event in the topic
    buffered,   \* the commands whose event is still in the producer's buffer
    crashes

vars == <<phase, answer, loop, out, runs, copies, buffered, crashes>>

Phase == {"sent",                       \* on its way
          "flush", "publish",           \* in the handler, on the loop
          "returned", "raised",         \* the handler is over
          "commit", "rollback",         \* in a thread
          "succeeded", "failed",        \* the session is closed
          "done", "lost"}               \* answered; the process died

Answer == {"none", "created", "refused", "error"}

Init ==
    /\ phase = [c \in Commands |-> "sent"]
    /\ answer = [c \in Commands |-> "none"]
    /\ loop = Free
    /\ out = {}
    /\ runs = {}
    /\ copies = [c \in Commands |-> 0]
    /\ buffered = {}
    /\ crashes = 0

Goto(c, p) == phase' = [phase EXCEPT ![c] = p]

-----------------------------------------------------------------------------
(* The handler *)

\* The request ends before its session needs a connection.
TurnAway(c, a) ==
    /\ phase[c] = "sent"
    /\ loop = Free
    /\ Goto(c, "done")
    /\ answer' = [answer EXCEPT ![c] = a]
    /\ UNCHANGED <<loop, out, runs, copies, buffered, crashes>>

\* The signature is missing, stale or wrong; a time stamp that is no number
\* raises.
NotVerified(c) == \E a \in {"refused", "error"} : TurnAway(c, a)

\* The errors of the text are the answer.  Nothing catches shlex's exception.
TextWrong(c) ==
    \/ HasErrors(TextOf[c]) /\ TurnAway(c, "refused")
    \/ Raises(TextOf[c]) /\ TurnAway(c, "error")

\* Mutant: the errors of the text are not looked at.
InOrderAnyway(c) == ~Raises(TextOf[c])

InOrder(c) == Accepted(TextOf[c])

\* handle up to session.flush().
Handle(c) ==
    /\ phase[c] = "sent"
    /\ loop = Free
    /\ InOrder(c)
    /\ loop' = c
    /\ Goto(c, "flush")
    /\ UNCHANGED <<answer, out, runs, copies, buffered, crashes>>

\* Mutant: the handler awaits something before it re-raises.
RaiseLater(c) == Goto(c, "raised") /\ UNCHANGED loop

\* The handler raises: the loop is free and the exception travels to
\* _session_manager.
Raise(c) == Goto(c, "raised") /\ loop' = Free

\* The flush: a connection and the INSERT, which may both fail.
Flush(c) ==
    /\ phase[c] = "flush"
    /\ Cardinality(out) < PoolSize
    /\ \/ out' = out \cup {c} /\ Goto(c, "publish") /\ UNCHANGED loop
       \/ out' = out \cup {c} /\ Raise(c)
       \/ out' = out /\ Raise(c)
    /\ UNCHANGED <<answer, runs, copies, buffered, crashes>>

\* Mutant: the pool waits for a connection for ever.
NeverExhausted == FALSE

\* The pool has given out all its connections.
Exhausted == Cardinality(out) >= PoolSize

\* Every connection stays out for pool_timeout seconds.
FlushTimesOut(c) ==
    /\ phase[c] = "flush"
    /\ Exhausted
    /\ Raise(c)
    /\ UNCHANGED <<answer, out, runs, copies, buffered, crashes>>

\* Kafka stores the event, more than once if an acknowledgement is lost and
\* the producer retries.
Stored(c, n) ==
    /\ copies[c] + n <= MaxCopies
    /\ copies' = [copies EXCEPT ![c] = @ + n]

\* Mutant: the event is sent and not waited for.
PublishedUnheard(c) ==
    /\ UNCHANGED copies
    /\ buffered' = buffered \cup {c}

\* future.get returns: the event is in the topic.
Published(c) ==
    /\ \E n \in 1..MaxCopies : Stored(c, n)
    /\ UNCHANGED buffered

Publish(c) ==
    /\ phase[c] = "publish"
    /\ Published(c)
    /\ Goto(c, "returned")
    /\ loop' = Free
    /\ UNCHANGED <<answer, out, runs, crashes>>

\* future.get raises, after ten seconds or an error.  The event may be stored
\* all the same, or wait in the buffer.
PublishFails(c) ==
    /\ phase[c] = "publish"
    /\ \E n \in 0..MaxCopies : Stored(c, n)
    /\ \/ UNCHANGED buffered
       \/ buffered' = buffered \cup {c}
    /\ Raise(c)
    /\ UNCHANGED <<answer, out, runs, crashes>>

\* The producer's own thread gets rid of a buffered event.
Deliver(c) ==
    /\ c \in buffered
    /\ buffered' = buffered \ {c}
    /\ \/ \E n \in 1..MaxCopies : Stored(c, n)
       \/ UNCHANGED copies
    /\ UNCHANGED <<phase, answer, loop, out, runs, crashes>>

-----------------------------------------------------------------------------
(* The session's end and the answer *)

\* The loop hands the rest of _session_manager to a thread.
StartThread(c) ==
    /\ loop = Free
    /\ \/ phase[c] = "returned" /\ Goto(c, "commit")
       \/ phase[c] = "raised" /\ Goto(c, "rollback")
    /\ UNCHANGED <<answer, loop, out, runs, copies, buffered, crashes>>

\* Mutant: no close in the finally clause.
Kept(c) == out

\* session.close().
Closed(c) == out \ {c}

Commit(c) ==
    /\ phase[c] = "commit"
    /\ runs' = runs \cup {c}
    /\ out' = Closed(c)
    /\ Goto(c, "succeeded")
    /\ UNCHANGED <<answer, loop, copies, buffered, crashes>>

\* commit() raises and the session is rolled back.  If it was the connection
\* that failed, the database may have committed.
CommitFails(c) ==
    /\ phase[c] = "commit"
    /\ \/ UNCHANGED runs
       \/ runs' = runs \cup {c}
    /\ out' = Closed(c)
    /\ Goto(c, "failed")
    /\ UNCHANGED <<answer, loop, copies, buffered, crashes>>

Rollback(c) ==
    /\ phase[c] = "rollback"
    /\ out' = Closed(c)
    /\ Goto(c, "failed")
    /\ UNCHANGED <<answer, loop, runs, copies, buffered, crashes>>

\* Mutant: the response leaves before the dependency is closed.
ReadyEarly(c) == phase[c] \in {"returned", "succeeded", "failed"}

\* The dependency is closed before the response is sent.
Ready(c) == phase[c] \in {"succeeded", "failed"}

Respond(c) ==
    /\ loop = Free
    /\ Ready(c)
    /\ answer' = [answer EXCEPT ![c] = IF phase[c] = "failed" THEN "error"
                                       ELSE "created"]
    /\ Goto(c, "done")
    /\ UNCHANGED <<loop, out, runs, copies, buffered, crashes>>

-----------------------------------------------------------------------------
\* The process dies.  A commit, an event in the buffer or on its way may have
\* arrived; everything else of the requests in progress is gone.
Crash ==
    /\ crashes < MaxCrashes
    /\ crashes' = crashes + 1
    /\ \E committed \in SUBSET {c \in Commands : phase[c] = "commit"},
          sent \in SUBSET (buffered \cup {c \in Commands : phase[c] = "publish"}) :
          /\ runs' = runs \cup committed
          /\ \A c \in sent : copies[c] < MaxCopies
          /\ copies' = [c \in Commands |->
                           IF c \in sent THEN copies[c] + 1 ELSE copies[c]]
    /\ phase' = [c \in Commands |-> IF phase[c] \in {"sent", "done"}
                                    THEN phase[c] ELSE "lost"]
    /\ loop' = Free
    /\ out' = {}
    /\ buffered' = {}
    /\ UNCHANGED answer

\* What the server does for a request it has begun.
Proceed(c) ==
    \/ Flush(c) \/ FlushTimesOut(c)
    \/ Publish(c) \/ PublishFails(c)
    \/ StartThread(c) \/ Commit(c) \/ CommitFails(c) \/ Rollback(c)
    \/ Respond(c)

Next ==
    \/ \E c \in Commands :
          \/ NotVerified(c) \/ TextWrong(c) \/ Handle(c)
          \/ Proceed(c) \/ Deliver(c)
    \/ Crash

Spec == Init /\ [][Next]_vars

\* Every call the server makes returns in the end: the pool and Kafka have
\* timeouts, threads run, and the loop turns to whatever is ready.
Fairness == \A c \in Commands : WF_vars(Proceed(c))

FairSpec == Spec /\ Fairness

-----------------------------------------------------------------------------
\* Types; and the loop is kept by the request that is in the handler.
TypeOK ==
    /\ phase \in [Commands -> Phase]
    /\ answer \in [Commands -> Answer]
    /\ loop \in Commands \cup {Free}
    /\ out \in SUBSET Commands
    /\ runs \in SUBSET Commands
    /\ copies \in [Commands -> 0..MaxCopies]
    /\ buffered \in SUBSET Commands
    /\ crashes \in 0..MaxCrashes
    /\ \A c \in Commands : loop = c <=> phase[c] \in {"flush", "publish"}

\* A committed run has its event in the topic, whatever failed, timed out or
\* crashed: publishing before the commit buys this, at the price of events
\* whose run is rolled back.
RunsAreAnnounced == \A c \in runs : copies[c] > 0

\* Slack shows a new run only if there is one; a command refused has left
\* nothing behind, not even an event still to be delivered.
AnswersAreTrue ==
    \A c \in Commands :
        /\ answer[c] = "created" => c \in runs
        /\ answer[c] = "refused" => /\ c \notin runs \cup buffered
                                    /\ copies[c] = 0

\* A command leaves a run or an event only if its text was in order as a
\* whole, and both hold what the text asked for: one parameter that is wrong
\* turns the command away, whatever the others say.
RunsAreAsAsked ==
    \A c \in Commands :
        (c \in runs \cup buffered \/ copies[c] > 0) =>
            /\ WellFormed(TextOf[c])
            /\ \A key \in Keys :
                  Parsed(TextOf[c])[key] = Asked(TextOf[c], key)

\* No path, of success, failure or crash, leaves a connection with a request
\* whose session is closed.
ConnectionsComeBack ==
    /\ Cardinality(out) <= PoolSize
    /\ \A c \in out : \/ phase[c] \in {"returned", "raised", "commit", "rollback"}
                      \/ phase[c] = "publish" /\ loop = c

\* A command the server has begun is answered, unless the process dies.  The
\* handler that waits for a connection blocks the loop, and with it the
\* commits that would return one: only the pool's timeout ends this.
CommandsAreAnswered ==
    \A c \in Commands :
        phase[c] = "flush" ~> phase[c] \in {"done", "lost"}
=============================================================================
