--------------------------- MODULE ChannelHistory ---------------------------
(***************************************************************************)
(* services/fairness as a component of its own: the runs of one channel    *)
(* closed one after the other, each by a call of assign_runner that commits *)
(* before the next one starts.  This is what the service does when nothing *)
(* races it; CoffeeRuns models the same calls inside concurrent database   *)
(* transactions.                                                           *)
(***************************************************************************)
EXTENDS Fairness, FiniteSets, Sequences

CONSTANT MaxCloses      \* bound: how many runs are closed

ASSUME MaxClosesAssumption == MaxCloses \in Nat

VARIABLES
    stats,      \* [Users -> Stat]: the channel's rows of runner_stats
    history     \* the closed runs, oldest first: who took part, whether a
                \* repeat was allowed, who ran

vars == <<stats, history>>

ClosedRun == [participants : SUBSET Users, repeat : BOOLEAN, runner : Users]

now == Len(history) + 1

LastRunner ==
    IF history = <<>> THEN NoUser ELSE history[Len(history)].runner

Init ==
    /\ stats = [u \in Users |-> NoStat]
    /\ history = <<>>

AssignRunner(participants, repeat, runner) ==
    LET loaded == [u \in participants |-> Loaded(stats[u], now)]
    IN  /\ Len(history) < MaxCloses
        /\ IsChosen(loaded, Eligible(participants, LastRunner, repeat), runner)
        /\ stats' = [u \in Users |->
                        IF u = runner THEN Credited(loaded[u], now)
                        ELSE IF u \in participants THEN loaded[u]
                        ELSE stats[u]]
        /\ history' = Append(history, [participants |-> participants,
                                       repeat |-> repeat, runner |-> runner])

Next ==
    \E participants \in SUBSET Users, repeat \in BOOLEAN, runner \in Users :
        AssignRunner(participants, repeat, runner)

Spec == Init /\ [][Next]_vars

-----------------------------------------------------------------------------
TypeOK ==
    /\ stats \in [Users -> Stat]
    /\ history \in Seq(ClosedRun)

\* The mapping to FairRotation.
Regulars == {u \in Users : \A i \in 1..Len(history) :
                               u \in history[i].participants}

Rotation == INSTANCE FairRotation
    WITH served <- [u \in Users |-> stats[u].count],
         last <- LastRunner,
         regulars <- Regulars

\* assign_runner implements fair rotation: its counts, NULL handling, fresh
\* rows and tie breakers never pick someone fair rotation would not allow.
ImplementsRotation == Rotation!Spec

\* A close is fair under the very allow_immediate_repeat it was asked with:
\* unless it allowed a repeat, the runner of the run before is passed over,
\* also when everybody else has served more, and only for one run.
AssignsAsAsked ==
    [][\A participants \in SUBSET Users, repeat \in BOOLEAN, runner \in Users :
          history' = Append(history, [participants |-> participants,
                                      repeat |-> repeat, runner |-> runner])
             => Rotation!Assign(participants, repeat, runner)]_vars

FairSpread == Rotation!FairSpread

\* The runs recorded for a user.
RunsOf(u) == {i \in 1..Len(history) : history[i].runner = u}

\* What runner_stats says of a user is the history: how many runs they were
\* sent on and when the latest one was.  The increment of the loaded count
\* never drifts from it, whichever rows a close creates or leaves alone.
CountsAreHistory ==
    \A u \in Users :
        /\ stats[u].count = Cardinality(RunsOf(u))
        /\ stats[u].lastRun \in RunsOf(u) \cup {0}
        /\ \A i \in RunsOf(u) : i <= stats[u].lastRun
=============================================================================
