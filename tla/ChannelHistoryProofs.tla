------------------------ MODULE ChannelHistoryProofs ------------------------
(***************************************************************************)
(* assign_runner, called for the runs of a channel one after the other,    *)
(* implements fair rotation and therefore spreads the runs evenly, for     *)
(* every set of users, every tie-breaking order and any number of runs.    *)
(***************************************************************************)
EXTENDS ChannelHistory, FiniteSetTheorems, TLAPS

(* The selection rule *)

\* A rule's candidate is whoever fair rotation lets run.
LEMMA EligibleMayRun ==
  ASSUME NEW participants, NEW last, NEW repeat, NEW u
  PROVE  u \in Eligible(participants, last, repeat) <=>
            /\ u \in participants
            /\ u = last => (repeat \/ participants = {last})
  BY DEF Eligible

\* No candidate has served fewer runs than the one chosen.
LEMMA ChosenServedLeast ==
  ASSUME NEW participants \in SUBSET Users,
         NEW stats_ \in [participants -> Stat],
         NEW candidates \in SUBSET participants,
         NEW u, IsChosen(stats_, candidates, u),
         NEW v \in candidates
  PROVE  stats_[u].count <= stats_[v].count
  <1>1. u \in candidates /\ ~Before(stats_, v, u)
    BY DEF IsChosen
  <1>2. ~(stats_[v].count < stats_[u].count)
    BY <1>1 DEF Before
  <1>3. stats_[u] \in Stat /\ stats_[v] \in Stat
    BY <1>1
  <1> QED
    BY <1>2, <1>3 DEF Stat

\* Loading a row creates it if need be and never changes its count.
LEMMA LoadedStat ==
  ASSUME NEW stat \in Stat, stat.created = 0 => stat = NoStat,
         NEW t \in Nat, t > 0
  PROVE  /\ Loaded(stat, t) \in Stat
         /\ Loaded(stat, t).count = stat.count
         /\ Loaded(stat, t).created # 0
  BY DEF Loaded, Stat, NoStat, Exists

-----------------------------------------------------------------------------
(* Type correctness, with what the rows of runner_stats look like *)

\* A user without a row has served nothing.
RowsOK == \A u \in Users : stats[u].created = 0 => stats[u] = NoStat

Inv == TypeOK /\ RowsOK

LEMMA AssignInv ==
  ASSUME Inv,
         NEW participants \in SUBSET Users,
         NEW repeat \in BOOLEAN,
         NEW runner \in Users,
         AssignRunner(participants, repeat, runner)
  PROVE  /\ Inv'
         /\ runner \in participants
         /\ \A u \in Users : stats'[u].count =
               IF u = runner THEN stats[u].count + 1 ELSE stats[u].count
  <1> DEFINE loaded == [u \in participants |-> Loaded(stats[u], now)]
  <1>1. history \in Seq(ClosedRun) /\ now \in Nat /\ now > 0
    BY DEF Inv, TypeOK, now
  <1>2. runner \in participants
    BY EligibleMayRun DEF AssignRunner, IsChosen
  <1>3. \A u \in Users : stats[u] \in Stat
    BY DEF Inv, TypeOK
  <1>4. \A u \in participants : /\ loaded[u] \in Stat
                                /\ loaded[u].count = stats[u].count
                                /\ loaded[u].created # 0
    BY <1>1, <1>3, LoadedStat DEF Inv, RowsOK
  <1>5. stats' = [u \in Users |->
                    IF u = runner THEN Credited(loaded[u], now)
                    ELSE IF u \in participants THEN loaded[u]
                    ELSE stats[u]]
    BY DEF AssignRunner
  <1> HIDE DEF loaded
  <1>6. /\ Credited(loaded[runner], now) \in Stat
        /\ Credited(loaded[runner], now).count = stats[runner].count + 1
        /\ Credited(loaded[runner], now).created # 0
    <2>1. loaded[runner] \in Stat /\ loaded[runner].created # 0
      BY <1>2, <1>4
    <2>2. loaded[runner].count = stats[runner].count
      BY <1>2, <1>4
    <2> QED
      BY <1>1, <2>1, <2>2 DEF Credited, Stat
  <1>7. history' = Append(history, [participants |-> participants,
                                    repeat |-> repeat, runner |-> runner])
    BY DEF AssignRunner
  <1>8. stats' \in [Users -> Stat]
    BY <1>3, <1>4, <1>5, <1>6
  <1>9. history' \in Seq(ClosedRun)
    BY <1>1, <1>7 DEF ClosedRun
  <1>10. RowsOK'
    BY <1>4, <1>5, <1>6 DEF Inv, RowsOK
  <1> QED
    BY <1>2, <1>4, <1>5, <1>6, <1>8, <1>9, <1>10 DEF Inv, TypeOK

\* The rows and the history are well formed after any number of closes.
LEMMA AlwaysInv == Spec => []Inv
  <1>1. Init => Inv
    BY DEF Init, Inv, TypeOK, RowsOK, NoStat, Stat
  <1>2. Inv /\ [Next]_vars => Inv'
    <2> SUFFICES ASSUME Inv, [Next]_vars PROVE Inv'
      OBVIOUS
    <2>1. CASE Next
      BY <2>1, AssignInv DEF Next
    <2>2. CASE UNCHANGED vars
      BY <2>2 DEF vars, Inv, TypeOK, RowsOK
    <2> QED
      BY <2>1, <2>2
  <1> QED
    BY <1>1, <1>2, PTL DEF Spec

\* The runs closed, the counts and the dates keep their types.
THEOREM TypeCorrect == Spec => []TypeOK
  <1>1. Inv => TypeOK
    BY DEF Inv
  <1> QED
    BY <1>1, AlwaysInv, PTL

-----------------------------------------------------------------------------
(* Implementation of fair rotation *)

LEMMA InitRefines == Init => Rotation!Init
  <1> SUFFICES ASSUME Init PROVE Rotation!Init
    OBVIOUS
  <1>1. [u \in Users |-> stats[u].count] = [u \in Users |-> 0]
    BY DEF Init, NoStat
  <1>2. LastRunner = NoUser
    BY DEF Init, LastRunner
  <1>3. Regulars = Users
    BY DEF Init, Regulars
  <1> QED
    BY <1>1, <1>2, <1>3 DEF Rotation!Init

\* Closing a run with some participants leaves as regulars those who took
\* part in it too, and makes its runner the latest one.
LEMMA HistoryGrows ==
  ASSUME Inv,
         NEW participants \in SUBSET Users,
         NEW repeat \in BOOLEAN,
         NEW runner \in Users,
         history' = Append(history, [participants |-> participants,
                                     repeat |-> repeat, runner |-> runner])
  PROVE  /\ LastRunner' = runner
         /\ Regulars' = Regulars \cap participants
  <1>1. history \in Seq(ClosedRun)
    BY DEF Inv, TypeOK
  <1> DEFINE n == Len(history)
             run == [participants |-> participants, repeat |-> repeat,
                    runner |-> runner]
  <1>2. run \in ClosedRun
    BY DEF ClosedRun
  <1>3. /\ n \in Nat
        /\ Len(history') = n + 1
        /\ history'[n + 1] = run
        /\ \A i \in 1..n : history'[i] = history[i]
    BY <1>1, <1>2
  <1>4. LastRunner' = runner
    BY <1>3 DEF LastRunner
  <1>5. \A u \in Users : u \in Regulars' <=> u \in Regulars /\ u \in participants
    <2> SUFFICES ASSUME NEW u \in Users
                 PROVE  u \in Regulars' <=> u \in Regulars /\ u \in participants
      OBVIOUS
    <2>1. 1..(n + 1) = 1..n \cup {n + 1} /\ n + 1 \notin 1..n
      BY <1>3
    <2>2. history'[n + 1].participants = participants
      BY <1>3
    <2> QED
      BY <1>3, <2>1, <2>2 DEF Regulars
  <1> QED
    BY <1>4, <1>5 DEF Regulars

LEMMA AssignRefines ==
  ASSUME Inv,
         NEW participants \in SUBSET Users,
         NEW repeat \in BOOLEAN,
         NEW runner \in Users,
         AssignRunner(participants, repeat, runner)
  PROVE  Rotation!Assign(participants, repeat, runner)
  <1> DEFINE loaded == [u \in participants |-> Loaded(stats[u], now)]
             eligible == Eligible(participants, LastRunner, repeat)
  <1>1. IsChosen(loaded, eligible, runner)
    BY DEF AssignRunner
  <1>2. \A u : u \in eligible <=> Rotation!MayRun(participants, repeat, u)
    BY EligibleMayRun DEF Rotation!MayRun
  <1>3. runner \in eligible
    BY <1>1 DEF IsChosen
  <1>4. now \in Nat /\ now > 0
    BY DEF now, Inv, TypeOK
  <1>5. \A u \in participants : /\ loaded[u] \in Stat
                                /\ loaded[u].count = stats[u].count
    BY <1>4, LoadedStat DEF Inv, TypeOK, RowsOK
  <1>6. eligible \in SUBSET participants /\ loaded \in [participants -> Stat]
    BY <1>5 DEF Eligible
  <1> HIDE DEF loaded, eligible
  <1>7. \A u \in eligible : stats[runner].count <= stats[u].count
    <2> SUFFICES ASSUME NEW u \in eligible
                 PROVE  stats[runner].count <= stats[u].count
      OBVIOUS
    <2>1. loaded[runner].count <= loaded[u].count
      BY <1>1, <1>6, ChosenServedLeast
    <2> QED
      BY <2>1, <1>3, <1>5, <1>6
  <1>8. LastRunner' = runner /\ Regulars' = Regulars \cap participants
    BY HistoryGrows DEF AssignRunner
  <1>9. \A u \in Users : stats'[u].count =
            IF u = runner THEN stats[u].count + 1 ELSE stats[u].count
    BY AssignInv
  <1>10. [u \in Users |-> stats[u].count]' =
            [[u \in Users |-> stats[u].count] EXCEPT ![runner] = @ + 1]
    BY <1>9
  <1> QED
    BY <1>2, <1>3, <1>6, <1>7, <1>8, <1>10 DEF Rotation!Assign

LEMMA NextRefines == Inv /\ [Next]_vars => [Rotation!Next]_Rotation!vars
  <1> SUFFICES ASSUME Inv, [Next]_vars PROVE [Rotation!Next]_Rotation!vars
    OBVIOUS
  <1>1. CASE Next
    BY <1>1, AssignRefines DEF Next, Rotation!Next
  <1>2. CASE UNCHANGED vars
    BY <1>2 DEF vars, Rotation!vars, LastRunner, Regulars
  <1> QED
    BY <1>1, <1>2

\* Whatever assign_runner does with missing rows, NULL times and tie
\* breakers, the runners it names are those of a fair rotation.
THEOREM HistoryImplementsRotation == Spec => ImplementsRotation
  <1> QED
    BY InitRefines, NextRefines, AlwaysInv, PTL
       DEF Spec, ImplementsRotation, Rotation!Spec

LEMMA AppendsDiffer ==
  ASSUME NEW S, NEW s \in Seq(S), NEW a \in S, NEW b \in S,
         Append(s, a) = Append(s, b)
  PROVE  a = b
  <1>1. Append(s, a)[Len(s) + 1] = a /\ Append(s, b)[Len(s) + 1] = b
    OBVIOUS
  <1> QED
    BY <1>1

\* The runner of the run before is passed over whenever the close asked for
\* it, and is the only one passed over.
THEOREM ClosesAreAsAsked == Spec => AssignsAsAsked
  <1> DEFINE Closed(participants, repeat, runner) ==
                [participants |-> participants, repeat |-> repeat,
                 runner |-> runner]
             AsAsked ==
                \A participants \in SUBSET Users, repeat \in BOOLEAN,
                   runner \in Users :
                   history' = Append(history, Closed(participants, repeat, runner))
                      => Rotation!Assign(participants, repeat, runner)
  <1>1. Inv /\ Next => AsAsked
    <2> SUFFICES ASSUME Inv, Next,
                        NEW participants \in SUBSET Users,
                        NEW repeat \in BOOLEAN,
                        NEW runner \in Users,
                        history' = Append(history,
                                          Closed(participants, repeat, runner))
                 PROVE  Rotation!Assign(participants, repeat, runner)
      OBVIOUS
    <2>1. PICK p \in SUBSET Users, rep \in BOOLEAN, u \in Users :
             AssignRunner(p, rep, u)
      BY DEF Next
    <2>2. history' = Append(history, Closed(p, rep, u))
      BY <2>1 DEF AssignRunner
    <2>3. Closed(p, rep, u) = Closed(participants, repeat, runner)
      <3>1. /\ history \in Seq(ClosedRun)
            /\ Closed(p, rep, u) \in ClosedRun
            /\ Closed(participants, repeat, runner) \in ClosedRun
        BY DEF Inv, TypeOK, ClosedRun
      <3>2. Append(history, Closed(p, rep, u))
               = Append(history, Closed(participants, repeat, runner))
        BY <2>2
      <3> HIDE DEF Closed
      <3> QED
        BY <3>1, <3>2, AppendsDiffer
    <2>4. p = participants /\ rep = repeat /\ u = runner
      BY <2>3
    <2> QED
      BY <2>1, <2>4, AssignRefines
  <1>2. Inv /\ [Next]_vars => [AsAsked]_vars
    BY <1>1
  <1> HIDE DEF AsAsked
  <1>3. Spec => [][AsAsked]_vars
    BY <1>2, AlwaysInv, PTL DEF Spec
  <1> QED
    BY <1>3 DEF AsAsked, AssignsAsAsked

\* The facts proved of every fair rotation, read through the mapping.
RotationFacts == INSTANCE FairRotationProofs
    WITH served <- [u \in Users |-> stats[u].count],
         last <- LastRunner,
         regulars <- Regulars

\* Users who took part in every closed run of a channel have been sent
\* equally often, give or take one run.
THEOREM HistoryIsFair == Spec => []FairSpread
  <1>1. RotationFacts!Spec => [](RotationFacts!TypeOK /\ RotationFacts!FairSpread)
    BY RotationFacts!RotationIsFair
  <1>2. Rotation!Spec <=> RotationFacts!Spec
    BY PTL DEF Rotation!Spec, RotationFacts!Spec, Rotation!Init, RotationFacts!Init,
       Rotation!Next, RotationFacts!Next, Rotation!vars, RotationFacts!vars,
       Rotation!Assign, RotationFacts!Assign, Rotation!MayRun, RotationFacts!MayRun
  <1>3. RotationFacts!FairSpread <=> FairSpread
    BY DEF RotationFacts!FairSpread, FairSpread, Rotation!FairSpread
  <1> QED
    BY <1>1, <1>2, <1>3, HistoryImplementsRotation, PTL DEF ImplementsRotation

-----------------------------------------------------------------------------
(* The counters *)

\* Appending a run adds its number to the runs of its runner only.
LEMMA RunsOfGrows ==
  ASSUME Inv,
         NEW participants \in SUBSET Users,
         NEW repeat \in BOOLEAN,
         NEW runner \in Users,
         history' = Append(history, [participants |-> participants,
                                     repeat |-> repeat, runner |-> runner]),
         NEW u \in Users
  PROVE  /\ IsFiniteSet(RunsOf(u))
         /\ now \in Nat
         /\ now \notin RunsOf(u)
         /\ \A i \in RunsOf(u) : i \in Nat /\ i < now
         /\ RunsOf(u)' = IF u = runner THEN RunsOf(u) \cup {now} ELSE RunsOf(u)
  <1> DEFINE n == Len(history)
             run == [participants |-> participants, repeat |-> repeat,
                    runner |-> runner]
  <1>1. history \in Seq(ClosedRun) /\ run \in ClosedRun
    BY DEF Inv, TypeOK, ClosedRun
  <1>2. /\ n \in Nat
        /\ Len(history') = n + 1
        /\ history'[n + 1] = run
        /\ \A i \in 1..n : history'[i] = history[i]
    BY <1>1
  <1>3. IsFiniteSet(1..n)
    BY <1>2, FS_Interval
  <1>4. IsFiniteSet(RunsOf(u))
    BY <1>3, FS_Subset DEF RunsOf
  <1>5. \A i \in RunsOf(u) : i \in Nat /\ i < now
    BY <1>2 DEF RunsOf, now
  <1>6. now = n + 1
    BY DEF now
  <1>7. RunsOf(u)' = {i \in 1..(n + 1) : history'[i].runner = u}
    BY <1>2 DEF RunsOf
  <1>8. /\ 1..(n + 1) = 1..n \cup {n + 1}
        /\ history'[n + 1].runner = runner
    BY <1>2
  <1>9. RunsOf(u)' = IF u = runner THEN RunsOf(u) \cup {n + 1} ELSE RunsOf(u)
    BY <1>2, <1>7, <1>8 DEF RunsOf
  <1> QED
    BY <1>2, <1>4, <1>5, <1>6, <1>9

LEMMA AssignCounts ==
  ASSUME Inv, CountsAreHistory,
         NEW participants \in SUBSET Users,
         NEW repeat \in BOOLEAN,
         NEW runner \in Users,
         AssignRunner(participants, repeat, runner)
  PROVE  CountsAreHistory'
  <1> SUFFICES ASSUME NEW u \in Users
               PROVE  /\ stats'[u].count = Cardinality(RunsOf(u)')
                      /\ stats'[u].lastRun \in RunsOf(u)' \cup {0}
                      /\ \A i \in RunsOf(u)' : i <= stats'[u].lastRun
    BY DEF CountsAreHistory
  <1>1. /\ IsFiniteSet(RunsOf(u))
        /\ now \in Nat
        /\ now \notin RunsOf(u)
        /\ \A i \in RunsOf(u) : i \in Nat /\ i < now
        /\ RunsOf(u)' = IF u = runner THEN RunsOf(u) \cup {now} ELSE RunsOf(u)
    BY RunsOfGrows DEF AssignRunner
  <1>2. /\ stats[u].count = Cardinality(RunsOf(u))
        /\ stats[u].lastRun \in RunsOf(u) \cup {0}
        /\ \A i \in RunsOf(u) : i <= stats[u].lastRun
    BY DEF CountsAreHistory
  <1>3. stats'[u].count = IF u = runner THEN stats[u].count + 1
                          ELSE stats[u].count
    BY AssignInv
  <1>4. stats'[u].lastRun = IF u = runner THEN now ELSE stats[u].lastRun
    BY DEF AssignRunner, Credited, Loaded, Exists, Inv, TypeOK, RowsOK, NoStat, Stat
  <1>5. Cardinality(RunsOf(u) \cup {now}) = Cardinality(RunsOf(u)) + 1
    BY <1>1, FS_AddElement
  <1>6. CASE u = runner
    BY <1>1, <1>2, <1>3, <1>4, <1>5, <1>6
  <1>7. CASE u # runner
    BY <1>1, <1>2, <1>3, <1>4, <1>7
  <1> QED
    BY <1>6, <1>7

\* The lifetime counters of runner_stats count exactly the runs of the
\* history, for any number of users and runs.
THEOREM CountersAreRight == Spec => []CountsAreHistory
  <1>1. Init => CountsAreHistory
    <2> SUFFICES ASSUME Init PROVE CountsAreHistory
      OBVIOUS
    <2>1. \A u \in Users : RunsOf(u) = {}
      <3>1. Len(history) = 0 /\ 1..0 = {}
        BY DEF Init
      <3> QED
        BY <3>1 DEF RunsOf
    <2>2. Cardinality({}) = 0
      BY FS_EmptySet
    <2>3. \A u \in Users : stats[u].count = 0 /\ stats[u].lastRun = 0
      BY DEF Init, NoStat
    <2> QED
      BY <2>1, <2>2, <2>3 DEF CountsAreHistory
  <1>2. Inv /\ CountsAreHistory /\ [Next]_vars => CountsAreHistory'
    <2> SUFFICES ASSUME Inv, CountsAreHistory, [Next]_vars
                 PROVE  CountsAreHistory'
      OBVIOUS
    <2>1. CASE Next
      BY <2>1, AssignCounts DEF Next
    <2>2. CASE UNCHANGED vars
      <3>1. \A u \in Users : RunsOf(u)' = RunsOf(u) /\ stats'[u] = stats[u]
        BY <2>2 DEF vars, RunsOf
      <3> QED
        BY <3>1 DEF CountsAreHistory
    <2> QED
      BY <2>1, <2>2
  <1> QED
    BY <1>1, <1>2, AlwaysInv, PTL DEF Spec
=============================================================================
