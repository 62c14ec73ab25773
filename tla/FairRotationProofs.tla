------------------------- MODULE FairRotationProofs -------------------------
(***************************************************************************)
(* FairRotation spreads the runs evenly over the regulars of a channel,    *)
(* for every set of users.                                                 *)
(***************************************************************************)
EXTENDS FairRotation, TLAPS

Inv == TypeOK /\ FairSpread /\ LastServedMost

LEMMA InitInv == Init => Inv
  <1> SUFFICES ASSUME Init PROVE Inv
    OBVIOUS
  <1>1. TypeOK
    BY DEF Init, TypeOK
  <1>2. FairSpread /\ LastServedMost
    BY DEF Init, FairSpread, LastServedMost
  <1> QED
    BY <1>1, <1>2 DEF Inv

LEMMA AssignInv ==
  ASSUME Inv,
         NEW participants \in SUBSET Users,
         NEW repeat \in BOOLEAN,
         NEW runner \in Users,
         Assign(participants, repeat, runner)
  PROVE  Inv'
  <1> USE DEF Inv, TypeOK
  <1>1. TypeOK'
    BY DEF Assign
  <1>2. \A u \in Users : served'[u] = IF u = runner THEN served[u] + 1
                                      ELSE served[u]
    BY DEF Assign
  <1>3. \A u \in regulars' : u \in regulars /\ u \in participants
    BY DEF Assign
  <1>4. FairSpread'
    <2> SUFFICES ASSUME NEW u \in regulars', NEW v \in regulars'
                 PROVE  served'[u] <= served'[v] + 1
      BY DEF FairSpread
    <2>1. CASE u # runner
      \* u is not credited: the difference can only shrink.
      BY <2>1, <1>2, <1>3 DEF FairSpread
    <2>2. CASE u = runner /\ MayRun(participants, repeat, v)
      \* v was eligible and had not served fewer.
      <3>1. served[u] <= served[v]
        BY <2>2, <1>3 DEF Assign
      <3> QED
        BY <3>1, <1>2, <1>3
    <2>3. CASE u = runner /\ ~MayRun(participants, repeat, v)
      \* v was passed over for being the latest runner.
      <3>1. v = last
        BY <2>3, <1>3 DEF MayRun
      <3>2. served[u] <= served[v]
        BY <3>1, <1>3 DEF LastServedMost
      <3> QED
        BY <3>2, <1>2, <1>3
    <2> QED
      BY <2>1, <2>2, <2>3
  <1>5. LastServedMost'
    <2> SUFFICES ASSUME runner \in regulars', NEW u \in regulars'
                 PROVE  served'[u] <= served'[runner]
      BY DEF LastServedMost, Assign
    <2>1. served[u] <= served[runner] + 1
      BY <1>3 DEF FairSpread
    <2> QED
      BY <2>1, <1>2, <1>3
  <1> QED
    BY <1>1, <1>4, <1>5

LEMMA NextInv == Inv /\ [Next]_vars => Inv'
  <1> SUFFICES ASSUME Inv, [Next]_vars PROVE Inv'
    OBVIOUS
  <1>1. CASE Next
    BY <1>1, AssignInv DEF Next
  <1>2. CASE UNCHANGED vars
    BY <1>2 DEF vars, Inv, TypeOK, FairSpread, LastServedMost
  <1> QED
    BY <1>1, <1>2

\* In every history of assignments the regulars' totals stay within one run
\* of each other: the promise that assign_runner's rule makes to a channel.
THEOREM RotationIsFair == Spec => [](TypeOK /\ FairSpread)
  <1>1. Spec => []Inv
    BY InitInv, NextInv, PTL DEF Spec
  <1> QED
    BY <1>1, PTL DEF Inv
=============================================================================
