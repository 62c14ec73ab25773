---------------------------- MODULE FairRotation ----------------------------
(***************************************************************************)
(* What fair runner assignment promises a channel, whatever breaks ties.   *)
(*                                                                         *)
(* Each time a run is closed someone who took part is credited with it:    *)
(* somebody with the fewest runs served among those eligible, where the    *)
(* runner of the run before is not eligible unless repeats are allowed or  *)
(* nobody else took part.                                                  *)
(*                                                                         *)
(* regulars are the users who took part in every run so far.  They are     *)
(* the ones a promise about totals can be made to: someone who skips runs  *)
(* falls behind for that reason alone.                                     *)
(***************************************************************************)
EXTENDS Naturals

CONSTANTS Users, NoUser

VARIABLES
    served,     \* [Users -> Nat]: runs served in this channel
    last,       \* the runner of the latest closed run, or NoUser
    regulars    \* the users who took part in every closed run

vars == <<served, last, regulars>>

Init ==
    /\ served = [u \in Users |-> 0]
    /\ last = NoUser
    /\ regulars = Users

MayRun(participants, repeat, u) ==
    /\ u \in participants
    /\ u = last => (repeat \/ participants = {last})

Assign(participants, repeat, runner) ==
    /\ MayRun(participants, repeat, runner)
    /\ \A u \in participants :
          MayRun(participants, repeat, u) => served[runner] <= served[u]
    /\ served' = [served EXCEPT ![runner] = @ + 1]
    /\ last' = runner
    /\ regulars' = regulars \cap participants

Next ==
    \E participants \in SUBSET Users, repeat \in BOOLEAN, runner \in Users :
        Assign(participants, repeat, runner)

Spec == Init /\ [][Next]_vars

-----------------------------------------------------------------------------
TypeOK ==
    /\ served \in [Users -> Nat]
    /\ last \in Users \cup {NoUser}
    /\ regulars \in SUBSET Users

\* Among the users who never miss a run the number of runs served differs by
\* at most one: the lowest-count rule and the exclusion of the previous
\* runner together never let anybody be sent twice more than another.
FairSpread ==
    \A u, v \in regulars : served[u] <= served[v] + 1

\* Why FairSpread is inductive: when the latest runner is passed over in
\* favour of another regular, that regular had not served more than they had.
LastServedMost ==
    last \in regulars => \A u \in regulars : served[u] <= served[last]
=============================================================================
