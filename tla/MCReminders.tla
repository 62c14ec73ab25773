---------------------------- MODULE MCReminders ----------------------------
(***************************************************************************)
(* Reminders on small instances, and what a document says of punctuality.  *)
(***************************************************************************)
EXTENDS Reminders, TLC

CONSTANT Tolerance      \* in minutes

PartitionSymmetry == Permutations(Partitions)

\* docs/harper/PLAN.md:120: the runner's reminder comes at pickup_time -
\* offset with a tolerance of a minute.  One published in time for a running
\* consumer is not later than that.
Punctual ==
    \A i \in DOMAIN attempts :
        LET a == attempts[i]
            r == At(a.of)
        IN  (r.type = "runner" /\ a.inTime) => a.at <= r.due + Tolerance
=============================================================================
