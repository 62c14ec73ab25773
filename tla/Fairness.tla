------------------------------ MODULE Fairness ------------------------------
(***************************************************************************)
(* The runner selection rule of services/fairness/service.py, as operators *)
(* on the runner_stats rows of one channel.                                *)
(*                                                                         *)
(* A row is [count, lastRun, created]: runs_served_count, last_run_at      *)
(* (0 for NULL, which _sort_key reads as the epoch) and created_at.  A     *)
(* row that does not exist is NoStat; every existing row has created > 0.  *)
(*                                                                         *)
(* Rows first created by the same call have created_at readings that       *)
(* follow the order in which participants are listed, or coincide, and     *)
(* then str(user_id) decides.  Either way a fixed total order of the users *)
(* breaks the tie: UserRank stands for it.                                 *)
(***************************************************************************)
EXTENDS Naturals

CONSTANTS
    Users,      \* the Slack users known to the users table
    NoUser,     \* NULL in a column that refers to a user
    UserRank    \* the last tie breaker between two users

ASSUME UserRankAssumption ==
    /\ UserRank \in [Users -> Nat]
    /\ \A u, v \in Users : UserRank[u] = UserRank[v] => u = v

ASSUME NoUserAssumption == NoUser \notin Users

Stat == [count : Nat, lastRun : Nat, created : Nat]

NoStat == [count |-> 0, lastRun |-> 0, created |-> 0]

Exists(stat) == stat.created > 0

\* The rows _load_stats hands to assign_runner: a participant without a row
\* gets a fresh one, added to the session.
Loaded(stat, now) ==
    IF Exists(stat) THEN stat
    ELSE [count |-> 0, lastRun |-> 0, created |-> now]

\* Mutant: the previous runner is never left out.
EligibleAll(participants, last, repeat) == participants

\* Who may be picked: the previous runner of the channel is left out unless
\* repeats are allowed or nobody else takes part.
Eligible(participants, last, repeat) ==
    IF ~repeat /\ last \in participants /\ participants # {last}
    THEN participants \ {last}
    ELSE participants

\* The tuple order of _sort_key between two users' rows.
Before(stats, u, v) ==
    \/ stats[u].count < stats[v].count
    \/ /\ stats[u].count = stats[v].count
       /\ \/ stats[u].lastRun < stats[v].lastRun
          \/ /\ stats[u].lastRun = stats[v].lastRun
             /\ \/ stats[u].created < stats[v].created
                \/ /\ stats[u].created = stats[v].created
                   /\ UserRank[u] < UserRank[v]

\* Mutant: max instead of min.
IsChosenMost(stats, candidates, u) ==
    /\ u \in candidates
    /\ \A v \in candidates : ~Before(stats, u, v)

\* u is what min(candidate_stats, key=_sort_key) returns.
IsChosen(stats, candidates, u) ==
    /\ u \in candidates
    /\ \A v \in candidates : ~Before(stats, v, u)

\* Mutant: last_run_at is not set.
CreditedUndated(stat, now) ==
    [count |-> stat.count + 1, lastRun |-> stat.lastRun,
     created |-> stat.created]

\* Mutant: the row is built anew and loses created_at.
CreditedAnew(stat, now) == [count |-> stat.count + 1, lastRun |-> now]

\* The chosen row after assign_runner.
Credited(stat, now) ==
    [count |-> stat.count + 1, lastRun |-> now, created |-> stat.created]
=============================================================================
