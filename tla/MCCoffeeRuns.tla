---------------------------- MODULE MCCoffeeRuns ----------------------------
(***************************************************************************)
(* CoffeeRuns and its promises on two users and one channel.               *)
(***************************************************************************)
EXTENDS RunsApart, TLC

CONSTANTS ann, bob

MCUserRank == [u \in Users |-> IF u = ann THEN 1 ELSE 2]

MCChannelOf == [r \in Runs |-> kitchen]

-----------------------------------------------------------------------------
\* The tables and the actions treat alike the members of each of these sets.
SerialSymmetry == Permutations(Runs)

SessionSymmetry == Permutations(Sessions)
=============================================================================
