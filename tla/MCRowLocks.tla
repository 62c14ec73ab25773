----------------------------- MODULE MCRowLocks -----------------------------
(***************************************************************************)
(* RowLocks on two users whose orders have keys in the opposite order to   *)
(* their names.                                                            *)
(***************************************************************************)
EXTENDS RowLocks

CONSTANTS ann, bob

MCUserRank == [u \in Users |-> IF u = ann THEN 1 ELSE 2]

MCOrderKey == [ru \in Runs \X Users |-> IF ru[2] = bob THEN 1 ELSE 2]
=============================================================================
