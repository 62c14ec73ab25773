-------------------------- MODULE MCChannelHistory --------------------------
(***************************************************************************)
(* ChannelHistory on three users.                                          *)
(***************************************************************************)
EXTENDS ChannelHistory, TLC

CONSTANTS
    ann, bob, cyd       \* the users

MCUsers == {ann, bob, cyd}

MCUserRank == ann :> 1 @@ bob :> 2 @@ cyd :> 3
=============================================================================
