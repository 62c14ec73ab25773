------------------------------ MODULE MCAdmin ------------------------------
(***************************************************************************)
(* Admin with an administrator by role and a member without rights.        *)
(***************************************************************************)
EXTENDS Admin

MCActors == {[slackUserId |-> "ann", slackRoles |-> {"owner"}],
             [slackUserId |-> "bob", slackRoles |-> {"member"}]}
=============================================================================
