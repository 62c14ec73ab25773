------------------------------ MODULE OrderBook ------------------------------
(***************************************************************************)
(* What taking orders for runs promises, as the order service and the      *)
(* closing of runs were specified (core/orders, services/preferences,      *)
(* core/runs): one active order per user and run, which can be replaced or *)
(* canceled until the run is closed; a confirmed order is remembered for   *)
(* the next run in the channel; closing makes every active order final.    *)
(*                                                                         *)
(* A canceled order is no order: whether its row stays is up to the        *)
(* implementation.                                                         *)
(***************************************************************************)
EXTENDS Naturals

CONSTANTS Users, Runs, Channels, ChannelOf, Texts, NoText

VARIABLES
    active,     \* [Runs -> [Users -> the text of the active order, or NoText]]
    final,      \* [Runs -> the users whose active order is final]
    usual,      \* [Channels -> [Users -> the order to offer, or NoText]]
    closed      \* the runs that take no more orders

vars == <<active, final, usual, closed>>

Participants(r) == {u \in Users : active[r][u] # NoText}

Init ==
    /\ active = [r \in Runs |-> [u \in Users |-> NoText]]
    /\ final = [r \in Runs |-> {}]
    /\ usual = [c \in Channels |-> [u \in Users |-> NoText]]
    /\ closed = {}

HasUsual(c, u) == usual[c][u] # NoText

Remember(c, u, text) == usual' = [usual EXCEPT ![c][u] = text]

Place(r, u, text, confirm) ==
    /\ r \notin closed
    /\ active' = [active EXCEPT ![r][u] = text]
    /\ final' = [final EXCEPT ![r] = IF confirm THEN @ \cup {u} ELSE @ \ {u}]
    /\ IF confirm THEN Remember(ChannelOf[r], u, text) ELSE UNCHANGED usual
    /\ UNCHANGED closed

PlaceUsual(r, u) ==
    /\ HasUsual(ChannelOf[r], u)
    /\ Place(r, u, usual[ChannelOf[r]][u], TRUE)

Cancel(r, u) ==
    /\ r \notin closed
    /\ u \in Participants(r)
    /\ active' = [active EXCEPT ![r][u] = NoText]
    /\ final' = [final EXCEPT ![r] = @ \ {u}]
    /\ UNCHANGED <<usual, closed>>

Close(r) ==
    /\ r \notin closed
    /\ Participants(r) # {}
    /\ final' = [final EXCEPT ![r] = Participants(r)]
    /\ closed' = closed \cup {r}
    /\ UNCHANGED <<active, usual>>

Next ==
    \E r \in Runs :
        \/ \E u \in Users :
              \/ \E text \in Texts, confirm \in BOOLEAN :
                    Place(r, u, text, confirm)
              \/ PlaceUsual(r, u)
              \/ Cancel(r, u)
        \/ Close(r)

Spec == Init /\ [][Next]_vars
=============================================================================
