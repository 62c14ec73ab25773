------------------------------ MODULE RunsApart ------------------------------
(***************************************************************************)
(* What CoffeeRuns promises each channel (fair rotation) and each user     *)
(* (the order book), and which requests must keep out of each other's way  *)
(* for the tables to keep those promises.                                  *)
(*                                                                         *)
(* No statement of the code locks what it reads, so a promise holds only   *)
(* as long as nothing it depends on is written between a request's reads   *)
(* and its commit.  Each promise needs a separation of its own, and no     *)
(* promise needs that requests are served one at a time.                   *)
(***************************************************************************)
EXTENDS CoffeeRuns

CONSTANT kitchen        \* the channel whose rotation is looked at

ASSUME KitchenAssumption == kitchen \in Channels

-----------------------------------------------------------------------------
(* Promises *)

LatestRunner(c) ==
    CHOOSE u \in Users \cup {NoUser} : IsPreviousRunner(ClosedRuns(c), u)

\* The users who have an order in every closed run of the channel.
Regulars(c) == {u \in Users : \A r \in ClosedRuns(c) : u \in Active(r)}

KitchenRotation == INSTANCE FairRotation
    WITH served <- [u \in Users |-> stats[kitchen][u].count],
         last <- LatestRunner(kitchen),
         regulars <- Regulars(kitchen)

\* Closing the runs of a channel through the database is fair rotation.
ImplementsRotation == KitchenRotation!Spec

\* Users with an order in every closed run of the channel have been sent
\* equally often, give or take one run.
FairSpread == KitchenRotation!FairSpread

\* The users with an active order, which is final.
FinalOrders(r) == {u \in Active(r) : orders[r][u].final}

Book == INSTANCE OrderBook
    WITH active <- [r \in Runs |-> [u \in Users |->
                       IF u \in Active(r) THEN orders[r][u].text ELSE NoText]],
         final <- [r \in Runs |-> FinalOrders(r)],
         usual <- prefs,
         closed <- {r \in Runs : runs[r].status = "closed"}

\* Taking orders and closing runs through the database is the order book:
\* every commit is one of its steps, and nothing is ever placed, replaced or
\* canceled in a run that is closed.
ImplementsOrderBook == Book!Spec

-----------------------------------------------------------------------------
(* Separations *)

\* A channel has one close under way at most.
ClosesApart ==
    \A s, t \in Sessions :
        (/\ tx[s].op = "close" /\ tx[t].op = "close"
         /\ ChannelOf[tx[s].run] = ChannelOf[tx[t].run]) => s = t

\* Nobody orders in a run while it is being closed.
OrdersApartFromCloses ==
    \A s, t \in Sessions :
        InOrderOp(s) /\ tx[t].op = "close" => tx[s].run # tx[t].run

\* A user has one order request under way at most in a channel.
UsersApart ==
    \A s, t \in Sessions :
        (/\ InOrderOp(s) /\ InOrderOp(t)
         /\ ChannelOf[tx[s].run] = ChannelOf[tx[t].run]
         /\ tx[s].user = tx[t].user) => s = t

\* A run has one order request under way at most.
OrdersApart ==
    \A s, t \in Sessions :
        InOrderOp(s) /\ InOrderOp(t) /\ tx[s].run = tx[t].run => s = t

\* What serving one request after the other gives, and more than is needed.
OneAtATime == \A s, t \in Sessions : tx[s] # Idle /\ tx[t] # Idle => s = t

-----------------------------------------------------------------------------
(* Why the promises hold: what a request has read is what the tables say   *)
(* until it commits.                                                       *)

\* For the ledger, when closes are apart.
SeesLedger(s) ==
    LET c == ChannelOf[tx[s].run]
    IN  /\ runs[tx[s].run].status = "open"
        /\ tx[s].step = "commit" =>
              /\ \A u \in Participants(s) : tx[s].rows[u] = stats[c][u]
              /\ \A q \in ClosedRuns(c) : runs[q].closedAt < tx[s].at

ClosesSeeLedger ==
    \A s \in Sessions : tx[s].op = "close" => SeesLedger(s)

MissingStatsBlank ==
    \A c \in Channels, u \in Users :
        ~Exists(stats[c][u]) => stats[c][u] = NoStat

ClosesOrdered ==
    \A c \in Channels :
        /\ IsFiniteSet(ClosedRuns(c))
        /\ \A p, q \in ClosedRuns(c) :
              runs[p].closedAt = runs[q].closedAt => p = q

LedgerInv ==
    ClosesSeeLedger /\ MissingStatsBlank /\ ClosesOrdered /\ LedgerExact

\* For closed runs, when nobody orders in a run that is being closed.
OrdersOnOpenRuns ==
    \A s \in Sessions : InOrderOp(s) => runs[tx[s].run].status = "open"

SeesOrders(s) ==
    tx[s].step # "orders" =>
        /\ Participants(s) = Active(tx[s].run)
        /\ \A u \in Participants(s) :
              tx[s].loaded[u].final => orders[tx[s].run][u].final

ClosesSeeOrders ==
    \A s \in Sessions : tx[s].op = "close" => SeesOrders(s)

FinalInv == OrdersOnOpenRuns /\ ClosesSeeOrders /\ ClosedOrdersFinal

\* For an order request, when nothing else touches its rows.
RowsAsSeen(t) ==
    LET row == orders[t.run][t.user]
        usual == prefs[ChannelOf[t.run]][t.user]
    IN  /\ t.step = "flush_order" => t.order = row
        /\ t.step = "flush_preference" => t.pref = usual
        /\ (t.op = "use_last" /\ t.step \in {"order", "flush_order"}) =>
               t.pref = usual
        /\ (t.op = "use_last" /\ t.step # "preference") => t.text = usual
        /\ (t.op = "cancel" /\ t.step \in {"flush_order", "commit"}) =>
               row.state = "active"

AsAsked(t) ==
    /\ t.step \in {"flush_preference", "commit"} =>
          /\ t.op = "cancel" => t.order.state = "canceled"
          /\ t.op # "cancel" => t.order = [state |-> "active", text |-> t.text,
                                           final |-> t.confirm]
    /\ t.step = "commit" /\ t.confirm => t.pref = t.text

RequestsSeeTables ==
    \A s \in Sessions : InOrderOp(s) => RowsAsSeen(tx[s]) /\ AsAsked(tx[s])

ActiveOrdersHaveText ==
    \A r \in Runs : \A u \in Active(r) : orders[r][u].text \in Texts

EffectInv == RequestsSeeTables /\ ActiveOrdersHaveText

\* For the count, when a run has one order request under way.
CountsSeeOrders ==
    \A s \in Sessions : InOrderOp(s) /\ tx[s].step = "commit" =>
        tx[s].count = ActiveCount(s, tx[s].run, tx[s].order)

\* For the choice of a runner, when closes are apart.
FairChoice(s) ==
    LET candidates == Eligible(Participants(s), tx[s].last, tx[s].repeat)
    IN  /\ tx[s].step \in {"assign", "commit"} =>
              IsPreviousRunner(ClosedRuns(ChannelOf[tx[s].run]), tx[s].last)
        /\ tx[s].step = "commit" =>
              /\ tx[s].runner \in candidates
              /\ \A u \in candidates :
                    tx[s].rows[tx[s].runner].count <= tx[s].rows[u].count

ChoicesAreFair ==
    \A s \in Sessions : tx[s].op = "close" => FairChoice(s)
=============================================================================
