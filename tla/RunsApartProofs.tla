--------------------------- MODULE RunsApartProofs ---------------------------
(***************************************************************************)
(* The promises of RunsApart, for any number of users, runs, channels and  *)
(* concurrent sessions, each from the separations it needs.                *)
(*                                                                         *)
(* Every proof has the same shape.  An invariant says that what a request  *)
(* has read is what the tables still say when it commits; its "Frame"      *)
(* lemma treats the steps that leave it alone, one lemma each the steps    *)
(* that read or write what it is about, its "Step" lemma puts them         *)
(* together.  All build on Inv of CoffeeRuns, which needs no separation.   *)
(***************************************************************************)
EXTENDS RunsApart, CoffeeRunsProofs

(* What a step does to the sessions *)

\* Session s goes from its record to t, and no other session moves.
Becomes(s, t) ==
    /\ tx'[s] = t
    /\ \A o \in Sessions : o # s => tx'[o] = tx[o]

LEMMA MovesTo ==
  ASSUME Inv, NEW s \in Sessions, NEW t, tx' = [tx EXCEPT ![s] = t]
  PROVE  Becomes(s, t)
  BY ReplaceSession DEF Becomes, Inv

LEMMA Ends ==
  ASSUME Inv, NEW s \in Sessions, End(s)
  PROVE  Becomes(s, Idle)
  BY MovesTo DEF End

\* Order requests: the steps from the first statement to the commit.
BeginOrder(s) ==
    \E r \in Runs, u \in Users :
        \/ \E text \in Texts, confirm \in BOOLEAN :
              SubmitOrder(s, r, u, text, confirm)
        \/ UseLastOrder(s, r, u)
        \/ CancelOrder(s, r, u)

OrderStep(s) ==
    \/ BeginOrder(s) \/ LoadPreference(s) \/ LoadOrder(s)
    \/ FlushOrder(s) \/ FlushPreference(s)

\* Closes, up to the commit.
CloseStep(s) ==
    \/ \E r \in Runs, repeat \in BOOLEAN : CloseRun(s, r, repeat)
    \/ LoadActiveOrders(s) \/ LoadPreviousRunner(s) \/ AssignRunner(s)

LEMMA Steps ==
  ASSUME Next
  PROVE  \E s \in Sessions : \/ OrderStep(s) \/ CommitOrder(s)
                             \/ CloseStep(s) \/ CommitClose(s)
                             \/ Abort(s)
  BY DEF Next, Request, Statement, LockingStatement, OrderStep, BeginOrder,
         CloseStep

\* A request starts idle, on a run that is open.
LEMMA BeginOrderEffect ==
  ASSUME Inv, NEW s \in Sessions, BeginOrder(s)
  PROVE  /\ tx[s] = Idle
         /\ Becomes(s, tx'[s])
         /\ UNCHANGED <<Tables, clock>>
         /\ InOrderOp(s)'
         /\ tx'[s].run \in Runs
         /\ runs[tx'[s].run].status = "open"
         /\ tx'[s].step \in {"preference", "order"}
         /\ tx'[s].op = "use_last" <=> tx'[s].step = "preference"
  <1>1. PICK r \in Runs, u \in Users :
           \/ \E text \in Texts, confirm \in BOOLEAN :
                 SubmitOrder(s, r, u, text, confirm)
           \/ UseLastOrder(s, r, u)
           \/ CancelOrder(s, r, u)
    BY DEF BeginOrder
  <1>2. ASSUME NEW op \in {"submit", "use_last", "cancel"},
               NEW step \in {"preference", "order"}, NEW text, NEW confirm,
               Begin(s, op, step, r, u, text, confirm),
               op = "use_last" <=> step = "preference"
        PROVE  /\ tx[s] = Idle
               /\ Becomes(s, tx'[s])
               /\ UNCHANGED <<Tables, clock>>
               /\ InOrderOp(s)'
               /\ tx'[s].run \in Runs
               /\ runs[tx'[s].run].status = "open"
               /\ tx'[s].step \in {"preference", "order"}
               /\ tx'[s].op = "use_last" <=> tx'[s].step = "preference"
    <2> DEFINE t == [op |-> op, step |-> step, run |-> r, user |-> u,
                     text |-> text, confirm |-> confirm, order |-> NoOrder,
                     pref |-> NoText, count |-> 0]
    <2>1. tx' = [tx EXCEPT ![s] = t]
      BY <1>2 DEF Begin
    <2>2. t.op = op /\ t.step = step /\ t.run = r
      OBVIOUS
    <2> HIDE DEF t
    <2>3. Becomes(s, t)
      BY <2>1, MovesTo
    <2> QED
      BY <1>2, <2>2, <2>3 DEF Begin, Becomes, InOrderOp, IsOpen
  <1> QED
    BY <1>1, <1>2 DEF SubmitOrder, UseLastOrder, CancelOrder

\* A request in progress keeps its operation, run and user to its end.
LEMMA OrderStepEffect ==
  ASSUME Inv, NEW s \in Sessions,
         \/ LoadPreference(s) \/ LoadOrder(s)
         \/ FlushOrder(s) \/ FlushPreference(s)
  PROVE  /\ InOrderOp(s)
         /\ UNCHANGED <<Tables, clock>>
         /\ \/ Becomes(s, Idle)
            \/ /\ Becomes(s, tx'[s])
               /\ tx'[s].op = tx[s].op
               /\ tx'[s].run = tx[s].run
               /\ tx'[s].user = tx[s].user
  <1>1. InOrderOp(s) /\ UNCHANGED <<Tables, clock>>
    BY DEF LoadPreference, LoadOrder, FlushOrder, FlushPreference
  <1>2. tx[s] \in OrderTx
    BY <1>1, InOrderRequest
  <1>3. ASSUME NEW t, t.op = tx[s].op, t.run = tx[s].run, t.user = tx[s].user,
               tx' = [tx EXCEPT ![s] = t]
        PROVE  /\ Becomes(s, tx'[s])
               /\ tx'[s].op = tx[s].op
               /\ tx'[s].run = tx[s].run
               /\ tx'[s].user = tx[s].user
    <2>1. Becomes(s, t)
      BY <1>3, MovesTo
    <2> QED
      BY <1>3, <2>1 DEF Becomes
  <1>4. CASE End(s)
    BY <1>1, <1>4, Ends
  <1>5. CASE LoadPreference(s) /\ ~End(s)
    BY <1>1, <1>2, <1>3, <1>5 DEF LoadPreference, OrderTx
  <1>6. CASE LoadOrder(s) /\ ~End(s)
    BY <1>1, <1>2, <1>3, <1>6 DEF LoadOrder, OrderTx
  <1>7. CASE FlushOrder(s) /\ ~End(s)
    <2> DEFINE version == OrderVersion(s)
               count == ActiveCount(s, tx[s].run, version)
               pref == IF tx[s].op = "use_last" THEN tx[s].pref
                       ELSE prefs[ChannelOf[tx[s].run]][tx[s].user]
    <2>1. \/ tx' = [tx EXCEPT ![s] = [tx[s] EXCEPT !.step = "flush_preference",
                                         !.order = version, !.pref = pref]]
          \/ tx' = [tx EXCEPT ![s] = [tx[s] EXCEPT !.step = "commit",
                                         !.order = version, !.count = count]]
      BY <1>7 DEF FlushOrder
    <2> HIDE DEF version, count, pref
    <2> QED
      BY <1>1, <1>2, <1>3, <2>1 DEF OrderTx
  <1>8. CASE FlushPreference(s) /\ ~End(s)
    BY <1>1, <1>2, <1>3, <1>8 DEF FlushPreference, OrderTx
  <1> QED
    BY <1>4, <1>5, <1>6, <1>7, <1>8

\* Closes begin idle, on a run that is open.
LEMMA CloseRunEffect ==
  ASSUME Inv, NEW s \in Sessions, NEW r \in Runs, NEW repeat \in BOOLEAN,
         CloseRun(s, r, repeat)
  PROVE  /\ tx[s] = Idle
         /\ Becomes(s, tx'[s])
         /\ UNCHANGED <<Tables, clock>>
         /\ tx'[s].op = "close"
         /\ tx'[s].step = "orders"
         /\ tx'[s].run \in Runs
         /\ runs[tx'[s].run].status = "open"
  <1> DEFINE t == [op |-> "close", step |-> "orders", run |-> r,
                   repeat |-> repeat, loaded |-> [u \in Users |-> NoOrder],
                   last |-> NoUser, rows |-> [u \in Users |-> NoStat],
                   runner |-> NoUser, at |-> 0]
  <1>1. tx' = [tx EXCEPT ![s] = t]
    BY DEF CloseRun
  <1>2. t.op = "close" /\ t.step = "orders" /\ t.run = r
    OBVIOUS
  <1> HIDE DEF t
  <1>3. Becomes(s, t)
    BY <1>1, MovesTo
  <1> QED
    BY <1>2, <1>3 DEF CloseRun, Becomes, IsOpen

LEMMA LoadActiveOrdersEffect ==
  ASSUME Inv, NEW s \in Sessions, LoadActiveOrders(s)
  PROVE  /\ tx[s] \in CloseTx
         /\ Closing(s, "orders")
         /\ UNCHANGED <<Tables, clock>>
         /\ \/ Becomes(s, Idle)
            \/ Becomes(s, [tx[s] EXCEPT !.step = "previous",
                  !.loaded = [u \in Users |-> IF u \in Active(tx[s].run)
                                              THEN orders[tx[s].run][u]
                                              ELSE NoOrder]])
  <1>1. tx[s] \in CloseTx /\ Closing(s, "orders") /\ UNCHANGED <<Tables, clock>>
    BY InClose DEF LoadActiveOrders, Closing
  <1>2. CASE End(s)
    BY <1>1, <1>2, Ends
  <1>3. CASE ~End(s)
    <2> DEFINE loaded == [u \in Users |-> IF u \in Active(tx[s].run)
                                          THEN orders[tx[s].run][u]
                                          ELSE NoOrder]
               t == [tx[s] EXCEPT !.step = "previous", !.loaded = loaded]
    <2>1. tx' = [tx EXCEPT ![s] = t]
      BY <1>3 DEF LoadActiveOrders
    <2>2. Becomes(s, t)
      <3> HIDE DEF t
      <3> QED
        BY <2>1, MovesTo
    <2> QED
      BY <1>1, <2>2
  <1> QED
    BY <1>2, <1>3

LEMMA LoadPreviousRunnerEffect ==
  ASSUME Inv, NEW s \in Sessions, LoadPreviousRunner(s)
  PROVE  /\ tx[s] \in CloseTx
         /\ Closing(s, "previous")
         /\ UNCHANGED <<Tables, clock>>
         /\ \E u \in Users \cup {NoUser} :
               /\ IsPreviousRunner(ClosedRuns(ChannelOf[tx[s].run])
                                      \ {tx[s].run}, u)
               /\ Becomes(s, [tx[s] EXCEPT !.step = "assign", !.last = u])
  <1>1. /\ tx[s] \in CloseTx /\ Closing(s, "previous")
        /\ UNCHANGED <<Tables, clock>>
    BY InClose DEF LoadPreviousRunner, Closing
  <1>2. PICK u \in Users \cup {NoUser} :
           /\ IsPreviousRunner(ClosedRuns(ChannelOf[tx[s].run])
                                  \ {tx[s].run}, u)
           /\ tx' = [tx EXCEPT ![s].step = "assign", ![s].last = u]
    BY DEF LoadPreviousRunner
  <1> DEFINE t == [tx[s] EXCEPT !.step = "assign", !.last = u]
  <1>3. tx' = [tx EXCEPT ![s] = t]
    BY <1>2
  <1>4. Becomes(s, t)
    <2> HIDE DEF t
    <2> QED
      BY <1>3, MovesTo
  <1> QED
    BY <1>1, <1>2, <1>4

\* The rows a close chooses from, as it read them.
RowsRead(s) == [u \in Users |-> IF u \in Participants(s)
                                THEN stats[ChannelOf[tx[s].run]][u] ELSE NoStat]

LEMMA AssignRunnerEffect ==
  ASSUME Inv, NEW s \in Sessions, AssignRunner(s)
  PROVE  /\ tx[s] \in CloseTx
         /\ Closing(s, "assign")
         /\ UNCHANGED Tables
         /\ clock' = clock + 1
         /\ \E u \in Participants(s) :
               /\ IsChosen([v \in Participants(s) |->
                               Loaded(RowsRead(s)[v], clock + 1)],
                           Eligible(Participants(s), tx[s].last, tx[s].repeat),
                           u)
               /\ Becomes(s, [tx[s] EXCEPT !.step = "commit",
                                           !.rows = RowsRead(s), !.runner = u,
                                           !.at = clock + 1])
  <1>1. /\ tx[s] \in CloseTx /\ Closing(s, "assign")
        /\ UNCHANGED Tables /\ clock' = clock + 1
    BY InClose DEF AssignRunner, Closing
  <1>2. PICK u \in Participants(s) :
           /\ IsChosen([v \in Participants(s) |->
                           Loaded(RowsRead(s)[v], clock + 1)],
                       Eligible(Participants(s), tx[s].last, tx[s].repeat), u)
           /\ tx' = [tx EXCEPT ![s].step = "commit", ![s].rows = RowsRead(s),
                               ![s].runner = u, ![s].at = clock + 1]
    BY DEF AssignRunner, RowsRead
  <1> DEFINE t == [tx[s] EXCEPT !.step = "commit", !.rows = RowsRead(s),
                                !.runner = u, !.at = clock + 1]
  <1>3. tx' = [tx EXCEPT ![s] = t]
    BY <1>2
  <1>4. Becomes(s, t)
    <2> HIDE DEF t
    <2> QED
      BY <1>3, MovesTo
  <1> QED
    BY <1>1, <1>2, <1>4

\* The order requests' steps before their commit, and the ends of requests
\* given up, as the invariants of closes see them.
LEMMA OrderQuiet ==
  ASSUME Inv, NEW s \in Sessions, OrderStep(s) \/ Abort(s)
  PROVE  /\ Becomes(s, tx'[s])
         /\ UNCHANGED <<Tables, clock>>
         /\ tx'[s].op # "close"
         /\ InOrderOp(s)' =>
               \/ tx[s] = Idle /\ runs[tx'[s].run].status = "open"
               \/ /\ InOrderOp(s)
                  /\ tx'[s].op = tx[s].op
                  /\ tx'[s].run = tx[s].run
                  /\ tx'[s].user = tx[s].user
  <1>1. CASE BeginOrder(s)
    BY <1>1, BeginOrderEffect DEF InOrderOp
  <1>2. CASE \/ LoadPreference(s) \/ LoadOrder(s)
             \/ FlushOrder(s) \/ FlushPreference(s)
    BY <1>2, OrderStepEffect DEF Becomes, Idle, InOrderOp
  <1>3. CASE Abort(s)
    BY <1>3, Ends DEF Abort, Becomes, Idle, InOrderOp
  <1> QED
    BY <1>1, <1>2, <1>3 DEF OrderStep

\* The closes' steps before their commit.
LEMMA CloseQuiet ==
  ASSUME Inv, NEW s \in Sessions, CloseStep(s)
  PROVE  /\ Becomes(s, tx'[s])
         /\ UNCHANGED Tables
         /\ ~InOrderOp(s)'
         /\ tx'[s].op = "close" =>
               \/ /\ tx[s] = Idle
                  /\ tx'[s].step = "orders"
                  /\ runs[tx'[s].run].status = "open"
               \/ /\ tx[s].op = "close"
                  /\ tx'[s].run = tx[s].run
                  /\ tx'[s].step = "commit" => AssignRunner(s)
  <1>1. CASE \E r \in Runs, repeat \in BOOLEAN : CloseRun(s, r, repeat)
    <2>1. PICK r \in Runs, repeat \in BOOLEAN : CloseRun(s, r, repeat)
      BY <1>1
    <2> QED
      BY <2>1, CloseRunEffect DEF InOrderOp
  <1>2. CASE LoadActiveOrders(s)
    <2>1. /\ tx[s] \in CloseTx /\ Closing(s, "orders") /\ UNCHANGED Tables
      BY <1>2, LoadActiveOrdersEffect
    <2>2. ASSUME NEW t, t = Idle \/ (/\ t.op = "close" /\ t.run = tx[s].run
                                     /\ t.step = "previous"),
                 Becomes(s, t)
          PROVE  /\ Becomes(s, tx'[s])
                 /\ ~InOrderOp(s)'
                 /\ tx'[s].op = "close" => /\ tx'[s].run = tx[s].run
                                           /\ tx'[s].step = "previous"
      BY <2>2 DEF Becomes, Idle, InOrderOp
    <2>3. ASSUME NEW loaded
          PROVE  LET t == [tx[s] EXCEPT !.step = "previous", !.loaded = loaded]
                 IN  /\ t.op = "close" /\ t.run = tx[s].run
                     /\ t.step = "previous"
      BY <2>1 DEF CloseTx
    <2>4. /\ Becomes(s, tx'[s])
          /\ ~InOrderOp(s)'
          /\ tx'[s].op = "close" => /\ tx'[s].run = tx[s].run
                                    /\ tx'[s].step = "previous"
      BY <1>2, <2>2, <2>3, LoadActiveOrdersEffect
    <2> QED
      BY <2>1, <2>4 DEF Closing
  <1>3. CASE LoadPreviousRunner(s)
    <2>1. /\ tx[s] \in CloseTx /\ tx[s].op = "close" /\ UNCHANGED Tables
      BY <1>3, LoadPreviousRunnerEffect DEF Closing
    <2>2. PICK u : Becomes(s, [tx[s] EXCEPT !.step = "assign", !.last = u])
      BY <1>3, LoadPreviousRunnerEffect
    <2> DEFINE t == [tx[s] EXCEPT !.step = "assign", !.last = u]
    <2>3. t.op = "close" /\ t.run = tx[s].run /\ t.step = "assign"
      BY <2>1 DEF CloseTx
    <2>4. tx'[s] = t /\ Becomes(s, tx'[s])
      BY <2>2 DEF Becomes
    <2> HIDE DEF t
    <2> QED
      BY <2>1, <2>3, <2>4 DEF InOrderOp
  <1>4. CASE AssignRunner(s)
    <2>1. /\ tx[s] \in CloseTx /\ tx[s].op = "close" /\ UNCHANGED Tables
      BY <1>4, AssignRunnerEffect DEF Closing
    <2>2. PICK u : Becomes(s, [tx[s] EXCEPT !.step = "commit",
                                            !.rows = RowsRead(s), !.runner = u,
                                            !.at = clock + 1])
      BY <1>4, AssignRunnerEffect
    <2> DEFINE t == [tx[s] EXCEPT !.step = "commit", !.rows = RowsRead(s),
                                  !.runner = u, !.at = clock + 1]
    <2>3. t.op = "close" /\ t.run = tx[s].run
      BY <2>1 DEF CloseTx
    <2>4. tx'[s] = t /\ Becomes(s, tx'[s])
      BY <2>2 DEF Becomes
    <2> HIDE DEF t
    <2> QED
      BY <1>4, <2>1, <2>3, <2>4 DEF InOrderOp
  <1> QED
    BY <1>1, <1>2, <1>3, <1>4 DEF CloseStep

-----------------------------------------------------------------------------
(* What the commits do to the tables *)

LEMMA CommitOrderEffect ==
  ASSUME Inv, NEW s \in Sessions, CommitOrder(s)
  PROVE  LET r == tx[s].run
             u == tx[s].user
         IN  /\ InOrderOp(s) /\ tx[s] \in OrderTx /\ OrderTxOK(tx[s])
             /\ tx[s].step = "commit"
             /\ UNCHANGED <<runs, stats, clock>>
             /\ Becomes(s, Idle)
             /\ \A q \in Runs, v \in Users :
                   orders'[q][v] = IF q = r /\ v = u THEN tx[s].order
                                   ELSE orders[q][v]
             /\ \A d \in Channels, v \in Users :
                   prefs'[d][v] = IF d = ChannelOf[r] /\ v = u /\ tx[s].confirm
                                  THEN tx[s].pref ELSE prefs[d][v]
  <1> DEFINE r == tx[s].run
             u == tx[s].user
  <1>1. /\ InOrderOp(s) /\ tx[s] \in OrderTx /\ OrderTxOK(tx[s])
        /\ tx[s].step = "commit"
        /\ r \in Runs /\ u \in Users /\ ChannelOf[r] \in Channels
    BY InOrderRequest, CoffeeRunsAssumption DEF CommitOrder, OrderTx
  <1>2. UNCHANGED <<runs, stats, clock>> /\ Becomes(s, Idle)
    BY Ends DEF CommitOrder
  <1>3. \A q \in Runs, v \in Users :
            orders'[q][v] = IF q = r /\ v = u THEN tx[s].order
                            ELSE orders[q][v]
    BY <1>1 DEF CommitOrder, Inv, TypeOK
  <1>4. \A d \in Channels, v \in Users :
            prefs'[d][v] = IF d = ChannelOf[r] /\ v = u /\ tx[s].confirm
                           THEN tx[s].pref ELSE prefs[d][v]
    BY <1>1 DEF CommitOrder, Inv, TypeOK
  <1> QED
    BY <1>1, <1>2, <1>3, <1>4

\* A close that gets through.  The others leave the tables as they are.
Closes(s) ==
    LET r == tx[s].run
    IN  /\ UNCHANGED prefs
        /\ \A q \in Runs :
              runs'[q] = IF q = r
                         THEN [status |-> "closed", runner |-> tx[s].runner,
                               closedAt |-> tx[s].at]
                         ELSE runs[q]
        /\ \A q \in Runs, u \in Users :
              /\ orders'[q][u].state = orders[q][u].state
              /\ orders'[q][u].text = orders[q][u].text
              /\ orders'[q][u].final =
                    IF q = r /\ u \in Participants(s)
                    THEN Written(orders[r][u].final, tx[s].loaded[u].final, TRUE)
                    ELSE orders[q][u].final
        /\ \A q \in Runs : q # r => orders'[q] = orders[q]
        /\ \A c \in Channels, u \in Users :
              stats'[c][u] = IF c = ChannelOf[r] /\ u \in Participants(s)
                             THEN StatVersion(s, u, stats[c][u])
                             ELSE stats[c][u]

LEMMA CommitCloseEffect ==
  ASSUME Inv, NEW s \in Sessions, CommitClose(s)
  PROVE  /\ tx[s] \in CloseTx /\ CloseTxOK(tx[s]) /\ Closing(s, "commit")
         /\ tx[s].run \in Runs /\ ChannelOf[tx[s].run] \in Channels
         /\ tx[s].runner \in Participants(s) /\ tx[s].runner \in Users
         /\ clock' = clock
         /\ Becomes(s, Idle)
         /\ UNCHANGED Tables \/ Closes(s)
  <1> DEFINE r == tx[s].run
             c == ChannelOf[r]
  <1>1. /\ tx[s] \in CloseTx /\ CloseTxOK(tx[s]) /\ Closing(s, "commit")
        /\ r \in Runs /\ c \in Channels
        /\ tx[s].runner \in Participants(s) /\ tx[s].runner \in Users
    BY InClose, CoffeeRunsAssumption
    DEF CommitClose, Closing, CloseTx, CloseTxOK, Participants
  <1>2. clock' = clock /\ Becomes(s, Idle)
    BY Ends DEF CommitClose
  <1>3. TypeOK
    BY DEF Inv
  <1>4. CASE UNCHANGED Tables
    BY <1>1, <1>2, <1>4
  <1>5. CASE ~UNCHANGED Tables
    <2> DEFINE new(u) == [tx[s].loaded[u] EXCEPT !.final = TRUE]
               snapshot == [u \in Users |->
                  IF u \in Participants(s)
                  THEN UpdatedOrder(orders[r][u], tx[s].loaded[u], new(u))
                  ELSE orders[r][u]]
               counted == [u \in Users |->
                  IF u \in Participants(s) THEN StatVersion(s, u, stats[c][u])
                  ELSE stats[c][u]]
    <2>1. /\ UNCHANGED prefs
          /\ runs' = [runs EXCEPT ![r] = [status |-> "closed",
                                          runner |-> tx[s].runner,
                                          closedAt |-> tx[s].at]]
          /\ orders' = [orders EXCEPT ![r] = snapshot]
          /\ stats' = [stats EXCEPT ![c] = counted]
      BY <1>5 DEF CommitClose
    <2>2. ASSUME NEW u \in Users
          PROVE  /\ snapshot[u].state = orders[r][u].state
                 /\ snapshot[u].text = orders[r][u].text
                 /\ snapshot[u].final =
                       IF u \in Participants(s)
                       THEN Written(orders[r][u].final,
                                    tx[s].loaded[u].final, TRUE)
                       ELSE orders[r][u].final
      <3>1. tx[s].loaded[u] \in Order
        BY <1>1 DEF CloseTx
      <3>2. /\ new(u).state = tx[s].loaded[u].state
            /\ new(u).text = tx[s].loaded[u].text
            /\ new(u).final = TRUE
        BY <3>1 DEF Order
      <3> HIDE DEF new
      <3> QED
        BY <3>2 DEF UpdatedOrder, Written
    <2> HIDE DEF snapshot
    <2>3. \A q \in Runs :
             runs'[q] = IF q = r
                        THEN [status |-> "closed", runner |-> tx[s].runner,
                              closedAt |-> tx[s].at]
                        ELSE runs[q]
      BY <1>1, <1>3, <2>1 DEF TypeOK
    <2>4. \A q \in Runs : orders'[q] = IF q = r THEN snapshot ELSE orders[q]
      BY <1>1, <1>3, <2>1 DEF TypeOK
    <2>5. \A d \in Channels, u \in Users :
             stats'[d][u] = IF d = c /\ u \in Participants(s)
                            THEN StatVersion(s, u, stats[d][u])
                            ELSE stats[d][u]
      BY <1>1, <1>3, <2>1 DEF TypeOK
    <2>6. ASSUME NEW q \in Runs, NEW u \in Users
          PROVE  /\ orders'[q][u].state = orders[q][u].state
                 /\ orders'[q][u].text = orders[q][u].text
                 /\ orders'[q][u].final =
                       IF q = r /\ u \in Participants(s)
                       THEN Written(orders[r][u].final,
                                    tx[s].loaded[u].final, TRUE)
                       ELSE orders[q][u].final
      BY <2>2, <2>4
    <2>7. Closes(s)
      BY <2>1, <2>3, <2>4, <2>5, <2>6 DEF Closes
    <2> QED
      BY <1>1, <1>2, <2>7
  <1> QED
    BY <1>4, <1>5

\* A close that gets through closes one run more, and changes nobody's order
\* but for is_final.
LEMMA ClosedRunsGrow ==
  ASSUME Inv, NEW s \in Sessions, CommitClose(s), Closes(s)
  PROVE  /\ \A c \in Channels : ClosedRuns(c)' =
                IF c = ChannelOf[tx[s].run] THEN ClosedRuns(c) \cup {tx[s].run}
                ELSE ClosedRuns(c)
         /\ \A q \in Runs : Active(q)' = Active(q)
  <1>1. tx[s].run \in Runs
    BY CommitCloseEffect
  <1>2. \A q \in Runs : runs'[q].status = IF q = tx[s].run THEN "closed"
                                          ELSE runs[q].status
    BY DEF Closes
  <1>3. ASSUME NEW c \in Channels
        PROVE  ClosedRuns(c)' =
                  IF c = ChannelOf[tx[s].run] THEN ClosedRuns(c) \cup {tx[s].run}
                  ELSE ClosedRuns(c)
    BY <1>1, <1>2 DEF ClosedRuns
  <1>4. \A q \in Runs : Active(q)' = Active(q)
    BY DEF Closes, Active
  <1> QED
    BY <1>3, <1>4

-----------------------------------------------------------------------------
(* The ledger: closes of a channel apart *)

\* A step that writes neither runs nor statistics, and takes no close to its
\* commit.
LEMMA LedgerFrame ==
  ASSUME Inv, LedgerInv, NEW s \in Sessions, Becomes(s, tx'[s]),
         UNCHANGED <<runs, stats>>,
         tx'[s].op = "close" => /\ tx'[s].step # "commit"
                                /\ runs[tx'[s].run].status = "open"
  PROVE  LedgerInv'
  <1>1. \A c : ClosedRuns(c)' = ClosedRuns(c)
    BY DEF ClosedRuns
  <1>2. ClosesSeeLedger'
    <2> SUFFICES ASSUME NEW o \in Sessions, tx'[o].op = "close"
                 PROVE  SeesLedger(o)'
      BY DEF ClosesSeeLedger
    <2>1. CASE o = s
      BY <2>1 DEF SeesLedger
    <2>2. CASE o # s
      <3>1. tx'[o] = tx[o]
        BY <2>2 DEF Becomes
      <3>2. SeesLedger(o)
        BY <3>1 DEF LedgerInv, ClosesSeeLedger
      <3> QED
        BY <3>1, <3>2 DEF SeesLedger, ClosedRuns, Participants
    <2> QED
      BY <2>1, <2>2
  <1>3. MissingStatsBlank'
    BY DEF LedgerInv, MissingStatsBlank
  <1>4. ClosesOrdered'
    BY <1>1 DEF LedgerInv, ClosesOrdered
  <1>5. LedgerExact'
    BY <1>1 DEF LedgerInv, LedgerExact
  <1> QED
    BY <1>2, <1>3, <1>4, <1>5 DEF LedgerInv

\* The reading of the clock at the choice is later than any close so far.
LEMMA LedgerAssign ==
  ASSUME Inv, LedgerInv, NEW s \in Sessions, AssignRunner(s)
  PROVE  LedgerInv'
  <1>1. /\ tx[s] \in CloseTx /\ Closing(s, "assign")
        /\ UNCHANGED <<runs, stats>>
    BY AssignRunnerEffect DEF Tables
  <1>2. PICK u \in Participants(s) :
           Becomes(s, [tx[s] EXCEPT !.step = "commit", !.rows = RowsRead(s),
                                    !.runner = u, !.at = clock + 1])
    BY AssignRunnerEffect
  <1>3. /\ tx'[s].op = "close" /\ tx'[s].run = tx[s].run
        /\ tx'[s].rows = RowsRead(s) /\ tx'[s].at = clock + 1
        /\ tx'[s].loaded = tx[s].loaded
    BY <1>1, <1>2 DEF Becomes, CloseTx
  <1>4. \A c : ClosedRuns(c)' = ClosedRuns(c)
    BY <1>1 DEF ClosedRuns
  <1>5. ClosesSeeLedger'
    <2> SUFFICES ASSUME NEW o \in Sessions, tx'[o].op = "close"
                 PROVE  SeesLedger(o)'
      BY DEF ClosesSeeLedger
    <2>1. CASE o = s
      <3>1. runs[tx[s].run].status = "open"
        BY <1>1 DEF LedgerInv, ClosesSeeLedger, SeesLedger, Closing
      <3>2. Participants(s)' = Participants(s) /\ Participants(s) \subseteq Users
        BY <1>3 DEF Participants
      <3>3. \A v \in Participants(s) :
               RowsRead(s)[v] = stats[ChannelOf[tx[s].run]][v]
        BY <3>2 DEF RowsRead
      <3>4. \A c : \A q \in ClosedRuns(c) : runs[q].closedAt < clock + 1
        BY DEF Inv, TypeOK, ClosedRunsAreBacked, ClosedRuns
      <3> QED
        BY <1>1, <1>3, <2>1, <3>1, <3>2, <3>3, <3>4
        DEF SeesLedger, ClosedRuns
    <2>2. CASE o # s
      <3>1. tx'[o] = tx[o]
        BY <1>2, <2>2 DEF Becomes
      <3>2. SeesLedger(o)
        BY <3>1 DEF LedgerInv, ClosesSeeLedger
      <3> QED
        BY <1>1, <3>1, <3>2 DEF SeesLedger, ClosedRuns, Participants
    <2> QED
      BY <2>1, <2>2
  <1>6. MissingStatsBlank'
    BY <1>1 DEF LedgerInv, MissingStatsBlank
  <1>7. ClosesOrdered'
    BY <1>1, <1>4 DEF LedgerInv, ClosesOrdered
  <1>8. LedgerExact'
    BY <1>1, <1>4 DEF LedgerInv, LedgerExact
  <1> QED
    BY <1>5, <1>6, <1>7, <1>8 DEF LedgerInv

\* Loading a row creates it if need be and changes nothing it counts.
LEMMA LoadedStat ==
  ASSUME NEW stat \in Stat, ~Exists(stat) => stat = NoStat,
         NEW t \in Nat, t > 0
  PROVE  /\ Loaded(stat, t) \in Stat
         /\ Exists(Loaded(stat, t))
         /\ Loaded(stat, t).count = stat.count
         /\ Loaded(stat, t).lastRun = stat.lastRun
  <1>1. CASE Exists(stat)
    BY <1>1 DEF Loaded
  <1>2. CASE ~Exists(stat)
    BY <1>2 DEF Loaded, Exists, Stat, NoStat
  <1> QED
    BY <1>1, <1>2

\* The entry a close makes in the ledger: one run more for its runner, at the
\* time of the close, and nothing for the others.
LEMMA LedgerEntry ==
  ASSUME Inv, LedgerInv, NEW s \in Sessions, CommitClose(s), Closes(s),
         NEW u \in Users
  PROVE  LET c == ChannelOf[tx[s].run]
         IN  /\ Exists(stats'[c][u]) \/ stats'[c][u] = stats[c][u]
             /\ stats'[c][u].count = IF u = tx[s].runner
                                     THEN stats[c][u].count + 1
                                     ELSE stats[c][u].count
             /\ stats'[c][u].lastRun = IF u = tx[s].runner THEN tx[s].at
                                       ELSE stats[c][u].lastRun
  <1> DEFINE c == ChannelOf[tx[s].run]
  <1>1. /\ tx[s] \in CloseTx /\ Closing(s, "commit") /\ CloseTxOK(tx[s])
        /\ tx[s].run \in Runs /\ c \in Channels
        /\ tx[s].runner \in Participants(s)
    BY CommitCloseEffect
  <1>2. /\ stats[c][u] \in Stat
        /\ tx[s].at \in Nat /\ tx[s].at > 0
    BY <1>1 DEF Inv, TypeOK, CloseTxOK, Closing
  <1>3. CASE u \notin Participants(s)
    BY <1>1, <1>3 DEF Closes
  <1>4. CASE u \in Participants(s)
    <2>1. tx[s].rows[u] = stats[c][u]
      BY <1>1, <1>4 DEF LedgerInv, ClosesSeeLedger, SeesLedger, Closing
    <2>2. ~Exists(stats[c][u]) => stats[c][u] = NoStat
      BY <1>1 DEF LedgerInv, MissingStatsBlank
    <2>3. stats'[c][u] = StatVersion(s, u, stats[c][u])
      BY <1>1, <1>4 DEF Closes
    <2>4. /\ Loaded(stats[c][u], tx[s].at) \in Stat
          /\ Exists(Loaded(stats[c][u], tx[s].at))
          /\ Loaded(stats[c][u], tx[s].at).count = stats[c][u].count
          /\ Loaded(stats[c][u], tx[s].at).lastRun = stats[c][u].lastRun
      BY <1>2, <2>2, LoadedStat
    <2>5. u # tx[s].runner =>
             \/ stats'[c][u] = stats[c][u]
             \/ stats'[c][u] = Loaded(stats[c][u], tx[s].at)
      BY <2>1, <2>3 DEF StatVersion
    <2>6. u = tx[s].runner =>
             stats'[c][u] = Credited(Loaded(stats[c][u], tx[s].at), tx[s].at)
      BY <2>1, <2>3 DEF StatVersion
    <2>7. CASE u # tx[s].runner
      BY <2>4, <2>5, <2>7
    <2>8. CASE u = tx[s].runner
      <3>1. stats'[c][u] = Credited(Loaded(stats[c][u], tx[s].at), tx[s].at)
        BY <2>6, <2>8
      <3> HIDE DEF c
      <3>2. /\ stats'[c][u].count = stats[c][u].count + 1
            /\ stats'[c][u].lastRun = tx[s].at
            /\ Exists(stats'[c][u]) <=> Exists(Loaded(stats[c][u], tx[s].at))
        BY <2>4, <3>1 DEF Credited, Exists
      <3> QED
        BY <2>4, <2>8, <3>2 DEF c
    <2> QED
      BY <2>7, <2>8
  <1> QED
    BY <1>3, <1>4

\* The runs of a channel that a user was sent on.
Ran(c, u) == {r \in ClosedRuns(c) : runs[r].runner = u}

EntryExact(c, u) ==
    /\ stats[c][u].count = Cardinality(Ran(c, u))
    /\ stats[c][u].lastRun = 0 \/ \E r \in Ran(c, u) :
                                     stats[c][u].lastRun = runs[r].closedAt
    /\ \A r \in Ran(c, u) : runs[r].closedAt <= stats[c][u].lastRun

EntriesExact == \A c \in Channels, u \in Users : EntryExact(c, u)

LEMMA LedgerEntries == TypeOK => (LedgerExact <=> EntriesExact)
  <1> SUFFICES ASSUME TypeOK PROVE LedgerExact <=> EntriesExact
    OBVIOUS
  <1>1. \A c \in Channels, u \in Users : stats[c][u].lastRun \in Nat
    BY DEF TypeOK, Stat
  <1>2. ASSUME NEW c \in Channels, NEW u \in Users
        PROVE  LET ran == {r \in ClosedRuns(c) : runs[r].runner = u}
                   times == {runs[r].closedAt : r \in ran} \cup {0}
               IN  (/\ stats[c][u].count = Cardinality(ran)
                    /\ stats[c][u].lastRun \in times
                    /\ \A t \in times : t <= stats[c][u].lastRun)
                   <=> EntryExact(c, u)
    <2> DEFINE times == {runs[r].closedAt : r \in Ran(c, u)} \cup {0}
    <2>1. stats[c][u].lastRun \in times <=>
             \/ stats[c][u].lastRun = 0
             \/ \E r \in Ran(c, u) : stats[c][u].lastRun = runs[r].closedAt
      OBVIOUS
    <2>2. (\A t \in times : t <= stats[c][u].lastRun) <=>
             \A r \in Ran(c, u) : runs[r].closedAt <= stats[c][u].lastRun
      <3>1. 0 <= stats[c][u].lastRun
        BY <1>1
      <3> QED
        BY <3>1
    <2> QED
      BY <2>1, <2>2 DEF EntryExact, Ran
  <1> QED
    BY <1>2 DEF LedgerExact, EntriesExact

\* A close leaves the closes under way in other channels their view.
LEMMA LedgerCloseSessions ==
  ASSUME Inv, LedgerInv, ClosesApart, NEW s \in Sessions,
         CommitClose(s), Closes(s)
  PROVE  ClosesSeeLedger'
  <1>1. /\ tx[s].op = "close" /\ tx[s].run \in Runs
        /\ Becomes(s, Idle)
    BY CommitCloseEffect DEF Closing
  <1> SUFFICES ASSUME NEW o \in Sessions, tx'[o].op = "close"
               PROVE  SeesLedger(o)'
    BY DEF ClosesSeeLedger
  <1>2. o # s /\ tx'[o] = tx[o]
    BY <1>1 DEF Becomes, Idle
  <1>3. tx[o] \in CloseTx /\ SeesLedger(o)
    BY <1>2, InClose DEF LedgerInv, ClosesSeeLedger
  <1>4. PICK d \in Channels : /\ d = ChannelOf[tx[o].run]
                              /\ d # ChannelOf[tx[s].run]
                              /\ tx[o].run \in Runs
                              /\ tx[o].run # tx[s].run
    BY <1>1, <1>2, <1>3, CoffeeRunsAssumption DEF ClosesApart, CloseTx
  <1>5. /\ runs'[tx[o].run] = runs[tx[o].run]
        /\ \A u \in Users : stats'[d][u] = stats[d][u]
    BY <1>4 DEF Closes
  <1>6. ClosedRuns(d)' = ClosedRuns(d)
    BY <1>4, ClosedRunsGrow
  <1>7. \A q \in ClosedRuns(d) : runs'[q] = runs[q]
    BY <1>4 DEF Closes, ClosedRuns
  <1> QED
    BY <1>2, <1>3, <1>4, <1>5, <1>6, <1>7
    DEF SeesLedger, Participants, ClosedRuns

LEMMA LedgerClose ==
  ASSUME Inv, LedgerInv, ClosesApart, NEW s \in Sessions,
         CommitClose(s), Closes(s)
  PROVE  LedgerInv'
  <1>0. /\ tx[s].run \in Runs /\ ChannelOf[tx[s].run] \in Channels
        /\ tx[s].runner \in Users
        /\ Closing(s, "commit") /\ CloseTxOK(tx[s])
    BY CommitCloseEffect
  <1>1. PICK r \in Runs, c \in Channels, runner \in Users, at \in Nat :
           /\ r = tx[s].run /\ c = ChannelOf[tx[s].run]
           /\ runner = tx[s].runner /\ at = tx[s].at
           /\ at > 0
    BY <1>0 DEF CloseTxOK, Closing, Inv, TypeOK
  <1>3. /\ r \notin ClosedRuns(c)
        /\ \A q \in ClosedRuns(c) : runs[q].closedAt < at
    BY <1>0, <1>1 DEF LedgerInv, ClosesSeeLedger, SeesLedger, Closing, ClosedRuns
  <1>4. /\ ClosedRuns(c)' = ClosedRuns(c) \cup {r}
        /\ \A d \in Channels : d # c => ClosedRuns(d)' = ClosedRuns(d)
    BY <1>1, ClosedRunsGrow
  <1>5. /\ runs'[r].runner = runner
        /\ runs'[r].closedAt = at
        /\ \A d \in Channels : \A q \in ClosedRuns(d) : runs'[q] = runs[q]
    BY <1>1, <1>3 DEF Closes, ClosedRuns
  <1>6. ClosesSeeLedger'
    BY LedgerCloseSessions
  <1>7. \A d \in Channels, u \in Users : d # c => stats'[d][u] = stats[d][u]
    BY <1>1 DEF Closes
  <1>8. MissingStatsBlank'
    <2> SUFFICES ASSUME NEW d \in Channels, NEW u \in Users,
                        ~Exists(stats'[d][u])
                 PROVE  stats'[d][u] = NoStat
      BY DEF MissingStatsBlank, Exists
    <2>1. stats'[d][u] = stats[d][u]
      BY <1>1, <1>7, LedgerEntry
    <2> QED
      BY <2>1 DEF LedgerInv, MissingStatsBlank
  <1>9. \A d \in Channels : \A q \in ClosedRuns(d) : runs[q].closedAt \in Nat
    BY DEF ClosedRuns, Inv, TypeOK, Run
  <1>10. ClosesOrdered'
    <2> SUFFICES ASSUME NEW d \in Channels
                 PROVE  /\ IsFiniteSet(ClosedRuns(d)')
                        /\ \A p, q \in ClosedRuns(d)' :
                              runs'[p].closedAt = runs'[q].closedAt => p = q
      BY DEF ClosesOrdered
    <2>1. /\ IsFiniteSet(ClosedRuns(d))
          /\ \A p, q \in ClosedRuns(d) :
                runs[p].closedAt = runs[q].closedAt => p = q
      BY DEF LedgerInv, ClosesOrdered
    <2>2. IsFiniteSet(ClosedRuns(d)')
      BY <1>4, <2>1, FS_AddElement
    <2> QED
      BY <1>3, <1>4, <1>5, <1>9, <2>1, <2>2
  <1>11. LedgerExact'
    <2>1. TypeOK /\ TypeOK'
      BY CommitCloseInv DEF Inv
    <2>0. (TypeOK => (LedgerExact <=> EntriesExact))'
      BY LedgerEntries, PTL
    <2> SUFFICES ASSUME NEW d \in Channels, NEW u \in Users
                 PROVE  EntryExact(d, u)'
      BY <2>0, <2>1 DEF EntriesExact
    <2>2. /\ stats[d][u].count = Cardinality(Ran(d, u))
          /\ stats[d][u].lastRun = 0 \/ \E q \in Ran(d, u) :
                                     stats[d][u].lastRun = runs[q].closedAt
          /\ \A q \in Ran(d, u) : runs[q].closedAt <= stats[d][u].lastRun
      BY <2>1, LedgerEntries DEF LedgerInv, EntriesExact, EntryExact
    <2>3. \A q \in Ran(d, u) : q \in ClosedRuns(d) /\ runs'[q] = runs[q]
      BY <1>5 DEF Ran
    <2>4. CASE d = c /\ u = runner
      <3>1. Ran(d, u)' = Ran(d, u) \cup {r} /\ r \notin Ran(d, u)
        BY <1>3, <1>4, <1>5, <2>4 DEF Ran
      <3>2. IsFiniteSet(Ran(d, u))
        <4>1. IsFiniteSet(ClosedRuns(d)) /\ Ran(d, u) \subseteq ClosedRuns(d)
          BY DEF LedgerInv, ClosesOrdered, Ran
        <4> QED
          BY <4>1, FS_Subset
      <3>3. Cardinality(Ran(d, u)') = Cardinality(Ran(d, u)) + 1
        BY <3>1, <3>2, FS_AddElement
      <3>4. /\ stats'[d][u].count = stats[d][u].count + 1
            /\ stats'[d][u].lastRun = at
        BY <1>1, <2>4, LedgerEntry
      <3>5. \A q \in Ran(d, u)' : runs'[q].closedAt <= at
        BY <1>3, <1>5, <1>9, <2>3, <2>4, <3>1
      <3> QED
        BY <1>5, <2>2, <3>1, <3>3, <3>4, <3>5 DEF EntryExact
    <2>5. CASE ~(d = c /\ u = runner)
      <3>1. Ran(d, u)' = Ran(d, u)
        BY <1>4, <1>5, <2>5 DEF Ran
      <3>2. /\ stats'[d][u].count = stats[d][u].count
            /\ stats'[d][u].lastRun = stats[d][u].lastRun
        BY <1>1, <1>7, <2>5, LedgerEntry
      <3> QED
        BY <2>2, <2>3, <3>1, <3>2 DEF EntryExact
    <2> QED
      BY <2>4, <2>5
  <1> QED
    BY <1>6, <1>8, <1>10, <1>11 DEF LedgerInv

LEMMA LedgerStep ==
  ASSUME Inv, LedgerInv, ClosesApart, NEW s \in Sessions,
         \/ OrderStep(s) \/ CommitOrder(s) \/ CloseStep(s)
         \/ CommitClose(s) \/ Abort(s)
  PROVE  LedgerInv'
  <1>1. CASE OrderStep(s) \/ Abort(s)
    BY <1>1, OrderQuiet, LedgerFrame DEF Tables
  <1>2. CASE CommitOrder(s)
    BY <1>2, CommitOrderEffect, LedgerFrame DEF Becomes, Idle
  <1>3. CASE AssignRunner(s)
    BY <1>3, LedgerAssign
  <1>4. CASE CloseStep(s) /\ ~AssignRunner(s)
    <2>1. tx[s].op = "close" => runs[tx[s].run].status = "open"
      BY DEF LedgerInv, ClosesSeeLedger, SeesLedger
    <2> QED
      BY <1>4, <2>1, CloseQuiet, LedgerFrame DEF Tables
  <1>5. CASE CommitClose(s)
    <2>1. CASE UNCHANGED Tables
      BY <1>5, <2>1, CommitCloseEffect, LedgerFrame DEF Tables, Becomes, Idle
    <2>2. CASE Closes(s)
      BY <1>5, <2>2, LedgerClose
    <2> QED
      BY <1>5, <2>1, <2>2, CommitCloseEffect
  <1> QED
    BY <1>1, <1>2, <1>3, <1>4, <1>5

LEMMA LedgerInit ==
  ASSUME Init
  PROVE  LedgerInv
  <1>1. \A c \in Channels : ClosedRuns(c) = {}
    BY DEF Init, OpenRun, ClosedRuns
  <1>2. ClosesSeeLedger
    BY DEF Init, ClosesSeeLedger, Idle
  <1>3. MissingStatsBlank
    BY DEF Init, MissingStatsBlank
  <1>4. ClosesOrdered
    BY <1>1, FS_EmptySet DEF ClosesOrdered
  <1>5. LedgerExact
    <2>1. TypeOK
      BY InitInv DEF Inv
    <2>2. EntriesExact
      <3> SUFFICES ASSUME NEW c \in Channels, NEW u \in Users
                   PROVE  EntryExact(c, u)
        BY DEF EntriesExact
      <3>1. Ran(c, u) = {} /\ Cardinality({}) = 0
        BY <1>1, FS_EmptySet DEF Ran
      <3>2. stats[c][u].count = 0 /\ stats[c][u].lastRun = 0
        BY DEF Init, NoStat
      <3> QED
        BY <3>1, <3>2 DEF EntryExact
    <2> QED
      BY <2>1, <2>2, LedgerEntries
  <1> QED
    BY <1>2, <1>3, <1>4, <1>5 DEF LedgerInv

LEMMA LedgerStutter ==
  ASSUME Inv, LedgerInv, UNCHANGED vars
  PROVE  LedgerInv'
  <1>1. \A c : ClosedRuns(c)' = ClosedRuns(c)
    BY DEF vars, ClosedRuns
  <1>2. ClosesSeeLedger'
    <2> SUFFICES ASSUME NEW o \in Sessions, tx[o].op = "close"
                 PROVE  SeesLedger(o)'
      BY DEF vars, ClosesSeeLedger
    <2>1. SeesLedger(o)
      BY DEF LedgerInv, ClosesSeeLedger
    <2> QED
      BY <2>1 DEF vars, SeesLedger, ClosedRuns, Participants
  <1>3. MissingStatsBlank'
    BY DEF vars, LedgerInv, MissingStatsBlank
  <1>4. ClosesOrdered'
    BY <1>1 DEF vars, LedgerInv, ClosesOrdered
  <1>5. LedgerExact'
    BY <1>1 DEF vars, LedgerInv, LedgerExact
  <1> QED
    BY <1>2, <1>3, <1>4, <1>5 DEF LedgerInv

LEMMA ClosesKeepLedger == Spec /\ []ClosesApart => []LedgerInv
  <1>1. Init => LedgerInv
    BY LedgerInit
  <1>2. Inv /\ LedgerInv /\ ClosesApart /\ [Next]_vars => LedgerInv'
    <2> SUFFICES ASSUME Inv, LedgerInv, ClosesApart, Next
                 PROVE  LedgerInv'
      BY LedgerStutter
    <2> QED
      BY Steps, LedgerStep
  <1> QED
    BY <1>1, <1>2, RequestsKeepInv, PTL DEF Spec

\* Order requests never disturb the ledger: as long as a channel has one close
\* under way at most, a user's row of runner_stats counts the closed runs they
\* were sent on and dates the latest, whatever else is served meanwhile.
THEOREM LedgerIsExact == Spec /\ []ClosesApart => []LedgerExact
  <1>1. LedgerInv => LedgerExact
    BY DEF LedgerInv
  <1> QED
    BY <1>1, ClosesKeepLedger, PTL

-----------------------------------------------------------------------------
(* Closed runs: nobody orders in a run that is being closed *)

LEMMA FinalFrame ==
  ASSUME Inv, FinalInv, NEW s \in Sessions, Becomes(s, tx'[s]),
         UNCHANGED <<runs, orders>>,
         InOrderOp(s)' => runs[tx'[s].run].status = "open",
         (tx'[s].op = "close") => SeesOrders(s)'
  PROVE  FinalInv'
  <1>1. OrdersOnOpenRuns'
    <2> SUFFICES ASSUME NEW o \in Sessions, InOrderOp(o)'
                 PROVE  runs'[tx'[o].run].status = "open"
      BY DEF OrdersOnOpenRuns
    <2>1. CASE o # s
      BY <2>1 DEF Becomes, FinalInv, OrdersOnOpenRuns, InOrderOp
    <2> QED
      BY <2>1
  <1>2. ClosesSeeOrders'
    <2> SUFFICES ASSUME NEW o \in Sessions, tx'[o].op = "close"
                 PROVE  SeesOrders(o)'
      BY DEF ClosesSeeOrders
    <2>1. CASE o # s
      <3>1. tx'[o] = tx[o]
        BY <2>1 DEF Becomes
      <3>2. SeesOrders(o)
        BY <3>1 DEF FinalInv, ClosesSeeOrders
      <3> QED
        BY <3>1, <3>2 DEF SeesOrders, Participants, Active
    <2> QED
      BY <2>1
  <1>3. ClosedOrdersFinal'
    BY DEF FinalInv, ClosedOrdersFinal, Active
  <1> QED
    BY <1>1, <1>2, <1>3 DEF FinalInv

\* What a close has loaded stays with it.
LEMMA FinalCloseStep ==
  ASSUME Inv, FinalInv, NEW s \in Sessions, CloseStep(s)
  PROVE  FinalInv'
  <1>1. UNCHANGED <<runs, orders>>
    BY CloseQuiet DEF Tables
  <1>2. ASSUME tx'[s].op = "close"
        PROVE  SeesOrders(s)'
    <2>1. CASE \E r \in Runs, repeat \in BOOLEAN : CloseRun(s, r, repeat)
      <3>1. tx'[s].step = "orders"
        BY <2>1, CloseRunEffect
      <3> QED
        BY <3>1 DEF SeesOrders
    <2>2. CASE LoadActiveOrders(s)
      <3>1. PICK r \in Runs : r = tx[s].run
        BY <2>2, LoadActiveOrdersEffect DEF CloseTx
      <3> DEFINE loaded == [u \in Users |-> IF u \in Active(tx[s].run)
                                            THEN orders[tx[s].run][u]
                                            ELSE NoOrder]
                 t == [tx[s] EXCEPT !.step = "previous", !.loaded = loaded]
      <3>2. tx[s] \in CloseTx /\ Becomes(s, t)
        <4>1. tx[s] \in CloseTx /\ (Becomes(s, Idle) \/ Becomes(s, t))
          BY <2>2, LoadActiveOrdersEffect
        <4> QED
          BY <1>2, <4>1 DEF Becomes, Idle
      <3>3. t.run = r /\ t.loaded = loaded
        BY <3>1, <3>2 DEF CloseTx
      <3>4. \A u \in Users : loaded[u].state = "active" <=> u \in Active(r)
        BY <3>1 DEF Active, NoOrder
      <3>5. \A u \in Active(r) : loaded[u] = orders[r][u]
        BY <3>1 DEF Active
      <3> HIDE DEF t, loaded
      <3>6. tx'[s].run = r /\ tx'[s].loaded = loaded
        BY <3>2, <3>3 DEF Becomes
      <3>7. Participants(s)' = Active(r)
        BY <3>4, <3>6 DEF Participants, Active
      <3>8. Active(tx[s].run)' = Active(r)
        BY <1>1, <3>6 DEF Active
      <3> QED
        BY <1>1, <3>5, <3>6, <3>7, <3>8 DEF SeesOrders
    <2>3. ASSUME tx[s] \in CloseTx, tx[s].op = "close", tx[s].step # "orders",
                 tx'[s].run = tx[s].run, tx'[s].loaded = tx[s].loaded
          PROVE  SeesOrders(s)'
      <3>1. SeesOrders(s)
        BY <2>3 DEF FinalInv, ClosesSeeOrders
      <3> QED
        BY <1>1, <2>3, <3>1 DEF SeesOrders, Participants, Active
    <2>4. CASE LoadPreviousRunner(s)
      <3>1. PICK u : Becomes(s, [tx[s] EXCEPT !.step = "assign", !.last = u])
        BY <2>4, LoadPreviousRunnerEffect
      <3>2. tx[s] \in CloseTx /\ Closing(s, "previous")
        BY <2>4, LoadPreviousRunnerEffect
      <3> QED
        BY <2>3, <3>1, <3>2 DEF Becomes, CloseTx, Closing
    <2>5. CASE AssignRunner(s)
      <3>1. PICK u : Becomes(s, [tx[s] EXCEPT !.step = "commit",
                                              !.rows = RowsRead(s), !.runner = u,
                                              !.at = clock + 1])
        BY <2>5, AssignRunnerEffect
      <3>2. tx[s] \in CloseTx /\ Closing(s, "assign")
        BY <2>5, AssignRunnerEffect
      <3> QED
        BY <2>3, <3>1, <3>2 DEF Becomes, CloseTx, Closing
    <2> QED
      BY <2>1, <2>2, <2>4, <2>5 DEF CloseStep
  <1> QED
    BY <1>1, <1>2, CloseQuiet, FinalFrame

\* An order is committed in a run that is open and not being closed.
LEMMA FinalCommitOrder ==
  ASSUME Inv, FinalInv, OrdersApartFromCloses, NEW s \in Sessions,
         CommitOrder(s)
  PROVE  FinalInv'
  <1>1. /\ InOrderOp(s) /\ tx[s] \in OrderTx
        /\ UNCHANGED runs
        /\ Becomes(s, Idle)
    BY CommitOrderEffect
  <1>2. runs[tx[s].run].status = "open"
    BY <1>1 DEF FinalInv, OrdersOnOpenRuns
  <1>3. \A q \in Runs : q # tx[s].run => \A u \in Users : orders'[q][u] = orders[q][u]
    BY CommitOrderEffect
  <1>4. OrdersOnOpenRuns'
    BY <1>1 DEF Becomes, Idle, FinalInv, OrdersOnOpenRuns, InOrderOp
  <1>5. ClosesSeeOrders'
    <2> SUFFICES ASSUME NEW o \in Sessions, tx'[o].op = "close"
                 PROVE  SeesOrders(o)'
      BY DEF ClosesSeeOrders
    <2>1. o # s /\ tx'[o] = tx[o]
      BY <1>1 DEF Becomes, Idle
    <2>2. SeesOrders(o) /\ tx[o] \in CloseTx
      BY <2>1, InClose DEF FinalInv, ClosesSeeOrders
    <2>3. tx[o].run \in Runs /\ tx[o].run # tx[s].run
      BY <1>1, <2>1, <2>2 DEF OrdersApartFromCloses, CloseTx
    <2> QED
      BY <1>3, <2>1, <2>2, <2>3 DEF SeesOrders, Participants, Active
  <1>6. ClosedOrdersFinal'
    BY <1>1, <1>2, <1>3 DEF FinalInv, ClosedOrdersFinal, Active
  <1> QED
    BY <1>4, <1>5, <1>6 DEF FinalInv

\* is_final set to true: written unless it was loaded as true.
LEMMA FinalWritten ==
  ASSUME NEW current \in BOOLEAN, NEW loaded \in BOOLEAN
  PROVE  /\ Written(current, loaded, TRUE) \in BOOLEAN
         /\ current => Written(current, loaded, TRUE)
         /\ (loaded => current) => Written(current, loaded, TRUE)
  <1>1. CASE loaded = TRUE
    BY <1>1 DEF Written
  <1>2. CASE loaded = FALSE
    BY <1>2 DEF Written
  <1> QED
    BY <1>1, <1>2

\* A close makes the active orders of its run final, and none less so.
LEMMA FinalCommitClose ==
  ASSUME Inv, FinalInv, OrdersApartFromCloses, NEW s \in Sessions,
         CommitClose(s), Closes(s)
  PROVE  FinalInv'
  <1>1. /\ tx[s] \in CloseTx /\ Closing(s, "commit")
        /\ tx[s].op = "close" /\ tx[s].run \in Runs
        /\ Becomes(s, Idle)
    BY CommitCloseEffect DEF Closing
  <1>2. SeesOrders(s)
    BY <1>1 DEF FinalInv, ClosesSeeOrders
  <1>3. OrdersOnOpenRuns'
    <2> SUFFICES ASSUME NEW o \in Sessions, InOrderOp(o)'
                 PROVE  runs'[tx'[o].run].status = "open"
      BY DEF OrdersOnOpenRuns
    <2>1. o # s /\ tx'[o] = tx[o] /\ InOrderOp(o)
      BY <1>1 DEF Becomes, Idle, InOrderOp
    <2>2. runs[tx[o].run].status = "open" /\ tx[o].run \in Runs
      BY <2>1, InOrderRequest DEF FinalInv, OrdersOnOpenRuns, OrderTx
    <2>3. tx[o].run # tx[s].run
      BY <1>1, <2>1 DEF OrdersApartFromCloses
    <2> QED
      BY <2>1, <2>2, <2>3 DEF Closes
  <1>4. \A q \in Runs, u \in Users :
           /\ orders'[q][u].state = orders[q][u].state
           /\ orders[q][u].final => orders'[q][u].final
    <2> SUFFICES ASSUME NEW q \in Runs, NEW u \in Users
                 PROVE  /\ orders'[q][u].state = orders[q][u].state
                        /\ orders[q][u].final => orders'[q][u].final
      OBVIOUS
    <2>1. orders[q][u].final \in BOOLEAN
      BY DEF Inv, TypeOK, Order
    <2>2. \/ orders'[q][u].final = orders[q][u].final
          \/ orders'[q][u].final =
                Written(orders[q][u].final, tx[s].loaded[u].final, TRUE)
      <3>1. CASE q = tx[s].run /\ u \in Participants(s)
        BY <3>1 DEF Closes
      <3>2. CASE ~(q = tx[s].run /\ u \in Participants(s))
        BY <3>2 DEF Closes
      <3> QED
        BY <3>1, <3>2
    <2>3. orders[q][u].final => orders'[q][u].final
      BY <1>1, <2>1, <2>2, FinalWritten DEF CloseTx, Order
    <2> QED
      BY <2>3 DEF Closes
  <1>5. ClosesSeeOrders'
    <2> SUFFICES ASSUME NEW o \in Sessions, tx'[o].op = "close"
                 PROVE  SeesOrders(o)'
      BY DEF ClosesSeeOrders
    <2>1. o # s /\ tx'[o] = tx[o]
      BY <1>1 DEF Becomes, Idle
    <2>2. SeesOrders(o) /\ tx[o] \in CloseTx /\ tx[o].run \in Runs
      BY <2>1, InClose DEF FinalInv, ClosesSeeOrders, CloseTx
    <2> QED
      BY <1>4, <2>1, <2>2 DEF SeesOrders, Participants, Active
  <1>6. ClosedOrdersFinal'
    <2> SUFFICES ASSUME NEW q \in Runs, runs'[q].status = "closed",
                        NEW u \in Active(q)'
                 PROVE  orders'[q][u].final
      BY DEF ClosedOrdersFinal
    <2>1. u \in Users /\ u \in Active(q)
      BY <1>4 DEF Active
    <2>2. CASE q = tx[s].run
      <3>1. u \in Participants(s)
        BY <1>1, <1>2, <2>1, <2>2 DEF SeesOrders, Closing
      <3>2. orders'[q][u].final = Written(orders[q][u].final,
                                          tx[s].loaded[u].final, TRUE)
        BY <2>1, <2>2, <3>1 DEF Closes
      <3>3. tx[s].loaded[u].final => orders[q][u].final
        BY <1>1, <1>2, <2>2, <3>1 DEF SeesOrders, Closing
      <3>4. tx[s].loaded[u] \in Order /\ orders[q][u] \in Order
        BY <1>1, <2>1 DEF CloseTx, Inv, TypeOK
      <3> QED
        BY <3>2, <3>3, <3>4, FinalWritten DEF Order
    <2>3. CASE q # tx[s].run
      BY <1>4, <2>1, <2>3 DEF Closes, FinalInv, ClosedOrdersFinal
    <2> QED
      BY <2>2, <2>3
  <1> QED
    BY <1>3, <1>5, <1>6 DEF FinalInv

LEMMA FinalStep ==
  ASSUME Inv, FinalInv, OrdersApartFromCloses, NEW s \in Sessions,
         \/ OrderStep(s) \/ CommitOrder(s) \/ CloseStep(s)
         \/ CommitClose(s) \/ Abort(s)
  PROVE  FinalInv'
  <1>1. CASE OrderStep(s) \/ Abort(s)
    BY <1>1, OrderQuiet, FinalFrame
    DEF Tables, FinalInv, OrdersOnOpenRuns
  <1>2. CASE CommitClose(s) /\ UNCHANGED Tables
    BY <1>2, CommitCloseEffect, FinalFrame DEF Tables, Becomes, Idle, InOrderOp
  <1>3. CASE CommitClose(s) /\ Closes(s)
    BY <1>3, FinalCommitClose
  <1> QED
    BY <1>1, <1>2, <1>3, FinalCommitOrder, FinalCloseStep, CommitCloseEffect

LEMMA FinalStutter ==
  ASSUME FinalInv, UNCHANGED vars
  PROVE  FinalInv'
  <1>1. OrdersOnOpenRuns'
    BY DEF vars, FinalInv, OrdersOnOpenRuns, InOrderOp
  <1>2. ClosesSeeOrders'
    <2> SUFFICES ASSUME NEW o \in Sessions, tx[o].op = "close"
                 PROVE  SeesOrders(o)'
      BY DEF vars, ClosesSeeOrders
    <2>1. SeesOrders(o)
      BY DEF FinalInv, ClosesSeeOrders
    <2> QED
      BY <2>1 DEF vars, SeesOrders, Active, Participants
  <1>3. ClosedOrdersFinal'
    BY DEF vars, FinalInv, ClosedOrdersFinal, Active
  <1> QED
    BY <1>1, <1>2, <1>3 DEF FinalInv

LEMMA OrdersKeepFinal == Spec /\ []OrdersApartFromCloses => []FinalInv
  <1>1. Init => FinalInv
    BY DEF Init, FinalInv, OrdersOnOpenRuns, ClosesSeeOrders, ClosedOrdersFinal,
           Idle, OpenRun, InOrderOp
  <1>2. Inv /\ FinalInv /\ OrdersApartFromCloses /\ [Next]_vars => FinalInv'
    <2> SUFFICES ASSUME Inv, FinalInv, OrdersApartFromCloses, Next
                 PROVE  FinalInv'
      BY FinalStutter
    <2> QED
      BY Steps, FinalStep
  <1> QED
    BY <1>1, <1>2, RequestsKeepInv, PTL DEF Spec

\* What a closed run lists is final and stays as it was, unless somebody's
\* order request is under way while the run is being closed: other closes,
\* even of the same run, and requests in other runs do no harm.
THEOREM ClosedOrdersStay ==
  Spec /\ []OrdersApartFromCloses => []ClosedOrdersFinal
  <1>1. FinalInv => ClosedOrdersFinal
    BY DEF FinalInv
  <1> QED
    BY <1>1, OrdersKeepFinal, PTL

-----------------------------------------------------------------------------
(* What a request leaves: a user's requests apart, and apart from the close *)

LEMMA EffectFrame ==
  ASSUME Inv, EffectInv, NEW s \in Sessions, Becomes(s, tx'[s]),
         UNCHANGED <<orders, prefs>>,
         InOrderOp(s)' => RowsAsSeen(tx[s])' /\ AsAsked(tx[s])'
  PROVE  EffectInv'
  <1>1. RequestsSeeTables'
    <2> SUFFICES ASSUME NEW o \in Sessions, InOrderOp(o)'
                 PROVE  RowsAsSeen(tx[o])' /\ AsAsked(tx[o])'
      BY DEF RequestsSeeTables
    <2>1. CASE o # s
      <3>1. tx'[o] = tx[o]
        BY <2>1 DEF Becomes
      <3>2. RowsAsSeen(tx[o]) /\ AsAsked(tx[o])
        BY <3>1 DEF EffectInv, RequestsSeeTables, InOrderOp
      <3> QED
        BY <3>1, <3>2 DEF RowsAsSeen, AsAsked
    <2> QED
      BY <2>1
  <1>2. ActiveOrdersHaveText'
    BY DEF EffectInv, ActiveOrdersHaveText, Active
  <1> QED
    BY <1>1, <1>2 DEF EffectInv

\* An UPDATE of a row that is still as it was loaded gives what was asked.
LEMMA UpdateOfLoaded ==
  ASSUME NEW row \in Order, NEW new \in Order
  PROVE  UpdatedOrder(row, row, new) = new
  BY DEF UpdatedOrder, Written, Order

LEMMA VersionAsAssigned ==
  ASSUME Inv, NEW s \in Sessions, InOrderOp(s), tx[s].step = "flush_order",
         tx[s].order = orders[tx[s].run][tx[s].user]
  PROVE  /\ OrderVersion(s) = Assigned(s)
         /\ tx[s].op = "cancel" => Assigned(s).state = "canceled"
         /\ tx[s].op # "cancel" => Assigned(s) =
                [state |-> "active", text |-> tx[s].text,
                 final |-> tx[s].confirm]
  <1>1. tx[s] \in OrderTx /\ OrderTxOK(tx[s])
    BY InOrderRequest
  <1>2. /\ tx[s].order \in Order /\ tx[s].confirm \in BOOLEAN
        /\ tx[s].text \in Texts \cup {NoText}
    BY <1>1 DEF OrderTx
  <1>3. Assigned(s) \in Order
    BY <1>1, <1>2 DEF Assigned, Order
  <1>4. OrderVersion(s) = Assigned(s)
    BY <1>2, <1>3, UpdateOfLoaded DEF OrderVersion
  <1>5. tx[s].op = "cancel" => Assigned(s).state = "canceled"
    BY <1>2 DEF Assigned, Order
  <1> QED
    BY <1>4, <1>5 DEF Assigned

LEMMA EffectLoadPreference ==
  ASSUME Inv, EffectInv, NEW s \in Sessions, LoadPreference(s)
  PROVE  EffectInv'
  <1>1. /\ UNCHANGED <<orders, prefs>>
        /\ Becomes(s, tx'[s])
    BY OrderStepEffect DEF Tables, Becomes
  <1>2. ASSUME InOrderOp(s)'
        PROVE  RowsAsSeen(tx[s])' /\ AsAsked(tx[s])'
    <2> DEFINE pref == prefs[ChannelOf[tx[s].run]][tx[s].user]
               t == [tx[s] EXCEPT !.step = "order", !.text = pref,
                                  !.pref = pref]
    <2>1. tx[s] \in OrderTx
      BY InOrderRequest DEF LoadPreference
    <2>2. tx'[s] = t
      <3>1. Becomes(s, Idle) \/ tx' = [tx EXCEPT ![s] = t]
        BY Ends DEF LoadPreference
      <3> HIDE DEF t
      <3>2. Becomes(s, Idle) \/ Becomes(s, t)
        BY <3>1, MovesTo
      <3> QED
        BY <1>2, <3>2 DEF Becomes, Idle, InOrderOp
    <2>3. /\ t.step = "order" /\ t.run = tx[s].run /\ t.user = tx[s].user
          /\ t.pref = pref /\ t.text = pref
      BY <2>1 DEF OrderTx
    <2> HIDE DEF t
    <2> QED
      BY <1>1, <2>2, <2>3 DEF RowsAsSeen, AsAsked
  <1> QED
    BY <1>1, <1>2, EffectFrame

LEMMA EffectLoadOrder ==
  ASSUME Inv, EffectInv, NEW s \in Sessions, LoadOrder(s)
  PROVE  EffectInv'
  <1>1. /\ UNCHANGED <<orders, prefs>>
        /\ Becomes(s, tx'[s])
        /\ RowsAsSeen(tx[s])
    BY OrderStepEffect DEF Tables, Becomes, EffectInv, RequestsSeeTables
  <1>2. ASSUME InOrderOp(s)'
        PROVE  RowsAsSeen(tx[s])' /\ AsAsked(tx[s])'
    <2> DEFINE order == orders[tx[s].run][tx[s].user]
               t == [tx[s] EXCEPT !.step = "flush_order", !.order = order]
    <2>1. tx[s] \in OrderTx /\ tx[s].step = "order"
      BY InOrderRequest DEF LoadOrder
    <2>2. /\ tx'[s] = t
          /\ tx[s].op = "cancel" => order.state = "active"
      <3>1. \/ Becomes(s, Idle)
            \/ /\ tx' = [tx EXCEPT ![s] = t]
               /\ tx[s].op = "cancel" => order.state = "active"
        BY Ends DEF LoadOrder
      <3> HIDE DEF t, order
      <3>2. \/ Becomes(s, Idle)
            \/ /\ Becomes(s, t)
               /\ tx[s].op = "cancel" => order.state = "active"
        BY <3>1, MovesTo
      <3> QED
        BY <1>2, <3>2 DEF Becomes, Idle, InOrderOp
    <2>3. /\ t.op = tx[s].op /\ t.run = tx[s].run /\ t.user = tx[s].user
          /\ t.text = tx[s].text /\ t.pref = tx[s].pref
          /\ t.step = "flush_order" /\ t.order = order
      BY <2>1 DEF OrderTx
    <2> HIDE DEF t
    <2> QED
      BY <1>1, <2>1, <2>2, <2>3 DEF RowsAsSeen, AsAsked
  <1> QED
    BY <1>1, <1>2, EffectFrame

LEMMA EffectFlushOrder ==
  ASSUME Inv, EffectInv, NEW s \in Sessions, FlushOrder(s)
  PROVE  EffectInv'
  <1>1. /\ UNCHANGED <<orders, prefs>>
        /\ Becomes(s, tx'[s])
        /\ RowsAsSeen(tx[s])
        /\ InOrderOp(s) /\ tx[s].step = "flush_order"
    BY OrderStepEffect
    DEF Tables, Becomes, EffectInv, RequestsSeeTables, FlushOrder
  <1>2. ASSUME InOrderOp(s)'
        PROVE  RowsAsSeen(tx[s])' /\ AsAsked(tx[s])'
    <2> DEFINE usual == prefs[ChannelOf[tx[s].run]][tx[s].user]
               pref == IF tx[s].op = "use_last" THEN tx[s].pref ELSE usual
               version == OrderVersion(s)
               count == ActiveCount(s, tx[s].run, version)
               confirmed == [tx[s] EXCEPT !.step = "flush_preference",
                                          !.order = version, !.pref = pref]
               unconfirmed == [tx[s] EXCEPT !.step = "commit",
                                            !.order = version, !.count = count]
    <2>1. /\ tx[s] \in OrderTx /\ OrderTxOK(tx[s])
      BY <1>1, InOrderRequest
    <2>2. tx[s].order = orders[tx[s].run][tx[s].user]
      BY <1>1 DEF RowsAsSeen
    <2>3. /\ tx[s].op = "cancel" => version.state = "canceled"
          /\ tx[s].op # "cancel" =>
                version = [state |-> "active", text |-> tx[s].text,
                           final |-> tx[s].confirm]
      BY <1>1, <2>2, VersionAsAssigned
    <2>4. pref = usual
      BY <1>1 DEF RowsAsSeen
    <2>5. \/ tx[s].confirm /\ tx'[s] = confirmed
          \/ ~tx[s].confirm /\ tx'[s] = unconfirmed
      <3>1. \/ Becomes(s, Idle)
            \/ tx[s].confirm /\ tx' = [tx EXCEPT ![s] = confirmed]
            \/ ~tx[s].confirm /\ tx' = [tx EXCEPT ![s] = unconfirmed]
        BY Ends DEF FlushOrder
      <3> HIDE DEF confirmed, unconfirmed
      <3>2. \/ Becomes(s, Idle)
            \/ tx[s].confirm /\ Becomes(s, confirmed)
            \/ ~tx[s].confirm /\ Becomes(s, unconfirmed)
        BY <3>1, MovesTo
      <3> QED
        BY <1>2, <3>2 DEF Becomes, Idle, InOrderOp
    <2> HIDE DEF version, count, pref
    <2>6. CASE tx[s].confirm /\ tx'[s] = confirmed
      <3> DEFINE t == confirmed
      <3>1. /\ t.op = tx[s].op /\ t.run = tx[s].run /\ t.user = tx[s].user
            /\ t.text = tx[s].text /\ t.confirm = tx[s].confirm
            /\ t.pref = pref /\ t.step = "flush_preference" /\ t.order = version
        BY <2>1 DEF OrderTx
      <3>2. tx[s].op # "cancel"
        BY <2>1, <2>6 DEF OrderTxOK
      <3> HIDE DEF confirmed
      <3> QED
        BY <1>1, <2>3, <2>4, <2>6, <3>1, <3>2 DEF RowsAsSeen, AsAsked
    <2>7. CASE ~tx[s].confirm /\ tx'[s] = unconfirmed
      <3> DEFINE t == unconfirmed
      <3>1. /\ t.op = tx[s].op /\ t.run = tx[s].run /\ t.user = tx[s].user
            /\ t.text = tx[s].text /\ t.confirm = tx[s].confirm
            /\ t.step = "commit" /\ t.order = version
        BY <2>1 DEF OrderTx
      <3> HIDE DEF unconfirmed
      <3> QED
        BY <1>1, <2>3, <2>7, <3>1 DEF RowsAsSeen, AsAsked
    <2> QED
      BY <2>5, <2>6, <2>7
  <1> QED
    BY <1>1, <1>2, EffectFrame

LEMMA EffectFlushPreference ==
  ASSUME Inv, EffectInv, NEW s \in Sessions, FlushPreference(s)
  PROVE  EffectInv'
  <1>1. /\ UNCHANGED <<orders, prefs>>
        /\ Becomes(s, tx'[s])
        /\ RowsAsSeen(tx[s]) /\ AsAsked(tx[s])
        /\ InOrderOp(s) /\ tx[s].step = "flush_preference"
    BY OrderStepEffect
    DEF Tables, Becomes, EffectInv, RequestsSeeTables, FlushPreference
  <1>2. ASSUME InOrderOp(s)'
        PROVE  RowsAsSeen(tx[s])' /\ AsAsked(tx[s])'
    <2> DEFINE usual == prefs[ChannelOf[tx[s].run]][tx[s].user]
               pref == Written(usual, tx[s].pref, tx[s].text)
               count == ActiveCount(s, tx[s].run, tx[s].order)
               t == [tx[s] EXCEPT !.step = "commit", !.pref = pref,
                                  !.count = count]
    <2>1. tx[s] \in OrderTx /\ OrderTxOK(tx[s])
      BY <1>1, InOrderRequest
    <2>2. tx'[s] = t
      <3>1. Becomes(s, Idle) \/ tx' = [tx EXCEPT ![s] = t]
        BY Ends DEF FlushPreference
      <3> HIDE DEF t
      <3>2. Becomes(s, Idle) \/ Becomes(s, t)
        BY <3>1, MovesTo
      <3> QED
        BY <1>2, <3>2 DEF Becomes, Idle, InOrderOp
    <2>3. pref = tx[s].text
      BY <1>1 DEF RowsAsSeen, Written
    <2>4. tx[s].op # "cancel"
      BY <1>1, <2>1 DEF OrderTxOK
    <2> HIDE DEF pref, count
    <2>5. /\ t.op = tx[s].op /\ t.run = tx[s].run /\ t.user = tx[s].user
          /\ t.text = tx[s].text /\ t.confirm = tx[s].confirm
          /\ t.pref = pref /\ t.step = "commit" /\ t.order = tx[s].order
      BY <2>1 DEF OrderTx
    <2> HIDE DEF t
    <2> QED
      BY <1>1, <2>2, <2>3, <2>4, <2>5 DEF RowsAsSeen, AsAsked
  <1> QED
    BY <1>1, <1>2, EffectFrame

\* A commit touches the rows of its own user and channel only.
LEMMA EffectCommitOrder ==
  ASSUME Inv, EffectInv, UsersApart, NEW s \in Sessions, CommitOrder(s)
  PROVE  EffectInv'
  <1>1. /\ InOrderOp(s) /\ tx[s] \in OrderTx /\ OrderTxOK(tx[s])
        /\ tx[s].step = "commit" /\ Becomes(s, Idle)
        /\ AsAsked(tx[s])
    BY CommitOrderEffect DEF EffectInv, RequestsSeeTables
  <1>2. \A q \in Runs, v \in Users :
           orders'[q][v] = IF q = tx[s].run /\ v = tx[s].user THEN tx[s].order
                           ELSE orders[q][v]
    BY CommitOrderEffect
  <1>3. \A d \in Channels, v \in Users :
           (d # ChannelOf[tx[s].run] \/ v # tx[s].user) =>
               prefs'[d][v] = prefs[d][v]
    BY CommitOrderEffect
  <1>4. RequestsSeeTables'
    <2> SUFFICES ASSUME NEW o \in Sessions, InOrderOp(o)'
                 PROVE  RowsAsSeen(tx[o])' /\ AsAsked(tx[o])'
      BY DEF RequestsSeeTables
    <2>1. o # s /\ tx'[o] = tx[o] /\ InOrderOp(o)
      BY <1>1 DEF Becomes, Idle, InOrderOp
    <2>2. /\ RowsAsSeen(tx[o]) /\ AsAsked(tx[o])
          /\ tx[o].run \in Runs /\ tx[o].user \in Users
          /\ ChannelOf[tx[o].run] \in Channels
      BY <2>1, InOrderRequest, CoffeeRunsAssumption
      DEF EffectInv, RequestsSeeTables, OrderTx
    <2>3. ChannelOf[tx[o].run] # ChannelOf[tx[s].run] \/ tx[o].user # tx[s].user
      BY <1>1, <2>1 DEF UsersApart
    <2>4. /\ orders'[tx[o].run][tx[o].user] = orders[tx[o].run][tx[o].user]
          /\ prefs'[ChannelOf[tx[o].run]][tx[o].user]
                = prefs[ChannelOf[tx[o].run]][tx[o].user]
      BY <1>2, <1>3, <2>2, <2>3
    <2> QED
      BY <2>1, <2>2, <2>4 DEF RowsAsSeen, AsAsked
  <1>5. ActiveOrdersHaveText'
    <2> SUFFICES ASSUME NEW q \in Runs, NEW u \in Active(q)'
                 PROVE  orders'[q][u].text \in Texts
      BY DEF ActiveOrdersHaveText
    <2>1. u \in Users /\ orders'[q][u].state = "active"
      BY DEF Active
    <2>2. CASE q = tx[s].run /\ u = tx[s].user
      <3>1. tx[s].order.state = "active" /\ orders'[q][u] = tx[s].order
        BY <1>2, <2>1, <2>2
      <3> QED
        BY <1>1, <3>1 DEF AsAsked, OrderTxOK
    <2>3. CASE ~(q = tx[s].run /\ u = tx[s].user)
      BY <1>2, <2>1, <2>3 DEF EffectInv, ActiveOrdersHaveText, Active
    <2> QED
      BY <2>2, <2>3
  <1> QED
    BY <1>4, <1>5 DEF EffectInv

LEMMA EffectCommitClose ==
  ASSUME Inv, EffectInv, OrdersApartFromCloses, NEW s \in Sessions,
         CommitClose(s), Closes(s)
  PROVE  EffectInv'
  <1>1. tx[s].op = "close" /\ Becomes(s, Idle)
    BY CommitCloseEffect DEF Closing
  <1>2. RequestsSeeTables'
    <2> SUFFICES ASSUME NEW o \in Sessions, InOrderOp(o)'
                 PROVE  RowsAsSeen(tx[o])' /\ AsAsked(tx[o])'
      BY DEF RequestsSeeTables
    <2>1. o # s /\ tx'[o] = tx[o] /\ InOrderOp(o)
      BY <1>1 DEF Becomes, Idle, InOrderOp
    <2>2. RowsAsSeen(tx[o]) /\ AsAsked(tx[o]) /\ tx[o].run \in Runs
      BY <2>1, InOrderRequest DEF EffectInv, RequestsSeeTables, OrderTx
    <2>3. tx[o].run # tx[s].run
      BY <1>1, <2>1 DEF OrdersApartFromCloses
    <2>4. orders'[tx[o].run] = orders[tx[o].run] /\ prefs' = prefs
      BY <2>2, <2>3 DEF Closes
    <2> QED
      BY <2>1, <2>2, <2>4 DEF RowsAsSeen, AsAsked
  <1>3. ActiveOrdersHaveText'
    BY DEF Closes, EffectInv, ActiveOrdersHaveText, Active
  <1> QED
    BY <1>2, <1>3 DEF EffectInv

LEMMA EffectStep ==
  ASSUME Inv, EffectInv, UsersApart, OrdersApartFromCloses,
         NEW s \in Sessions,
         \/ OrderStep(s) \/ CommitOrder(s) \/ CloseStep(s)
         \/ CommitClose(s) \/ Abort(s)
  PROVE  EffectInv'
  <1>1. CASE BeginOrder(s)
    <2>1. RowsAsSeen(tx[s])' /\ AsAsked(tx[s])'
      BY <1>1, BeginOrderEffect DEF RowsAsSeen, AsAsked
    <2> QED
      BY <1>1, <2>1, BeginOrderEffect, EffectFrame DEF Tables
  <1>2. CASE Abort(s)
    BY <1>2, Ends, EffectFrame DEF Abort, Becomes, Idle, InOrderOp, Tables
  <1>3. CASE CloseStep(s)
    BY <1>3, CloseQuiet, EffectFrame DEF Tables
  <1>4. CASE CommitClose(s) /\ UNCHANGED Tables
    BY <1>4, CommitCloseEffect, EffectFrame DEF Tables, Becomes, Idle, InOrderOp
  <1>5. CASE CommitClose(s) /\ Closes(s)
    BY <1>5, EffectCommitClose
  <1> QED
    BY <1>1, <1>2, <1>3, <1>4, <1>5, CommitCloseEffect, EffectLoadPreference,
       EffectLoadOrder, EffectFlushOrder, EffectFlushPreference,
       EffectCommitOrder
    DEF OrderStep

LEMMA EffectStutter ==
  ASSUME EffectInv, UNCHANGED vars
  PROVE  EffectInv'
  <1>1. RequestsSeeTables'
    <2> SUFFICES ASSUME NEW o \in Sessions, InOrderOp(o)
                 PROVE  RowsAsSeen(tx[o])' /\ AsAsked(tx[o])'
      BY DEF vars, RequestsSeeTables, InOrderOp
    <2>1. RowsAsSeen(tx[o]) /\ AsAsked(tx[o])
      BY DEF EffectInv, RequestsSeeTables
    <2> QED
      BY <2>1 DEF vars, RowsAsSeen, AsAsked
  <1>2. ActiveOrdersHaveText'
    BY DEF vars, EffectInv, ActiveOrdersHaveText, Active
  <1> QED
    BY <1>1, <1>2 DEF EffectInv

LEMMA RequestsKeepEffect ==
  Spec /\ []UsersApart /\ []OrdersApartFromCloses => []EffectInv
  <1>1. Init => EffectInv
    BY DEF Init, EffectInv, RequestsSeeTables, ActiveOrdersHaveText, Active,
           Idle, InOrderOp, NoOrder
  <1>2. Inv /\ EffectInv /\ UsersApart /\ OrdersApartFromCloses /\ [Next]_vars
           => EffectInv'
    <2> SUFFICES ASSUME Inv, EffectInv, UsersApart, OrdersApartFromCloses, Next
                 PROVE  EffectInv'
      BY EffectStutter
    <2> QED
      BY Steps, EffectStep
  <1> QED
    BY <1>1, <1>2, RequestsKeepInv, PTL DEF Spec

\* A request that succeeds has done what it was asked, unless another request
\* of its user in the channel, or a close of its run, was under way with it.
\* Other users' requests for the same run do no harm, and no lost update is
\* possible on a row nobody else writes.
THEOREM RequestsTakeEffect ==
  Spec /\ []UsersApart /\ []OrdersApartFromCloses => RequestTakesEffect
  <1> DEFINE TakesEffect ==
                \A s \in Sessions : CommitOrder(s) =>
                   LET row == orders'[tx[s].run][tx[s].user]
                       pref == prefs'[ChannelOf[tx[s].run]][tx[s].user]
                   IN  IF tx[s].op = "cancel" THEN row.state = "canceled"
                       ELSE /\ row.state = "active"
                            /\ row.text = tx[s].text
                            /\ row.final = tx[s].confirm
                            /\ tx[s].confirm => pref = tx[s].text
  <1>1. Inv /\ EffectInv => TakesEffect
    <2> SUFFICES ASSUME Inv, EffectInv, NEW s \in Sessions, CommitOrder(s)
                 PROVE  LET row == orders'[tx[s].run][tx[s].user]
                            pref == prefs'[ChannelOf[tx[s].run]][tx[s].user]
                        IN  IF tx[s].op = "cancel" THEN row.state = "canceled"
                            ELSE /\ row.state = "active"
                                 /\ row.text = tx[s].text
                                 /\ row.final = tx[s].confirm
                                 /\ tx[s].confirm => pref = tx[s].text
      OBVIOUS
    <2>1. /\ AsAsked(tx[s]) /\ tx[s].step = "commit"
          /\ tx[s].run \in Runs /\ tx[s].user \in Users
          /\ ChannelOf[tx[s].run] \in Channels
      BY CommitOrderEffect, CoffeeRunsAssumption
      DEF EffectInv, RequestsSeeTables, OrderTx
    <2>2. /\ orders'[tx[s].run][tx[s].user] = tx[s].order
          /\ tx[s].confirm =>
                prefs'[ChannelOf[tx[s].run]][tx[s].user] = tx[s].pref
      BY <2>1, CommitOrderEffect
    <2> QED
      BY <2>1, <2>2 DEF AsAsked
  <1>2. Inv /\ EffectInv /\ [Next]_vars => [TakesEffect]_vars
    BY <1>1
  <1> HIDE DEF TakesEffect
  <1>3. Spec /\ []UsersApart /\ []OrdersApartFromCloses => [][TakesEffect]_vars
    BY <1>2, RequestsKeepInv, RequestsKeepEffect, PTL DEF Spec
  <1> QED
    BY <1>3 DEF TakesEffect, RequestTakesEffect
-----------------------------------------------------------------------------
(* The count a request returns: a run's requests apart *)

\* A step of session s that leaves the orders of the runs others order in.
LEMMA CountFrame ==
  ASSUME Inv, CountsSeeOrders, NEW s \in Sessions, Becomes(s, tx'[s]),
         \A o \in Sessions, u \in Users :
            o # s /\ InOrderOp(o) =>
               orders'[tx[o].run][u].state = orders[tx[o].run][u].state,
         InOrderOp(s)' /\ tx'[s].step = "commit" =>
            tx'[s].count = ActiveCount(s, tx[s].run, tx[s].order)'
  PROVE  CountsSeeOrders'
  <1> SUFFICES ASSUME NEW o \in Sessions, InOrderOp(o)', tx'[o].step = "commit"
               PROVE  tx'[o].count = ActiveCount(o, tx[o].run, tx[o].order)'
    BY DEF CountsSeeOrders
  <1>1. CASE o = s
    BY <1>1
  <1>2. CASE o # s
    <2>1. tx'[o] = tx[o] /\ InOrderOp(o)
      BY <1>2 DEF Becomes, InOrderOp
    <2>2. tx[o].count = ActiveCount(o, tx[o].run, tx[o].order)
      BY <2>1 DEF CountsSeeOrders
    <2>3. \A u \in Users : orders'[tx[o].run][u].state
                              = orders[tx[o].run][u].state
      BY <1>2, <2>1
    <2> QED
      BY <2>1, <2>2, <2>3 DEF ActiveCount
  <1> QED
    BY <1>1, <1>2

LEMMA CountFlushOrder ==
  ASSUME Inv, CountsSeeOrders, NEW s \in Sessions, FlushOrder(s)
  PROVE  CountsSeeOrders'
  <1>1. UNCHANGED orders /\ Becomes(s, tx'[s]) /\ InOrderOp(s)
    BY OrderStepEffect DEF Tables, Becomes
  <1>2. ASSUME InOrderOp(s)', tx'[s].step = "commit"
        PROVE  tx'[s].count = ActiveCount(s, tx[s].run, tx[s].order)'
    <2> DEFINE version == OrderVersion(s)
               count == ActiveCount(s, tx[s].run, version)
               pref == IF tx[s].op = "use_last" THEN tx[s].pref
                       ELSE prefs[ChannelOf[tx[s].run]][tx[s].user]
               confirmed == [tx[s] EXCEPT !.step = "flush_preference",
                                          !.order = version, !.pref = pref]
               unconfirmed == [tx[s] EXCEPT !.step = "commit",
                                            !.order = version, !.count = count]
    <2>1. tx[s] \in OrderTx
      BY <1>1, InOrderRequest
    <2>2. tx'[s] = confirmed \/ tx'[s] = unconfirmed
      <3>1. \/ Becomes(s, Idle)
            \/ tx' = [tx EXCEPT ![s] = confirmed]
            \/ tx' = [tx EXCEPT ![s] = unconfirmed]
        BY Ends DEF FlushOrder
      <3> HIDE DEF confirmed, unconfirmed
      <3>2. \/ Becomes(s, Idle)
            \/ Becomes(s, confirmed)
            \/ Becomes(s, unconfirmed)
        BY <3>1, MovesTo
      <3> QED
        BY <1>2, <3>2 DEF Becomes, Idle, InOrderOp
    <2> HIDE DEF version, count, pref
    <2>3. /\ confirmed.step = "flush_preference"
          /\ unconfirmed.run = tx[s].run /\ unconfirmed.user = tx[s].user
          /\ unconfirmed.order = version /\ unconfirmed.count = count
      BY <2>1 DEF OrderTx
    <2> HIDE DEF confirmed, unconfirmed
    <2> QED
      BY <1>1, <1>2, <2>2, <2>3 DEF ActiveCount, count
  <1> QED
    BY <1>1, <1>2, CountFrame

LEMMA CountFlushPreference ==
  ASSUME Inv, CountsSeeOrders, NEW s \in Sessions, FlushPreference(s)
  PROVE  CountsSeeOrders'
  <1>1. UNCHANGED orders /\ Becomes(s, tx'[s]) /\ InOrderOp(s)
    BY OrderStepEffect DEF Tables, Becomes
  <1>2. ASSUME InOrderOp(s)', tx'[s].step = "commit"
        PROVE  tx'[s].count = ActiveCount(s, tx[s].run, tx[s].order)'
    <2> DEFINE pref == Written(prefs[ChannelOf[tx[s].run]][tx[s].user],
                               tx[s].pref, tx[s].text)
               count == ActiveCount(s, tx[s].run, tx[s].order)
               t == [tx[s] EXCEPT !.step = "commit", !.pref = pref,
                                  !.count = count]
    <2>1. tx[s] \in OrderTx
      BY <1>1, InOrderRequest
    <2>2. tx'[s] = t
      <3>1. Becomes(s, Idle) \/ tx' = [tx EXCEPT ![s] = t]
        BY Ends DEF FlushPreference
      <3> HIDE DEF t
      <3>2. Becomes(s, Idle) \/ Becomes(s, t)
        BY <3>1, MovesTo
      <3> QED
        BY <1>2, <3>2 DEF Becomes, Idle, InOrderOp
    <2> HIDE DEF pref, count
    <2>3. /\ t.run = tx[s].run /\ t.user = tx[s].user
          /\ t.order = tx[s].order /\ t.count = count
      BY <2>1 DEF OrderTx
    <2> HIDE DEF t
    <2> QED
      BY <1>1, <2>2, <2>3 DEF ActiveCount, count
  <1> QED
    BY <1>1, <1>2, CountFrame

LEMMA CountStep ==
  ASSUME Inv, CountsSeeOrders, OrdersApart, NEW s \in Sessions,
         \/ OrderStep(s) \/ CommitOrder(s) \/ CloseStep(s)
         \/ CommitClose(s) \/ Abort(s)
  PROVE  CountsSeeOrders'
  <1>1. CASE BeginOrder(s) \/ LoadPreference(s) \/ LoadOrder(s)
    <2>1. UNCHANGED orders /\ Becomes(s, tx'[s])
      BY <1>1, BeginOrderEffect, OrderStepEffect DEF Tables, Becomes
    <2>2. InOrderOp(s)' => tx'[s].step # "commit"
      <3>1. CASE BeginOrder(s)
        BY <3>1, BeginOrderEffect
      <3>2. CASE LoadPreference(s) \/ LoadOrder(s)
        <4>1. tx[s] \in OrderTx
          BY <3>2, InOrderRequest DEF LoadPreference, LoadOrder
        <4> DEFINE pref == prefs[ChannelOf[tx[s].run]][tx[s].user]
                   order == orders[tx[s].run][tx[s].user]
                   t1 == [tx[s] EXCEPT !.step = "order", !.text = pref,
                                       !.pref = pref]
                   t2 == [tx[s] EXCEPT !.step = "flush_order",
                                       !.order = order]
        <4>2. \/ Becomes(s, Idle) \/ tx' = [tx EXCEPT ![s] = t1]
              \/ tx' = [tx EXCEPT ![s] = t2]
          BY <3>2, Ends DEF LoadPreference, LoadOrder
        <4>3. t1.step = "order" /\ t2.step = "flush_order"
          BY <4>1 DEF OrderTx
        <4> HIDE DEF t1, t2
        <4>4. Becomes(s, Idle) \/ Becomes(s, t1) \/ Becomes(s, t2)
          BY <4>2, MovesTo
        <4> QED
          BY <4>3, <4>4 DEF Becomes, Idle, InOrderOp
      <3> QED
        BY <1>1, <3>1, <3>2
    <2> QED
      BY <2>1, <2>2, CountFrame
  <1>2. CASE CommitOrder(s)
    <2>1. /\ InOrderOp(s) /\ Becomes(s, Idle)
          /\ \A q \in Runs, v \in Users :
                q # tx[s].run => orders'[q][v] = orders[q][v]
      BY <1>2, CommitOrderEffect
    <2>2. \A o \in Sessions :
             o # s /\ InOrderOp(o) => tx[o].run \in Runs
                                      /\ tx[o].run # tx[s].run
      BY <2>1, InOrderRequest DEF OrdersApart, OrderTx
    <2>3. ~InOrderOp(s)' /\ Becomes(s, tx'[s])
      BY <2>1 DEF Becomes, Idle, InOrderOp
    <2> QED
      BY <2>1, <2>2, <2>3, CountFrame
  <1>3. CASE CloseStep(s)
    BY <1>3, CloseQuiet, CountFrame DEF Tables
  <1>4. CASE CommitClose(s)
    <2>1. Becomes(s, Idle) /\ (UNCHANGED Tables \/ Closes(s))
      BY <1>4, CommitCloseEffect
    <2>2. \A q \in Runs, u \in Users : orders'[q][u].state = orders[q][u].state
      BY <2>1 DEF Closes, Tables
    <2>3. \A o \in Sessions : InOrderOp(o) => tx[o].run \in Runs
      BY InOrderRequest DEF OrderTx
    <2>4. ~InOrderOp(s)' /\ Becomes(s, tx'[s])
      BY <2>1 DEF Becomes, Idle, InOrderOp
    <2> QED
      BY <2>2, <2>3, <2>4, CountFrame
  <1>5. CASE Abort(s)
    BY <1>5, Ends, CountFrame DEF Abort, Becomes, Idle, InOrderOp, Tables
  <1> QED
    BY <1>1, <1>2, <1>3, <1>4, <1>5, CountFlushOrder, CountFlushPreference
    DEF OrderStep

LEMMA OrdersKeepCount == Spec /\ []OrdersApart => []CountsSeeOrders
  <1>1. Init => CountsSeeOrders
    BY DEF Init, CountsSeeOrders, Idle, InOrderOp
  <1>2. Inv /\ CountsSeeOrders /\ OrdersApart /\ [Next]_vars
           => CountsSeeOrders'
    <2> SUFFICES ASSUME Inv, CountsSeeOrders, OrdersApart, [Next]_vars
                 PROVE  CountsSeeOrders'
      OBVIOUS
    <2>1. CASE Next
      BY <2>1, Steps, CountStep
    <2>2. CASE UNCHANGED vars
      <3> SUFFICES ASSUME NEW o \in Sessions, InOrderOp(o),
                          tx[o].step = "commit"
                   PROVE  tx'[o].count
                             = ActiveCount(o, tx[o].run, tx[o].order)'
        BY <2>2 DEF vars, CountsSeeOrders, InOrderOp
      <3>1. tx[o].count = ActiveCount(o, tx[o].run, tx[o].order)
        BY DEF CountsSeeOrders
      <3> QED
        BY <2>2, <3>1 DEF vars, ActiveCount
    <2> QED
      BY <2>1, <2>2
  <1> QED
    BY <1>1, <1>2, RequestsKeepInv, PTL DEF Spec

\* The participant count a request returns is right once it has committed,
\* unless somebody else was ordering in the same run.  A close of the run may
\* be under way: it leaves every order active or canceled as it was.
THEOREM CountsAreRight == Spec /\ []OrdersApart => CountAccurate
  <1> DEFINE CountRight ==
                \A s \in Sessions : CommitOrder(s) =>
                   tx[s].count = Cardinality(
                      {u \in Users : orders'[tx[s].run][u].state = "active"})
  <1>1. Inv /\ CountsSeeOrders => CountRight
    <2> SUFFICES ASSUME Inv, CountsSeeOrders, NEW s \in Sessions, CommitOrder(s)
                 PROVE  tx[s].count = Cardinality(
                    {u \in Users : orders'[tx[s].run][u].state = "active"})
      OBVIOUS
    <2>1. tx[s].count = ActiveCount(s, tx[s].run, tx[s].order)
      BY CommitOrderEffect DEF CountsSeeOrders
    <2>2. tx[s].run \in Runs
      BY CommitOrderEffect DEF OrderTx
    <2>3. \A u \in Users : orders'[tx[s].run][u]
                              = IF u = tx[s].user THEN tx[s].order
                                ELSE orders[tx[s].run][u]
      BY <2>2, CommitOrderEffect
    <2>4. {u \in Users : orders'[tx[s].run][u].state = "active"}
             = {u \in Users : IF u = tx[s].user THEN tx[s].order.state = "active"
                              ELSE orders[tx[s].run][u].state = "active"}
      BY <2>3
    <2> QED
      BY <2>1, <2>4 DEF ActiveCount
  <1>2. Inv /\ CountsSeeOrders /\ [Next]_vars => [CountRight]_vars
    BY <1>1
  <1> HIDE DEF CountRight
  <1>3. Spec /\ []OrdersApart => [][CountRight]_vars
    BY <1>2, RequestsKeepInv, OrdersKeepCount, PTL DEF Spec
  <1> QED
    BY <1>3, PTL DEF CountRight, CountAccurate
-----------------------------------------------------------------------------
(* The order book: a user's requests apart, and apart from closes *)

\* The text of a user's active order.
TextOf(r, u) == IF u \in Active(r) THEN orders[r][u].text ELSE NoText

BookActive == [r \in Runs |-> [u \in Users |-> TextOf(r, u)]]

BookFinal == [r \in Runs |-> FinalOrders(r)]

BookClosed == {r \in Runs : runs[r].status = "closed"}

LEMMA BookInit == Init => Book!Init
  <1> SUFFICES ASSUME Init PROVE Book!Init
    OBVIOUS
  <1>1. \A r \in Runs : Active(r) = {} /\ runs[r].status # "closed"
    BY DEF Init, Active, NoOrder, OpenRun
  <1>2. BookActive = [r \in Runs |-> [u \in Users |-> NoText]]
    BY <1>1 DEF BookActive, TextOf
  <1>3. BookFinal = [r \in Runs |-> {}]
    BY <1>1 DEF BookFinal, FinalOrders
  <1>4. BookClosed = {}
    BY <1>1 DEF BookClosed
  <1> QED
    BY <1>2, <1>3, <1>4
    DEF Init, Book!Init, BookActive, BookFinal, BookClosed, TextOf

\* What the book shows of a run's orders, and of nothing else, is what a
\* commit changes.
LEMMA BookFrame ==
  ASSUME UNCHANGED <<orders, prefs>>, UNCHANGED BookClosed
  PROVE  UNCHANGED Book!vars
  <1>1. \A r \in Runs : /\ Active(r)' = Active(r)
                        /\ FinalOrders(r)' = FinalOrders(r)
    BY DEF Active, FinalOrders
  <1>2. BookActive' = BookActive /\ BookFinal' = BookFinal
    BY <1>1 DEF BookActive, BookFinal, TextOf
  <1> QED
    BY <1>2 DEF Book!vars, BookActive, BookFinal, BookClosed, TextOf

\* The commit of an order request places, replaces or cancels an order.
LEMMA BookCommitOrder ==
  ASSUME Inv, FinalInv, EffectInv, NEW s \in Sessions, CommitOrder(s)
  PROVE  Book!Next
  <1>1. PICK r \in Runs, u \in Users, text \in Texts \cup {NoText},
             confirm \in BOOLEAN, order \in Order, c \in Channels :
           /\ r = tx[s].run /\ u = tx[s].user /\ text = tx[s].text
           /\ confirm = tx[s].confirm /\ order = tx[s].order
           /\ c = ChannelOf[r]
    BY CommitOrderEffect, CoffeeRunsAssumption DEF OrderTx
  <1>2. /\ InOrderOp(s) /\ tx[s].step = "commit" /\ OrderTxOK(tx[s])
        /\ UNCHANGED runs
        /\ RowsAsSeen(tx[s]) /\ AsAsked(tx[s])
    BY CommitOrderEffect DEF EffectInv, RequestsSeeTables
  <1>3. runs[r].status = "open"
    BY <1>1, <1>2 DEF FinalInv, OrdersOnOpenRuns
  <1>4. r \notin BookClosed /\ UNCHANGED BookClosed
    BY <1>2, <1>3 DEF BookClosed
  <1>5. \A q \in Runs, v \in Users :
           orders'[q][v] = IF q = r /\ v = u THEN order ELSE orders[q][v]
    BY <1>1, CommitOrderEffect
  <1>6. prefs' = IF confirm THEN [prefs EXCEPT ![c][u] = tx[s].pref] ELSE prefs
    BY <1>1 DEF CommitOrder
  <1>7. \A q \in Runs, v \in Users :
           (q # r \/ v # u) => /\ v \in Active(q)' <=> v \in Active(q)
                               /\ TextOf(q, v)' = TextOf(q, v)
                               /\ v \in FinalOrders(q)' <=> v \in FinalOrders(q)
    BY <1>5 DEF Active, TextOf, FinalOrders
  <1>8. \A q \in Runs : /\ FinalOrders(q) \subseteq Users
                        /\ FinalOrders(q)' \subseteq Users
    BY DEF FinalOrders, Active
  <1>9. orders'[r][u] = order
    BY <1>5
  <1>10. CASE tx[s].op = "cancel"
    <2>1. order.state = "canceled" /\ ~confirm /\ orders[r][u].state = "active"
      BY <1>1, <1>2, <1>10 DEF RowsAsSeen, AsAsked, OrderTxOK
    <2>2. u \in Active(r)
      BY <2>1 DEF Active
    <2>3. u \notin Active(r)'
      BY <1>9, <2>1 DEF Active
    <2>4. TextOf(r, u)' = NoText
      BY <2>3 DEF TextOf
    <2>5. u \notin FinalOrders(r)'
      BY <2>3 DEF FinalOrders
    <2>6. BookActive' = [BookActive EXCEPT ![r][u] = NoText]
      BY <1>7, <2>4 DEF BookActive
    <2>7. BookFinal' = [BookFinal EXCEPT ![r] = @ \ {u}]
      <3>1. \A q \in Runs : FinalOrders(q)' = IF q = r THEN FinalOrders(r) \ {u}
                                              ELSE FinalOrders(q)
        BY <1>7, <1>8, <2>5
      <3> QED
        BY <3>1 DEF BookFinal
    <2>8. BookActive[r][u] # NoText
      BY <2>2, CoffeeRunsAssumption
      DEF BookActive, TextOf, EffectInv, ActiveOrdersHaveText
    <2>9. Book!Cancel(r, u)
      BY <1>4, <1>6, <2>1, <2>6, <2>7, <2>8
      DEF Book!Cancel, Book!Participants, BookActive, BookFinal, BookClosed,
          TextOf
    <2> QED
      BY <2>9 DEF Book!Next
  <1>11. CASE tx[s].op # "cancel"
    <2>1. /\ text \in Texts
          /\ order = [state |-> "active", text |-> text, final |-> confirm]
          /\ confirm => tx[s].pref = text
      BY <1>1, <1>2, <1>11 DEF AsAsked, OrderTxOK
    <2>2. /\ order.state = "active" /\ order.text = text
          /\ order.final = confirm
      BY <2>1
    <2>3. u \in Active(r)'
      BY <1>9, <2>2 DEF Active
    <2>4. TextOf(r, u)' = text
      BY <1>9, <2>2, <2>3 DEF TextOf
    <2>5. u \in FinalOrders(r)' <=> confirm
      BY <1>9, <2>2, <2>3 DEF FinalOrders
    <2>6. BookActive' = [BookActive EXCEPT ![r][u] = text]
      BY <1>7, <2>4 DEF BookActive
    <2>7. BookFinal' = [BookFinal EXCEPT ![r] = IF confirm THEN @ \cup {u}
                                                ELSE @ \ {u}]
      <3>1. \A q \in Runs : FinalOrders(q)' =
               IF q = r THEN IF confirm THEN FinalOrders(r) \cup {u}
                             ELSE FinalOrders(r) \ {u}
               ELSE FinalOrders(q)
        BY <1>7, <1>8, <2>5
      <3> QED
        BY <3>1 DEF BookFinal
    <2>8. IF confirm THEN prefs' = [prefs EXCEPT ![c][u] = text]
          ELSE prefs' = prefs
      BY <1>6, <2>1
    <2>9. Book!Place(r, u, text, confirm)
      BY <1>1, <1>4, <2>6, <2>7, <2>8
      DEF Book!Place, Book!Remember, BookActive, BookFinal, BookClosed, TextOf
    <2> QED
      BY <2>1, <2>9 DEF Book!Next
  <1> QED
    BY <1>10, <1>11

\* A close makes every active order final; if another close of the run got
\* through before it, there is nothing left to change.
LEMMA BookCommitClose ==
  ASSUME Inv, FinalInv, FinalInv', EffectInv, NEW s \in Sessions,
         CommitClose(s), Closes(s)
  PROVE  Book!Next \/ UNCHANGED Book!vars
  <1>1. PICK r \in Runs : r = tx[s].run
    BY CommitCloseEffect
  <1>2. /\ Closing(s, "commit") /\ tx[s].runner \in Participants(s)
        /\ UNCHANGED prefs
    BY CommitCloseEffect DEF Closes
  <1>3. Active(r) # {}
    BY <1>1, <1>2 DEF FinalInv, ClosesSeeOrders, SeesOrders, Closing
  <1>4. \A q \in Runs : Active(q)' = Active(q)
    BY ClosedRunsGrow
  <1>5. BookActive' = BookActive
    <2>1. \A q \in Runs, u \in Users : orders'[q][u].text = orders[q][u].text
      BY DEF Closes
    <2>2. \A q \in Runs, u \in Users : TextOf(q, u)' = TextOf(q, u)
      BY <1>4, <2>1 DEF TextOf
    <2> QED
      BY <2>2 DEF BookActive
  <1>6. BookClosed' = BookClosed \cup {r}
    BY <1>1 DEF BookClosed, Closes
  <1>7. FinalOrders(r)' = Active(r)
    <2>1. runs'[r].status = "closed"
      BY <1>1 DEF Closes
    <2>2. \A u \in Active(r)' : orders'[r][u].final
      BY <2>1 DEF FinalInv, ClosedOrdersFinal
    <2> QED
      BY <1>4, <2>2 DEF FinalOrders
  <1>8. \A q \in Runs : q # r => FinalOrders(q)' = FinalOrders(q)
    BY <1>1, <1>4 DEF FinalOrders, Closes
  <1>9. CASE r \notin BookClosed
    <2>1. {u \in Users : BookActive[r][u] # NoText} = Active(r)
      BY CoffeeRunsAssumption
      DEF BookActive, TextOf, EffectInv, ActiveOrdersHaveText, Active
    <2>2. BookFinal' = [BookFinal EXCEPT ![r] = Active(r)]
      BY <1>7, <1>8 DEF BookFinal
    <2>3. Book!Close(r)
      BY <1>2, <1>3, <1>5, <1>6, <1>9, <2>1, <2>2
      DEF Book!Close, Book!Participants, BookActive, BookFinal, BookClosed,
          TextOf
    <2> QED
      BY <2>3 DEF Book!Next
  <1>10. CASE r \in BookClosed
    <2>1. FinalOrders(r) = Active(r)
      BY <1>10 DEF BookClosed, FinalInv, ClosedOrdersFinal, FinalOrders
    <2>2. BookFinal' = BookFinal /\ BookClosed' = BookClosed
      BY <1>6, <1>7, <1>8, <1>10, <2>1 DEF BookFinal
    <2> QED
      BY <1>2, <1>5, <2>2
      DEF Book!vars, BookActive, BookFinal, BookClosed, TextOf
  <1> QED
    BY <1>9, <1>10

LEMMA BookStep ==
  ASSUME Inv, FinalInv, EffectInv, OrdersApartFromCloses, NEW s \in Sessions,
         \/ OrderStep(s) \/ CommitOrder(s) \/ CloseStep(s)
         \/ CommitClose(s) \/ Abort(s)
  PROVE  Book!Next \/ UNCHANGED Book!vars
  <1>1. CASE UNCHANGED Tables
    BY <1>1, BookFrame DEF Tables, BookClosed
  <1>2. CASE CommitClose(s) /\ Closes(s)
    BY <1>2, BookCommitClose, FinalStep
  <1> QED
    BY <1>1, <1>2, OrderQuiet, CloseQuiet, CommitCloseEffect, BookCommitOrder

\* Taking orders and closing runs through the database implements the order
\* book as long as a user has one request under way at most in a channel, and
\* none in a run that is being closed.  Requests of different users, and
\* closes of the same run, may overlap.
THEOREM RunsImplementOrderBook ==
  Spec /\ []UsersApart /\ []OrdersApartFromCloses => ImplementsOrderBook
  <1>1. Inv /\ FinalInv /\ EffectInv /\ OrdersApartFromCloses /\ [Next]_vars
           => [Book!Next]_Book!vars
    <2> SUFFICES ASSUME Inv, FinalInv, EffectInv, OrdersApartFromCloses,
                        [Next]_vars
                 PROVE  Book!Next \/ UNCHANGED Book!vars
      OBVIOUS
    <2>1. CASE Next
      BY <2>1, Steps, BookStep
    <2>2. CASE UNCHANGED vars
      BY <2>2, BookFrame DEF vars, BookClosed
    <2> QED
      BY <2>1, <2>2
  <1> QED
    BY <1>1, BookInit, RequestsKeepInv, OrdersKeepFinal, RequestsKeepEffect, PTL
    DEF Spec, ImplementsOrderBook, Book!Spec
-----------------------------------------------------------------------------
(* The rotation: closes of a channel apart, and nobody ordering meanwhile *)

LEMMA EligibleMayRun ==
  ASSUME NEW participants, NEW last, NEW repeat, NEW u
  PROVE  u \in Eligible(participants, last, repeat) <=>
            /\ u \in participants
            /\ u = last => (repeat \/ participants = {last})
  BY DEF Eligible

\* No candidate has served fewer runs than the one chosen.
LEMMA ChosenServedLeast ==
  ASSUME NEW participants,
         NEW rows \in [participants -> Stat],
         NEW candidates \in SUBSET participants,
         NEW u, IsChosen(rows, candidates, u),
         NEW v \in candidates
  PROVE  rows[u].count <= rows[v].count
  <1>1. u \in candidates /\ ~Before(rows, v, u)
    BY DEF IsChosen
  <1>2. ~(rows[v].count < rows[u].count)
    BY <1>1 DEF Before
  <1>3. rows[u] \in Stat /\ rows[v] \in Stat
    BY <1>1
  <1> QED
    BY <1>2, <1>3 DEF Stat

LEMMA ChoiceFrame ==
  ASSUME Inv, ChoicesAreFair, NEW s \in Sessions, Becomes(s, tx'[s]),
         UNCHANGED runs,
         tx'[s].op = "close" => FairChoice(s)'
  PROVE  ChoicesAreFair'
  <1> SUFFICES ASSUME NEW o \in Sessions, tx'[o].op = "close"
               PROVE  FairChoice(o)'
    BY DEF ChoicesAreFair
  <1>1. CASE o = s
    BY <1>1
  <1>2. CASE o # s
    <2>1. tx'[o] = tx[o] /\ FairChoice(o)
      BY <1>2 DEF Becomes, ChoicesAreFair
    <2> QED
      BY <2>1 DEF FairChoice, ClosedRuns, IsPreviousRunner, Participants
  <1> QED
    BY <1>1, <1>2

\* The previous runner is looked up while no other close of the channel is
\* under way.
LEMMA ChoicePrevious ==
  ASSUME Inv, LedgerInv, ChoicesAreFair, NEW s \in Sessions,
         LoadPreviousRunner(s)
  PROVE  ChoicesAreFair'
  <1>1. /\ tx[s] \in CloseTx /\ Closing(s, "previous") /\ UNCHANGED runs
    BY LoadPreviousRunnerEffect DEF Tables
  <1>2. PICK u \in Users \cup {NoUser} :
           /\ IsPreviousRunner(ClosedRuns(ChannelOf[tx[s].run])
                                  \ {tx[s].run}, u)
           /\ Becomes(s, [tx[s] EXCEPT !.step = "assign", !.last = u])
    BY LoadPreviousRunnerEffect
  <1>3. /\ tx'[s].run = tx[s].run /\ tx'[s].last = u
        /\ tx'[s].step = "assign" /\ Becomes(s, tx'[s])
    BY <1>1, <1>2 DEF Becomes, CloseTx
  <1>4. tx[s].run \notin ClosedRuns(ChannelOf[tx[s].run])
    BY <1>1 DEF LedgerInv, ClosesSeeLedger, SeesLedger, Closing, ClosedRuns
  <1>5. IsPreviousRunner(ClosedRuns(ChannelOf[tx[s].run]), u)
    <2>1. ClosedRuns(ChannelOf[tx[s].run]) \ {tx[s].run}
             = ClosedRuns(ChannelOf[tx[s].run])
      BY <1>4
    <2> QED
      BY <1>2, <2>1
  <1>6. FairChoice(s)'
    BY <1>1, <1>3, <1>5 DEF FairChoice, IsPreviousRunner, ClosedRuns
  <1> QED
    BY <1>1, <1>3, <1>6, ChoiceFrame

LEMMA ChoiceAssign ==
  ASSUME Inv, LedgerInv, ChoicesAreFair, NEW s \in Sessions, AssignRunner(s)
  PROVE  ChoicesAreFair'
  <1>1. /\ tx[s] \in CloseTx /\ Closing(s, "assign") /\ UNCHANGED runs
        /\ tx[s].run \in Runs /\ ChannelOf[tx[s].run] \in Channels
    BY AssignRunnerEffect, CoffeeRunsAssumption DEF Tables, CloseTx
  <1> DEFINE candidates == Eligible(Participants(s), tx[s].last, tx[s].repeat)
             rows == [v \in Participants(s) |->
                         Loaded(RowsRead(s)[v], clock + 1)]
  <1>2. PICK u \in Participants(s) :
           /\ IsChosen(rows, candidates, u)
           /\ Becomes(s, [tx[s] EXCEPT !.step = "commit", !.rows = RowsRead(s),
                                       !.runner = u, !.at = clock + 1])
    BY AssignRunnerEffect
  <1>3. /\ tx'[s].run = tx[s].run /\ tx'[s].last = tx[s].last
        /\ tx'[s].repeat = tx[s].repeat /\ tx'[s].loaded = tx[s].loaded
        /\ tx'[s].rows = RowsRead(s) /\ tx'[s].runner = u
        /\ Becomes(s, tx'[s])
    BY <1>1, <1>2 DEF Becomes, CloseTx
  <1>4. /\ Participants(s) \subseteq Users
        /\ candidates \subseteq Participants(s)
    BY DEF Participants, Eligible
  <1>5. \A v \in Participants(s) :
           /\ rows[v] \in Stat
           /\ rows[v].count = RowsRead(s)[v].count
    <2> SUFFICES ASSUME NEW v \in Participants(s)
                 PROVE  /\ rows[v] \in Stat
                        /\ rows[v].count = RowsRead(s)[v].count
      OBVIOUS
    <2>1. RowsRead(s)[v] = stats[ChannelOf[tx[s].run]][v]
      BY <1>4 DEF RowsRead
    <2>2. /\ RowsRead(s)[v] \in Stat
          /\ ~Exists(RowsRead(s)[v]) => RowsRead(s)[v] = NoStat
      BY <1>1, <1>4, <2>1 DEF Inv, TypeOK, LedgerInv, MissingStatsBlank
    <2>3. clock + 1 \in Nat
      BY DEF Inv, TypeOK
    <2>4. rows[v] = Loaded(RowsRead(s)[v], clock + 1)
      OBVIOUS
    <2> HIDE DEF rows
    <2> QED
      BY <2>2, <2>3, <2>4 DEF Loaded, Exists, Stat, NoStat
  <1>6. u \in candidates
    BY <1>2 DEF IsChosen
  <1>7. \A v \in candidates : RowsRead(s)[u].count <= RowsRead(s)[v].count
    <2>1. rows \in [Participants(s) -> Stat]
      BY <1>5
    <2> HIDE DEF rows, candidates
    <2>2. \A v \in candidates : rows[u].count <= rows[v].count
      BY <1>2, <1>4, <2>1, ChosenServedLeast
    <2> QED
      BY <1>4, <1>5, <1>6, <2>2
  <1>8. FairChoice(s)
    BY <1>1 DEF ChoicesAreFair, Closing
  <1>9. IsPreviousRunner(ClosedRuns(ChannelOf[tx[s].run]), tx[s].last)
    BY <1>1, <1>8 DEF FairChoice, Closing
  <1>10. FairChoice(s)'
    <2>1. Participants(s)' = Participants(s)
      BY <1>3 DEF Participants
    <2> QED
      BY <1>1, <1>3, <1>6, <1>7, <1>9, <2>1
      DEF FairChoice, IsPreviousRunner, ClosedRuns
  <1> QED
    BY <1>1, <1>3, <1>10, ChoiceFrame

LEMMA ChoiceCommitClose ==
  ASSUME Inv, ChoicesAreFair, ClosesApart, NEW s \in Sessions,
         CommitClose(s), Closes(s)
  PROVE  ChoicesAreFair'
  <1>1. /\ tx[s].op = "close" /\ tx[s].run \in Runs
        /\ Becomes(s, Idle)
    BY CommitCloseEffect DEF Closing
  <1> SUFFICES ASSUME NEW o \in Sessions, tx'[o].op = "close"
               PROVE  FairChoice(o)'
    BY DEF ChoicesAreFair
  <1>2. o # s /\ tx'[o] = tx[o]
    BY <1>1 DEF Becomes, Idle
  <1>3. tx[o] \in CloseTx /\ FairChoice(o)
    BY <1>2, InClose DEF ChoicesAreFair
  <1>4. PICK d \in Channels : /\ d = ChannelOf[tx[o].run]
                              /\ d # ChannelOf[tx[s].run]
    BY <1>1, <1>2, <1>3, CoffeeRunsAssumption DEF ClosesApart, CloseTx
  <1>5. ClosedRuns(d)' = ClosedRuns(d)
    BY <1>4, ClosedRunsGrow
  <1>6. \A q \in ClosedRuns(d) : runs'[q] = runs[q]
    BY <1>4 DEF Closes, ClosedRuns
  <1>7. IsPreviousRunner(ClosedRuns(d), tx[o].last)
           => IsPreviousRunner(ClosedRuns(d), tx[o].last)'
    BY <1>2, <1>5, <1>6 DEF IsPreviousRunner
  <1> QED
    BY <1>2, <1>3, <1>4, <1>7 DEF FairChoice, Participants

LEMMA ChoiceStep ==
  ASSUME Inv, LedgerInv, ChoicesAreFair, ClosesApart, NEW s \in Sessions,
         \/ OrderStep(s) \/ CommitOrder(s) \/ CloseStep(s)
         \/ CommitClose(s) \/ Abort(s)
  PROVE  ChoicesAreFair'
  <1>1. CASE OrderStep(s) \/ Abort(s)
    BY <1>1, OrderQuiet, ChoiceFrame DEF Tables
  <1>2. CASE CommitOrder(s)
    BY <1>2, CommitOrderEffect, ChoiceFrame DEF Becomes, Idle
  <1>3. CASE CommitClose(s)
    <2>1. CASE UNCHANGED Tables
      BY <1>3, <2>1, CommitCloseEffect, ChoiceFrame DEF Tables, Becomes, Idle
    <2> QED
      BY <1>3, <2>1, CommitCloseEffect, ChoiceCommitClose
  <1>4. CASE \E r \in Runs, repeat \in BOOLEAN : CloseRun(s, r, repeat)
    <2>1. PICK r \in Runs, repeat \in BOOLEAN : CloseRun(s, r, repeat)
      BY <1>4
    <2>2. tx'[s].step = "orders" /\ Becomes(s, tx'[s]) /\ UNCHANGED runs
      BY <2>1, CloseRunEffect DEF Tables
    <2>3. FairChoice(s)'
      BY <2>2 DEF FairChoice
    <2> QED
      BY <2>2, <2>3, ChoiceFrame
  <1>5. CASE LoadActiveOrders(s)
    <2> DEFINE loaded == [u \in Users |-> IF u \in Active(tx[s].run)
                                          THEN orders[tx[s].run][u]
                                          ELSE NoOrder]
               t == [tx[s] EXCEPT !.step = "previous", !.loaded = loaded]
    <2>1. /\ tx[s] \in CloseTx /\ UNCHANGED runs
          /\ Becomes(s, Idle) \/ Becomes(s, t)
      BY <1>5, LoadActiveOrdersEffect DEF Tables
    <2>2. t.step = "previous"
      BY <2>1 DEF CloseTx
    <2> HIDE DEF t
    <2>3. tx'[s].op = "close" => FairChoice(s)'
      BY <2>1, <2>2 DEF Becomes, Idle, FairChoice
    <2>4. Becomes(s, tx'[s])
      BY <2>1 DEF Becomes
    <2> QED
      BY <2>1, <2>3, <2>4, ChoiceFrame
  <1> QED
    BY <1>1, <1>2, <1>3, <1>4, <1>5, ChoicePrevious, ChoiceAssign DEF CloseStep

LEMMA ClosesKeepChoice == Spec /\ []ClosesApart => []ChoicesAreFair
  <1>1. Init => ChoicesAreFair
    BY DEF Init, ChoicesAreFair, Idle
  <1>2. Inv /\ LedgerInv /\ ChoicesAreFair /\ ClosesApart /\ [Next]_vars
           => ChoicesAreFair'
    <2> SUFFICES ASSUME Inv, LedgerInv, ChoicesAreFair, ClosesApart,
                        [Next]_vars
                 PROVE  ChoicesAreFair'
      OBVIOUS
    <2>1. CASE Next
      BY <2>1, Steps, ChoiceStep
    <2>2. CASE UNCHANGED vars
      <3> SUFFICES ASSUME NEW o \in Sessions, tx[o].op = "close"
                   PROVE  FairChoice(o)'
        BY <2>2 DEF vars, ChoicesAreFair
      <3>1. FairChoice(o)
        BY DEF ChoicesAreFair
      <3> QED
        BY <2>2, <3>1 DEF vars, FairChoice, ClosedRuns, IsPreviousRunner,
                          Participants
    <2> QED
      BY <2>1, <2>2
  <1> QED
    BY <1>1, <1>2, RequestsKeepInv, ClosesKeepLedger, PTL DEF Spec

\* The closed runs of a channel have one previous runner: whoever is found is
\* who everybody finds.
LEMMA LatestRunnerIs ==
  TypeOK /\ ClosesOrdered =>
     \A c \in Channels, u \in Users \cup {NoUser} :
        IsPreviousRunner(ClosedRuns(c), u) => LatestRunner(c) = u
  <1> SUFFICES ASSUME TypeOK, ClosesOrdered,
                      NEW c \in Channels, NEW u \in Users \cup {NoUser},
                      IsPreviousRunner(ClosedRuns(c), u)
               PROVE  LatestRunner(c) = u
    OBVIOUS
  <1>1. ASSUME NEW v, IsPreviousRunner(ClosedRuns(c), v)
        PROVE  v = u
    <2>1. CASE ClosedRuns(c) = {}
      BY <1>1, <2>1 DEF IsPreviousRunner
    <2>2. CASE ClosedRuns(c) # {}
      <3>1. PICK p \in ClosedRuns(c) :
               /\ v = runs[p].runner
               /\ \A r \in ClosedRuns(c) : runs[r].closedAt <= runs[p].closedAt
        BY <1>1, <2>2 DEF IsPreviousRunner
      <3>2. PICK q \in ClosedRuns(c) :
               /\ u = runs[q].runner
               /\ \A r \in ClosedRuns(c) : runs[r].closedAt <= runs[q].closedAt
        BY <2>2 DEF IsPreviousRunner
      <3>3. runs[p].closedAt \in Nat /\ runs[q].closedAt \in Nat
        BY DEF ClosedRuns, TypeOK, Run
      <3>4. runs[p].closedAt = runs[q].closedAt
        BY <3>1, <3>2, <3>3
      <3> QED
        BY <3>1, <3>2, <3>4 DEF ClosesOrdered
    <2> QED
      BY <2>1, <2>2
  <1> QED
    BY <1>1 DEF LatestRunner

Served == [u \in Users |-> stats[kitchen][u].count]

LEMMA RotationInit == Init => KitchenRotation!Init
  <1> SUFFICES ASSUME Init PROVE KitchenRotation!Init
    OBVIOUS
  <1>1. ClosedRuns(kitchen) = {}
    BY DEF Init, ClosedRuns, OpenRun
  <1>2. Served = [u \in Users |-> 0]
    BY KitchenAssumption DEF Init, Served, NoStat
  <1>3. LatestRunner(kitchen) = NoUser
    BY <1>1 DEF LatestRunner, IsPreviousRunner
  <1>4. Regulars(kitchen) = Users
    BY <1>1 DEF Regulars
  <1> QED
    BY <1>2, <1>3, <1>4 DEF KitchenRotation!Init, Served

\* Steps that touch neither the closed runs of the kitchen, nor who took part
\* in them, nor its statistics.
LEMMA RotationFrame ==
  ASSUME ClosedRuns(kitchen)' = ClosedRuns(kitchen),
         \A q \in ClosedRuns(kitchen) : /\ runs'[q] = runs[q]
                                        /\ Active(q)' = Active(q),
         \A u \in Users : stats'[kitchen][u] = stats[kitchen][u]
  PROVE  UNCHANGED KitchenRotation!vars
  <1>1. Served' = Served
    BY DEF Served
  <1>2. Regulars(kitchen)' = Regulars(kitchen)
    BY DEF Regulars
  <1>3. LatestRunner(kitchen)' = LatestRunner(kitchen)
    <2>1. \A u \in Users \cup {NoUser} :
             IsPreviousRunner(ClosedRuns(kitchen), u)'
                <=> IsPreviousRunner(ClosedRuns(kitchen), u)
      BY DEF IsPreviousRunner
    <2> QED
      BY <2>1, Zenon DEF LatestRunner
  <1> QED
    BY <1>1, <1>2, <1>3 DEF KitchenRotation!vars, Served

\* Each close of the kitchen is a turn of the rotation.
LEMMA RotationClose ==
  ASSUME Inv, LedgerInv, LedgerInv', TypeOK', FinalInv, ChoicesAreFair,
         NEW s \in Sessions, CommitClose(s), Closes(s),
         ChannelOf[tx[s].run] = kitchen
  PROVE  KitchenRotation!Next
  <1>0. /\ tx[s] \in CloseTx /\ CloseTxOK(tx[s]) /\ Closing(s, "commit")
        /\ tx[s].run \in Runs
        /\ tx[s].runner \in Participants(s) /\ tx[s].runner \in Users
    BY CommitCloseEffect
  <1>1. PICK r \in Runs, runner \in Users, at \in Nat, repeat \in BOOLEAN,
             last \in Users \cup {NoUser}, participants \in SUBSET Users :
           /\ r = tx[s].run /\ runner = tx[s].runner /\ at = tx[s].at
           /\ repeat = tx[s].repeat /\ last = tx[s].last
           /\ participants = Participants(s)
    BY <1>0 DEF CloseTx, Participants
  <1>2. /\ runs[r].status = "open"
        /\ \A u \in participants : tx[s].rows[u] = stats[kitchen][u]
        /\ \A q \in ClosedRuns(kitchen) : runs[q].closedAt < at
    BY <1>0, <1>1 DEF LedgerInv, ClosesSeeLedger, SeesLedger, Closing
  <1>3. participants = Active(r)
    BY <1>0, <1>1 DEF FinalInv, ClosesSeeOrders, SeesOrders, Closing
  <1>4. FairChoice(s)
    BY <1>0 DEF ChoicesAreFair, Closing
  <1>5. LatestRunner(kitchen) = last
    <2>1. IsPreviousRunner(ClosedRuns(kitchen), last)
      BY <1>0, <1>1, <1>4 DEF FairChoice, Closing
    <2> QED
      BY <2>1, LatestRunnerIs, KitchenAssumption DEF Inv, LedgerInv
  <1>6. /\ ClosedRuns(kitchen)' = ClosedRuns(kitchen) \cup {r}
        /\ \A q \in Runs : Active(q)' = Active(q)
    BY <1>1, KitchenAssumption, ClosedRunsGrow
  <1>7. /\ runs'[r].runner = runner /\ runs'[r].closedAt = at
        /\ \A q \in ClosedRuns(kitchen) : runs'[q] = runs[q]
    BY <1>1, <1>2 DEF Closes, ClosedRuns
  <1>8. LatestRunner(kitchen)' = runner
    <2>1. \A q \in ClosedRuns(kitchen) : runs[q].closedAt <= at
      BY <1>2 DEF Inv, TypeOK, ClosedRuns, Run
    <2>2. IsPreviousRunner(ClosedRuns(kitchen), runner)'
      BY <1>6, <1>7, <2>1 DEF IsPreviousRunner
    <2>3. (TypeOK /\ ClosesOrdered =>
              \A c \in Channels, u \in Users \cup {NoUser} :
                 IsPreviousRunner(ClosedRuns(c), u) => LatestRunner(c) = u)'
      BY LatestRunnerIs, PTL
    <2>4. IsPreviousRunner(ClosedRuns(kitchen), runner)'
             => LatestRunner(kitchen)' = runner
      BY <2>3, KitchenAssumption DEF LedgerInv
    <2> QED
      BY <2>2, <2>4
  <1>9. Regulars(kitchen)' = Regulars(kitchen) \cap participants
    <2>1. ClosedRuns(kitchen) \subseteq Runs
      BY DEF ClosedRuns
    <2> QED
      BY <1>3, <1>6, <2>1 DEF Regulars
  <1>10. Served' = [Served EXCEPT ![runner] = @ + 1]
    <2>1. \A u \in Users : stats'[kitchen][u].count =
             IF u = runner THEN stats[kitchen][u].count + 1
             ELSE stats[kitchen][u].count
      BY <1>1, LedgerEntry
    <2> QED
      BY <2>1 DEF Served
  <1>11. \A u : u \in Eligible(participants, last, repeat) <=>
                   KitchenRotation!MayRun(participants, repeat, u)
    BY <1>5, EligibleMayRun DEF KitchenRotation!MayRun
  <1>12. KitchenRotation!MayRun(participants, repeat, runner)
    BY <1>0, <1>1, <1>4, <1>11 DEF FairChoice, Closing
  <1>13. \A u \in participants :
            KitchenRotation!MayRun(participants, repeat, u) =>
               Served[runner] <= Served[u]
    <2> SUFFICES ASSUME NEW u \in participants,
                        u \in Eligible(participants, last, repeat)
                 PROVE  Served[runner] <= Served[u]
      BY <1>11
    <2>1. tx[s].rows[runner].count <= tx[s].rows[u].count
      BY <1>0, <1>1, <1>4 DEF FairChoice, Closing
    <2>2. u \in Users /\ runner \in participants
      BY <1>0, <1>1
    <2> QED
      BY <1>2, <2>1, <2>2 DEF Served
  <1>14. KitchenRotation!Assign(participants, repeat, runner)
    BY <1>5, <1>8, <1>9, <1>10, <1>12, <1>13
    DEF KitchenRotation!Assign, Served
  <1> QED
    BY <1>14 DEF KitchenRotation!Next

LEMMA RotationStep ==
  ASSUME Inv, LedgerInv, FinalInv, ChoicesAreFair,
         ClosesApart, OrdersApartFromCloses, NEW s \in Sessions,
         \/ OrderStep(s) \/ CommitOrder(s) \/ CloseStep(s)
         \/ CommitClose(s) \/ Abort(s)
  PROVE  KitchenRotation!Next \/ UNCHANGED KitchenRotation!vars
  <1>1. CASE UNCHANGED Tables
    BY <1>1, RotationFrame DEF Tables, ClosedRuns, Active
  <1>2. CASE CommitOrder(s)
    <2>1. /\ UNCHANGED <<runs, stats>>
          /\ InOrderOp(s) /\ tx[s].run \in Runs
          /\ \A q \in Runs, u \in Users :
                q # tx[s].run => orders'[q][u] = orders[q][u]
      BY <1>2, CommitOrderEffect DEF OrderTx
    <2>2. runs[tx[s].run].status = "open"
      BY <2>1 DEF FinalInv, OrdersOnOpenRuns
    <2>3. \A q \in ClosedRuns(kitchen) : q \in Runs /\ q # tx[s].run
      BY <2>2 DEF ClosedRuns
    <2>4. \A q \in ClosedRuns(kitchen) : Active(q)' = Active(q)
      BY <2>1, <2>3 DEF Active
    <2>5. ClosedRuns(kitchen)' = ClosedRuns(kitchen)
      BY <2>1 DEF ClosedRuns
    <2> QED
      BY <2>1, <2>4, <2>5, RotationFrame
  <1>3. CASE CommitClose(s) /\ Closes(s) /\ ChannelOf[tx[s].run] = kitchen
    <2>1. LedgerInv' /\ TypeOK'
      BY <1>3, LedgerClose, CommitCloseInv DEF Inv
    <2> QED
      BY <1>3, <2>1, RotationClose
  <1>4. CASE CommitClose(s) /\ Closes(s) /\ ChannelOf[tx[s].run] # kitchen
    <2>1. /\ ClosedRuns(kitchen)' = ClosedRuns(kitchen)
          /\ \A q \in Runs : Active(q)' = Active(q)
      BY <1>4, ClosedRunsGrow, KitchenAssumption
    <2>2. \A q \in ClosedRuns(kitchen) : q \in Runs /\ runs'[q] = runs[q]
      BY <1>4 DEF Closes, ClosedRuns
    <2>3. \A u \in Users : stats'[kitchen][u] = stats[kitchen][u]
      BY <1>4, KitchenAssumption DEF Closes
    <2> QED
      BY <2>1, <2>2, <2>3, RotationFrame
  <1> QED
    BY <1>1, <1>2, <1>3, <1>4, OrderQuiet, CloseQuiet, CommitCloseEffect

\* Closing the runs of a channel through the database is fair rotation, as
\* long as the closes of a channel do not overlap and nobody orders in a run
\* that is being closed.  Closes of different channels may overlap, and so
\* may all order requests.
THEOREM RunsImplementRotation ==
  Spec /\ []ClosesApart /\ []OrdersApartFromCloses => ImplementsRotation
  <1>1. (/\ Inv /\ LedgerInv /\ FinalInv /\ ChoicesAreFair
         /\ ClosesApart /\ OrdersApartFromCloses /\ [Next]_vars)
           => [KitchenRotation!Next]_KitchenRotation!vars
    <2> SUFFICES ASSUME Inv, LedgerInv, FinalInv, ChoicesAreFair,
                        ClosesApart, OrdersApartFromCloses, [Next]_vars
                 PROVE  KitchenRotation!Next \/ UNCHANGED KitchenRotation!vars
      OBVIOUS
    <2>1. CASE Next
      BY <2>1, Steps, RotationStep
    <2>2. CASE UNCHANGED vars
      BY <2>2, RotationFrame DEF vars, ClosedRuns, Active
    <2> QED
      BY <2>1, <2>2
  <1> QED
    BY <1>1, RotationInit, RequestsKeepInv, ClosesKeepLedger, OrdersKeepFinal,
       ClosesKeepChoice, PTL
    DEF Spec, ImplementsRotation, KitchenRotation!Spec

\* The facts proved of every fair rotation, read through the mapping.
RotationFacts == INSTANCE FairRotationProofs
    WITH served <- [u \in Users |-> stats[kitchen][u].count],
         last <- LatestRunner(kitchen),
         regulars <- Regulars(kitchen)

\* Users with an order in every closed run of a channel have been sent
\* equally often, give or take one run, under the same separations.
THEOREM RunsSpreadFairly ==
  Spec /\ []ClosesApart /\ []OrdersApartFromCloses => []FairSpread
  <1>1. RotationFacts!Spec
           => [](RotationFacts!TypeOK /\ RotationFacts!FairSpread)
    BY RotationFacts!RotationIsFair
  <1>2. KitchenRotation!Spec <=> RotationFacts!Spec
    BY PTL
    DEF KitchenRotation!Spec, RotationFacts!Spec,
        KitchenRotation!Init, RotationFacts!Init,
        KitchenRotation!Next, RotationFacts!Next,
        KitchenRotation!vars, RotationFacts!vars,
        KitchenRotation!Assign, RotationFacts!Assign,
        KitchenRotation!MayRun, RotationFacts!MayRun
  <1>3. RotationFacts!FairSpread <=> FairSpread
    BY DEF RotationFacts!FairSpread, FairSpread, KitchenRotation!FairSpread
  <1> QED
    BY <1>1, <1>2, <1>3, RunsImplementRotation, PTL DEF ImplementsRotation
-----------------------------------------------------------------------------
(* Serving one request after the other *)

LEMMA OneAtATimeSeparates ==
  OneAtATime =>
     ClosesApart /\ OrdersApartFromCloses /\ UsersApart /\ OrdersApart
  <1> SUFFICES ASSUME OneAtATime
               PROVE  /\ ClosesApart /\ OrdersApartFromCloses
                      /\ UsersApart /\ OrdersApart
    OBVIOUS
  <1>1. \A s \in Sessions : tx[s].op = "close" \/ InOrderOp(s) => tx[s] # Idle
    BY DEF Idle, InOrderOp
  <1>2. \A s \in Sessions : ~(tx[s].op = "close" /\ InOrderOp(s))
    BY DEF InOrderOp
  <1> QED
    BY <1>1, <1>2
    DEF OneAtATime, ClosesApart, OrdersApartFromCloses, UsersApart, OrdersApart

\* Requests served one at a time, as by a single worker that finishes each
\* before it takes the next, keep every promise.
THEOREM OneAtATimeKeepsPromises ==
  Spec /\ []OneAtATime => /\ []LedgerExact /\ []ClosedOrdersFinal
                          /\ RequestTakesEffect /\ CountAccurate
                          /\ ImplementsOrderBook
                          /\ ImplementsRotation /\ []FairSpread
  <1>1. []OneAtATime => /\ []ClosesApart /\ []OrdersApartFromCloses
                        /\ []UsersApart /\ []OrdersApart
    BY OneAtATimeSeparates, PTL
  <1> QED
    BY <1>1, LedgerIsExact, ClosedOrdersStay, RequestsTakeEffect,
       CountsAreRight, RunsImplementOrderBook, RunsImplementRotation,
       RunsSpreadFairly, PTL
=============================================================================
