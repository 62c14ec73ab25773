-------------------------- MODULE CoffeeRunsProofs --------------------------
(***************************************************************************)
(* The invariants of CoffeeRuns, for any number of users, runs, channels   *)
(* and concurrent sessions.                                                *)
(*                                                                         *)
(* Every action either leaves the tables alone and changes one session, or *)
(* commits a session's writes.  The first kind needs only that the new     *)
(* session record is consistent with the tables (SessionStep).  The two    *)
(* commits need that the tables only grow (TablesGrow), which keeps every  *)
(* other session consistent.                                               *)
(***************************************************************************)
EXTENDS CoffeeRuns, FiniteSetTheorems, TLAPS

(* Operators *)

\* An UPDATE yields a row whose columns come from the table or the request.
LEMMA UpdatedOrderType ==
  ASSUME NEW row \in Order, NEW loaded \in Order, NEW new \in Order
  PROVE  /\ UpdatedOrder(row, loaded, new) \in Order
         /\ UpdatedOrder(row, loaded, new).state \in {row.state, new.state}
         /\ UpdatedOrder(row, loaded, new).final \in {row.final, new.final}
         /\ new.state = loaded.state =>
                UpdatedOrder(row, loaded, new).state = row.state
         /\ new.final = loaded.final =>
                UpdatedOrder(row, loaded, new).final = row.final
  BY DEF UpdatedOrder, Written, Order

LEMMA StatTypes ==
  ASSUME NEW stat \in Stat, NEW t \in Nat, t > 0
  PROVE  /\ Loaded(stat, t) \in Stat
         /\ Exists(Loaded(stat, t))
         /\ Credited(stat, t) \in Stat
         /\ Credited(stat, t).count > 0
         /\ Exists(stat) => Exists(Credited(stat, t))
  BY DEF Loaded, Credited, Exists, Stat

\* The operation of a session tells what kind of record it holds.
LEMMA SessionKind ==
  ASSUME TypeOK, NEW s \in Sessions
  PROVE  /\ InOrderOp(s) => tx[s] \in OrderTx /\ tx[s].op # "close"
         /\ tx[s].op = "close" => tx[s] \in CloseTx /\ ~InOrderOp(s)
         /\ tx[s] = Idle => tx[s].op # "close" /\ ~InOrderOp(s)
  BY DEF TypeOK, Idle, OrderTx, CloseTx, InOrderOp

-----------------------------------------------------------------------------
(* Steps that leave the tables alone *)

\* t may become a session's record.
SessionOK(t) ==
    /\ t \in {Idle} \cup OrderTx \cup CloseTx
    /\ t.op \in {"submit", "use_last", "cancel"} => OrderTxOK(t)
    /\ t.op = "close" => CloseTxOK(t)

LEMMA IdleOK == SessionOK(Idle)
  BY DEF SessionOK, Idle

\* A step that changes one session only, and at most advances the clock.
LEMMA SessionStep ==
  ASSUME Inv,
         NEW s \in Sessions,
         DOMAIN tx' = Sessions, tx' = [o \in DOMAIN tx' |-> tx'[o]],
         \A o \in Sessions : o # s => tx'[o] = tx[o],
         SessionOK(tx[s])',
         UNCHANGED Tables,
         clock' \in Nat, clock' >= clock
  PROVE  Inv'
  <1> USE DEF Inv
  <1>1. runs' = runs /\ orders' = orders /\ prefs' = prefs /\ stats' = stats
    BY DEF Tables
  <1>2. tx' \in [Sessions -> {Idle} \cup OrderTx \cup CloseTx]
    BY DEF TypeOK, SessionOK
  <1>3. TypeOK'
    BY <1>1, <1>2 DEF TypeOK
  <1>4. ClosedRunsAreBacked'
    <2>1. clock \in Nat
      BY DEF TypeOK
    <2> QED
      BY <1>1, <2>1 DEF ClosedRunsAreBacked
  <1>5. StatsAreBacked' /\ MissingStatsEmpty'
    BY <1>1 DEF StatsAreBacked, MissingStatsEmpty, ClosedRuns
  <1>6. PreferencesTrackOrders' /\ PreferencesComeFromOrders'
    BY <1>1 DEF PreferencesTrackOrders, PreferencesComeFromOrders
  <1>7. ASSUME NEW o \in Sessions
        PROVE  /\ InOrderOp(o)' => OrderTxOK(tx[o])'
               /\ (tx[o].op = "close")' => CloseTxOK(tx[o])'
    <2>1. CASE o = s
      BY <2>1 DEF SessionOK, InOrderOp
    <2>2. CASE o # s
      <3>1. tx'[o] = tx[o]
        BY <2>2
      <3>2. CASE InOrderOp(o)
        <4>1. OrderTxOK(tx[o])
          BY <3>2 DEF SessionsConsistent
        <4> QED
          BY <4>1, <3>1, <3>2, <1>1, SessionKind DEF OrderTxOK, InOrderOp
      <3>3. CASE tx[o].op = "close"
        <4>1. CloseTxOK(tx[o]) /\ clock \in Nat
          BY <3>3 DEF SessionsConsistent, TypeOK
        <4> QED
          BY <4>1, <3>1, <3>3, <1>1, SessionKind DEF CloseTxOK, InOrderOp
      <3> QED
        BY <3>1, <3>2, <3>3 DEF InOrderOp
    <2> QED
      BY <2>1, <2>2
  <1>8. SessionsConsistent'
    BY <1>7 DEF SessionsConsistent
  <1> QED
    BY <1>3, <1>4, <1>5, <1>6, <1>8

\* What replacing one session's record does to tx.
LEMMA ReplaceSession ==
  ASSUME TypeOK, NEW s \in Sessions, NEW t, tx' = [tx EXCEPT ![s] = t]
  PROVE  /\ DOMAIN tx' = Sessions
         /\ tx' = [o \in DOMAIN tx' |-> tx'[o]]
         /\ \A o \in Sessions : o # s => tx'[o] = tx[o]
         /\ tx'[s] = t
  BY DEF TypeOK

\* The same, for a step that replaces the record whole.
LEMMA ReplaceInv ==
  ASSUME Inv, NEW s \in Sessions, NEW t, tx' = [tx EXCEPT ![s] = t],
         SessionOK(tx[s])', UNCHANGED Tables, clock' \in Nat, clock' >= clock
  PROVE  Inv'
  <1>1. TypeOK
    BY DEF Inv
  <1>2. /\ DOMAIN tx' = Sessions
        /\ tx' = [o \in DOMAIN tx' |-> tx'[o]]
        /\ \A o \in Sessions : o # s => tx'[o] = tx[o]
    BY <1>1, ReplaceSession
  <1> QED
    BY <1>2, SessionStep

LEMMA EndInv ==
  ASSUME Inv, NEW s \in Sessions, End(s), UNCHANGED <<Tables, clock>>
  PROVE  Inv'
  <1>1. tx' = [tx EXCEPT ![s] = Idle]
    BY DEF End
  <1>2. SessionOK(tx[s])'
    <2>1. tx'[s] = Idle
      BY <1>1, ReplaceSession DEF Inv
    <2> QED
      BY <2>1 DEF SessionOK, Idle
  <1>3. clock' \in Nat /\ clock' >= clock
    BY DEF Inv, TypeOK
  <1> QED
    BY <1>1, <1>2, <1>3, ReplaceInv

LEMMA BeginInv ==
  ASSUME Inv, NEW s \in Sessions, NEW r \in Runs, NEW u \in Users,
         NEW text \in Texts \cup {NoText}, NEW confirm \in BOOLEAN,
         NEW op, NEW step,
         Begin(s, op, step, r, u, text, confirm),
         \/ op = "submit" /\ step = "order" /\ text \in Texts
         \/ op = "use_last" /\ step = "preference"
         \/ op = "cancel" /\ step = "order" /\ ~confirm
  PROVE  Inv'
  <1> DEFINE t == [op |-> op, step |-> step, run |-> r, user |-> u,
                   text |-> text, confirm |-> confirm, order |-> NoOrder,
                   pref |-> NoText, count |-> 0]
  <1>1. tx' = [tx EXCEPT ![s] = t] /\ UNCHANGED <<Tables, clock>>
    BY DEF Begin
  <1>2. t \in OrderTx
    BY DEF OrderTx, NoOrder, Order
  <1>4. tx'[s] = t
    BY <1>1, ReplaceSession DEF Inv
  <1>3. OrderTxOK(tx[s])'
    BY <1>4 DEF OrderTxOK, NoOrder
  <1>5. SessionOK(tx[s])'
    BY <1>2, <1>3, <1>4 DEF SessionOK, OrderTx
  <1>6. clock' \in Nat /\ clock' >= clock
    BY <1>1 DEF Inv, TypeOK
  <1> HIDE DEF t
  <1> QED
    BY <1>1, <1>5, <1>6, ReplaceInv

\* What is known of a session in the middle of an order request, and of one
\* in the middle of a close.
LEMMA InOrderRequest ==
  ASSUME Inv, NEW s \in Sessions, InOrderOp(s)
  PROVE  tx[s] \in OrderTx /\ OrderTxOK(tx[s])
  BY SessionKind DEF Inv, SessionsConsistent

LEMMA InClose ==
  ASSUME Inv, NEW s \in Sessions, tx[s].op = "close"
  PROVE  tx[s] \in CloseTx /\ CloseTxOK(tx[s])
  BY SessionKind DEF Inv, SessionsConsistent

LEMMA LoadPreferenceInv ==
  ASSUME Inv, NEW s \in Sessions, LoadPreference(s)
  PROVE  Inv'
  <1> DEFINE pref == prefs[ChannelOf[tx[s].run]][tx[s].user]
             t == [tx[s] EXCEPT !.step = "order", !.text = pref, !.pref = pref]
  <1>1. tx[s] \in OrderTx /\ OrderTxOK(tx[s]) /\ tx[s].step = "preference"
    BY InOrderRequest DEF LoadPreference
  <1>2. CASE End(s)
    BY <1>2, EndInv DEF LoadPreference
  <1>3. CASE pref # NoText /\ tx' = [tx EXCEPT ![s] = t]
    <2>1. tx'[s] = t
      BY <1>3, ReplaceSession DEF Inv
    <2>2. pref \in Texts
      BY <1>1, <1>3, CoffeeRunsAssumption DEF Inv, TypeOK, OrderTx
    <2>3. t \in OrderTx
      BY <1>1, <2>2 DEF OrderTx
    <2>4. OrderTxOK(tx[s])'
      BY <1>1, <2>1, <2>2, <2>3 DEF OrderTxOK, OrderTx, LoadPreference, Tables
    <2>5. SessionOK(tx[s])'
      BY <2>1, <2>3, <2>4 DEF SessionOK, OrderTx
    <2>6. UNCHANGED Tables /\ clock' \in Nat /\ clock' >= clock
      BY DEF LoadPreference, Inv, TypeOK
    <2> HIDE DEF t
    <2> QED
      BY <1>3, <2>5, <2>6, ReplaceInv
  <1> QED
    BY <1>2, <1>3 DEF LoadPreference

LEMMA LoadOrderInv ==
  ASSUME Inv, NEW s \in Sessions, LoadOrder(s)
  PROVE  Inv'
  <1> DEFINE order == orders[tx[s].run][tx[s].user]
             t == [tx[s] EXCEPT !.step = "flush_order", !.order = order]
  <1>1. tx[s] \in OrderTx /\ OrderTxOK(tx[s]) /\ tx[s].step = "order"
    BY InOrderRequest DEF LoadOrder
  <1>2. CASE End(s)
    BY <1>2, EndInv DEF LoadOrder
  <1>3. CASE /\ tx[s].op = "cancel" => order.state = "active"
             /\ tx' = [tx EXCEPT ![s] = t]
    <2>1. tx'[s] = t
      BY <1>3, ReplaceSession DEF Inv
    <2>2. order \in Order
      BY <1>1 DEF Inv, TypeOK, OrderTx
    <2>3. t \in OrderTx
      BY <1>1, <2>2 DEF OrderTx
    <2>4. OrderTxOK(tx[s])'
      <3>1. /\ t.op = tx[s].op /\ t.run = tx[s].run /\ t.user = tx[s].user
            /\ t.text = tx[s].text /\ t.confirm = tx[s].confirm
            /\ t.pref = tx[s].pref /\ t.step = "flush_order" /\ t.order = order
        BY <1>1 DEF OrderTx
      <3>2. UNCHANGED Tables
        BY DEF LoadOrder
      <3> HIDE DEF t
      <3> QED
        BY <1>1, <1>3, <2>1, <3>1, <3>2 DEF OrderTxOK, Tables
    <2>5. SessionOK(tx[s])'
      BY <2>1, <2>3, <2>4 DEF SessionOK, OrderTx
    <2>6. UNCHANGED Tables /\ clock' \in Nat /\ clock' >= clock
      BY DEF LoadOrder, Inv, TypeOK
    <2> HIDE DEF t
    <2> QED
      BY <1>3, <2>5, <2>6, ReplaceInv
  <1> QED
    BY <1>2, <1>3 DEF LoadOrder

LEMMA CountType ==
  ASSUME NEW s \in Sessions, NEW r \in Runs, NEW own
  PROVE  ActiveCount(s, r, own) \in Nat
  <1> DEFINE counted == {u \in Users :
                            IF u = tx[s].user THEN own.state = "active"
                            ELSE orders[r][u].state = "active"}
  <1>1. counted \subseteq Users
    OBVIOUS
  <1>2. IsFiniteSet(counted)
    BY <1>1, CoffeeRunsAssumption, FS_Subset
  <1> QED
    BY <1>2, FS_CardinalityType DEF ActiveCount

\* The version a flush writes: an existing row, confirmed only if the request
\* confirms it or the table already had it confirmed.
LEMMA VersionType ==
  ASSUME Inv, NEW s \in Sessions, InOrderOp(s), tx[s].step = "flush_order"
  PROVE  /\ OrderVersion(s) \in Order
         /\ OrderVersion(s).state # "none"
         /\ (OrderVersion(s).final /\ ~tx[s].confirm) =>
                orders[tx[s].run][tx[s].user].final
  <1> DEFINE row == orders[tx[s].run][tx[s].user]
             loaded == tx[s].order
  <1>1. tx[s] \in OrderTx /\ OrderTxOK(tx[s])
    BY InOrderRequest
  <1>2. row \in Order /\ loaded \in Order /\ tx[s].confirm \in BOOLEAN
    BY <1>1 DEF Inv, TypeOK, OrderTx
  <1>3. /\ Assigned(s) \in Order
        /\ Assigned(s).state # "none"
        /\ Assigned(s).final = IF tx[s].op = "cancel" THEN loaded.final
                               ELSE tx[s].confirm
    BY <1>1, <1>2 DEF Assigned, Order, OrderTx, OrderTxOK
  <1>4. CASE loaded.state = "none"
    BY <1>1, <1>2, <1>3, <1>4 DEF OrderVersion, OrderTxOK
  <1>5. CASE loaded.state # "none"
    <2>1. row.state # "none"
      BY <1>1, <1>5 DEF OrderTxOK
    <2>2. OrderVersion(s) = UpdatedOrder(row, loaded, Assigned(s))
      BY <1>5 DEF OrderVersion
    <2> HIDE DEF row, loaded
    <2>3. /\ OrderVersion(s) \in Order
          /\ OrderVersion(s).state \in {row.state, Assigned(s).state}
          /\ OrderVersion(s).final \in {row.final, Assigned(s).final}
          /\ Assigned(s).final = loaded.final =>
                 OrderVersion(s).final = row.final
      BY <1>2, <1>3, <2>2, UpdatedOrderType
    <2>4. (OrderVersion(s).final /\ ~tx[s].confirm) => row.final
      BY <1>2, <1>3, <2>3
    <2> QED
      BY <1>3, <2>1, <2>3, <2>4 DEF row
  <1> QED
    BY <1>4, <1>5

LEMMA FlushOrderInv ==
  ASSUME Inv, NEW s \in Sessions, FlushOrder(s)
  PROVE  Inv'
  <1> DEFINE r == tx[s].run
             u == tx[s].user
             version == OrderVersion(s)
             pref == IF tx[s].op = "use_last" THEN tx[s].pref
                     ELSE prefs[ChannelOf[r]][u]
             count == ActiveCount(s, r, version)
             confirmed == [tx[s] EXCEPT !.step = "flush_preference",
                                        !.order = version, !.pref = pref]
             unconfirmed == [tx[s] EXCEPT !.step = "commit",
                                          !.order = version, !.count = count]
  <1>1. /\ tx[s] \in OrderTx /\ OrderTxOK(tx[s]) /\ tx[s].step = "flush_order"
        /\ r \in Runs /\ u \in Users
    BY InOrderRequest DEF FlushOrder, OrderTx
  <1>2. /\ version \in Order
        /\ version.state # "none"
        /\ (version.final /\ ~tx[s].confirm) => orders[r][u].final
    BY VersionType DEF FlushOrder
  <1>3. UNCHANGED Tables /\ clock' \in Nat /\ clock' >= clock
    BY DEF FlushOrder, Inv, TypeOK
  <1>4. CASE End(s)
    BY <1>4, EndInv DEF FlushOrder
  <1>5. CASE tx[s].confirm /\ tx' = [tx EXCEPT ![s] = confirmed]
    <2>1. tx'[s] = confirmed
      BY <1>5, ReplaceSession DEF Inv
    <2>2. pref \in Texts \cup {NoText}
      BY <1>1, CoffeeRunsAssumption DEF Inv, TypeOK, OrderTx
    <2> HIDE DEF version
    <2>3. confirmed \in OrderTx
      BY <1>1, <1>2, <2>2 DEF OrderTx
    <2>4. OrderTxOK(tx[s])'
      <3> DEFINE t == confirmed
      <3>1. /\ t.op = tx[s].op /\ t.run = r /\ t.user = u
            /\ t.text = tx[s].text /\ t.confirm = tx[s].confirm
            /\ t.pref = pref /\ t.step = "flush_preference" /\ t.order = version
        BY <1>1 DEF OrderTx
      <3>2. /\ tx[s].op # "cancel" /\ t.text \in Texts
            /\ pref # NoText => prefs[ChannelOf[r]][u] # NoText
        BY <1>1, <1>5 DEF OrderTxOK
      <3> HIDE DEF confirmed, t, pref
      <3> QED
        BY <1>1, <1>2, <1>3, <1>5, <2>1, <3>1, <3>2 DEF OrderTxOK, Tables, t
    <2>5. SessionOK(tx[s])'
      BY <2>1, <2>3, <2>4 DEF SessionOK, OrderTx
    <2> HIDE DEF confirmed
    <2> QED
      BY <1>3, <1>5, <2>5, ReplaceInv
  <1>6. CASE ~tx[s].confirm /\ tx' = [tx EXCEPT ![s] = unconfirmed]
    <2>1. tx'[s] = unconfirmed
      BY <1>6, ReplaceSession DEF Inv
    <2>2. count \in Nat
      BY <1>1, CountType
    <2>3. version.final /\ runs[r].status = "open" =>
              prefs[ChannelOf[r]][u] # NoText
      BY <1>1, <1>2, <1>6 DEF Inv, PreferencesTrackOrders
    <2> HIDE DEF version, count
    <2>4. unconfirmed \in OrderTx
      BY <1>1, <1>2, <2>2 DEF OrderTx
    <2>5. OrderTxOK(tx[s])'
      <3> DEFINE t == unconfirmed
      <3>1. /\ t.op = tx[s].op /\ t.run = r /\ t.user = u
            /\ t.text = tx[s].text /\ t.confirm = tx[s].confirm
            /\ t.pref = tx[s].pref /\ t.step = "commit" /\ t.order = version
        BY <1>1 DEF OrderTx
      <3> HIDE DEF unconfirmed
      <3>2. t.op # "cancel" => t.text \in Texts
        BY <1>1, <3>1 DEF OrderTxOK
      <3> HIDE DEF t
      <3> QED
        BY <1>1, <1>2, <1>3, <1>6, <2>1, <2>3, <3>1, <3>2
        DEF OrderTxOK, Tables, t
    <2>6. SessionOK(tx[s])'
      BY <2>1, <2>4, <2>5 DEF SessionOK, OrderTx
    <2> HIDE DEF unconfirmed
    <2> QED
      BY <1>3, <1>6, <2>6, ReplaceInv
  <1> QED
    BY <1>4, <1>5, <1>6 DEF FlushOrder

LEMMA FlushPreferenceInv ==
  ASSUME Inv, NEW s \in Sessions, FlushPreference(s)
  PROVE  Inv'
  <1> DEFINE c == ChannelOf[tx[s].run]
             u == tx[s].user
             pref == Written(prefs[c][u], tx[s].pref, tx[s].text)
             count == ActiveCount(s, tx[s].run, tx[s].order)
             t == [tx[s] EXCEPT !.step = "commit", !.pref = pref,
                                !.count = count]
  <1>1. /\ tx[s] \in OrderTx /\ OrderTxOK(tx[s])
        /\ tx[s].step = "flush_preference"
    BY InOrderRequest DEF FlushPreference
  <1>2. UNCHANGED Tables /\ clock' \in Nat /\ clock' >= clock
    BY DEF FlushPreference, Inv, TypeOK
  <1>3. CASE End(s)
    BY <1>3, EndInv DEF FlushPreference
  <1>4. CASE tx' = [tx EXCEPT ![s] = t]
    <2>1. tx'[s] = t
      BY <1>4, ReplaceSession DEF Inv
    <2>2. c \in Channels /\ u \in Users /\ tx[s].run \in Runs
      BY <1>1, CoffeeRunsAssumption DEF OrderTx
    <2>3. count \in Nat
      BY <2>2, CountType
    <2>4. pref \in Texts
      BY <1>1, <2>2, CoffeeRunsAssumption
      DEF Written, OrderTxOK, Inv, TypeOK
    <2> HIDE DEF pref, count
    <2>5. t \in OrderTx
      BY <1>1, <2>3, <2>4 DEF OrderTx
    <2>6. OrderTxOK(tx[s])'
      BY <1>1, <1>2, <2>1, <2>4, <2>5, CoffeeRunsAssumption
      DEF OrderTxOK, OrderTx, Tables
    <2>7. SessionOK(tx[s])'
      BY <2>1, <2>5, <2>6 DEF SessionOK, OrderTx
    <2> HIDE DEF t
    <2> QED
      BY <1>2, <1>4, <2>7, ReplaceInv
  <1> QED
    BY <1>3, <1>4 DEF FlushPreference

LEMMA CloseRunInv ==
  ASSUME Inv, NEW s \in Sessions, NEW r \in Runs, NEW repeat \in BOOLEAN,
         CloseRun(s, r, repeat)
  PROVE  Inv'
  <1> DEFINE t == [op |-> "close", step |-> "orders", run |-> r,
                   repeat |-> repeat, loaded |-> [u \in Users |-> NoOrder],
                   last |-> NoUser, rows |-> [u \in Users |-> NoStat],
                   runner |-> NoUser, at |-> 0]
  <1>1. tx' = [tx EXCEPT ![s] = t] /\ UNCHANGED <<Tables, clock>>
    BY DEF CloseRun
  <1>2. tx'[s] = t
    BY <1>1, ReplaceSession DEF Inv
  <1>3. t \in CloseTx
    <2>1. NoOrder \in Order /\ NoStat \in Stat
      BY DEF NoOrder, Order, NoStat, Stat
    <2> QED
      BY <2>1 DEF CloseTx
  <1>4. CloseTxOK(tx[s])'
    BY <1>2 DEF CloseTxOK, NoOrder
  <1>5. SessionOK(tx[s])'
    BY <1>2, <1>3, <1>4 DEF SessionOK
  <1>6. clock' \in Nat /\ clock' >= clock
    BY <1>1 DEF Inv, TypeOK
  <1> HIDE DEF t
  <1> QED
    BY <1>1, <1>5, <1>6, ReplaceInv

LEMMA LoadActiveOrdersInv ==
  ASSUME Inv, NEW s \in Sessions, LoadActiveOrders(s)
  PROVE  Inv'
  <1> DEFINE r == tx[s].run
             loaded == [u \in Users |-> IF u \in Active(r) THEN orders[r][u]
                                        ELSE NoOrder]
             t == [tx[s] EXCEPT !.step = "previous", !.loaded = loaded]
  <1>1. tx[s] \in CloseTx /\ CloseTxOK(tx[s]) /\ r \in Runs
    BY InClose DEF LoadActiveOrders, Closing, CloseTx
  <1>2. UNCHANGED Tables /\ clock' \in Nat /\ clock' >= clock
    BY DEF LoadActiveOrders, Inv, TypeOK
  <1>3. CASE End(s)
    BY <1>3, EndInv DEF LoadActiveOrders
  <1>4. CASE tx' = [tx EXCEPT ![s] = t]
    <2>1. tx'[s] = t
      BY <1>4, ReplaceSession DEF Inv
    <2>2. NoOrder \in Order /\ orders[r] \in [Users -> Order]
      BY <1>1 DEF NoOrder, Order, Inv, TypeOK
    <2>3. loaded \in [Users -> Order]
      BY <2>2
    <2>4. \A u \in Users : loaded[u].state = "active" =>
                              orders[r][u].state # "none"
      BY DEF Active, NoOrder
    <2> HIDE DEF loaded
    <2>5. t \in CloseTx
      BY <1>1, <2>3 DEF CloseTx
    <2>6. CloseTxOK(tx[s])'
      BY <1>1, <1>2, <2>1, <2>4, <2>5 DEF CloseTxOK, CloseTx, Tables
    <2>7. SessionOK(tx[s])'
      BY <2>1, <2>5, <2>6 DEF SessionOK, CloseTx
    <2> HIDE DEF t
    <2> QED
      BY <1>2, <1>4, <2>7, ReplaceInv
  <1> QED
    BY <1>3, <1>4 DEF LoadActiveOrders

LEMMA LoadPreviousRunnerInv ==
  ASSUME Inv, NEW s \in Sessions, LoadPreviousRunner(s)
  PROVE  Inv'
  <1>1. /\ tx[s] \in CloseTx /\ CloseTxOK(tx[s]) /\ tx[s].step = "previous"
    BY InClose DEF LoadPreviousRunner, Closing
  <1>2. UNCHANGED Tables /\ clock' \in Nat /\ clock' >= clock
    BY DEF LoadPreviousRunner, Inv, TypeOK
  <1>3. PICK u \in Users \cup {NoUser} :
            tx' = [tx EXCEPT ![s].step = "assign", ![s].last = u]
    BY DEF LoadPreviousRunner
  <1> DEFINE t == [tx[s] EXCEPT !.step = "assign", !.last = u]
  <1>4. tx' = [tx EXCEPT ![s] = t]
    BY <1>3
  <1>5. tx'[s] = t
    BY <1>4, ReplaceSession DEF Inv
  <1>6. t \in CloseTx
    BY <1>1 DEF CloseTx
  <1>7. CloseTxOK(tx[s])'
    BY <1>1, <1>2, <1>5, <1>6 DEF CloseTxOK, CloseTx, Tables
  <1>8. SessionOK(tx[s])'
    BY <1>5, <1>6, <1>7 DEF SessionOK, CloseTx
  <1> HIDE DEF t
  <1> QED
    BY <1>2, <1>4, <1>8, ReplaceInv

LEMMA AssignRunnerInv ==
  ASSUME Inv, NEW s \in Sessions, AssignRunner(s)
  PROVE  Inv'
  <1> DEFINE c == ChannelOf[tx[s].run]
             rows == [u \in Users |-> IF u \in Participants(s)
                                      THEN stats[c][u] ELSE NoStat]
  <1>1. /\ tx[s] \in CloseTx /\ CloseTxOK(tx[s])
        /\ tx[s].run \in Runs /\ c \in Channels
    BY InClose, CoffeeRunsAssumption DEF AssignRunner, Closing, CloseTx
  <1>2. UNCHANGED Tables /\ clock' = clock + 1
    BY DEF AssignRunner
  <1>0. clock + 1 \in Nat /\ clock' \in Nat /\ clock' >= clock
        /\ clock + 1 \in 1..clock'
    BY <1>2 DEF Inv, TypeOK
  <1>3. PICK runner \in Participants(s) :
            tx' = [tx EXCEPT ![s].step = "commit", ![s].rows = rows,
                             ![s].runner = runner, ![s].at = clock + 1]
    BY DEF AssignRunner
  <1> DEFINE t == [tx[s] EXCEPT !.step = "commit", !.rows = rows,
                                !.runner = runner, !.at = clock + 1]
  <1>4. tx' = [tx EXCEPT ![s] = t]
    BY <1>3
  <1>5. tx'[s] = t
    BY <1>4, ReplaceSession DEF Inv
  <1>6. rows \in [Users -> Stat]
    <2>1. NoStat \in Stat /\ stats[c] \in [Users -> Stat]
      BY <1>1 DEF NoStat, Stat, Inv, TypeOK
    <2> QED
      BY <2>1
  <1>7. runner \in Users /\ tx[s].loaded[runner].state = "active"
    BY DEF Participants
  <1> HIDE DEF rows
  <1>8. t \in CloseTx
    BY <1>0, <1>1, <1>6, <1>7 DEF CloseTx
  <1>9. CloseTxOK(tx[s])'
    BY <1>0, <1>1, <1>2, <1>5, <1>7, <1>8 DEF CloseTxOK, CloseTx, Tables
  <1>10. SessionOK(tx[s])'
    BY <1>5, <1>8, <1>9 DEF SessionOK, CloseTx
  <1> HIDE DEF t
  <1> QED
    BY <1>0, <1>2, <1>4, <1>10, ReplaceInv

-----------------------------------------------------------------------------
(* Commits *)

\* Nothing a session relies on is ever taken back: rows stay, preferences
\* stay, closed runs stay closed and the clock does not go back.
TablesGrow ==
    /\ \A r \in Runs, u \in Users :
          orders[r][u].state # "none" => orders'[r][u].state # "none"
    /\ \A c \in Channels, u \in Users :
          prefs[c][u] # NoText => prefs'[c][u] # NoText
    /\ \A r \in Runs : runs[r].status # "open" => runs'[r].status # "open"
    /\ clock' = clock

LEMMA SessionsKeep ==
  ASSUME Inv, NEW s \in Sessions, End(s), TablesGrow
  PROVE  SessionsConsistent'
  <1>1. /\ tx'[s] = Idle
        /\ \A o \in Sessions : o # s => tx'[o] = tx[o]
    BY ReplaceSession DEF End, Inv
  <1>2. ASSUME NEW o \in Sessions
        PROVE  /\ InOrderOp(o)' => OrderTxOK(tx[o])'
               /\ (tx[o].op = "close")' => CloseTxOK(tx[o])'
    <2>1. CASE o = s
      BY <1>1, <2>1 DEF InOrderOp, Idle
    <2>2. CASE o # s /\ InOrderOp(o)
      <3>1. tx'[o] = tx[o]
        BY <1>1, <2>2
      <3>2. tx[o] \in OrderTx /\ OrderTxOK(tx[o])
        BY <2>2, InOrderRequest
      <3>3. /\ tx[o].run \in Runs /\ tx[o].user \in Users
            /\ ChannelOf[tx[o].run] \in Channels
        BY <3>2, CoffeeRunsAssumption DEF OrderTx
      <3>4. OrderTxOK(tx[o])'
        BY <3>1, <3>2, <3>3 DEF OrderTxOK, TablesGrow
      <3> QED
        BY <2>2, <3>1, <3>2, <3>4 DEF OrderTx
    <2>3. CASE o # s /\ tx[o].op = "close"
      <3>1. tx'[o] = tx[o]
        BY <1>1, <2>3
      <3>2. tx[o] \in CloseTx /\ CloseTxOK(tx[o]) /\ tx[o].run \in Runs
        BY <2>3, InClose DEF CloseTx
      <3>3. CloseTxOK(tx[o])'
        BY <3>1, <3>2 DEF CloseTxOK, TablesGrow
      <3> QED
        BY <2>3, <3>1, <3>3 DEF InOrderOp
    <2>4. CASE o # s /\ ~InOrderOp(o) /\ tx[o].op # "close"
      BY <1>1, <2>4 DEF InOrderOp
    <2> QED
      BY <2>1, <2>2, <2>3, <2>4
  <1> QED
    BY <1>2 DEF SessionsConsistent

LEMMA EndType ==
  ASSUME TypeOK, NEW s \in Sessions, End(s)
  PROVE  tx' \in [Sessions -> {Idle} \cup OrderTx \cup CloseTx]
  BY DEF TypeOK, End

LEMMA CommitOrderInv ==
  ASSUME Inv, NEW s \in Sessions, CommitOrder(s)
  PROVE  Inv'
  <1> DEFINE r == tx[s].run
             u == tx[s].user
             c == ChannelOf[r]
  <1>1. /\ tx[s] \in OrderTx /\ OrderTxOK(tx[s]) /\ tx[s].step = "commit"
        /\ r \in Runs /\ u \in Users /\ c \in Channels
        /\ tx[s].order \in Order /\ tx[s].order.state # "none"
        /\ tx[s].pref \in Texts \cup {NoText}
        /\ tx[s].confirm => tx[s].pref # NoText
    BY InOrderRequest, CoffeeRunsAssumption DEF CommitOrder, OrderTx, OrderTxOK
  <1>2. UNCHANGED <<runs, stats, clock>> /\ End(s)
    BY DEF CommitOrder
  <1>3. TypeOK
    BY DEF Inv
  <1>4. \A q \in Runs, v \in Users :
            orders'[q][v] = IF q = r /\ v = u THEN tx[s].order
                            ELSE orders[q][v]
    BY <1>1, <1>3 DEF CommitOrder, TypeOK
  <1>5. \A d \in Channels, v \in Users :
            prefs'[d][v] = IF d = c /\ v = u /\ tx[s].confirm
                           THEN tx[s].pref ELSE prefs[d][v]
    BY <1>1, <1>3 DEF CommitOrder, TypeOK
  <1>6. TablesGrow
    BY <1>1, <1>2, <1>4, <1>5 DEF TablesGrow
  <1>7. TypeOK'
    <2>1. orders' \in [Runs -> [Users -> Order]]
      BY <1>1, <1>3 DEF CommitOrder, TypeOK
    <2>2. prefs' \in [Channels -> [Users -> Texts \cup {NoText}]]
      BY <1>1, <1>3 DEF CommitOrder, TypeOK
    <2> QED
      BY <1>2, <1>3, <2>1, <2>2, EndType DEF TypeOK
  <1>8. ClosedRunsAreBacked'
    BY <1>2, <1>6 DEF Inv, ClosedRunsAreBacked, TablesGrow
  <1>9. StatsAreBacked'
    BY <1>2, <1>6 DEF Inv, StatsAreBacked, ClosedRuns, TablesGrow
  <1>10. PreferencesTrackOrders'
    <2> SUFFICES ASSUME NEW q \in Runs, NEW v \in Users,
                        runs[q].status = "open", orders'[q][v].final
                 PROVE  prefs'[ChannelOf[q]][v] # NoText
      BY <1>2 DEF PreferencesTrackOrders
    <2>1. ChannelOf[q] \in Channels
      BY CoffeeRunsAssumption
    <2>2. CASE q = r /\ v = u /\ tx[s].confirm
      BY <1>1, <1>5, <2>2
    <2>3. CASE q = r /\ v = u /\ ~tx[s].confirm
      BY <1>1, <1>4, <1>5, <2>3 DEF OrderTxOK
    <2>4. CASE ~(q = r /\ v = u)
      BY <1>4, <1>6, <2>1, <2>4 DEF Inv, PreferencesTrackOrders, TablesGrow
    <2> QED
      BY <2>2, <2>3, <2>4
  <1>11. PreferencesComeFromOrders'
    <2> SUFFICES ASSUME NEW d \in Channels, NEW v \in Users,
                        prefs'[d][v] # NoText
                 PROVE  \E q \in Runs : /\ ChannelOf[q] = d
                                        /\ orders'[q][v].state # "none"
      BY DEF PreferencesComeFromOrders
    <2>1. CASE d = c /\ v = u
      BY <1>1, <1>4, <2>1
    <2>2. CASE ~(d = c /\ v = u)
      BY <1>5, <1>6, <2>2 DEF Inv, PreferencesComeFromOrders, TablesGrow
    <2> QED
      BY <2>1, <2>2
  <1>12. SessionsConsistent'
    BY <1>2, <1>6, SessionsKeep
  <1>13. MissingStatsEmpty'
    BY <1>2 DEF Inv, MissingStatsEmpty
  <1> QED
    BY <1>7, <1>8, <1>9, <1>10, <1>11, <1>12, <1>13 DEF Inv

\* A participant's row of runner_stats at the commit of a close.
LEMMA StatVersionType ==
  ASSUME Inv, NEW s \in Sessions, Closing(s, "commit"), NEW row \in Stat,
         NEW u \in Users
  PROVE  /\ StatVersion(s, u, row) \in Stat
         /\ u = tx[s].runner => StatVersion(s, u, row).count > 0
         /\ Exists(StatVersion(s, u, row)) \/ StatVersion(s, u, row) = row
         /\ Exists(tx[s].rows[u]) \/ Exists(StatVersion(s, u, row))
         /\ u # tx[s].runner /\ Exists(tx[s].rows[u]) =>
                StatVersion(s, u, row) = row
  <1> DEFINE stat == tx[s].rows[u]
             loaded == Loaded(stat, tx[s].at)
             credited == Credited(loaded, tx[s].at)
  <1>1. tx[s] \in CloseTx /\ CloseTxOK(tx[s])
    BY InClose DEF Closing
  <1>2. stat \in Stat /\ tx[s].at \in Nat
    BY <1>1 DEF CloseTx
  <1>3. tx[s].at \in Nat /\ tx[s].at > 0
    <2>1. clock \in Nat /\ tx[s].at \in 1..clock
      BY <1>1 DEF CloseTxOK, Closing, Inv, TypeOK
    <2> QED
      BY <2>1
  <1>4. loaded \in Stat /\ Exists(loaded)
    BY <1>2, <1>3, StatTypes
  <1> HIDE DEF stat, loaded
  <1>5. credited \in Stat /\ credited.count > 0 /\ Exists(credited)
    BY <1>3, <1>4, StatTypes
  <1> HIDE DEF credited
  <1>6. StatVersion(s, u, row) =
            IF u = tx[s].runner THEN credited
            ELSE IF Exists(stat) THEN row ELSE loaded
    BY DEF StatVersion, credited, loaded, stat
  <1> QED
    BY <1>4, <1>5, <1>6 DEF stat

\* A close that commits only marks orders final.
LEMMA SnapshotType ==
  ASSUME Inv, NEW s \in Sessions, Closing(s, "commit"),
         NEW u \in Users, NEW row \in Order
  PROVE  LET loaded == tx[s].loaded[u]
             version == UpdatedOrder(row, loaded, [loaded EXCEPT !.final = TRUE])
         IN  version \in Order /\ version.state = row.state
  <1> DEFINE loaded == tx[s].loaded[u]
             new == [loaded EXCEPT !.final = TRUE]
  <1>1. loaded \in Order
    BY InClose DEF Closing, CloseTx
  <1>2. new \in Order /\ new.state = loaded.state
    BY <1>1 DEF Order
  <1> HIDE DEF loaded, new
  <1>3. /\ UpdatedOrder(row, loaded, new) \in Order
        /\ UpdatedOrder(row, loaded, new).state = row.state
    BY <1>1, <1>2, UpdatedOrderType
  <1> QED
    BY <1>3 DEF loaded, new

LEMMA CommitCloseInv ==
  ASSUME Inv, NEW s \in Sessions, CommitClose(s)
  PROVE  Inv'
  <1> DEFINE r == tx[s].run
             c == ChannelOf[r]
             runner == tx[s].runner
  <1>1. /\ tx[s] \in CloseTx /\ CloseTxOK(tx[s]) /\ Closing(s, "commit")
        /\ r \in Runs /\ c \in Channels /\ runner \in Participants(s)
        /\ runner \in Users /\ tx[s].at \in 1..clock /\ clock \in Nat
    BY InClose, CoffeeRunsAssumption
    DEF CommitClose, Closing, CloseTx, CloseTxOK, Participants, Inv, TypeOK
  <1>2. End(s) /\ clock' = clock
    BY DEF CommitClose
  <1>3. TypeOK
    BY DEF Inv
  <1>4. CASE UNCHANGED Tables
    BY <1>2, <1>4, EndInv
  <1>5. CASE StatConflicts(s) = {} /\ ~UNCHANGED Tables
    <2>1. /\ runs' = [runs EXCEPT ![r] = [status |-> "closed",
                                         runner |-> runner,
                                         closedAt |-> tx[s].at]]
          /\ prefs' = prefs
      BY <1>5 DEF CommitClose
    <2> DEFINE snapshot == [u \in Users |->
                  IF u \in Participants(s)
                  THEN UpdatedOrder(orders[r][u], tx[s].loaded[u],
                                    [tx[s].loaded[u] EXCEPT !.final = TRUE])
                  ELSE orders[r][u]]
               counted == [u \in Users |->
                  IF u \in Participants(s) THEN StatVersion(s, u, stats[c][u])
                  ELSE stats[c][u]]
    <2>2. /\ orders' = [orders EXCEPT ![r] = snapshot]
          /\ stats' = [stats EXCEPT ![c] = counted]
      BY <1>5 DEF CommitClose
    <2>3. ASSUME NEW u \in Users
          PROVE  /\ snapshot[u] \in Order
                 /\ snapshot[u].state = orders[r][u].state
      <3>1. orders[r][u] \in Order
        BY <1>1, <1>3 DEF TypeOK
      <3> QED
        BY <1>1, <3>1, SnapshotType
    <2>4. ASSUME NEW u \in Users
          PROVE  /\ counted[u] \in Stat
                 /\ u = runner => counted[u].count > 0
                 /\ ~Exists(counted[u]) => counted[u] = stats[c][u]
                 /\ u \notin Participants(s) => counted[u] = stats[c][u]
                 /\ \/ u = runner
                    \/ counted[u] = stats[c][u]
                    \/ ~Exists(stats[c][u])
      <3>1. stats[c][u] \in Stat
        BY <1>1, <1>3 DEF TypeOK
      <3>2. CASE u \in Participants(s)
        <4>1. counted[u] = StatVersion(s, u, stats[c][u])
          BY <3>2
        <4>2. Exists(tx[s].rows[u]) \/ ~Exists(stats[c][u])
          BY <1>5, <3>2 DEF StatConflicts
        <4> HIDE DEF counted
        <4> QED
          BY <1>1, <3>1, <3>2, <4>1, <4>2, StatVersionType
      <3>3. CASE u \notin Participants(s)
        BY <1>1, <3>1, <3>3
      <3> QED
        BY <3>2, <3>3
    <2> HIDE DEF snapshot, counted
    <2>5. \A q \in Runs : /\ orders'[q] = IF q = r THEN snapshot ELSE orders[q]
                          /\ q # r => runs'[q] = runs[q]
      BY <1>3, <2>1, <2>2 DEF TypeOK
    <2>6. \A d \in Channels : stats'[d] = IF d = c THEN counted ELSE stats[d]
      BY <1>3, <2>2 DEF TypeOK
    <2>7. /\ runs'[r].status = "closed" /\ runs'[r].runner = runner
          /\ runs'[r].closedAt = tx[s].at
      BY <1>1, <1>3, <2>1 DEF TypeOK
    <2>8. TablesGrow
      BY <1>1, <1>2, <2>1, <2>3, <2>5, <2>7 DEF TablesGrow
    <2>9. TypeOK'
      <3>1. runs' \in [Runs -> Run]
        <4>1. [status |-> "closed", runner |-> runner, closedAt |-> tx[s].at]
                  \in Run
          BY <1>1 DEF Run
        <4> QED
          BY <1>3, <2>1, <4>1 DEF TypeOK
      <3>2. orders' \in [Runs -> [Users -> Order]]
        <4>1. snapshot \in [Users -> Order]
          BY <2>3 DEF snapshot
        <4> QED
          BY <1>3, <2>2, <4>1 DEF TypeOK
      <3>3. stats' \in [Channels -> [Users -> Stat]]
        <4>1. counted \in [Users -> Stat]
          BY <2>4 DEF counted
        <4> QED
          BY <1>3, <2>2, <4>1 DEF TypeOK
      <3> QED
        BY <1>2, <1>3, <2>1, <3>1, <3>2, <3>3, EndType DEF TypeOK
    <2>10. ClosedRunsAreBacked'
      <3> SUFFICES ASSUME NEW q \in Runs, runs'[q].status = "closed"
                   PROVE  /\ runs'[q].runner \in Users
                          /\ runs'[q].closedAt \in 1..clock'
                          /\ orders'[q][runs'[q].runner].state # "none"
                          /\ stats'[ChannelOf[q]][runs'[q].runner].count > 0
        BY DEF ClosedRunsAreBacked
      <3>1. CASE q = r
        <4>1. orders[r][runner].state # "none"
          BY <1>1 DEF CloseTxOK, Closing
        <4> QED
          <5>1. snapshot[runner].state # "none" /\ counted[runner].count > 0
            BY <1>1, <2>3, <2>4, <4>1
          <5>2. orders'[q] = snapshot /\ stats'[ChannelOf[q]] = counted
            BY <1>1, <2>5, <2>6, <3>1
          <5> QED
            BY <1>1, <1>2, <2>7, <3>1, <5>1, <5>2
      <3>2. CASE q # r
        <4> DEFINE p == runs[q].runner
                   d == ChannelOf[q]
        <4>1. /\ runs'[q] = runs[q] /\ p \in Users /\ d \in Channels
              /\ runs[q].closedAt \in 1..clock
              /\ orders[q][p].state # "none"
              /\ stats[d][p].count > 0
          BY <2>5, <3>2, CoffeeRunsAssumption DEF Inv, ClosedRunsAreBacked
        <4>2. stats'[d][p].count > 0
          <5>1. CASE d = c
            <6>1. Exists(stats[c][p])
              BY <4>1, <5>1 DEF Inv, MissingStatsEmpty
            <6> QED
              BY <1>1, <2>4, <2>6, <4>1, <5>1, <6>1
          <5>2. CASE d # c
            BY <2>6, <4>1, <5>2
          <5> QED
            BY <5>1, <5>2
        <4> QED
          BY <1>2, <2>8, <4>1, <4>2 DEF TablesGrow
      <3> QED
        BY <3>1, <3>2
    <2>11. StatsAreBacked'
      <3> SUFFICES ASSUME NEW d \in Channels, NEW u \in Users,
                          Exists(stats'[d][u])
                   PROVE  \E q \in Runs : /\ ChannelOf[q] = d
                                          /\ runs'[q].status = "closed"
                                          /\ orders'[q][u].state # "none"
        BY DEF StatsAreBacked, ClosedRuns, Exists
      <3>1. CASE d = c /\ u \in Participants(s)
        <4>1. orders[r][u].state # "none"
          BY <1>1, <3>1 DEF CloseTxOK, Participants
        <4> QED
          BY <1>1, <2>7, <2>8, <3>1, <4>1 DEF TablesGrow
      <3>2. CASE ~(d = c /\ u \in Participants(s))
        <4>1. Exists(stats[d][u])
          BY <2>4, <2>6, <3>2
        <4>2. PICK q \in ClosedRuns(d) : orders[q][u].state # "none"
          BY <4>1 DEF Inv, StatsAreBacked
        <4> QED
          BY <2>5, <2>7, <2>8, <4>2 DEF ClosedRuns, TablesGrow
      <3> QED
        BY <3>1, <3>2
    <2>12. PreferencesTrackOrders'
      BY <2>1, <2>5, <2>7 DEF Inv, PreferencesTrackOrders
    <2>13. PreferencesComeFromOrders'
      BY <2>1, <2>8 DEF Inv, PreferencesComeFromOrders, TablesGrow
    <2>14. SessionsConsistent'
      BY <1>2, <2>8, SessionsKeep
    <2>15. MissingStatsEmpty'
      BY <1>1, <2>4, <2>6 DEF Inv, MissingStatsEmpty, Exists
    <2> QED
      BY <2>9, <2>10, <2>11, <2>12, <2>13, <2>14, <2>15 DEF Inv
  <1> QED
    BY <1>4, <1>5 DEF CommitClose

-----------------------------------------------------------------------------
LEMMA AbortInv ==
  ASSUME Inv, NEW s \in Sessions, Abort(s)
  PROVE  Inv'
  BY EndInv DEF Abort

LEMMA RequestInv ==
  ASSUME Inv, NEW s \in Sessions, Request(s)
  PROVE  Inv'
  <1> PICK r \in Runs :
        \/ \E u \in Users :
              \/ \E text \in Texts, confirm \in BOOLEAN :
                    SubmitOrder(s, r, u, text, confirm)
              \/ UseLastOrder(s, r, u)
              \/ CancelOrder(s, r, u)
        \/ \E repeat \in BOOLEAN : CloseRun(s, r, repeat)
    BY DEF Request
  <1>1. ASSUME NEW u \in Users, NEW text \in Texts, NEW confirm \in BOOLEAN,
               SubmitOrder(s, r, u, text, confirm)
        PROVE  Inv'
    BY <1>1, BeginInv DEF SubmitOrder
  <1>2. ASSUME NEW u \in Users, UseLastOrder(s, r, u)
        PROVE  Inv'
    BY <1>2, BeginInv DEF UseLastOrder
  <1>3. ASSUME NEW u \in Users, CancelOrder(s, r, u)
        PROVE  Inv'
    BY <1>3, BeginInv DEF CancelOrder
  <1>4. ASSUME NEW repeat \in BOOLEAN, CloseRun(s, r, repeat)
        PROVE  Inv'
    BY <1>4, CloseRunInv
  <1> QED
    BY <1>1, <1>2, <1>3, <1>4

LEMMA InitInv ==
  ASSUME Init
  PROVE  Inv
  <1>1. NoOrder \in Order /\ NoStat \in Stat /\ OpenRun \in Run
    BY DEF NoOrder, Order, NoStat, Stat, OpenRun, Run
  <1>2. TypeOK
    BY <1>1 DEF Init, TypeOK
  <1>3. ClosedRunsAreBacked
    BY DEF Init, ClosedRunsAreBacked, OpenRun
  <1>4. StatsAreBacked /\ MissingStatsEmpty
    BY DEF Init, StatsAreBacked, MissingStatsEmpty, Exists, NoStat
  <1>5. PreferencesTrackOrders
    BY DEF Init, PreferencesTrackOrders, NoOrder
  <1>6. PreferencesComeFromOrders
    BY DEF Init, PreferencesComeFromOrders
  <1>7. SessionsConsistent
    BY DEF Init, SessionsConsistent, Idle, InOrderOp
  <1> QED
    BY <1>2, <1>3, <1>4, <1>5, <1>6, <1>7 DEF Inv

\* An idle stretch changes nothing the invariant reads.
LEMMA StutterInv ==
  ASSUME Inv, UNCHANGED vars
  PROVE  Inv'
  <1> USE DEF vars
  <1>1. TypeOK'
    BY DEF Inv, TypeOK
  <1>2. ClosedRunsAreBacked'
    BY DEF Inv, ClosedRunsAreBacked
  <1>3. StatsAreBacked' /\ MissingStatsEmpty'
    BY DEF Inv, StatsAreBacked, MissingStatsEmpty, ClosedRuns
  <1>4. PreferencesTrackOrders' /\ PreferencesComeFromOrders'
    BY DEF Inv, PreferencesTrackOrders, PreferencesComeFromOrders
  <1>5. SessionsConsistent'
    BY DEF Inv, SessionsConsistent, InOrderOp, OrderTxOK, CloseTxOK
  <1> QED
    BY <1>1, <1>2, <1>3, <1>4, <1>5 DEF Inv

\* However any number of requests interleave, fail or are given up, what the
\* sessions have read stays good enough for what they will write.
THEOREM RequestsKeepInv == Spec => []Inv
  <1>1. Init => Inv
    BY InitInv
  <1>2. Inv /\ [Next]_vars => Inv'
    <2> SUFFICES ASSUME Inv, Next
                 PROVE  Inv'
      BY StutterInv
    <2> PICK s \in Sessions : \/ Request(s) \/ Statement(s)
                              \/ LockingStatement(s) \/ Abort(s)
      BY DEF Next
    <2>1. CASE Request(s)
      BY <2>1, RequestInv
    <2>2. CASE LoadPreference(s)
      BY <2>2, LoadPreferenceInv
    <2>3. CASE LoadOrder(s)
      BY <2>3, LoadOrderInv
    <2>4. CASE CommitOrder(s)
      BY <2>4, CommitOrderInv
    <2>5. CASE LoadActiveOrders(s)
      BY <2>5, LoadActiveOrdersInv
    <2>6. CASE LoadPreviousRunner(s)
      BY <2>6, LoadPreviousRunnerInv
    <2>7. CASE AssignRunner(s)
      BY <2>7, AssignRunnerInv
    <2>8. CASE FlushOrder(s)
      BY <2>8, FlushOrderInv
    <2>9. CASE FlushPreference(s)
      BY <2>9, FlushPreferenceInv
    <2>10. CASE CommitClose(s)
      BY <2>10, CommitCloseInv
    <2>11. CASE Abort(s)
      BY <2>11, AbortInv
    <2> QED
      BY <2>1, <2>2, <2>3, <2>4, <2>5, <2>6, <2>7, <2>8, <2>9, <2>10, <2>11
      DEF Statement, LockingStatement
  <1> QED
    BY <1>1, <1>2, PTL DEF Spec

\* Rows and session records keep their shape.
THEOREM TypeCorrect == Spec => []TypeOK
  <1>1. Inv => TypeOK
    BY DEF Inv
  <1> QED
    BY <1>1, RequestsKeepInv, PTL

\* A closed run's runner has ordered in it and has been credited, whatever
\* ran at the same time as the close.
THEOREM ClosesAreWhole == Spec => []ClosedRunsAreBacked
  <1>1. Inv => ClosedRunsAreBacked
    BY DEF Inv
  <1> QED
    BY <1>1, RequestsKeepInv, PTL

\* Rows of runner_stats come from closes that committed, and a user without
\* a row has no runs to their name.
THEOREM StatsComeFromCloses == Spec => [](StatsAreBacked /\ MissingStatsEmpty)
  <1>1. Inv => StatsAreBacked /\ MissingStatsEmpty
    BY DEF Inv
  <1> QED
    BY <1>1, RequestsKeepInv, PTL

\* _persist_order does not commit a confirmed order without its preference.
THEOREM PreferencesMatchOrders == Spec => []PreferencesTrackOrders
  <1>1. Inv => PreferencesTrackOrders
    BY DEF Inv
  <1> QED
    BY <1>1, RequestsKeepInv, PTL

\* Nor a preference without the order it was taken from.
THEOREM PreferencesHaveOrders == Spec => []PreferencesComeFromOrders
  <1>1. Inv => PreferencesComeFromOrders
    BY DEF Inv
  <1> QED
    BY <1>1, RequestsKeepInv, PTL

\* What a request has read is still good enough when it writes.
THEOREM ReadsStayValid == Spec => []SessionsConsistent
  <1>1. Inv => SessionsConsistent
    BY DEF Inv
  <1> QED
    BY <1>1, RequestsKeepInv, PTL
=============================================================================
