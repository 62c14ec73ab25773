----------------------------- MODULE CoffeeRuns -----------------------------
(***************************************************************************)
(* Orders, preferences, runner statistics and the closing of runs:         *)
(* core/orders, services/preferences, core/runs and services/fairness over *)
(* the tables of infra/db.                                                 *)
(*                                                                         *)
(* A request runs in a database session of its own, opened when it starts  *)
(* and committed, or rolled back, when it ends.  PostgreSQL runs it at its *)
(* default isolation level, READ COMMITTED: every statement sees what      *)
(* other transactions had committed when it was sent.  No statement of the *)
(* code locks a row it reads, and no row has a version.  So a request is   *)
(* one action per statement, and what it read earlier may have changed     *)
(* when it writes.                                                         *)
(*                                                                         *)
(* An ORM object is written back at the next flush: before the next query  *)
(* (autoflush) or before the commit.  Only the attributes whose value      *)
(* differs from the one loaded are part of the UPDATE.  The new version of *)
(* the row stays locked, and invisible to others, until the commit.        *)
(*                                                                         *)
(* Left out: time stamps other than those that order runs and runners, the *)
(* provenance of an order, the users and channels rows (never written      *)
(* here), wording of results.                                              *)
(***************************************************************************)
EXTENDS Fairness, FiniteSets

CONSTANTS
    Sessions,       \* database sessions: the requests served at one time
    Channels,
    Runs,
    ChannelOf,      \* runs.channel_id, fixed when the run is created
    Texts,          \* order texts that pass OrderValidator, stripped
    NoText,         \* no user_preferences row
    MaxClock        \* bound: how many times a closing request reads the clock

ASSUME CoffeeRunsAssumption ==
    /\ ChannelOf \in [Runs -> Channels]
    /\ NoText \notin Texts
    /\ IsFiniteSet(Users)
    /\ MaxClock \in Nat

VARIABLES
    runs,       \* runs: status, runner_user_id, closed_at
    orders,     \* orders, one row at most per run and user
    prefs,      \* user_preferences.last_order_text per channel and user
    stats,      \* runner_stats per channel and user
    tx,         \* what each session has loaded and written
    clock       \* the latest reading of the clock by a closing request

vars == <<runs, orders, prefs, stats, tx, clock>>

-----------------------------------------------------------------------------
(* Rows *)

Run == [status : {"open", "closed"}, runner : Users \cup {NoUser},
        closedAt : Nat]

OpenRun == [status |-> "open", runner |-> NoUser, closedAt |-> 0]

\* state is "none" for a row that does not exist, "canceled" when
\* canceled_at is set; final is is_final.
Order == [state : {"none", "active", "canceled"}, text : Texts \cup {NoText},
          final : BOOLEAN]

NoOrder == [state |-> "none", text |-> NoText, final |-> FALSE]

\* Mutant: a changed attribute is not noticed.
WrittenNever(current, loaded, new) == current

\* One column after an UPDATE of a row: written only if the new value differs
\* from the value the ORM object was loaded with.
Written(current, loaded, new) == IF new # loaded THEN new ELSE current

\* Mutant: is_final is left out of the UPDATE.
UpdatedOrderNotFinal(row, loaded, new) ==
    [state |-> Written(row.state, loaded.state, new.state),
     text  |-> Written(row.text, loaded.text, new.text),
     final |-> row.final]

UpdatedOrder(row, loaded, new) ==
    [state |-> Written(row.state, loaded.state, new.state),
     text  |-> Written(row.text, loaded.text, new.text),
     final |-> Written(row.final, loaded.final, new.final)]

\* An INSERT meets a row with the same unique key: IntegrityError.
Collides(loaded, row) == loaded.state = "none" /\ row.state # "none"

-----------------------------------------------------------------------------
(* Sessions *)

Idle == [op |-> "idle"]

\* submit_order, use_last_order and cancel_order.  order is the row as loaded
\* and, from its flush on, the version written; pref likewise.  count is the
\* participant_count of the result.
OrderTx == [op : {"submit", "use_last", "cancel"},
            step : {"preference", "order", "flush_order", "flush_preference",
                    "commit"},
            run : Runs, user : Users, text : Texts \cup {NoText},
            confirm : BOOLEAN, order : Order, pref : Texts \cup {NoText},
            count : Nat]

\* close_run.  loaded are the active orders and rows the participants' rows
\* of runner_stats as loaded, at the clock reading of the decision.
CloseTx == [op : {"close"},
            step : {"orders", "previous", "assign", "commit"},
            run : Runs, repeat : BOOLEAN, loaded : [Users -> Order],
            last : Users \cup {NoUser}, rows : [Users -> Stat],
            runner : Users \cup {NoUser}, at : Nat]

InOrderOp(s) == tx[s].op \in {"submit", "use_last", "cancel"}

\* From its flush to the commit a session keeps the order row locked, and
\* the user's preference row from the flush that follows it.
HoldsOrder(s, r, u) ==
    /\ InOrderOp(s)
    /\ tx[s].step \in {"flush_preference", "commit"}
    /\ tx[s].run = r
    /\ tx[s].user = u

HoldsPreference(s, c, u) ==
    /\ InOrderOp(s)
    /\ tx[s].step = "commit"
    /\ tx[s].confirm
    /\ ChannelOf[tx[s].run] = c
    /\ tx[s].user = u

\* Mutant: canceled orders are counted too.
CountAll(s, r, own) ==
    Cardinality({u \in Users :
        IF u = tx[s].user THEN own.state # "none"
        ELSE orders[r][u].state # "none"})

\* count_active_orders as session s sees the table: committed rows and the
\* version it has written itself.
ActiveCount(s, r, own) ==
    Cardinality({u \in Users :
        IF u = tx[s].user THEN own.state = "active"
        ELSE orders[r][u].state = "active"})

End(s) == tx' = [tx EXCEPT ![s] = Idle]

Tables == <<runs, orders, prefs, stats>>

-----------------------------------------------------------------------------
Init ==
    /\ runs = [r \in Runs |-> OpenRun]
    /\ orders = [r \in Runs |-> [u \in Users |-> NoOrder]]
    /\ prefs = [c \in Channels |-> [u \in Users |-> NoText]]
    /\ stats = [c \in Channels |-> [u \in Users |-> NoStat]]
    /\ tx = [s \in Sessions |-> Idle]
    /\ clock = 0

-----------------------------------------------------------------------------
(* Orders: core/orders/service.py                                          *)
(*                                                                         *)
(* The first statement of every request reads the run, and a run that is   *)
(* not open ends it there (RunNotOpenError) with nothing changed, as does  *)
(* a text OrderValidator refuses: those requests are not steps.            *)

\* Mutant: the status of the run is not looked at.
IsThere(r) == TRUE

IsOpen(r) == runs[r].status = "open"

Begin(s, op, step, r, u, text, confirm) ==
    /\ tx[s] = Idle
    /\ IsOpen(r)
    /\ tx' = [tx EXCEPT ![s] =
                [op |-> op, step |-> step, run |-> r, user |-> u,
                 text |-> text, confirm |-> confirm, order |-> NoOrder,
                 pref |-> NoText, count |-> 0]]
    /\ UNCHANGED <<Tables, clock>>

SubmitOrder(s, r, u, text, confirm) ==
    Begin(s, "submit", "order", r, u, text, confirm)

UseLastOrder(s, r, u) ==
    Begin(s, "use_last", "preference", r, u, NoText, TRUE)

CancelOrder(s, r, u) ==
    Begin(s, "cancel", "order", r, u, NoText, FALSE)

\* use_last_order reads the stored preference; PreferenceNotFoundError ends it.
LoadPreference(s) ==
    LET pref == prefs[ChannelOf[tx[s].run]][tx[s].user]
    IN  /\ InOrderOp(s) /\ tx[s].step = "preference"
        /\ \/ /\ pref = NoText
              /\ End(s)
           \/ /\ pref # NoText
              /\ tx' = [tx EXCEPT ![s].step = "order", ![s].text = pref,
                                  ![s].pref = pref]
        /\ UNCHANGED <<Tables, clock>>

\* get_order.  cancel_order ends with OrderNotFoundError unless it is active.
LoadOrder(s) ==
    LET order == orders[tx[s].run][tx[s].user]
    IN  /\ InOrderOp(s) /\ tx[s].step = "order"
        /\ \/ /\ tx[s].op = "cancel" /\ order.state # "active"
              /\ End(s)
           \/ /\ tx[s].op = "cancel" => order.state = "active"
              /\ tx' = [tx EXCEPT ![s].step = "flush_order",
                                  ![s].order = order]
        /\ UNCHANGED <<Tables, clock>>

\* Mutant: an order placed again stays canceled.
AssignedStillCanceled(s) ==
    IF tx[s].op = "cancel" THEN [tx[s].order EXCEPT !.state = "canceled"]
    ELSE [state |-> IF tx[s].order.state = "canceled" THEN "canceled"
                    ELSE "active",
          text |-> tx[s].text, final |-> tx[s].confirm]

\* The attributes the request gives the order object.
Assigned(s) ==
    IF tx[s].op = "cancel" THEN [tx[s].order EXCEPT !.state = "canceled"]
    ELSE [state |-> "active", text |-> tx[s].text, final |-> tx[s].confirm]

\* Mutant: the row is refreshed from the table after the assignment.
OrderVersionRefreshed(s) == orders[tx[s].run][tx[s].user]

OrderVersion(s) ==
    LET row == orders[tx[s].run][tx[s].user]
    IN  IF tx[s].order.state = "none" THEN Assigned(s)
        ELSE UpdatedOrder(row, tx[s].order, Assigned(s))

\* The next query flushes the order: get_preference if the order is
\* confirmed, else count_active_orders.  It waits for the row's lock.
\* use_last_order has its preference in the session already: the query finds
\* the row again but leaves the loaded object as it is.
FlushOrder(s) ==
    LET r == tx[s].run
        u == tx[s].user
        version == OrderVersion(s)
    IN  /\ InOrderOp(s) /\ tx[s].step = "flush_order"
        /\ \A o \in Sessions : ~HoldsOrder(o, r, u)
        /\ \/ /\ Collides(tx[s].order, orders[r][u])
              /\ End(s)
           \/ /\ ~Collides(tx[s].order, orders[r][u])
              /\ tx[s].confirm
              /\ tx' = [tx EXCEPT
                    ![s].step = "flush_preference",
                    ![s].order = version,
                    ![s].pref = IF tx[s].op = "use_last" THEN tx[s].pref
                                ELSE prefs[ChannelOf[r]][u]]
           \/ /\ ~Collides(tx[s].order, orders[r][u])
              /\ ~tx[s].confirm
              /\ tx' = [tx EXCEPT
                    ![s].step = "commit",
                    ![s].order = version,
                    ![s].count = ActiveCount(s, r, version)]
        /\ UNCHANGED <<Tables, clock>>

\* count_active_orders flushes what set_preference did.
FlushPreference(s) ==
    LET c == ChannelOf[tx[s].run]
        u == tx[s].user
    IN  /\ InOrderOp(s) /\ tx[s].step = "flush_preference"
        /\ \A o \in Sessions : ~HoldsPreference(o, c, u)
        /\ \/ /\ tx[s].pref = NoText /\ prefs[c][u] # NoText
              /\ End(s)
           \/ /\ tx[s].pref = NoText => prefs[c][u] = NoText
              /\ tx' = [tx EXCEPT
                    ![s].step = "commit",
                    ![s].pref = Written(prefs[c][u], tx[s].pref, tx[s].text),
                    ![s].count = ActiveCount(s, tx[s].run, tx[s].order)]
        /\ UNCHANGED <<Tables, clock>>

CommitOrder(s) ==
    LET r == tx[s].run
        u == tx[s].user
    IN  /\ InOrderOp(s) /\ tx[s].step = "commit"
        /\ orders' = [orders EXCEPT ![r][u] = tx[s].order]
        /\ prefs' = IF tx[s].confirm
                    THEN [prefs EXCEPT ![ChannelOf[r]][u] = tx[s].pref]
                    ELSE prefs
        /\ End(s)
        /\ UNCHANGED <<runs, stats, clock>>

-----------------------------------------------------------------------------
(* Closing a run: core/runs/service.py                                     *)

\* _get_run: the run is open and the authorizer, which the code leaves to
\* its caller, lets the actor close it.
CloseRun(s, r, repeat) ==
    /\ tx[s] = Idle
    /\ IsOpen(r)
    /\ clock < MaxClock
    /\ tx' = [tx EXCEPT ![s] =
                [op |-> "close", step |-> "orders", run |-> r,
                 repeat |-> repeat, loaded |-> [u \in Users |-> NoOrder],
                 last |-> NoUser, rows |-> [u \in Users |-> NoStat],
                 runner |-> NoUser, at |-> 0]]
    /\ UNCHANGED <<Tables, clock>>

Closing(s, step) == tx[s].op = "close" /\ tx[s].step = step

Active(r) == {u \in Users : orders[r][u].state = "active"}

\* Mutant: everybody who has not canceled.
NotCanceled(s) == {u \in Users : tx[s].loaded[u].state # "canceled"}

Participants(s) == {u \in Users : tx[s].loaded[u].state = "active"}

\* _load_active_orders; RunnerSelectionError when there is none.
LoadActiveOrders(s) ==
    LET r == tx[s].run
    IN  /\ Closing(s, "orders")
        /\ \/ /\ Active(r) = {}
              /\ End(s)
           \/ /\ Active(r) # {}
              /\ tx' = [tx EXCEPT
                    ![s].step = "previous",
                    ![s].loaded = [u \in Users |-> IF u \in Active(r)
                                                   THEN orders[r][u]
                                                   ELSE NoOrder]]
        /\ UNCHANGED <<Tables, clock>>

ClosedRuns(c) ==
    {r \in Runs : ChannelOf[r] = c /\ runs[r].status = "closed"}

\* Mutant: the status is compared with a value no run has.
IsNobody(others, u) == u = NoUser

\* u is the runner of the channel's closed run with the latest closed_at.
IsPreviousRunner(others, u) ==
    \/ others = {} /\ u = NoUser
    \/ \E q \in others : /\ u = runs[q].runner
                         /\ \A p \in others :
                                runs[p].closedAt <= runs[q].closedAt

\* _get_previous_runner_id.
LoadPreviousRunner(s) ==
    LET r == tx[s].run
    IN  /\ Closing(s, "previous")
        /\ \E u \in Users \cup {NoUser} :
              /\ IsPreviousRunner(ClosedRuns(ChannelOf[r]) \ {r}, u)
              /\ tx' = [tx EXCEPT ![s].step = "assign", ![s].last = u]
        /\ UNCHANGED <<Tables, clock>>

\* assign_runner: the query for the participants' rows and the choice.
AssignRunner(s) ==
    LET c == ChannelOf[tx[s].run]
        rows == [u \in Users |-> IF u \in Participants(s) THEN stats[c][u]
                                 ELSE NoStat]
        sorted == [u \in Participants(s) |-> Loaded(rows[u], clock + 1)]
    IN  /\ Closing(s, "assign")
        /\ \E u \in Participants(s) :
              /\ IsChosen(sorted,
                          Eligible(Participants(s), tx[s].last, tx[s].repeat),
                          u)
              /\ tx' = [tx EXCEPT ![s].step = "commit", ![s].rows = rows,
                                  ![s].runner = u, ![s].at = clock + 1]
        /\ clock' = clock + 1
        /\ UNCHANGED Tables

\* The participants whose runner_stats row the session inserts although
\* another transaction has done so since: uq_runner_stats_user_channel.
StatConflicts(s) ==
    {u \in Participants(s) : /\ ~Exists(tx[s].rows[u])
                             /\ Exists(stats[ChannelOf[tx[s].run]][u])}

\* Mutant: the chosen row is written as it was loaded.
StatVersionUncredited(s, u, row) ==
    IF Exists(tx[s].rows[u]) THEN row
    ELSE Loaded(tx[s].rows[u], tx[s].at)

\* A participant's row of runner_stats once the session has flushed.  An
\* existing row of somebody not chosen is not written; the chosen one gets
\* the count loaded plus one, whatever the row holds by now.
StatVersion(s, u, row) ==
    LET loaded == Loaded(tx[s].rows[u], tx[s].at)
    IN  IF u = tx[s].runner THEN Credited(loaded, tx[s].at)
        ELSE IF Exists(tx[s].rows[u]) THEN row
        ELSE loaded

\* _finalize_run, _snapshot_orders and the commit that flushes them: there is
\* no query after assign_runner, so every row is written at the end.
CommitClose(s) ==
    LET r == tx[s].run
        c == ChannelOf[r]
    IN  /\ Closing(s, "commit")
        /\ \A u \in Participants(s), o \in Sessions : ~HoldsOrder(o, r, u)
        /\ \/ /\ StatConflicts(s) # {}
              /\ UNCHANGED Tables
           \/ /\ StatConflicts(s) = {}
              /\ runs' = [runs EXCEPT ![r] =
                            [status |-> "closed", runner |-> tx[s].runner,
                             closedAt |-> tx[s].at]]
              /\ orders' = [orders EXCEPT ![r] = [u \in Users |->
                    IF u \in Participants(s)
                    THEN UpdatedOrder(orders[r][u], tx[s].loaded[u],
                                      [tx[s].loaded[u] EXCEPT !.final = TRUE])
                    ELSE orders[r][u]]]
              /\ stats' = [stats EXCEPT ![c] = [u \in Users |->
                    IF u \in Participants(s)
                    THEN StatVersion(s, u, stats[c][u])
                    ELSE stats[c][u]]]
              /\ UNCHANGED prefs
        /\ End(s)
        /\ UNCHANGED clock

-----------------------------------------------------------------------------
\* A request can fail at any statement (connection lost, a deadlock PostgreSQL
\* resolves, the process dying) or its caller can give up: rolled back.
Abort(s) ==
    /\ tx[s] # Idle
    /\ End(s)
    /\ UNCHANGED <<Tables, clock>>

Request(s) ==
    \E r \in Runs :
        \/ \E u \in Users :
              \/ \E text \in Texts, confirm \in BOOLEAN :
                    SubmitOrder(s, r, u, text, confirm)
              \/ UseLastOrder(s, r, u)
              \/ CancelOrder(s, r, u)
        \/ \E repeat \in BOOLEAN : CloseRun(s, r, repeat)

\* The statements that may have to wait for a row lock, and the others.  Who
\* waits for whom, and for how long, is the subject of RowLocks.
LockingStatement(s) == FlushOrder(s) \/ FlushPreference(s) \/ CommitClose(s)

Statement(s) ==
    \/ LoadPreference(s) \/ LoadOrder(s) \/ CommitOrder(s)
    \/ LoadActiveOrders(s) \/ LoadPreviousRunner(s) \/ AssignRunner(s)

Next == \E s \in Sessions : Request(s) \/ Statement(s) \/ LockingStatement(s)
                             \/ Abort(s)

Spec == Init /\ [][Next]_vars

-----------------------------------------------------------------------------
(* Properties that hold however requests interleave *)

TypeOK ==
    /\ runs \in [Runs -> Run]
    /\ orders \in [Runs -> [Users -> Order]]
    /\ prefs \in [Channels -> [Users -> Texts \cup {NoText}]]
    /\ stats \in [Channels -> [Users -> Stat]]
    /\ tx \in [Sessions -> {Idle} \cup OrderTx \cup CloseTx]
    /\ clock \in Nat

\* close_run commits a run, its runner and the runner's credit together:
\* whoever a closed run names has ordered in it and has been credited in the
\* channel, even when other requests close, cancel or abort in between.
ClosedRunsAreBacked ==
    \A r \in Runs : runs[r].status = "closed" =>
        /\ runs[r].runner \in Users
        /\ runs[r].closedAt \in 1..clock
        /\ orders[r][runs[r].runner].state # "none"
        /\ stats[ChannelOf[r]][runs[r].runner].count > 0

\* A row of runner_stats is never left behind by a close that failed: its
\* user has an order in some run of the channel that was closed.
StatsAreBacked ==
    \A c \in Channels, u \in Users : Exists(stats[c][u]) =>
        \E r \in ClosedRuns(c) : orders[r][u].state # "none"

\* An order confirmed on an open run has a stored preference to offer next
\* time: _persist_order writes both or neither, whichever of two requests of
\* a user commits first.
PreferencesTrackOrders ==
    \A r \in Runs, u \in Users :
        (runs[r].status = "open" /\ orders[r][u].final) =>
            prefs[ChannelOf[r]][u] # NoText

\* A stored preference comes from an order of its user in the channel: one
\* whose order was refused at the flush leaves no preference either.
PreferencesComeFromOrders ==
    \A c \in Channels, u \in Users : prefs[c][u] # NoText =>
        \E r \in Runs : ChannelOf[r] = c /\ orders[r][u].state # "none"

-----------------------------------------------------------------------------
(* Why they hold: what a session has loaded stays true of the tables, or is *)
(* made true by its own commit, whatever commits in between.                *)

OrderTxOK(t) ==
    LET pref == prefs[ChannelOf[t.run]][t.user]
        row == orders[t.run][t.user]
    IN  /\ t.op = "cancel" => ~t.confirm
        /\ (t.op # "cancel" /\ t.step # "preference") => t.text \in Texts
        /\ t.step = "flush_preference" => t.confirm /\ t.op # "cancel"
        /\ t.step = "flush_order" /\ t.order.state # "none" =>
               row.state # "none"
        /\ t.step = "flush_order" /\ t.op = "cancel" =>
               t.order.state # "none"
        /\ t.step \in {"flush_preference", "commit"} => t.order.state # "none"
        /\ t.step # "commit" /\ t.pref # NoText => pref # NoText
        /\ t.step = "commit" /\ t.confirm =>
               t.pref # NoText /\ t.op # "cancel"
        /\ (/\ t.step = "commit" /\ ~t.confirm
            /\ t.order.final /\ runs[t.run].status = "open") => pref # NoText

CloseTxOK(t) ==
    /\ \A u \in Users :
          t.loaded[u].state = "active" => orders[t.run][u].state # "none"
    /\ t.step = "commit" =>
          /\ t.runner \in Users
          /\ t.loaded[t.runner].state = "active"
          /\ t.at \in 1..clock

\* What a request read before it waited is still good enough when it writes:
\* rows it found are there, a preference it found is there, the runner it
\* picked has an order.
SessionsConsistent ==
    \A s \in Sessions : /\ InOrderOp(s) => OrderTxOK(tx[s])
                        /\ tx[s].op = "close" => CloseTxOK(tx[s])

\* A user without a row of runner_stats has served nothing.
MissingStatsEmpty ==
    \A c \in Channels, u \in Users :
        ~Exists(stats[c][u]) => stats[c][u].count = 0

Inv ==
    /\ TypeOK
    /\ ClosedRunsAreBacked
    /\ StatsAreBacked
    /\ PreferencesTrackOrders
    /\ PreferencesComeFromOrders
    /\ SessionsConsistent
    /\ MissingStatsEmpty

-----------------------------------------------------------------------------
(* Properties of requests that do not overlap, which overlapping ones break *)

\* runner_stats is the ledger of the closed runs: a user's count is the
\* number of runs they were assigned, last_run_at the time of the latest.
LedgerExact ==
    \A c \in Channels, u \in Users :
        LET ran == {r \in ClosedRuns(c) : runs[r].runner = u}
            times == {runs[r].closedAt : r \in ran} \cup {0}
        IN  /\ stats[c][u].count = Cardinality(ran)
            /\ stats[c][u].lastRun \in times
            /\ \A t \in times : t <= stats[c][u].lastRun

\* The orders a run was closed with are final and stay as they are: what the
\* summary lists is what the table says ever after.
ClosedOrdersFinal ==
    \A r \in Runs : runs[r].status = "closed" =>
        \A u \in Active(r) : orders[r][u].final

\* A request that succeeds leaves the user's order as it asked: active with
\* its text, and the preference too if confirmed, or canceled.
RequestTakesEffect ==
    [][\A s \in Sessions : CommitOrder(s) =>
          LET row == orders'[tx[s].run][tx[s].user]
              pref == prefs'[ChannelOf[tx[s].run]][tx[s].user]
          IN  IF tx[s].op = "cancel" THEN row.state = "canceled"
              ELSE /\ row.state = "active"
                   /\ row.text = tx[s].text
                   /\ row.final = tx[s].confirm
                   /\ tx[s].confirm => pref = tx[s].text]_vars

\* The participant count a request returns is the number of active orders of
\* its run once it has committed.
CountAccurate ==
    [][\A s \in Sessions : CommitOrder(s) =>
          tx[s].count = Cardinality(
              {u \in Users : orders'[tx[s].run][u].state = "active"})]_vars
=============================================================================
