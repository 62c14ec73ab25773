------------------------------ MODULE RowLocks ------------------------------
(***************************************************************************)
(* Who waits for whom in the tables of one channel: the row locks that     *)
(* order requests, closes of runs and resets take, in the order in which   *)
(* they take them.  CoffeeRuns says what these transactions write; here    *)
(* what matters is that they write it under locks held to their end.       *)
(*                                                                         *)
(* A row inserted is locked for everybody until the commit, an INSERT or   *)
(* UPDATE of the same row waits.  The INSERT of an order also shares the   *)
(* row of its run, which its foreign key refers to: that does not get in   *)
(* the way of an UPDATE of the run, only of its DELETE.  PostgreSQL aborts *)
(* a transaction that it finds in a cycle of waiting ones.                 *)
(*                                                                         *)
(* The reads of a request take no locks and those that precede a statement *)
(* are one step with its beginning.  Left out: all values but whether a    *)
(* run is open, and so who is chosen to go and whose order is canceled.    *)
(***************************************************************************)
EXTENDS Naturals, Sequences, FiniteSets, SequencesExt

CONSTANTS
    Sessions,       \* database sessions: the requests served at one time
    Runs, Users,    \* the runs of the channel, and its users
    OrderKey,       \* the order of the orders' primary keys
    UserRank        \* the order of users by display name and identifier

ASSUME RowLocksAssumption ==
    /\ IsFiniteSet(Sessions) /\ IsFiniteSet(Runs) /\ IsFiniteSet(Users)
    /\ OrderKey \in [Runs \X Users -> Nat]
    /\ \A r \in Runs, u, v \in Users :
          OrderKey[<<r, u>>] = OrderKey[<<r, v>>] => u = v
    /\ UserRank \in [Users -> Nat]
    /\ \A u, v \in Users : UserRank[u] = UserRank[v] => u = v

VARIABLES
    rows,       \* the rows committed
    open,       \* the runs whose status is open
    request,    \* what each session is doing
    ahead,      \* the statements it has yet to begin
    todo,       \* the locks the present one has yet to take, in their order
    held        \* the locks the session has

vars == <<rows, open, request, ahead, todo, held>>

-----------------------------------------------------------------------------
(* Rows and locks *)

OrderRow(r, u) == <<"order", r, u>>
RunRow(r) == <<"run", r>>
PreferenceRow(u) == <<"preference", u>>
StatRow(u) == <<"stat", u>>
ChannelRow == <<"channel">>

OrdersOf(r) == {OrderRow(r, u) : u \in Users}

Table ==
    [orders |-> UNION {OrdersOf(r) : r \in Runs},
     runs |-> {RunRow(r) : r \in Runs},
     preferences |-> {PreferenceRow(u) : u \in Users},
     stats |-> {StatRow(u) : u \in Users},
     channels |-> {ChannelRow}]

TableNames == {"orders", "runs", "preferences", "stats", "channels"}

AllRows == UNION {Table[name] : name \in TableNames}

Modes == {"share", "update", "insert", "delete"}

Lock == [row : AllRows, mode : Modes]

On(row, mode) == [row |-> row, mode |-> mode]

Conflict(lock, other) ==
    /\ lock.row = other.row
    /\ {lock.mode, other.mode} \notin {{"share"}, {"share", "update"}}

\* An ORM object is inserted if its row was not there when it was read.
Write(row) ==
    IF row \in rows THEN On(row, "update") ELSE On(row, "insert")

-----------------------------------------------------------------------------
(* Requests *)

Idle == [op |-> "idle"]

OrderOps == {"order", "confirmed_order", "last_order"}

Requests ==
    {Idle, [op |-> "reset"]}
        \cup [op : {"close"}, run : Runs]
        \cup [op : OrderOps, run : Runs, user : Users]

StatementNames == {"order", "preference", "close"} \cup TableNames

IsOrderRequest(s) == request[s].op \in OrderOps

Waiting(s) == todo[s] # <<>>

Wanted(s) == Head(todo[s])

WaitsFor(s, t) ==
    /\ Waiting(s) /\ s # t
    /\ \E lock \in held[t] : Conflict(Wanted(s), lock)

\* Each session of a cycle waits for the next one.
IsCycle(cycle) ==
    \E next \in [cycle -> cycle] :
        /\ \A s, t \in cycle : next[s] = next[t] => s = t
        /\ \A s \in cycle : WaitsFor(s, next[s])

Cycles == {cycle \in (SUBSET Sessions) \ {{}} : IsCycle(cycle)}

Init ==
    /\ rows = Table.runs \cup Table.channels
    /\ open = Runs
    /\ request = [s \in Sessions |-> Idle]
    /\ ahead = [s \in Sessions |-> <<>>]
    /\ todo = [s \in Sessions |-> <<>>]
    /\ held = [s \in Sessions |-> {}]

Begin(s, req, statements) ==
    /\ request[s] = Idle
    /\ request' = [request EXCEPT ![s] = req]
    /\ ahead' = [ahead EXCEPT ![s] = statements]
    /\ UNCHANGED <<rows, open, todo, held>>

\* Mutant: mark_used comes before _persist_order, whose first query flushes
\* it.
StatementsMarkFirst(op) ==
    CASE op = "order" -> <<"order">>
      [] op = "confirmed_order" -> <<"order", "preference">>
      [] op = "last_order" -> <<"preference", "order">>

\* submit_order without confirmation and cancel_order write the order, the
\* others the preference after it.
Statements(op) ==
    IF op = "order" THEN <<"order">> ELSE <<"order", "preference">>

OrderRequest(s, op, r, u) ==
    /\ r \in open
    /\ op = "last_order" => PreferenceRow(u) \in rows
    /\ Begin(s, [op |-> op, run |-> r, user |-> u], Statements(op))

CloseRun(s, r) ==
    /\ r \in open
    /\ Begin(s, [op |-> "close", run |-> r], <<"close">>)

\* ON DELETE CASCADE follows the deleted runs to orders that the first
\* statement did not see.  The channel is written by the last flush.
ResetChannel(s) ==
    Begin(s, [op |-> "reset"],
          <<"orders", "runs", "orders", "preferences", "stats", "channels">>)

-----------------------------------------------------------------------------
(* Statements: the locks they take, in their order *)

WriteOrder(r, u) ==
    IF OrderRow(r, u) \in rows THEN <<On(OrderRow(r, u), "update")>>
    ELSE <<On(OrderRow(r, u), "insert"), On(RunRow(r), "share")>>

\* The users in the order of their keys.
Sorted(users, key) ==
    {seq \in SetToSeqs(users) :
        \A i, j \in DOMAIN seq : i < j => key[seq[i]] < key[seq[j]]}

\* Mutant: one UPDATE for all the orders, which takes them as it finds them.
OrderSnapshotsAnyOrder(r, users) ==
    {[i \in DOMAIN seq |-> On(OrderRow(r, seq[i]), "update")] :
        seq \in SetToSeqs(users)}

\* _snapshot_orders: one UPDATE after the other, by primary key.
OrderSnapshots(r, users) ==
    {[i \in DOMAIN seq |-> On(OrderRow(r, seq[i]), "update")] :
        seq \in Sorted(users, [u \in users |-> OrderKey[<<r, u>>]])}

\* assign_runner: the chosen row if there was one, then the rows to insert,
\* in the order of the participants.
StatWrites(users, chosen) ==
    LET new == {u \in users : StatRow(u) \notin rows}
    IN  {(IF chosen \in new THEN <<>> ELSE <<On(StatRow(chosen), "update")>>)
         \o [i \in DOMAIN seq |-> On(StatRow(seq[i]), "insert")] :
            seq \in Sorted(new, UserRank)}

\* The flush at the commit of a close takes the mappers by name: Order, Run,
\* RunnerStat.
CloseLocks(r, users) ==
    {snapshots \o <<On(RunRow(r), "update")>> \o writes :
        snapshots \in OrderSnapshots(r, users),
        writes \in UNION {StatWrites(users, chosen) : chosen \in users}}

\* A DELETE takes the rows it sees as it finds them.
DeleteLocks(name) ==
    LET seen == Table[name] \cap rows
        mode == IF name = "channels" THEN "update" ELSE "delete"
    IN  {[i \in DOMAIN seq |-> On(seq[i], mode)] : seq \in SetToSeqs(seen)}

\* Who may have an active order in run r.
WithOrder(r) == {u \in Users : OrderRow(r, u) \in rows}

LocksOf(s, statement) ==
    LET req == request[s]
    IN  CASE statement = "order" -> {WriteOrder(req.run, req.user)}
          [] statement = "preference" -> {<<Write(PreferenceRow(req.user))>>}
          [] statement = "close" ->
                UNION {CloseLocks(req.run, users) :
                          users \in (SUBSET WithOrder(req.run)) \ {{}}}
          [] OTHER -> DeleteLocks(statement)

\* A lock the transaction has already is taken again without waiting.
NextStatement(s) ==
    /\ todo[s] = <<>> /\ ahead[s] # <<>>
    /\ \E locks \in LocksOf(s, Head(ahead[s])) :
          todo' = [todo EXCEPT ![s] = locks]
    /\ ahead' = [ahead EXCEPT ![s] = Tail(@)]
    /\ UNCHANGED <<rows, open, request, held>>

-----------------------------------------------------------------------------
(* The end of a transaction *)

\* Mutant: nobody rolls back or closes the session.
ReleasedNever(s) == UNCHANGED held

Released(s) == held' = [held EXCEPT ![s] = {}]

RollBack(s) ==
    /\ request' = [request EXCEPT ![s] = Idle]
    /\ ahead' = [ahead EXCEPT ![s] = <<>>]
    /\ todo' = [todo EXCEPT ![s] = <<>>]
    /\ Released(s)
    /\ UNCHANGED <<rows, open>>

\* RunnerSelectionError: everybody has canceled or nobody has ordered.
NobodyTakesPart(s) ==
    /\ ahead[s] = <<"close">>
    /\ RollBack(s)

\* The lock wanted is free.  An INSERT that then meets a committed row fails.
TakeLock(s) ==
    /\ Waiting(s)
    /\ \A t \in Sessions : ~WaitsFor(s, t)
    /\ \/ /\ Wanted(s).mode = "insert" /\ Wanted(s).row \in rows
          /\ RollBack(s)
       \/ /\ ~(Wanted(s).mode = "insert" /\ Wanted(s).row \in rows)
          /\ held' = [held EXCEPT ![s] = @ \cup {Wanted(s)}]
          /\ todo' = [todo EXCEPT ![s] = Tail(@)]
          /\ UNCHANGED <<rows, open, request, ahead>>

Finished(s) == request[s] # Idle /\ todo[s] = <<>> /\ ahead[s] = <<>>

Commit(s) ==
    LET inserted == {lock \in held[s] : lock.mode = "insert"}
    IN  /\ Finished(s) /\ request[s].op # "reset"
        /\ rows' = rows \cup {lock.row : lock \in inserted}
        /\ open' = IF request[s].op = "close" THEN open \ {request[s].run}
                   ELSE open
        /\ request' = [request EXCEPT ![s] = Idle]
        /\ Released(s)
        /\ UNCHANGED <<ahead, todo>>

\* The INSERT of the audit row, the last statement of a reset, is refused.
AuditFails(s) == Finished(s) /\ request[s].op = "reset" /\ RollBack(s)

\* deadlock_timeout: PostgreSQL aborts a transaction it finds in a cycle.
DeadlockDetected(s) ==
    /\ \E cycle \in Cycles : s \in cycle
    /\ RollBack(s)

\* A request can fail at any statement, or the process can die.
Abort(s) == request[s] # Idle /\ RollBack(s)

Request(s) ==
    \/ \E r \in Runs :
          \/ \E op \in OrderOps, u \in Users : OrderRequest(s, op, r, u)
          \/ CloseRun(s, r)
    \/ ResetChannel(s)

End(s) == Commit(s) \/ AuditFails(s) \/ NobodyTakesPart(s)

Next ==
    \E s \in Sessions :
        \/ Request(s) \/ NextStatement(s) \/ TakeLock(s) \/ End(s)
        \/ DeadlockDetected(s) \/ Abort(s)

Spec == Init /\ [][Next]_vars

\* A request goes on, and the detector looks at those that wait for long.
\* PostgreSQL queues those that wait for a row: one that can have it again
\* and again gets it.
Fairness ==
    \A s \in Sessions :
        /\ WF_vars(NextStatement(s)) /\ WF_vars(End(s))
        /\ WF_vars(DeadlockDetected(s)) /\ SF_vars(TakeLock(s))

FairSpec == Spec /\ Fairness

-----------------------------------------------------------------------------
\* Rows, locks and requests have their shape, and a session that has nothing
\* to do has no locks: they go with the transaction, however it ends.
TypeOK ==
    /\ rows \subseteq AllRows
    /\ open \subseteq Runs
    /\ request \in [Sessions -> Requests]
    /\ ahead \in [Sessions -> Seq(StatementNames)]
    /\ todo \in [Sessions -> Seq(Lock)]
    /\ held \in [Sessions -> SUBSET Lock]
    /\ \A s \in Sessions : request[s] = Idle =>
          held[s] = {} /\ todo[s] = <<>> /\ ahead[s] = <<>>

\* Order requests are never part of a deadlock, whatever else goes on: every
\* one takes the order before the preference, nobody who has a preference
\* waits for an order.  So no user's order is lost to the detector.
OrdersNeverDeadlock ==
    \A cycle \in Cycles : \A s \in cycle : ~IsOrderRequest(s)

\* Closes of one run do not deadlock: they write the orders in the order of
\* their keys, then the run.  A deadlock takes a reset, or closes of several
\* runs.
DeadlocksNeedOthers ==
    \A cycle \in Cycles :
        \/ \E s \in cycle : request[s].op = "reset"
        \/ \E s, t \in cycle : request[s].run # request[t].run

\* Every request ends, however many wait for the same rows.
RequestsEnd == \A s \in Sessions : request[s] # Idle ~> request[s] = Idle
=============================================================================
