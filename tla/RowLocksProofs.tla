--------------------------- MODULE RowLocksProofs ---------------------------
(***************************************************************************)
(* Who can be part of a deadlock, for any number of sessions, runs and     *)
(* users.                                                                  *)
(***************************************************************************)
EXTENDS RowLocks, FiniteSetTheorems, SequenceTheorems, TLAPS

Kind(row) == row[1]

\* The kinds of the rows locked, and of those yet to be locked.
HeldAre(s, kinds) == \A lock \in held[s] : Kind(lock.row) \in kinds

TodoAre(s, kinds) ==
    \A i \in DOMAIN todo[s] : Kind(todo[s][i].row) \in kinds

\* The stages of an order request: before its first statement, waiting for
\* the order, for the run it shares, between its statements, waiting for
\* the preference, and finished.
OrderStage(s, r, u) ==
    \/ /\ ahead[s] \in {<<"order">>, <<"order", "preference">>}
       /\ todo[s] = <<>> /\ held[s] = {}
    \/ /\ ahead[s] \in {<<>>, <<"preference">>}
       /\ \/ /\ held[s] = {}
             /\ \/ todo[s] = <<On(OrderRow(r, u), "update")>>
                \/ todo[s] = <<On(OrderRow(r, u), "insert"),
                               On(RunRow(r), "share")>>
          \/ /\ held[s] = {On(OrderRow(r, u), "insert")}
             /\ todo[s] = <<On(RunRow(r), "share")>>
          \/ todo[s] = <<>> /\ HeldAre(s, {"order", "run"})
    \/ /\ ahead[s] = <<>>
       /\ \/ /\ \E mode \in Modes : todo[s] = <<On(PreferenceRow(u), mode)>>
             /\ HeldAre(s, {"order", "run"})
          \/ todo[s] = <<>>

OrderStages(s) ==
    IsOrderRequest(s) => OrderStage(s, request[s].run, request[s].user)

\* The order in which a close takes its locks.
Before(row, later) ==
    \/ /\ Kind(row) = "order" /\ Kind(later) = "order"
       /\ OrderKey[<<row[2], row[3]>>] < OrderKey[<<later[2], later[3]>>]
    \/ Kind(row) = "order" /\ Kind(later) \in {"run", "stat"}
    \/ Kind(row) \in {"run", "stat"} /\ Kind(later) = "stat"

OfClose(r, row) ==
    \/ row \in OrdersOf(r) /\ row \in rows
    \/ row = RunRow(r)
    \/ row \in Table.stats

Ascending(locks) ==
    \A i, j \in DOMAIN locks : i < j => Before(locks[i].row, locks[j].row)

\* What a close has yet to lock comes after all that it has.
CloseStage(s, r) ==
    \/ ahead[s] = <<"close">> /\ todo[s] = <<>> /\ held[s] = {}
    \/ /\ ahead[s] = <<>>
       /\ \A i \in DOMAIN todo[s] : OfClose(r, todo[s][i].row)
       /\ Ascending(todo[s])
       /\ \A lock \in held[s], i \in DOMAIN todo[s] :
             Before(lock.row, todo[s][i].row)
       /\ \/ On(RunRow(r), "update") \in held[s]
          \/ \E i \in DOMAIN todo[s] : todo[s][i] = On(RunRow(r), "update")

CloseStages(s) == request[s].op = "close" => CloseStage(s, request[s].run)

\* What is ahead of a reset that has no lock but on orders and runs.
Early ==
    {<<"orders", "runs", "orders", "preferences", "stats", "channels">>,
     <<"runs", "orders", "preferences", "stats", "channels">>,
     <<"orders", "preferences", "stats", "channels">>,
     <<"preferences", "stats", "channels">>}

\* A reset goes from table to table.
ResetStage(s) ==
    \/ /\ ahead[s] \in Early
       /\ HeldAre(s, {"order", "run"}) /\ TodoAre(s, {"order", "run"})
    \/ /\ ahead[s] = <<"stats", "channels">>
       /\ HeldAre(s, {"order", "run", "preference"})
       /\ TodoAre(s, {"preference"})
    \/ /\ ahead[s] = <<"channels">>
       /\ HeldAre(s, {"order", "run", "preference", "stat"})
       /\ TodoAre(s, {"stat"})
    \/ ahead[s] = <<>> /\ TodoAre(s, {"channel"})

\* It waits only for rows that it has seen.
ResetStages(s) ==
    request[s].op = "reset" =>
        /\ ResetStage(s)
        /\ \A i \in DOMAIN todo[s] : todo[s][i].row \in rows

\* A row being inserted is not there yet.
Unwritten(s) ==
    \A lock \in held[s] : lock.mode = "insert" => lock.row \notin rows

SessionOK(s) ==
    OrderStages(s) /\ CloseStages(s) /\ ResetStages(s) /\ Unwritten(s)

\* Two sessions never have locks that conflict.
Apart(s, t) ==
    \A lock \in held[s], other \in held[t] : ~Conflict(lock, other)

Inv ==
    /\ TypeOK
    /\ \A s \in Sessions : SessionOK(s)
    /\ \A s, t \in Sessions : s # t => Apart(s, t)

-----------------------------------------------------------------------------
LEMMA Rows ==
  ASSUME NEW row \in AllRows
  PROVE  /\ row \in Table.orders <=> Kind(row) = "order"
         /\ row \in Table.runs <=> Kind(row) = "run"
         /\ row \in Table.preferences <=> Kind(row) = "preference"
         /\ row \in Table.stats <=> Kind(row) = "stat"
         /\ row \in Table.channels <=> Kind(row) = "channel"
  BY DEF AllRows, TableNames, Table, Kind, OrdersOf, OrderRow, RunRow,
         PreferenceRow, StatRow, ChannelRow

LEMMA TableRows ==
  /\ \A r \in Runs, u \in Users : OrderRow(r, u) \in AllRows
  /\ \A r \in Runs : RunRow(r) \in AllRows
  /\ \A u \in Users : PreferenceRow(u) \in AllRows /\ StatRow(u) \in AllRows
  /\ ChannelRow \in AllRows
  /\ \A name \in TableNames : Table[name] \subseteq AllRows
  BY DEF AllRows, TableNames, Table, OrdersOf

LEMMA LockOn ==
  ASSUME NEW row \in AllRows, NEW mode \in Modes
  PROVE  /\ On(row, mode) \in Lock
         /\ On(row, mode).row = row /\ On(row, mode).mode = mode
  BY DEF On, Lock

\* The rows of a table are finite in number.
LEMMA TablesAreFinite ==
  ASSUME NEW name \in TableNames
  PROVE  IsFiniteSet(Table[name])
  <1> USE RowLocksAssumption
  <1>1. IsFiniteSet(Table.orders)
    <2> DEFINE S == Runs \X Users
               f == [ru \in S |-> OrderRow(ru[1], ru[2])]
    <2>1. IsFiniteSet(S)
      BY FS_Product
    <2>2. \A row \in Table.orders : \E ru \in S : f[ru] = row
      <3> SUFFICES ASSUME NEW r \in Runs, NEW u \in Users
                   PROVE  \E ru \in S : f[ru] = OrderRow(r, u)
        BY DEF Table, OrdersOf
      <3> QED
        BY <<r, u>> \in S
    <2>3. f \in [S -> Table.orders]
      BY DEF Table, OrdersOf
    <2>4. f \in Surjection(S, Table.orders)
      BY <2>2, <2>3 DEF Surjection
    <2> HIDE DEF S, f
    <2> QED
      BY <2>1, <2>4, FS_Surjection
  <1>2. IsFiniteSet(Table.runs)
    <2> DEFINE f == [r \in Runs |-> RunRow(r)]
    <2>1. f \in Surjection(Runs, Table.runs)
      BY DEF Surjection, Table
    <2> HIDE DEF f
    <2> QED
      BY <2>1, FS_Surjection
  <1>3. IsFiniteSet(Table.preferences)
    <2> DEFINE f == [u \in Users |-> PreferenceRow(u)]
    <2>1. f \in Surjection(Users, Table.preferences)
      BY DEF Surjection, Table
    <2> HIDE DEF f
    <2> QED
      BY <2>1, FS_Surjection
  <1>4. IsFiniteSet(Table.stats)
    <2> DEFINE f == [u \in Users |-> StatRow(u)]
    <2>1. f \in Surjection(Users, Table.stats)
      BY DEF Surjection, Table
    <2> HIDE DEF f
    <2> QED
      BY <2>1, FS_Surjection
  <1>5. IsFiniteSet(Table.channels)
    BY FS_Singleton DEF Table
  <1> QED
    BY <1>1, <1>2, <1>3, <1>4, <1>5 DEF TableNames

LEMMA SeqsOfFinite ==
  ASSUME NEW S, IsFiniteSet(S), NEW seq \in SetToSeqs(S)
  PROVE  /\ seq \in Seq(S) /\ DOMAIN seq = 1..Len(seq) /\ Len(seq) \in Nat
         /\ \A i \in DOMAIN seq : seq[i] \in S
  <1>1. Cardinality(S) \in Nat
    BY FS_CardinalityType
  <1>2. seq \in [1..Cardinality(S) -> S]
    BY DEF SetToSeqs
  <1> QED
    BY <1>1, <1>2, SeqDef, LenProperties

LEMMA ConflictIsMutual ==
  ASSUME NEW lock, NEW other
  PROVE  /\ Conflict(lock, other) <=> Conflict(other, lock)
         /\ lock.row = other.row /\ lock.mode \in {"insert", "delete"}
               => Conflict(lock, other)
  BY DEF Conflict

-----------------------------------------------------------------------------
(* Cycles *)

\* A set that a cycle does not leave, it does not enter.
LEMMA NoWayIn ==
  ASSUME NEW cycle, IsFiniteSet(cycle), NEW next \in [cycle -> cycle],
         \A s, t \in cycle : next[s] = next[t] => s = t,
         NEW X \in SUBSET cycle, \A x \in X : next[x] \in X,
         NEW s \in cycle, next[s] \in X
  PROVE  s \in X
  <1> DEFINE f == [x \in X |-> next[x]]
  <1>1. f \in Injection(X, X)
    BY DEF Injection, IsInjective
  <1>2. IsFiniteSet(X)
    BY FS_Subset
  <1>3. f \in Surjection(X, X)
    BY <1>1, <1>2, FS_Injection
  <1>4. PICK x \in X : f[x] = next[s]
    BY <1>3 DEF Surjection
  <1> QED
    BY <1>4

\* Somebody waits for everyone in a cycle.
LEMMA EveryoneIsWaitedFor ==
  ASSUME NEW cycle, IsFiniteSet(cycle), NEW next \in [cycle -> cycle],
         \A s, t \in cycle : next[s] = next[t] => s = t,
         NEW s \in cycle
  PROVE  \E t \in cycle : next[t] = s
  <1> SUFFICES ASSUME \A t \in cycle : next[t] # s PROVE FALSE
    OBVIOUS
  <1> DEFINE X == cycle \ {s}
  <1>1. X \in SUBSET cycle /\ next[s] \in X /\ \A x \in X : next[x] \in X
    OBVIOUS
  <1>2. s \in X
    <2> HIDE DEF X
    <2> QED
      BY <1>1, NoWayIn
  <1> QED
    BY <1>2

-----------------------------------------------------------------------------
(* What the statements lock *)

LEMMA WriteOrderLocks ==
  ASSUME Inv, NEW r \in Runs, NEW u \in Users
  PROVE  /\ WriteOrder(r, u) \in Seq(Lock)
         /\ \/ WriteOrder(r, u) = <<On(OrderRow(r, u), "update")>>
            \/ WriteOrder(r, u) = <<On(OrderRow(r, u), "insert"),
                                    On(RunRow(r), "share")>>
  <1>1. /\ On(OrderRow(r, u), "update") \in Lock
        /\ On(OrderRow(r, u), "insert") \in Lock
        /\ On(RunRow(r), "share") \in Lock
    BY TableRows, LockOn DEF Modes
  <1> QED
    BY <1>1 DEF WriteOrder

LEMMA WritePreference ==
  ASSUME NEW u \in Users
  PROVE  \E mode \in Modes : /\ Write(PreferenceRow(u)) = On(PreferenceRow(u), mode)
                             /\ On(PreferenceRow(u), mode) \in Lock
  BY TableRows, LockOn DEF Write, Modes

LEMMA DeletesLock ==
  ASSUME NEW name \in TableNames, NEW locks \in DeleteLocks(name)
  PROVE  /\ locks \in Seq(Lock)
         /\ \A i \in DOMAIN locks : locks[i].row \in Table[name] \cap rows
  <1> DEFINE seen == Table[name] \cap rows
             mode == IF name = "channels" THEN "update" ELSE "delete"
  <1>1. IsFiniteSet(seen)
    BY TablesAreFinite, FS_Intersection
  <1>2. PICK seq \in SetToSeqs(seen) :
               locks = [i \in DOMAIN seq |-> On(seq[i], mode)]
    BY DEF DeleteLocks
  <1>3. /\ DOMAIN seq = 1..Len(seq) /\ Len(seq) \in Nat
        /\ \A i \in DOMAIN seq : seq[i] \in seen
    BY <1>1, SeqsOfFinite
  <1>4. \A i \in DOMAIN seq : On(seq[i], mode) \in Lock /\ On(seq[i], mode).row = seq[i]
    BY <1>3, TableRows, LockOn DEF Modes
  <1> HIDE DEF seen, mode
  <1>5. /\ locks \in [1..Len(seq) -> Lock]
        /\ \A i \in DOMAIN locks : locks[i].row \in seen
    BY <1>2, <1>3, <1>4
  <1> QED
    BY <1>3, <1>5, SeqDef DEF seen

\* The three parts of the flush of a close.
LEMMA SnapshotLocks ==
  ASSUME NEW r \in Runs, NEW users \in SUBSET WithOrder(r),
         NEW locks \in OrderSnapshots(r, users)
  PROVE  /\ locks \in Seq(Lock)
         /\ \A i \in DOMAIN locks : locks[i].row \in OrdersOf(r) \cap rows
         /\ Ascending(locks)
  <1>1. users \subseteq Users /\ IsFiniteSet(users)
    BY RowLocksAssumption, FS_Subset DEF WithOrder
  <1> DEFINE key == [u \in users |-> OrderKey[<<r, u>>]]
  <1>2. PICK seq \in Sorted(users, key) :
               locks = [i \in DOMAIN seq |-> On(OrderRow(r, seq[i]), "update")]
    BY DEF OrderSnapshots
  <1>3. /\ DOMAIN seq = 1..Len(seq) /\ Len(seq) \in Nat
        /\ \A i \in DOMAIN seq : seq[i] \in users
    BY <1>1, SeqsOfFinite DEF Sorted
  <1>4. \A i, j \in DOMAIN seq : i < j => key[seq[i]] < key[seq[j]]
    BY DEF Sorted
  <1>5. \A u \in users : /\ On(OrderRow(r, u), "update") \in Lock
                         /\ On(OrderRow(r, u), "update").row = OrderRow(r, u)
                         /\ OrderRow(r, u) \in OrdersOf(r) \cap rows
    BY <1>1, TableRows, LockOn DEF Modes, WithOrder, OrdersOf
  <1>6. /\ DOMAIN locks = DOMAIN seq
        /\ \A i \in DOMAIN locks : /\ locks[i] \in Lock
                                   /\ locks[i].row = OrderRow(r, seq[i])
                                   /\ locks[i].row \in OrdersOf(r) \cap rows
    BY <1>2, <1>3, <1>5
  <1>7. Ascending(locks)
    <2> SUFFICES ASSUME NEW i \in DOMAIN locks, NEW j \in DOMAIN locks, i < j
                 PROVE  Before(locks[i].row, locks[j].row)
      BY DEF Ascending
    <2>1. OrderKey[<<r, seq[i]>>] < OrderKey[<<r, seq[j]>>]
      BY <1>3, <1>4, <1>6
    <2>2. /\ locks[i].row = <<"order", r, seq[i]>>
          /\ locks[j].row = <<"order", r, seq[j]>>
      BY <1>6 DEF OrderRow
    <2> QED
      BY <2>1, <2>2 DEF Before, Kind
  <1>8. locks \in [1..Len(seq) -> Lock]
    BY <1>2, <1>3, <1>6
  <1> QED
    BY <1>3, <1>6, <1>7, <1>8, SeqDef

LEMMA StatLocks ==
  ASSUME NEW users \in SUBSET Users, NEW chosen \in users,
         NEW locks \in StatWrites(users, chosen)
  PROVE  /\ locks \in Seq(Lock)
         /\ \A i \in DOMAIN locks : locks[i].row \in Table.stats
  <1> DEFINE new == {u \in users : StatRow(u) \notin rows}
             first == IF chosen \in new THEN <<>>
                      ELSE <<On(StatRow(chosen), "update")>>
  <1>1. PICK seq \in Sorted(new, UserRank) :
               locks = first \o [i \in DOMAIN seq |-> On(StatRow(seq[i]), "insert")]
    BY DEF StatWrites
  <1>2. IsFiniteSet(new)
    BY RowLocksAssumption, FS_Subset
  <1>3. /\ DOMAIN seq = 1..Len(seq) /\ Len(seq) \in Nat
        /\ \A i \in DOMAIN seq : seq[i] \in Users
    BY <1>2, SeqsOfFinite DEF Sorted
  <1> DEFINE L == {lock \in Lock : lock.row \in Table.stats}
             rest == [i \in DOMAIN seq |-> On(StatRow(seq[i]), "insert")]
  <1>4. \A u \in Users, mode \in Modes : On(StatRow(u), mode) \in L
    BY TableRows, LockOn DEF Table
  <1>5. first \in Seq(L)
    <2>1. On(StatRow(chosen), "update") \in L
      BY <1>4 DEF Modes
    <2> HIDE DEF L
    <2> QED
      BY <2>1
  <1>6. rest \in [1..Len(seq) -> L]
    BY <1>3, <1>4 DEF Modes
  <1> HIDE DEF first, rest, new
  <1>7. rest \in Seq(L)
    BY <1>3, <1>6, SeqDef
  <1>8. locks \in Seq(L)
    BY <1>1, <1>5, <1>7, ConcatProperties DEF rest
  <1> QED
    BY <1>8

\* The orders by key, then the run, then the statistics.
LEMMA ClosesLock ==
  ASSUME NEW r \in Runs, NEW users \in SUBSET WithOrder(r),
         NEW locks \in CloseLocks(r, users)
  PROVE  /\ locks \in Seq(Lock)
         /\ \A i \in DOMAIN locks : OfClose(r, locks[i].row)
         /\ Ascending(locks)
         /\ \E i \in DOMAIN locks : locks[i] = On(RunRow(r), "update")
  <1> DEFINE run == On(RunRow(r), "update")
  <1>0. PICK snapshots \in OrderSnapshots(r, users), chosen \in users :
               \E writes \in StatWrites(users, chosen) :
                  locks = snapshots \o <<run>> \o writes
    BY DEF CloseLocks
  <1>1. PICK writes \in StatWrites(users, chosen) :
               locks = snapshots \o <<run>> \o writes
    BY <1>0
  <1>2. /\ snapshots \in Seq(Lock) /\ Ascending(snapshots)
        /\ \A i \in DOMAIN snapshots : snapshots[i].row \in OrdersOf(r) \cap rows
    BY SnapshotLocks
  <1>3. /\ writes \in Seq(Lock)
        /\ \A i \in DOMAIN writes : writes[i].row \in Table.stats
    BY StatLocks DEF WithOrder
  <1>4. run \in Lock /\ run.row = RunRow(r)
    BY TableRows, LockOn DEF Modes
  <1> HIDE DEF run
  <1> DEFINE n == Len(snapshots)
             m == Len(writes)
  <1>5. /\ n \in Nat /\ m \in Nat
        /\ DOMAIN snapshots = 1..n /\ DOMAIN writes = 1..m
    BY <1>2, <1>3
  <1>6. /\ locks \in Seq(Lock) /\ DOMAIN locks = 1..(n + 1 + m)
        /\ \A i \in 1..n : locks[i] = snapshots[i]
        /\ locks[n + 1] = run
        /\ \A i \in (n + 2)..(n + 1 + m) : locks[i] = writes[i - n - 1]
    <2> DEFINE front == snapshots \o <<run>>
    <2>1. /\ <<run>> \in Seq(Lock) /\ Len(<<run>>) = 1 /\ <<run>>[1] = run
      BY <1>4
    <2>2. /\ front \in Seq(Lock) /\ Len(front) = n + 1
          /\ \A i \in 1..(n + 1) : front[i] = IF i <= n THEN snapshots[i]
                                              ELSE <<run>>[i - n]
      BY <1>2, <1>5, <2>1, ConcatProperties
    <2> HIDE DEF front
    <2>3. /\ front \o writes \in Seq(Lock)
          /\ Len(front \o writes) = n + 1 + m
          /\ \A i \in 1..(n + 1 + m) :
                (front \o writes)[i] = IF i <= n + 1 THEN front[i]
                                       ELSE writes[i - (n + 1)]
      <3>1. /\ Len(front \o writes) = Len(front) + Len(writes)
            /\ front \o writes \in Seq(Lock)
            /\ \A i \in 1..(Len(front) + Len(writes)) :
                  (front \o writes)[i] = IF i <= Len(front) THEN front[i]
                                         ELSE writes[i - Len(front)]
        <4>1. front \in Seq(Lock) /\ writes \in Seq(Lock)
          BY <1>3, <2>2
        <4> HIDE DEF n, m
        <4> QED
          BY <4>1, ConcatProperties
      <3>2. Len(writes) = m
        OBVIOUS
      <3> HIDE DEF n, m
      <3> QED
        BY <2>2, <3>1, <3>2
    <2>4. locks = front \o writes
      BY <1>1 DEF front
    <2>5. /\ locks \in Seq(Lock) /\ DOMAIN locks = 1..(n + 1 + m)
          /\ \A i \in 1..(n + 1 + m) :
                locks[i] = IF i <= n + 1 THEN front[i] ELSE writes[i - (n + 1)]
      <3> HIDE DEF n, m
      <3>1. locks \in Seq(Lock) /\ Len(locks) = n + 1 + m
        BY <2>3, <2>4
      <3>2. DOMAIN locks = 1..Len(locks)
        BY <3>1, LenProperties
      <3> QED
        BY <2>3, <2>4, <3>1, <3>2
    <2> HIDE DEF n, m
    <2>6. \A i \in 1..n : locks[i] = snapshots[i]
      BY <1>5, <2>2, <2>5
    <2>7. locks[n + 1] = run
      BY <1>5, <2>1, <2>2, <2>5
    <2>8. ASSUME NEW i \in (n + 2)..(n + 1 + m) PROVE locks[i] = writes[i - n - 1]
      <3>1. i \in 1..(n + 1 + m) /\ ~(i <= n + 1) /\ i - (n + 1) = i - n - 1
        BY <1>5
      <3> QED
        BY <2>5, <3>1
    <2> QED
      BY <2>5, <2>6, <2>7, <2>8
  <1> HIDE DEF n, m
  <1>7. \A i \in DOMAIN locks :
          \/ i \in 1..n /\ locks[i].row \in OrdersOf(r) \cap rows
          \/ i = n + 1 /\ locks[i].row = RunRow(r)
          \/ i > n + 1 /\ locks[i].row \in Table.stats
    <2> SUFFICES ASSUME NEW i \in 1..(n + 1 + m)
                 PROVE  \/ i \in 1..n /\ locks[i].row \in OrdersOf(r) \cap rows
                        \/ i = n + 1 /\ locks[i].row = RunRow(r)
                        \/ i > n + 1 /\ locks[i].row \in Table.stats
      BY <1>6
    <2>1. CASE i <= n
      BY <1>2, <1>5, <1>6, <2>1
    <2>2. CASE i = n + 1
      BY <1>4, <1>6, <2>2
    <2>3. CASE i > n + 1
      <3>1. i \in (n + 2)..(n + 1 + m) /\ i - n - 1 \in 1..m
        BY <1>5, <2>3
      <3> QED
        BY <1>3, <1>5, <1>6, <2>3, <3>1
    <2> QED
      BY <1>5, <2>1, <2>2, <2>3
  <1>8. \A i \in DOMAIN locks :
           /\ i \in 1..n => Kind(locks[i].row) = "order"
           /\ i = n + 1 => Kind(locks[i].row) = "run"
           /\ i > n + 1 => Kind(locks[i].row) = "stat"
    <2>1. /\ \A row \in OrdersOf(r) : Kind(row) = "order"
          /\ Kind(RunRow(r)) = "run"
          /\ \A row \in Table.stats : Kind(row) = "stat"
      BY DEF OrdersOf, OrderRow, RunRow, StatRow, Table, Kind
    <2> QED
      BY <1>5, <1>7, <2>1
  <1>9. Ascending(locks)
    <2> SUFFICES ASSUME NEW i \in DOMAIN locks, NEW j \in DOMAIN locks, i < j
                 PROVE  Before(locks[i].row, locks[j].row)
      BY DEF Ascending
    <2>1. i \in Nat /\ j \in Nat
      BY <1>5, <1>6
    <2>2. CASE j \in 1..n
      <3>1. i \in 1..n
        BY <1>5, <2>1, <2>2, <1>7
      <3> QED
        BY <1>2, <1>5, <1>6, <2>2, <3>1 DEF Ascending
    <2>3. CASE j \notin 1..n /\ i \in 1..n
      <3>1. j = n + 1 \/ j > n + 1
        BY <1>7, <2>3
      <3> QED
        BY <1>8, <2>3, <3>1 DEF Before
    <2>4. CASE j \notin 1..n /\ i \notin 1..n
      <3>1. j > n + 1
        BY <1>5, <1>7, <2>1, <2>4
      <3>2. i = n + 1 \/ i > n + 1
        BY <1>7, <2>4
      <3>3. Kind(locks[i].row) \in {"run", "stat"} /\ Kind(locks[j].row) = "stat"
        BY <1>5, <1>8, <2>1, <3>1, <3>2
      <3> QED
        BY <3>3 DEF Before
    <2> QED
      BY <2>2, <2>3, <2>4
  <1>10. n + 1 \in DOMAIN locks
    BY <1>5, <1>6
  <1> QED
    BY <1>6, <1>7, <1>9, <1>10 DEF OfClose, run

LEMMA LocksOfStatements ==
  ASSUME NEW s
  PROVE  /\ LocksOf(s, "order") = {WriteOrder(request[s].run, request[s].user)}
         /\ LocksOf(s, "preference") = {<<Write(PreferenceRow(request[s].user))>>}
         /\ LocksOf(s, "close") =
               UNION {CloseLocks(request[s].run, users) :
                         users \in (SUBSET WithOrder(request[s].run)) \ {{}}}
         /\ \A name \in TableNames : LocksOf(s, name) = DeleteLocks(name)
  BY DEF LocksOf, TableNames

-----------------------------------------------------------------------------
(* Steps *)

\* What a session does leaves the others alone, as long as no row they are
\* inserting appears.
LEMMA OthersKeep ==
  ASSUME NEW t, SessionOK(t), rows \subseteq rows',
         UNCHANGED <<request[t], ahead[t], todo[t], held[t]>>, Unwritten(t)'
  PROVE  SessionOK(t)'
  <1>1. OrderStages(t)'
    BY DEF SessionOK, OrderStages, OrderStage, IsOrderRequest, HeldAre
  <1>2. CloseStages(t)'
    <2> SUFFICES ASSUME request[t].op = "close" PROVE CloseStage(t, request[t].run)'
      BY DEF CloseStages
    <2> DEFINE r == request[t].run
    <2>1. CloseStage(t, r)
      BY DEF SessionOK, CloseStages
    <2>2. \A row : OfClose(r, row) => OfClose(r, row)'
      BY DEF OfClose
    <2>3. \A row, later : Before(row, later)' <=> Before(row, later)
      BY DEF Before
    <2> QED
      BY <2>1, <2>2, <2>3 DEF CloseStage, Ascending
  <1>3. ResetStages(t)'
    BY DEF SessionOK, ResetStages, ResetStage, HeldAre, TodoAre
  <1> QED
    BY <1>1, <1>2, <1>3 DEF SessionOK

LEMMA StepInv ==
  ASSUME Inv, TypeOK', NEW s \in Sessions, rows \subseteq rows', SessionOK(s)',
         \A t \in Sessions \ {s} :
            /\ UNCHANGED <<request[t], ahead[t], todo[t], held[t]>>
            /\ Unwritten(t)' /\ Apart(s, t)'
  PROVE  Inv'
  <1>1. ASSUME NEW t \in Sessions PROVE SessionOK(t)'
    BY OthersKeep DEF Inv
  <1>2. ASSUME NEW t \in Sessions, NEW o \in Sessions, t # o PROVE Apart(t, o)'
    <2>1. CASE t = s
      BY <1>2, <2>1
    <2>2. CASE o = s
      <3>1. Apart(s, t)'
        BY <1>2, <2>2
      <3> QED
        BY <2>2, <3>1, ConflictIsMutual DEF Apart
    <2>3. CASE t # s /\ o # s
      BY <1>2, <2>3 DEF Inv, Apart
    <2> QED
      BY <2>1, <2>2, <2>3
  <1> QED
    BY <1>1, <1>2 DEF Inv

LEMMA RollBackInv ==
  ASSUME Inv, NEW s \in Sessions, RollBack(s)
  PROVE  Inv'
  <1>1. /\ rows' = rows /\ open' = open
        /\ request' = [request EXCEPT ![s] = Idle]
        /\ ahead' = [ahead EXCEPT ![s] = <<>>]
        /\ todo' = [todo EXCEPT ![s] = <<>>]
        /\ held' = [held EXCEPT ![s] = {}]
    BY DEF RollBack, Released
  <1>2. TypeOK'
    BY <1>1 DEF Inv, TypeOK, Requests
  <1>3. /\ request'[s] = Idle /\ held'[s] = {}
        /\ \A t \in Sessions \ {s} :
              UNCHANGED <<request[t], ahead[t], todo[t], held[t]>>
    BY <1>1 DEF Inv, TypeOK
  <1>4. SessionOK(s)'
    BY <1>3 DEF SessionOK, OrderStages, CloseStages, ResetStages, Unwritten,
                IsOrderRequest, OrderOps, Idle
  <1>5. ASSUME NEW t \in Sessions \ {s} PROVE Unwritten(t)' /\ Apart(s, t)'
    BY <1>1, <1>3 DEF Inv, SessionOK, Unwritten, Apart
  <1> QED
    BY <1>1, <1>2, <1>3, <1>4, <1>5, StepInv

LEMMA BeginInv ==
  ASSUME Inv, NEW s \in Sessions, Request(s)
  PROVE  Inv'
  <1>1. PICK req, statements :
           /\ Begin(s, req, statements) /\ req \in Requests \ {Idle}
           /\ statements \in Seq(StatementNames)
           /\ req.op \in OrderOps =>
                 statements \in {<<"order">>, <<"order", "preference">>}
           /\ req.op = "close" => statements = <<"close">>
           /\ req.op = "reset" =>
                 statements = <<"orders", "runs", "orders", "preferences",
                                "stats", "channels">>
    <2>1. ASSUME NEW r \in Runs, NEW op \in OrderOps, NEW u \in Users,
                 OrderRequest(s, op, r, u)
          PROVE  /\ Begin(s, [op |-> op, run |-> r, user |-> u], Statements(op))
                 /\ [op |-> op, run |-> r, user |-> u] \in Requests \ {Idle}
                 /\ Statements(op) \in Seq(StatementNames)
                 /\ Statements(op) \in {<<"order">>, <<"order", "preference">>}
      <3>1. op # "idle" /\ op # "close" /\ op # "reset"
        BY DEF OrderOps
      <3>2. /\ <<"order">> \in Seq(StatementNames)
            /\ <<"order", "preference">> \in Seq(StatementNames)
        BY DEF StatementNames
      <3> QED
        BY <2>1, <3>1, <3>2 DEF OrderRequest, Statements, Requests, Idle
    <2>2. ASSUME NEW r \in Runs, CloseRun(s, r)
          PROVE  /\ Begin(s, [op |-> "close", run |-> r], <<"close">>)
                 /\ [op |-> "close", run |-> r] \in Requests \ {Idle}
                 /\ <<"close">> \in Seq(StatementNames)
      BY <2>2 DEF CloseRun, Requests, Idle, StatementNames
    <2> DEFINE all == <<"orders", "runs", "orders", "preferences", "stats",
                        "channels">>
    <2>3. ASSUME ResetChannel(s)
          PROVE  /\ Begin(s, [op |-> "reset"], all)
                 /\ [op |-> "reset"] \in Requests \ {Idle}
                 /\ all \in Seq(StatementNames)
      BY <2>3 DEF ResetChannel, Requests, Idle, StatementNames, TableNames
    <2>4. CASE \E r \in Runs, op \in OrderOps, u \in Users : OrderRequest(s, op, r, u)
      <3>1. PICK r \in Runs, op \in OrderOps, u \in Users : OrderRequest(s, op, r, u)
        BY <2>4
      <3>2. op # "close" /\ op # "reset"
        BY DEF OrderOps
      <3> WITNESS [op |-> op, run |-> r, user |-> u], Statements(op)
      <3> QED
        BY <2>1, <3>1, <3>2
    <2>5. CASE \E r \in Runs : CloseRun(s, r)
      <3>1. PICK r \in Runs : CloseRun(s, r)
        BY <2>5
      <3> WITNESS [op |-> "close", run |-> r], <<"close">>
      <3> QED
        BY <2>2, <3>1 DEF OrderOps
    <2>6. CASE ResetChannel(s)
      <3> WITNESS [op |-> "reset"], all
      <3> QED
        BY <2>3, <2>6 DEF OrderOps
    <2> QED
      BY <2>4, <2>5, <2>6 DEF Request
  <1>2. /\ request[s] = Idle /\ UNCHANGED <<rows, open, todo, held>>
        /\ request' = [request EXCEPT ![s] = req]
        /\ ahead' = [ahead EXCEPT ![s] = statements]
    BY <1>1 DEF Begin
  <1>3. TypeOK'
    BY <1>1, <1>2 DEF Inv, TypeOK
  <1>4. /\ request'[s] = req /\ ahead'[s] = statements
        /\ todo'[s] = <<>> /\ held'[s] = {}
        /\ \A t \in Sessions \ {s} :
              UNCHANGED <<request[t], ahead[t], todo[t], held[t]>>
    BY <1>2 DEF Inv, TypeOK
  <1>5. SessionOK(s)'
    BY <1>1, <1>4 DEF SessionOK, OrderStages, OrderStage, CloseStages, CloseStage,
         ResetStages, ResetStage, Early, Unwritten, IsOrderRequest, HeldAre,
         TodoAre
  <1>6. ASSUME NEW t \in Sessions \ {s} PROVE Unwritten(t)' /\ Apart(s, t)'
    BY <1>2, <1>4 DEF Inv, SessionOK, Unwritten, Apart
  <1> QED
    BY <1>2, <1>3, <1>4, <1>5, <1>6, StepInv

LEMMA InitInv == Init => Inv
  <1> SUFFICES ASSUME Init PROVE Inv
    OBVIOUS
  <1>1. TypeOK
    BY TableRows DEF Init, TypeOK, Requests, TableNames
  <1>2. \A s \in Sessions : request[s] = Idle /\ held[s] = {}
    BY DEF Init
  <1>3. \A s \in Sessions : SessionOK(s)
    BY <1>2 DEF SessionOK, OrderStages, CloseStages, ResetStages, Unwritten,
                IsOrderRequest, OrderOps, Idle
  <1> QED
    BY <1>1, <1>2, <1>3 DEF Inv, Apart

LEMMA CommitInv ==
  ASSUME Inv, NEW s \in Sessions, Commit(s)
  PROVE  Inv'
  <1> DEFINE inserted == {lock \in held[s] : lock.mode = "insert"}
  <1>1. /\ Finished(s)
        /\ rows' = rows \cup {lock.row : lock \in inserted}
        /\ open' \subseteq open
        /\ request' = [request EXCEPT ![s] = Idle]
        /\ held' = [held EXCEPT ![s] = {}] /\ UNCHANGED <<ahead, todo>>
    BY DEF Commit, Released
  <1>2. TypeOK'
    <2>1. \A lock \in held[s] : lock.row \in AllRows
      BY DEF Inv, TypeOK, Lock
    <2>2. rows' \subseteq AllRows
      BY <1>1, <2>1 DEF Inv, TypeOK
    <2> QED
      BY <1>1, <2>2 DEF Inv, TypeOK, Requests, Finished
  <1>3. /\ request'[s] = Idle /\ held'[s] = {}
        /\ \A t \in Sessions \ {s} :
              UNCHANGED <<request[t], ahead[t], todo[t], held[t]>>
    BY <1>1 DEF Inv, TypeOK
  <1>4. SessionOK(s)'
    BY <1>3 DEF SessionOK, OrderStages, CloseStages, ResetStages, Unwritten,
                IsOrderRequest, OrderOps, Idle
  <1>5. ASSUME NEW t \in Sessions \ {s} PROVE Unwritten(t)'
    <2> SUFFICES ASSUME NEW lock \in held[t], lock.mode = "insert"
                 PROVE  lock.row \notin rows'
      BY <1>3 DEF Unwritten
    <2>1. lock.row \notin rows
      BY DEF Inv, SessionOK, Unwritten
    <2>2. \A other \in held[s] : other.row # lock.row
      BY ConflictIsMutual DEF Inv, Apart, Conflict
    <2> QED
      BY <1>1, <2>1, <2>2
  <1>6. \A t \in Sessions \ {s} : Apart(s, t)'
    BY <1>3 DEF Apart
  <1>7. rows \subseteq rows'
    BY <1>1
  <1> QED
    BY <1>2, <1>3, <1>4, <1>5, <1>6, <1>7, StepInv

LEMMA TakeLockInv ==
  ASSUME Inv, NEW s \in Sessions, TakeLock(s)
  PROVE  Inv'
  <1>1. CASE RollBack(s)
    BY <1>1, RollBackInv
  <1>2. CASE /\ ~(Wanted(s).mode = "insert" /\ Wanted(s).row \in rows)
             /\ held' = [held EXCEPT ![s] = @ \cup {Wanted(s)}]
             /\ todo' = [todo EXCEPT ![s] = Tail(@)]
             /\ UNCHANGED <<rows, open, request, ahead>>
    <2> DEFINE lock == Wanted(s)
               rest == Tail(todo[s])
    <2>1. /\ todo[s] \in Seq(Lock) /\ todo[s] # <<>> /\ held[s] \subseteq Lock
      BY DEF TakeLock, Waiting, Inv, TypeOK
    <2>2. /\ lock \in Lock /\ lock = todo[s][1]
          /\ rest \in Seq(Lock)
          /\ 1 \in DOMAIN todo[s]
          /\ \A i \in DOMAIN rest : i + 1 \in DOMAIN todo[s] /\ rest[i] = todo[s][i + 1]
          /\ \A i \in DOMAIN rest : i \in Nat /\ 1 < i + 1
          /\ \A i \in DOMAIN todo[s] :
                i = 1 \/ (i - 1 \in DOMAIN rest /\ rest[i - 1] = todo[s][i])
      BY <2>1 DEF Wanted
    <2>3. /\ request' = request /\ ahead' = ahead /\ rows' = rows
          /\ todo'[s] = rest /\ held'[s] = held[s] \cup {lock}
          /\ \A t \in Sessions \ {s} :
                UNCHANGED <<request[t], ahead[t], todo[t], held[t]>>
      BY <1>2 DEF Inv, TypeOK
    <2>4. TypeOK'
      <3>1. todo' \in [Sessions -> Seq(Lock)] /\ held' \in [Sessions -> SUBSET Lock]
        BY <1>2, <2>2 DEF Inv, TypeOK
      <3>2. request[s] # Idle
        BY <2>1 DEF Inv, TypeOK
      <3> QED
        BY <1>2, <2>3, <3>1, <3>2 DEF Inv, TypeOK
    <2>5. lock.mode = "insert" => lock.row \notin rows
      BY <1>2
    <2> HIDE DEF lock, rest
    <2>6. OrderStages(s)'
      <3> SUFFICES ASSUME IsOrderRequest(s)
                   PROVE  OrderStage(s, request[s].run, request[s].user)'
        BY <2>3 DEF OrderStages, IsOrderRequest
      <3> DEFINE r == request[s].run
                 u == request[s].user
      <3>1. OrderStage(s, r, u)
        BY DEF Inv, SessionOK, OrderStages
      <3>2. CASE /\ ahead[s] \in {<<>>, <<"preference">>} /\ held[s] = {}
                 /\ todo[s] = <<On(OrderRow(r, u), "update")>>
        <4>1. rest = <<>> /\ lock = On(OrderRow(r, u), "update")
          BY <3>2 DEF rest, lock, Wanted
        <4>2. held'[s] = {lock} /\ Kind(lock.row) = "order"
          BY <2>3, <3>2, <4>1 DEF On, OrderRow, Kind
        <4> QED
          BY <2>3, <3>2, <4>1, <4>2 DEF OrderStage, HeldAre
      <3>3. CASE /\ ahead[s] \in {<<>>, <<"preference">>} /\ held[s] = {}
                 /\ todo[s] = <<On(OrderRow(r, u), "insert"), On(RunRow(r), "share")>>
        <4>1. rest = <<On(RunRow(r), "share")>> /\ lock = On(OrderRow(r, u), "insert")
          BY <3>3 DEF rest, lock, Wanted
        <4> QED
          BY <2>3, <3>3, <4>1 DEF OrderStage
      <3>4. CASE /\ ahead[s] \in {<<>>, <<"preference">>}
                 /\ held[s] = {On(OrderRow(r, u), "insert")}
                 /\ todo[s] = <<On(RunRow(r), "share")>>
        <4>1. rest = <<>> /\ lock = On(RunRow(r), "share")
          BY <3>4 DEF rest, lock, Wanted
        <4>2. HeldAre(s, {"order", "run"})'
          BY <2>3, <3>4, <4>1 DEF HeldAre, On, OrderRow, RunRow, Kind
        <4> QED
          BY <2>3, <3>4, <4>1, <4>2 DEF OrderStage
      <3>5. CASE /\ ahead[s] = <<>>
                 /\ \E mode \in Modes : todo[s] = <<On(PreferenceRow(u), mode)>>
        <4>1. rest = <<>>
          BY <3>5 DEF rest
        <4> QED
          BY <2>3, <3>5, <4>1 DEF OrderStage
      <3> QED
        BY <2>1, <3>1, <3>2, <3>3, <3>4, <3>5 DEF OrderStage
    <2>7. CloseStages(s)'
      <3> SUFFICES ASSUME request[s].op = "close"
                   PROVE  CloseStage(s, request[s].run)'
        BY <2>3 DEF CloseStages
      <3> DEFINE r == request[s].run
      <3>1. /\ ahead[s] = <<>>
            /\ \A i \in DOMAIN todo[s] : OfClose(r, todo[s][i].row)
            /\ Ascending(todo[s])
            /\ \A l \in held[s], i \in DOMAIN todo[s] : Before(l.row, todo[s][i].row)
            /\ \/ On(RunRow(r), "update") \in held[s]
               \/ \E i \in DOMAIN todo[s] : todo[s][i] = On(RunRow(r), "update")
        BY <2>1 DEF Inv, SessionOK, CloseStages, CloseStage
      <3>2. \A i \in DOMAIN rest : OfClose(r, rest[i].row)
        BY <2>2, <3>1
      <3>3. \A i, j \in DOMAIN rest : i < j => Before(rest[i].row, rest[j].row)
        BY <2>2, <3>1 DEF Ascending
      <3>4. \A l \in held[s] \cup {lock}, i \in DOMAIN rest : Before(l.row, rest[i].row)
        BY <2>2, <3>1 DEF Ascending
      <3>5. \/ On(RunRow(r), "update") \in held[s] \cup {lock}
            \/ \E i \in DOMAIN rest : rest[i] = On(RunRow(r), "update")
        <4>1. CASE On(RunRow(r), "update") \in held[s]
          BY <4>1
        <4>2. CASE \E i \in DOMAIN todo[s] : todo[s][i] = On(RunRow(r), "update")
          <5>1. PICK i \in DOMAIN todo[s] : todo[s][i] = On(RunRow(r), "update")
            BY <4>2
          <5> QED
            BY <2>2, <5>1
        <4> QED
          BY <3>1, <4>1, <4>2
      <3> QED
        BY <2>3, <3>1, <3>2, <3>3, <3>4, <3>5 DEF CloseStage, Ascending, OfClose, Before
    <2>8. ResetStages(s)'
      <3> SUFFICES ASSUME request[s].op = "reset"
                   PROVE  /\ ResetStage(s)'
                          /\ \A i \in DOMAIN rest : rest[i].row \in rows
        BY <2>3 DEF ResetStages
      <3>1. ResetStage(s) /\ \A i \in DOMAIN todo[s] : todo[s][i].row \in rows
        BY DEF Inv, SessionOK, ResetStages
      <3>2. \A i \in DOMAIN rest : rest[i].row \in rows
        BY <2>2, <3>1
      <3>3. \A kinds : TodoAre(s, kinds) => TodoAre(s, kinds)' /\ Kind(lock.row) \in kinds
        BY <2>2, <2>3 DEF TodoAre
      <3>4. \A kinds : HeldAre(s, kinds) /\ Kind(lock.row) \in kinds => HeldAre(s, kinds)'
        BY <2>3 DEF HeldAre
      <3>5. CASE /\ HeldAre(s, {"order", "run"}) /\ TodoAre(s, {"order", "run"})
                 /\ ahead[s] \in Early
        <4>1. TodoAre(s, {"order", "run"})'
          BY <3>3, <3>5
        <4>2. todo[s] # <<>> /\ Kind(lock.row) \in {"order", "run"}
          BY <2>1, <3>3, <3>5
        <4>3. HeldAre(s, {"order", "run"})'
          BY <3>4, <3>5, <4>2
        <4> QED
          BY <2>3, <3>2, <3>5, <4>1, <4>3 DEF ResetStage
      <3>6. CASE /\ ahead[s] = <<"stats", "channels">>
                 /\ HeldAre(s, {"order", "run", "preference"})
                 /\ TodoAre(s, {"preference"})
        <4>1. TodoAre(s, {"preference"})' /\ Kind(lock.row) = "preference"
          BY <3>3, <3>6
        <4>2. HeldAre(s, {"order", "run", "preference"})'
          BY <3>4, <3>6, <4>1
        <4> QED
          BY <2>3, <3>2, <3>6, <4>1, <4>2 DEF ResetStage
      <3>7. CASE /\ ahead[s] = <<"channels">>
                 /\ HeldAre(s, {"order", "run", "preference", "stat"})
                 /\ TodoAre(s, {"stat"})
        <4>1. TodoAre(s, {"stat"})' /\ Kind(lock.row) = "stat"
          BY <3>3, <3>7
        <4>2. HeldAre(s, {"order", "run", "preference", "stat"})'
          BY <3>4, <3>7, <4>1
        <4> QED
          BY <2>3, <3>2, <3>7, <4>1, <4>2 DEF ResetStage
      <3>8. CASE ahead[s] = <<>> /\ TodoAre(s, {"channel"})
        BY <2>3, <3>2, <3>3, <3>8 DEF ResetStage
      <3> QED
        BY <3>1, <3>5, <3>6, <3>7, <3>8 DEF ResetStage
    <2>9. Unwritten(s)'
      BY <2>3, <2>5 DEF Inv, SessionOK, Unwritten
    <2>10. ASSUME NEW t \in Sessions \ {s} PROVE Unwritten(t)' /\ Apart(s, t)'
      <3>1. ~WaitsFor(s, t) /\ Waiting(s)
        BY DEF TakeLock
      <3>2. \A other \in held[t] : ~Conflict(lock, other)
        BY <3>1 DEF WaitsFor, lock
      <3> QED
        BY <2>3, <3>2 DEF Inv, SessionOK, Unwritten, Apart
    <2> QED
      BY <2>3, <2>4, <2>6, <2>7, <2>8, <2>9, <2>10, StepInv DEF SessionOK
  <1> QED
    BY <1>1, <1>2 DEF TakeLock

\* The first statement and what is ahead after it.
LEMMA OrderStatements ==
  /\ Head(<<"order">>) = "order" /\ Tail(<<"order">>) = <<>>
  /\ Head(<<"order", "preference">>) = "order"
  /\ Tail(<<"order", "preference">>) = <<"preference">>
  OBVIOUS

LEMMA ResetStatements ==
  /\ \A statements \in Early \ {<<"preferences", "stats", "channels">>} :
        /\ Head(statements) \in {"orders", "runs"} /\ Tail(statements) \in Early
  /\ Head(<<"preferences", "stats", "channels">>) = "preferences"
  /\ Tail(<<"preferences", "stats", "channels">>) = <<"stats", "channels">>
  /\ Head(<<"stats", "channels">>) = "stats"
  /\ Tail(<<"stats", "channels">>) = <<"channels">>
  /\ Head(<<"channels">>) = "channels" /\ Tail(<<"channels">>) = <<>>
  <1>1. /\ Tail(<<"orders", "runs", "orders", "preferences", "stats", "channels">>)
             = <<"runs", "orders", "preferences", "stats", "channels">>
        /\ Head(<<"orders", "runs", "orders", "preferences", "stats", "channels">>)
             = "orders"
    OBVIOUS
  <1>2. /\ Tail(<<"runs", "orders", "preferences", "stats", "channels">>)
             = <<"orders", "preferences", "stats", "channels">>
        /\ Head(<<"runs", "orders", "preferences", "stats", "channels">>) = "runs"
    OBVIOUS
  <1>3. /\ Tail(<<"orders", "preferences", "stats", "channels">>)
             = <<"preferences", "stats", "channels">>
        /\ Head(<<"orders", "preferences", "stats", "channels">>) = "orders"
    OBVIOUS
  <1>4. /\ Tail(<<"preferences", "stats", "channels">>) = <<"stats", "channels">>
        /\ Head(<<"preferences", "stats", "channels">>) = "preferences"
    OBVIOUS
  <1>5. /\ Tail(<<"stats", "channels">>) = <<"channels">>
        /\ Head(<<"stats", "channels">>) = "stats"
        /\ Tail(<<"channels">>) = <<>> /\ Head(<<"channels">>) = "channels"
    OBVIOUS
  <1> QED
    BY <1>1, <1>2, <1>3, <1>4, <1>5 DEF Early

LEMMA NextStatementInv ==
  ASSUME Inv, NEW s \in Sessions, NextStatement(s)
  PROVE  Inv'
  <1> DEFINE name == Head(ahead[s])
             rest == Tail(ahead[s])
  <1>1. PICK locks \in LocksOf(s, name) :
           /\ todo' = [todo EXCEPT ![s] = locks]
           /\ ahead' = [ahead EXCEPT ![s] = rest]
           /\ UNCHANGED <<rows, open, request, held>>
    BY DEF NextStatement
  <1>2. /\ todo[s] = <<>> /\ ahead[s] # <<>>
        /\ ahead[s] \in Seq(StatementNames) /\ request[s] \in Requests \ {Idle}
    BY DEF NextStatement, Inv, TypeOK
  <1>3. rest \in Seq(StatementNames)
    BY <1>2
  <1>4. /\ todo'[s] = locks /\ ahead'[s] = rest
        /\ \A t \in Sessions \ {s} :
              UNCHANGED <<request[t], ahead[t], todo[t], held[t]>>
    BY <1>1 DEF Inv, TypeOK
  <1>5. /\ Unwritten(s)'
        /\ \A t \in Sessions \ {s} : Unwritten(t)' /\ Apart(s, t)'
    BY <1>1 DEF Inv, SessionOK, Unwritten, Apart
  <1> HIDE DEF name, rest
  <1>6. SUFFICES locks \in Seq(Lock) /\ SessionOK(s)'
    <2>1. TypeOK'
      BY <1>1, <1>2, <1>3, <1>6 DEF Inv, TypeOK
    <2> QED
      BY <1>1, <1>4, <1>5, <1>6, <2>1, StepInv
  <1>7. CASE request[s].op \in OrderOps
    <2> DEFINE r == request[s].run
               u == request[s].user
    <2>1. r \in Runs /\ u \in Users
      BY <1>2, <1>7 DEF Requests, Idle, OrderOps
    <2>2. OrderStage(s, r, u)
      BY <1>7 DEF Inv, SessionOK, OrderStages, IsOrderRequest
    <2>3. SUFFICES locks \in Seq(Lock) /\ OrderStage(s, r, u)'
      BY <1>1, <1>5, <1>7, <2>3 DEF SessionOK, OrderStages, CloseStages, ResetStages,
         IsOrderRequest, OrderOps
    <2>4. CASE /\ ahead[s] \in {<<"order">>, <<"order", "preference">>} /\ held[s] = {}
      <3>1. name = "order" /\ rest \in {<<>>, <<"preference">>}
        BY <2>4, OrderStatements DEF name, rest
      <3>2. locks = WriteOrder(r, u)
        BY <3>1, LocksOfStatements
      <3> QED
        BY <1>1, <1>4, <2>1, <2>4, <3>1, <3>2, WriteOrderLocks DEF OrderStage
    <2>5. CASE ahead[s] = <<"preference">> /\ HeldAre(s, {"order", "run"})
      <3>1. name = "preference" /\ rest = <<>>
        BY <2>5 DEF name, rest
      <3>2. locks = <<Write(PreferenceRow(u))>>
        BY <3>1, LocksOfStatements
      <3>3. PICK mode \in Modes : /\ locks = <<On(PreferenceRow(u), mode)>>
                                  /\ On(PreferenceRow(u), mode) \in Lock
        BY <2>1, <3>2, WritePreference
      <3>4. locks \in Seq(Lock)
        BY <3>3
      <3> QED
        BY <1>1, <1>4, <2>5, <3>1, <3>3, <3>4 DEF OrderStage, HeldAre
    <2> QED
      BY <1>2, <2>2, <2>4, <2>5 DEF OrderStage
  <1>8. CASE request[s].op = "close"
    <2> DEFINE r == request[s].run
    <2>1. r \in Runs
      BY <1>2, <1>8 DEF Requests, Idle, OrderOps
    <2>2. ahead[s] = <<"close">> /\ held[s] = {}
      BY <1>2, <1>8 DEF Inv, SessionOK, CloseStages, CloseStage
    <2>3. name = "close" /\ rest = <<>>
      BY <2>2 DEF name, rest
    <2>4. PICK users \in SUBSET WithOrder(r) : locks \in CloseLocks(r, users)
      BY <2>3, LocksOfStatements
    <2>5. /\ locks \in Seq(Lock)
          /\ \A i \in DOMAIN locks : OfClose(r, locks[i].row)
          /\ Ascending(locks)
          /\ \E i \in DOMAIN locks : locks[i] = On(RunRow(r), "update")
      BY <2>1, <2>4, ClosesLock
    <2>6. CloseStage(s, r)'
      BY <1>1, <1>4, <2>2, <2>3, <2>5 DEF CloseStage, OfClose, Ascending, Before
    <2> QED
      BY <1>1, <1>5, <1>8, <2>5, <2>6 DEF SessionOK, OrderStages, CloseStages,
         ResetStages, IsOrderRequest, OrderOps
  <1>9. CASE request[s].op = "reset"
    <2>1. ResetStage(s)
      BY <1>9 DEF Inv, SessionOK, ResetStages
    <2>2. /\ name \in TableNames
          /\ \/ /\ name \in {"orders", "runs"} /\ rest \in Early
                /\ HeldAre(s, {"order", "run"})
             \/ /\ name = "preferences" /\ rest = <<"stats", "channels">>
                /\ HeldAre(s, {"order", "run"})
             \/ /\ name = "stats" /\ rest = <<"channels">>
                /\ HeldAre(s, {"order", "run", "preference"})
             \/ name = "channels" /\ rest = <<>>
      <3>1. CASE ahead[s] \in Early \ {<<"preferences", "stats", "channels">>}
        <4>1. {<<"stats", "channels">>, <<"channels">>, <<>>} \cap Early = {}
          BY DEF Early
        <4>2. HeldAre(s, {"order", "run"})
          BY <2>1, <3>1, <4>1 DEF ResetStage
        <4>3. name \in {"orders", "runs"} /\ rest \in Early
          BY <3>1, ResetStatements DEF name, rest
        <4> QED
          BY <4>2, <4>3 DEF TableNames
      <3>2. CASE ahead[s] = <<"preferences", "stats", "channels">>
        <4>1. HeldAre(s, {"order", "run"})
          BY <2>1, <3>2 DEF ResetStage
        <4> QED
          BY <3>2, <4>1, ResetStatements DEF name, rest, TableNames
      <3>3. CASE ahead[s] = <<"stats", "channels">>
        <4>1. HeldAre(s, {"order", "run", "preference"})
          BY <2>1, <3>3, ResetStatements DEF ResetStage, Early
        <4> QED
          BY <3>3, <4>1, ResetStatements DEF name, rest, TableNames
      <3>4. CASE ahead[s] = <<"channels">>
        BY <3>4, ResetStatements DEF name, rest, TableNames
      <3> QED
        BY <1>2, <2>1, <3>1, <3>2, <3>3, <3>4 DEF ResetStage
    <2>3. /\ locks \in Seq(Lock)
          /\ \A i \in DOMAIN locks : locks[i].row \in Table[name] \cap rows
      BY <2>2, LocksOfStatements, DeletesLock
    <2>4. \A row \in Table[name] :
             /\ name = "orders" => Kind(row) = "order"
             /\ name = "runs" => Kind(row) = "run"
             /\ name = "preferences" => Kind(row) = "preference"
             /\ name = "stats" => Kind(row) = "stat"
             /\ name = "channels" => Kind(row) = "channel"
      BY Rows, TableRows, <2>2
    <2>5. \A kinds : HeldAre(s, kinds) => HeldAre(s, kinds)'
      BY <1>1 DEF HeldAre
    <2>6. ResetStage(s)'
      <3>1. CASE /\ name \in {"orders", "runs"} /\ rest \in Early
                 /\ HeldAre(s, {"order", "run"})
        <4>1. TodoAre(s, {"order", "run"})'
          BY <1>4, <2>3, <2>4, <3>1 DEF TodoAre
        <4> QED
          BY <1>4, <2>5, <3>1, <4>1 DEF ResetStage
      <3>2. CASE /\ name = "preferences" /\ rest = <<"stats", "channels">>
                 /\ HeldAre(s, {"order", "run"})
        <4>1. TodoAre(s, {"preference"})'
          BY <1>4, <2>3, <2>4, <3>2 DEF TodoAre
        <4>2. HeldAre(s, {"order", "run", "preference"})'
          BY <1>1, <3>2 DEF HeldAre
        <4> QED
          BY <1>4, <3>2, <4>1, <4>2 DEF ResetStage
      <3>3. CASE /\ name = "stats" /\ rest = <<"channels">>
                 /\ HeldAre(s, {"order", "run", "preference"})
        <4>1. TodoAre(s, {"stat"})'
          BY <1>4, <2>3, <2>4, <3>3 DEF TodoAre
        <4>2. HeldAre(s, {"order", "run", "preference", "stat"})'
          BY <1>1, <3>3 DEF HeldAre
        <4> QED
          BY <1>4, <3>3, <4>1, <4>2 DEF ResetStage
      <3>4. CASE name = "channels" /\ rest = <<>>
        <4>1. TodoAre(s, {"channel"})'
          BY <1>4, <2>3, <2>4, <3>4 DEF TodoAre
        <4> QED
          BY <1>4, <3>4, <4>1 DEF ResetStage
      <3> QED
        BY <2>2, <3>1, <3>2, <3>3, <3>4
    <2> QED
      BY <1>1, <1>4, <1>5, <1>9, <2>3, <2>6 DEF SessionOK, OrderStages, CloseStages,
         ResetStages, IsOrderRequest, OrderOps
  <1> QED
    BY <1>2, <1>7, <1>8, <1>9 DEF Requests

LEMMA InvKept == Inv /\ [Next]_vars => Inv'
  <1> SUFFICES ASSUME Inv, [Next]_vars PROVE Inv'
    OBVIOUS
  <1>1. CASE UNCHANGED vars
    <2>1. /\ rows' = rows /\ open' = open /\ request' = request
          /\ ahead' = ahead /\ todo' = todo /\ held' = held
      BY <1>1 DEF vars
    <2>2. TypeOK'
      BY <2>1 DEF Inv, TypeOK
    <2>3. \A t \in Sessions : SessionOK(t)'
      BY <2>1, OthersKeep DEF Inv, SessionOK, Unwritten
    <2>4. \A s, t \in Sessions : s # t => Apart(s, t)'
      BY <2>1 DEF Inv, Apart
    <2> QED
      BY <2>2, <2>3, <2>4 DEF Inv
  <1>2. ASSUME NEW s \in Sessions, Request(s) PROVE Inv'
    BY <1>2, BeginInv
  <1>3. ASSUME NEW s \in Sessions, NextStatement(s) PROVE Inv'
    BY <1>3, NextStatementInv
  <1>4. ASSUME NEW s \in Sessions, TakeLock(s) PROVE Inv'
    BY <1>4, TakeLockInv
  <1>5. ASSUME NEW s \in Sessions, End(s) PROVE Inv'
    BY <1>5, CommitInv, RollBackInv DEF End, AuditFails, NobodyTakesPart
  <1>6. ASSUME NEW s \in Sessions, DeadlockDetected(s) \/ Abort(s) PROVE Inv'
    BY <1>6, RollBackInv DEF DeadlockDetected, Abort
  <1> QED
    BY <1>1, <1>2, <1>3, <1>4, <1>5, <1>6 DEF Next

LEMMA AlwaysInv == Spec => []Inv
  BY InitInv, InvKept, PTL DEF Spec

\* Rows, locks and requests have their shape, and a session that has ended its
\* transaction, in whatever way, has no locks.
THEOREM TypeCorrect == Spec => []TypeOK
  <1>1. Inv => TypeOK
    BY DEF Inv
  <1> QED
    BY <1>1, AlwaysInv, PTL

-----------------------------------------------------------------------------
(* Deadlocks *)

\* A reset that has come to the preferences, or a close to the statistics.
Late(s) ==
    \/ /\ request[s].op = "reset"
       /\ ahead[s] \in {<<"stats", "channels">>, <<"channels">>, <<>>}
    \/ /\ request[s].op = "close"
       /\ Waiting(s) /\ Kind(Wanted(s).row) = "stat"

LateKinds == {"preference", "stat", "channel"}

LEMMA WaitingFacts ==
  ASSUME Inv, NEW s \in Sessions, Waiting(s)
  PROVE  /\ 1 \in DOMAIN todo[s] /\ Wanted(s) = todo[s][1] /\ Wanted(s) \in Lock
         /\ request[s] # Idle
         /\ \/ IsOrderRequest(s) /\ OrderStage(s, request[s].run, request[s].user)
            \/ request[s].op = "close" /\ CloseStage(s, request[s].run)
            \/ request[s].op = "reset" /\ ResetStage(s)
  <1>1. todo[s] \in Seq(Lock) /\ todo[s] # <<>>
    BY DEF Waiting, Inv, TypeOK
  <1>2. request[s] # Idle /\ request[s] \in Requests
    BY <1>1 DEF Inv, TypeOK
  <1>3. 1 \in DOMAIN todo[s] /\ Wanted(s) = todo[s][1] /\ Wanted(s) \in Lock
    BY <1>1 DEF Wanted
  <1> QED
    BY <1>2, <1>3 DEF Inv, SessionOK, OrderStages, CloseStages, ResetStages, Requests,
       IsOrderRequest

\* Whoever has such a row and waits is late.
LEMMA LateHave ==
  ASSUME Inv, NEW s \in Sessions, Waiting(s), NEW lock \in held[s],
         Kind(lock.row) \in LateKinds
  PROVE  Late(s)
  <1>1. CASE IsOrderRequest(s) /\ OrderStage(s, request[s].run, request[s].user)
    BY <1>1 DEF OrderStage, HeldAre, Waiting, LateKinds, On, OrderRow, Kind
  <1>2. CASE request[s].op = "close" /\ CloseStage(s, request[s].run)
    <2>1. Before(lock.row, Wanted(s).row)
      BY <1>2, WaitingFacts DEF CloseStage, Waiting
    <2> QED
      BY <1>2, <2>1 DEF Before, LateKinds, Late
  <1>3. CASE request[s].op = "reset" /\ ResetStage(s)
    BY <1>3 DEF ResetStage, Late, HeldAre, LateKinds
  <1> QED
    BY <1>1, <1>2, <1>3, WaitingFacts

\* Whoever is late waits for such a row.
LEMMA LateWant ==
  ASSUME Inv, NEW s \in Sessions, Waiting(s), Late(s)
  PROVE  Kind(Wanted(s).row) \in LateKinds
  <1>1. CASE request[s].op = "close"
    BY <1>1 DEF Late, LateKinds
  <1>2. CASE request[s].op = "reset"
    <2>1. ahead[s] \notin Early
      <3>1. {<<"stats", "channels">>, <<"channels">>, <<>>} \cap Early = {}
        BY DEF Early
      <3>2. ahead[s] \in {<<"stats", "channels">>, <<"channels">>, <<>>}
        BY <1>2 DEF Late
      <3> QED
        BY <3>1, <3>2
    <2>2. ResetStage(s)
      BY <1>2, WaitingFacts DEF IsOrderRequest, OrderOps
    <2> QED
      BY <2>1, <2>2, WaitingFacts DEF ResetStage, TodoAre, LateKinds
  <1> QED
    BY <1>1, <1>2 DEF Late

LEMMA CycleFacts ==
  ASSUME Inv, NEW cycle \in Cycles
  PROVE  /\ cycle \subseteq Sessions /\ IsFiniteSet(cycle)
         /\ \E next \in [cycle -> cycle] :
               /\ \A s, t \in cycle : next[s] = next[t] => s = t
               /\ \A s \in cycle :
                     /\ s # next[s] /\ Waiting(s)
                     /\ \E lock \in held[next[s]] :
                           /\ Conflict(Wanted(s), lock)
                           /\ Wanted(s).row = lock.row
  <1>1. cycle \subseteq Sessions /\ IsFiniteSet(cycle)
    BY RowLocksAssumption, FS_Subset DEF Cycles
  <1>2. PICK next \in [cycle -> cycle] :
           /\ \A s, t \in cycle : next[s] = next[t] => s = t
           /\ \A s \in cycle : WaitsFor(s, next[s])
    BY DEF Cycles, IsCycle
  <1>3. ASSUME NEW s \in cycle
        PROVE  /\ s # next[s] /\ Waiting(s)
               /\ \E lock \in held[next[s]] :
                     Conflict(Wanted(s), lock) /\ Wanted(s).row = lock.row
    <2>1. WaitsFor(s, next[s])
      BY <1>2
    <2> QED
      BY <2>1 DEF WaitsFor, Conflict
  <1> QED
    BY <1>1, <1>2, <1>3

\* Who waits for the row of an order that is being inserted: another request
\* for the same order that has nothing yet.
LEMMA WhoWaitsForAnOrder ==
  ASSUME Inv, NEW s \in Sessions, Waiting(s),
         Wanted(s).row \notin rows, Kind(Wanted(s).row) = "order"
  PROVE  held[s] = {}
  <1>1. CASE IsOrderRequest(s) /\ OrderStage(s, request[s].run, request[s].user)
    <2> DEFINE r == request[s].run
               u == request[s].user
    <2>1. /\ \A mode \in Modes : Kind(On(PreferenceRow(u), mode).row) # "order"
          /\ Kind(On(RunRow(r), "share").row) # "order"
      BY DEF On, PreferenceRow, RunRow, Kind
    <2> HIDE DEF r, u
    <2>2. CASE \E mode \in Modes : todo[s] = <<On(PreferenceRow(u), mode)>>
      BY <2>1, <2>2 DEF Wanted
    <2>3. CASE todo[s] = <<On(RunRow(r), "share")>>
      BY <2>1, <2>3 DEF Wanted
    <2> QED
      BY <1>1, <2>2, <2>3 DEF OrderStage, Waiting, r, u
  <1>2. CASE request[s].op = "close" /\ CloseStage(s, request[s].run)
    <2>1. OfClose(request[s].run, Wanted(s).row)
      BY <1>2, WaitingFacts DEF CloseStage, Waiting
    <2> QED
      BY <2>1 DEF OfClose, RunRow, StatRow, Table, Kind
  <1>3. CASE request[s].op = "reset"
    BY <1>3, WaitingFacts DEF Inv, SessionOK, ResetStages
  <1> QED
    BY <1>1, <1>2, <1>3, WaitingFacts

LEMMA NoOrderInACycle == Inv => OrdersNeverDeadlock
  <1> SUFFICES ASSUME Inv, NEW cycle \in Cycles, NEW s \in cycle, IsOrderRequest(s)
               PROVE  FALSE
    BY DEF OrdersNeverDeadlock
  <1>1. cycle \subseteq Sessions /\ IsFiniteSet(cycle)
    BY CycleFacts
  <1>2. PICK next \in [cycle -> cycle] :
           /\ \A o, t \in cycle : next[o] = next[t] => o = t
           /\ \A o \in cycle :
                 /\ o # next[o] /\ Waiting(o)
                 /\ \E lock \in held[next[o]] :
                       /\ Conflict(Wanted(o), lock)
                       /\ Wanted(o).row = lock.row
    BY CycleFacts
  <1> DEFINE r == request[s].run
             u == request[s].user
  <1>3. OrderStage(s, r, u) /\ Waiting(s) /\ s \in Sessions
    BY <1>1, <1>2 DEF Inv, SessionOK, OrderStages
  \* Whoever is in a cycle has something that another one waits for.
  <1>4. ASSUME NEW o \in cycle
        PROVE  \E t \in cycle, lock \in held[o] : Wanted(t).row = lock.row
    <2>1. PICK t \in cycle : next[t] = o
      BY <1>1, <1>2, EveryoneIsWaitedFor
    <2> QED
      BY <1>2, <2>1
  <1>5. held[s] # {}
    BY <1>4
  \* Waiting to share the run, with the order inserted.
  <1>6. CASE held[s] = {On(OrderRow(r, u), "insert")}
    <2> DEFINE lock == On(OrderRow(r, u), "insert")
    <2>1. lock.row = OrderRow(r, u) /\ lock.row \notin rows
      BY <1>3, <1>6 DEF On, Inv, SessionOK, Unwritten
    <2>2. PICK t \in cycle : Wanted(t).row = OrderRow(r, u)
      BY <1>4, <1>6, <2>1
    <2>3. held[t] = {}
      BY <1>1, <1>2, <2>1, <2>2, WhoWaitsForAnOrder DEF OrderRow, Kind
    <2> QED
      BY <1>4, <2>3
  \* Waiting for the preference.
  <1>7. CASE \E mode \in Modes : todo[s] = <<On(PreferenceRow(u), mode)>>
    <2> DEFINE X == {t \in cycle : Late(t)}
    <2>1. Kind(Wanted(s).row) \in LateKinds
      BY <1>7 DEF Wanted, On, PreferenceRow, Kind, LateKinds
    <2>2. ASSUME NEW t \in cycle, Kind(Wanted(t).row) \in LateKinds
          PROVE  next[t] \in X
      <3>1. PICK lock \in held[next[t]] : Wanted(t).row = lock.row
        BY <1>2
      <3> QED
        BY <1>1, <1>2, <2>2, <3>1, LateHave
    <2>3. \A x \in X : next[x] \in X
      BY <1>1, <1>2, <2>2, LateWant
    <2>4. next[s] \in X /\ X \in SUBSET cycle
      BY <2>1, <2>2
    <2> HIDE DEF X
    <2>5. s \in X
      BY <1>1, <1>2, <2>3, <2>4, NoWayIn
    <2> QED
      BY <2>5 DEF X, Late, IsOrderRequest, OrderOps
  <1> QED
    BY <1>3, <1>5, <1>6, <1>7 DEF OrderStage, Waiting

\* No request for an order is ever part of a deadlock, however many requests,
\* closes and resets there are: they take the order before the preference.
THEOREM OrdersAreNotAborted == Spec => []OrdersNeverDeadlock
  BY NoOrderInACycle, AlwaysInv, PTL

\* A close that waits for statistics has the run.
LEMMA StatsAfterRun ==
  ASSUME Inv, NEW s \in Sessions, Waiting(s), request[s].op = "close",
         Kind(Wanted(s).row) = "stat"
  PROVE  On(RunRow(request[s].run), "update") \in held[s]
  <1> DEFINE run == On(RunRow(request[s].run), "update")
  <1>1. CloseStage(s, request[s].run) /\ todo[s] # <<>> /\ todo[s] \in Seq(Lock)
    BY DEF Inv, TypeOK, SessionOK, CloseStages, Waiting
  <1> SUFFICES ASSUME NEW i \in DOMAIN todo[s], todo[s][i] = run PROVE FALSE
    BY <1>1 DEF CloseStage
  <1>2. Kind(todo[s][i].row) = "run"
    BY DEF On, RunRow, Kind
  <1>3. i # 1 /\ 1 \in DOMAIN todo[s] /\ Wanted(s) = todo[s][1]
    BY <1>2, WaitingFacts
  <1>4. 1 < i
    BY <1>1, <1>3
  <1>5. Before(Wanted(s).row, todo[s][i].row)
    BY <1>1, <1>3, <1>4 DEF CloseStage, Ascending
  <1> QED
    BY <1>2, <1>5 DEF Before

LEMMA ClosesOfARunAgree == Inv => DeadlocksNeedOthers
  <1> SUFFICES ASSUME Inv, NEW cycle \in Cycles,
                      \A s \in cycle : request[s].op # "reset",
                      \A s, t \in cycle : request[s].run = request[t].run
               PROVE  FALSE
    BY DEF DeadlocksNeedOthers
  <1>1. cycle \subseteq Sessions /\ IsFiniteSet(cycle)
    BY CycleFacts
  <1>2. PICK next \in [cycle -> cycle] :
           /\ \A o, t \in cycle : next[o] = next[t] => o = t
           /\ \A o \in cycle :
                 /\ o # next[o] /\ Waiting(o)
                 /\ \E lock \in held[next[o]] :
                       /\ Conflict(Wanted(o), lock)
                       /\ Wanted(o).row = lock.row
    BY CycleFacts
  <1>3. PICK first \in cycle : TRUE
    <2>1. cycle # {}
      BY DEF Cycles
    <2> QED
      BY <2>1
  <1> DEFINE r == request[first].run
             row(s) == Wanted(s).row
  <1>4. ASSUME NEW s \in cycle
        PROVE  /\ request[s].op = "close" /\ request[s].run = r
               /\ CloseStage(s, r) /\ OfClose(r, row(s))
               /\ Kind(row(s)) \in {"order", "run", "stat"}
    <2>1. request[s].op = "close" /\ CloseStage(s, request[s].run)
      BY <1>1, <1>2, WaitingFacts, NoOrderInACycle DEF OrdersNeverDeadlock
    <2>2. OfClose(r, row(s))
      BY <1>1, <1>2, <2>1, WaitingFacts DEF CloseStage, Waiting
    <2> QED
      BY <2>1, <2>2 DEF OfClose, OrdersOf, OrderRow, RunRow, StatRow, Table, Kind
  \* Along the cycle the rows wanted come later and later.
  <1>5. ASSUME NEW s \in cycle
        PROVE  Before(row(s), row(next[s]))
    <2>1. PICK lock \in held[next[s]] : row(s) = lock.row
      BY <1>2
    <2>2. next[s] \in cycle
      OBVIOUS
    <2> QED
      BY <1>1, <1>2, <1>4, <2>1, <2>2, WaitingFacts DEF CloseStage, Waiting
  \* Only one session has the run, so nobody waits for what comes after it.
  <1>6. ASSUME NEW s \in cycle, Kind(row(s)) = "stat" PROVE FALSE
    <2>1. next[s] \in cycle /\ Kind(row(next[s])) = "stat"
      BY <1>5, <1>6 DEF Before
    <2>2. /\ On(RunRow(r), "update") \in held[s]
          /\ On(RunRow(r), "update") \in held[next[s]]
      BY <1>1, <1>2, <1>4, <1>6, <2>1, StatsAfterRun
    <2>3. s \in Sessions /\ next[s] \in Sessions /\ s # next[s]
      BY <1>1, <1>2, <2>1
    <2> QED
      BY <2>2, <2>3 DEF Inv, Apart, Conflict, On
  <1>7. ASSUME NEW s \in cycle PROVE Kind(row(s)) = "order"
    <2>1. next[s] \in cycle
      OBVIOUS
    <2>2. Kind(row(s)) # "run"
      BY <1>5, <1>6, <2>1 DEF Before
    <2> QED
      BY <1>4, <1>6, <2>2
  <1> DEFINE key(s) == OrderKey[<<row(s)[2], row(s)[3]>>]
             X == {t \in cycle : key(first) < key(t)}
  <1>8. ASSUME NEW s \in cycle PROVE key(s) \in Nat
    <2>1. r \in Runs
      <3>1. request[first] \in Requests /\ request[first].op = "close"
        BY <1>1, <1>3, <1>4 DEF Inv, TypeOK
      <3> QED
        BY <3>1 DEF Requests, Idle, OrderOps
    <2>2. row(s) \in OrdersOf(r)
      BY <1>4, <1>7 DEF OfClose, RunRow, StatRow, Table, Kind
    <2> QED
      BY <2>1, <2>2, RowLocksAssumption DEF OrdersOf, OrderRow
  <1>9. ASSUME NEW s \in cycle PROVE key(s) < key(next[s])
    <2>1. Before(row(s), row(next[s])) /\ next[s] \in cycle
      BY <1>5
    <2> QED
      BY <1>7, <2>1 DEF Before
  <1> HIDE DEF key
  <1>10. /\ X \in SUBSET cycle /\ next[first] \in X
         /\ \A x \in X : next[x] \in X
    <2>1. ASSUME NEW x \in X PROVE key(first) < key(next[x])
      <3>1. x \in cycle /\ next[x] \in cycle /\ key(first) < key(x)
        OBVIOUS
      <3>2. key(first) \in Nat /\ key(x) \in Nat /\ key(next[x]) \in Nat
        BY <1>8, <3>1
      <3>3. key(x) < key(next[x])
        BY <1>9, <3>1
      <3> QED
        BY <3>1, <3>2, <3>3
    <2>2. key(first) < key(next[first])
      BY <1>9
    <2> QED
      BY <2>1, <2>2
  <1> HIDE DEF X
  <1>11. first \in X
    BY <1>1, <1>2, <1>10, NoWayIn
  <1> QED
    BY <1>8, <1>11 DEF X

\* Closes of one run never deadlock among themselves, however many there are
\* and whoever has ordered: the flush writes the rows in one order.
THEOREM ClosesAreNotAborted == Spec => []DeadlocksNeedOthers
  BY ClosesOfARunAgree, AlwaysInv, PTL
=============================================================================
