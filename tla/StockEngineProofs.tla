-------------------------- MODULE StockEngineProofs --------------------------
(***************************************************************************)
(* Proofs about StockEngine for any number of tasks, processes, keys and   *)
(* requests: type correctness; the ledger of every key that has a balance  *)
(* row is a chain that ends at the balance; stock is never oversold; the   *)
(* engine implements StockAccount; a guarded key has one balance row; what *)
(* the batch and serial records say is what was booked.                    *)
(***************************************************************************)
EXTENDS StockEngine, Sums, NaturalsInduction, TLAPS

\* The balance row of a key that had one from the start.
Row(k) == <<k, None>>

\* Pre-locking is over before process_movement is entered.
PrelockOver ==
  \A t \in Tasks : pc[t] \in {"enter", "track", "flush", "commit"} => todo[t] = {}

\* A seeded key never gets a second row.
OnlyRow ==
  \A k \in Seeded :
    /\ bal[Row(k)] \in Int
    /\ \A o \in Tasks : bal[<<k, o>>] = None /\ \A t \in Tasks : work[t][<<k, o>>] = None

\* The unlocked paths of get_or_create_for_update concern other keys.
UnlockedElsewhere ==
  \A t \in Tasks : pc[t] \in {"plain", "insert"} => Target(t) \notin Seeded

\* Whoever has written a seeded row, or is about to, holds its lock.
WritersHold ==
  \A t \in Tasks : \A k \in Seeded :
    pend[t][k] # <<>> \/ work[t][Row(k)] # None => holder[Row(k)] = t

\* The object a task is about to write is the locked row with its latest value.
SeenIsCurrent ==
  \A t \in Tasks : pc[t] = "flush" =>
    /\ seen[t] \in [row : Rid, val : Int]
    /\ seen[t].row[1] = Cur(t).key
    /\ Cur(t).key \in Seeded =>
         /\ seen[t].row = Row(Cur(t).key)
         /\ holder[seen[t].row] = t
         /\ seen[t].val = Val(t, seen[t].row)

\* Uncommitted entries continue the committed ledger.
PendingChained ==
  \A t \in Tasks : \A k \in Seeded :
    /\ ChainFrom(pend[t][k], bal[Row(k)])
    /\ IF pend[t][k] = <<>> THEN work[t][Row(k)] = None
       ELSE work[t][Row(k)] = EndOf(pend[t][k], bal[Row(k)])

IInv ==
  /\ TypeOK
  /\ PrelockOver
  /\ OnlyRow
  /\ UnlockedElsewhere
  /\ WritersHold
  /\ SeenIsCurrent
  /\ PendingChained
  /\ LedgerMatchesBalance

-----------------------------------------------------------------------------
\* Two chains, the second of which starts where the first ends, are one chain.
LEMMA ChainConcat ==
  ASSUME NEW old \in Seq(Entry), NEW new \in Seq(Entry), new # <<>>, NEW q \in Int,
         ChainFrom(old, q), ChainFrom(new, EndOf(old, q))
  PROVE  /\ ChainFrom(old \o new, q)
         /\ EndOf(old \o new, q) = EndOf(new, EndOf(old, q))
<1> DEFINE m == Len(old)  n == Len(new)  all == old \o new
<1>1. /\ n \in Nat \ {0} /\ m \in Nat
      /\ DOMAIN old = 1 .. m /\ DOMAIN new = 1 .. n
      /\ Len(all) = m + n /\ DOMAIN all = 1 .. (m + n)
      /\ \A i \in 1 .. m : all[i] = old[i]
      /\ \A i \in 1 .. n : all[m + i] = new[i]
      /\ old = <<>> <=> m = 0
  OBVIOUS
<1>2. /\ \A i \in 1 .. m : old[i].before = IF i = 1 THEN q ELSE old[i-1].after
      /\ \A i \in 1 .. n : new[i].before = IF i = 1 THEN EndOf(old, q) ELSE new[i-1].after
  BY <1>1 DEF ChainFrom
<1>3. EndOf(old, q) = IF m = 0 THEN q ELSE old[m].after
  BY <1>1 DEF EndOf
<1> HIDE DEF m, n, all
<1>4. EndOf(all, q) = EndOf(new, EndOf(old, q))
  <2>1. all # <<>> /\ all[m + n] = new[n]
    BY <1>1 DEF all
  <2> QED
    BY <1>1, <2>1 DEF EndOf, n
<1>5. ASSUME NEW i \in 1 .. (m + n)
      PROVE  all[i].before = IF i = 1 THEN q ELSE all[i-1].after
  <2>1. CASE i \in 1 .. m
    <3>1. all[i] = old[i] /\ (i # 1 => all[i-1] = old[i-1])
      BY <1>1, <2>1
    <3> QED
      BY <1>2, <2>1, <3>1
  <2>2. CASE i = m + 1
    <3>1. all[i] = new[1] /\ new[1].before = EndOf(old, q)
      BY <1>1, <1>2, <2>2
    <3>2. m # 0 => all[i-1] = old[m]
      BY <1>1, <2>2
    <3> QED
      BY <1>1, <1>3, <2>2, <3>1, <3>2
  <2>3. CASE i > m + 1
    <3> DEFINE j == i - m
    <3>1. j \in 2 .. n /\ i = m + j /\ i - 1 = m + (j - 1) /\ j \in 1 .. n /\ j - 1 \in 1 .. n
      BY <1>1, <2>3
    <3>2. all[i] = new[j] /\ all[i-1] = new[j-1]
      BY <1>1, <3>1
    <3>3. new[j].before = new[j-1].after
      BY <1>2, <3>1
    <3> QED
      BY <1>1, <2>3, <3>2, <3>3
  <2> QED
    BY <1>1, <2>1, <2>2, <2>3
<1> QED
  BY <1>1, <1>4, <1>5 DEF ChainFrom, all

\* Appending the entry that starts at the end of a chain gives a chain.
LEMMA ChainAppend ==
  ASSUME NEW s \in Seq(Entry), NEW e \in Entry, NEW q \in Int,
         ChainFrom(s, q), e.before = EndOf(s, q)
  PROVE  /\ ChainFrom(Append(s, e), q)
         /\ EndOf(Append(s, e), q) = e.after
         /\ Append(s, e) # <<>>
<1> DEFINE m == Len(s)  all == Append(s, e)
<1>1. /\ m \in Nat /\ Len(all) = m + 1
      /\ DOMAIN s = 1 .. m /\ DOMAIN all = 1 .. (m + 1)
      /\ \A i \in 1 .. m : all[i] = s[i]
      /\ all[m + 1] = e
      /\ s = <<>> <=> m = 0
      /\ all # <<>>
  OBVIOUS
<1>2. /\ \A i \in 1 .. m : s[i].before = IF i = 1 THEN q ELSE s[i-1].after
      /\ e.before = IF m = 0 THEN q ELSE s[m].after
  BY <1>1 DEF ChainFrom, EndOf
<1> HIDE DEF m, all
<1>3. \A i \in 1 .. (m + 1) : all[i].before = IF i = 1 THEN q ELSE all[i-1].after
  BY <1>1, <1>2
<1> QED
  BY <1>1, <1>3 DEF ChainFrom, EndOf, all

\* No entries are a chain that ends where it starts.
LEMMA EmptyChain ==
  ASSUME NEW q
  PROVE  ChainFrom(<<>>, q) /\ EndOf(<<>>, q) = q
BY DEF ChainFrom, EndOf

\* A chain of entries ends at a number.
LEMMA EndOfInt ==
  ASSUME NEW s \in Seq(Entry), NEW q \in Int
  PROVE  EndOf(s, q) \in Int
<1>1. CASE s = <<>>
  BY <1>1 DEF EndOf
<1>2. CASE s # <<>>
  <2>1. Len(s) \in DOMAIN s
    BY <1>2
  <2>2. s[Len(s)] \in Entry
    BY <2>1
  <2> QED
    BY <1>2, <2>2 DEF EndOf, Entry
<1> QED
  BY <1>1, <1>2

USE StockAssumption DEF StockAssumption

\* The lines of a request are lines.
LEMMA CurIsLine ==
  ASSUME TypeOK, NEW t \in Tasks
  PROVE  Cur(t) \in Line
BY DEF TypeOK, Cur, Lines

\* A key has a row, and so a lock, of its own from the start.
LEMMA RowIsRid ==
  ASSUME NEW k \in Keys
  PROVE  Row(k) \in Rid /\ Row(k) \in Locks /\ Row(k)[1] = k
BY DEF Row, Rid, Origins, Locks

\* A new balance starts with an empty ledger.
LEMMA InitIInv == Init => IInv
<1> SUFFICES ASSUME Init PROVE IInv
  OBVIOUS
<1>1. TypeOK
  BY DEF Init, TypeOK, NoRows, NoEntries, Lines, Final
<1>2. PrelockOver /\ UnlockedElsewhere /\ SeenIsCurrent
  BY DEF Init, PrelockOver, UnlockedElsewhere, SeenIsCurrent
<1>3. OnlyRow
  BY DEF Init, OnlyRow, Row, Rid, Origins, NoRows
<1>4. WritersHold /\ PendingChained
  BY RowIsRid, EmptyChain DEF Init, WritersHold, PendingChained, NoRows, NoEntries
<1>5. ASSUME NEW k \in Seeded
      PROVE  Chained(k) /\ bal[Row(k)] = Closing(k)
  <2>1. ledger[k] = <<>> /\ bal[Row(k)] = InitQty[k]
    BY RowIsRid DEF Init, NoEntries, Row
  <2> QED
    BY <2>1, EmptyChain DEF Chained, Closing
<1>6. LedgerMatchesBalance
  BY <1>5 DEF LedgerMatchesBalance, Row
<1> QED
  BY <1>1, <1>2, <1>3, <1>4, <1>6 DEF IInv

\* A step that only moves a task between control points that impose nothing
\* new keeps the invariant.
LEMMA QuietIInv ==
  ASSUME IInv, NEW t \in Tasks, NEW c,
         c \in {"enter", "track", "select", "commit", "rollback"} \cup Final,
         c \in {"enter", "track", "commit"} => todo[t] = {},
         pc' = [pc EXCEPT ![t] = c],
         mutex' \in [Procs -> Tasks \cup {None}],
         UNCHANGED <<req, ln, todo, seen, work, pend, holder, bal, ledger, crashes>>
  PROVE  IInv'
<1>1. TypeOK'
  BY DEF IInv, TypeOK, Lines, Final
<1>2. pc'[t] = c /\ \A u \in Tasks \ {t} : pc'[u] = pc[u]
  BY DEF IInv, TypeOK
<1>3. PrelockOver'
  BY <1>2 DEF IInv, PrelockOver, Final
<1>4. UnlockedElsewhere'
  BY <1>2 DEF IInv, UnlockedElsewhere, Final, Target, Cur, Lines
<1>5. SeenIsCurrent'
  BY <1>2 DEF IInv, SeenIsCurrent, Final, Cur, Lines, Val
<1>6. OnlyRow' /\ WritersHold' /\ PendingChained' /\ LedgerMatchesBalance'
  BY DEF IInv, OnlyRow, WritersHold, PendingChained, LedgerMatchesBalance,
         Chained, Closing
<1> QED
  BY <1>1, <1>3, <1>4, <1>5, <1>6 DEF IInv

\* Giving the lock of the process back leaves it free or with a task.
LEMMA ReleaseType ==
  ASSUME TypeOK, NEW t \in Tasks
  PROVE  Release(t) \in [Procs -> Tasks \cup {None}]
BY DEF TypeOK, Release

\* An exception rolls back: nothing that was prepared is committed.
LEMMA FailIInv ==
  ASSUME IInv, NEW t \in Tasks, Fail(t)
  PROVE  IInv'
<1>1. mutex' \in [Procs -> Tasks \cup {None}]
  BY ReleaseType DEF Fail, IInv
<1> QED
  BY <1>1, QuietIInv DEF Fail, session, store

\* A request is taken up; a transfer notes the rows it must lock.
LEMMA BeginIInv ==
  ASSUME IInv, NEW t \in Tasks, Begin(t)
  PROVE  IInv'
<1>0. KeysOf(req[t]) \subseteq Keys
  <2>1. req[t].lines \in Seq(Line)
    BY DEF IInv, TypeOK
  <2>2. ASSUME NEW i \in DOMAIN req[t].lines PROVE req[t].lines[i].key \in Keys
    <3>1. req[t].lines[i] \in Line
      BY <2>1
    <3> QED
      BY <3>1 DEF Line
  <2> QED
    BY <2>2 DEF KeysOf
<1>1. TypeOK'
  BY <1>0 DEF IInv, TypeOK, Begin, Lines, Final, store
<1>2. PrelockOver'
  BY DEF IInv, TypeOK, PrelockOver, Begin
<1>4. UnlockedElsewhere'
  BY DEF IInv, TypeOK, UnlockedElsewhere, Target, Cur, Lines, Begin
<1>5. SeenIsCurrent'
  BY DEF IInv, TypeOK, SeenIsCurrent, Cur, Lines, Val, Begin, store
<1>3. OnlyRow' /\ WritersHold' /\ PendingChained' /\ LedgerMatchesBalance'
  BY DEF IInv, OnlyRow, WritersHold, PendingChained, LedgerMatchesBalance,
         Chained, Closing, Begin, store
<1> QED
  BY <1>1, <1>2, <1>3, <1>4, <1>5 DEF IInv

\* Steps that end transactions: their locks and uncommitted writes vanish.
LEMMA ResetIInv ==
  ASSUME IInv, NEW T \in SUBSET Tasks, Reset(T),
         pc' \in [Tasks -> {"idle", "select", "plain", "insert", "enter", "track",
                            "flush", "commit", "rollback"} \cup Final],
         \A u \in Tasks \ T : pc'[u] = pc[u],
         \A u \in T : pc'[u] \in Final,
         mutex' \in [Procs -> Tasks \cup {None}],
         crashes' \in Nat,
         UNCHANGED <<req, bal, ledger>>
  PROVE  IInv'
<1>1. TypeOK'
  <2>1. ln' \in [Tasks -> Nat \ {0}] /\ \A u \in Tasks : ln'[u] \in DOMAIN Lines(u)'
    BY DEF IInv, TypeOK, Reset, Lines
  <2>2. work' \in [Tasks -> [Rid -> Int \cup {None}]] /\ pend' \in [Tasks -> [Keys -> Seq(Entry)]]
    BY DEF IInv, TypeOK, Reset, NoRows, NoEntries
  <2>3. holder' \in [Locks -> Tasks \cup {None}]
    BY DEF IInv, TypeOK, Reset, Freed
  <2>4. todo' \in [Tasks -> SUBSET Keys] /\ seen' \in [Tasks -> {None} \cup [row : Rid, val : Int]]
    BY DEF IInv, TypeOK, Reset
  <2> QED
    BY <2>1, <2>2, <2>3, <2>4 DEF IInv, TypeOK
<1>2. PrelockOver' /\ UnlockedElsewhere'
  BY DEF IInv, PrelockOver, UnlockedElsewhere, Final, Target, Cur, Lines, Reset
<1>3. OnlyRow'
  BY DEF IInv, OnlyRow, Reset, NoRows, Rid, Origins, Row
<1>4. WritersHold'
  BY RowIsRid DEF IInv, WritersHold, Reset, NoRows, NoEntries, Freed
<1>5. SeenIsCurrent'
  <2> SUFFICES ASSUME NEW u \in Tasks, pc'[u] = "flush"
               PROVE  /\ seen'[u] \in [row : Rid, val : Int]
                      /\ seen'[u].row[1] = Cur(u)'.key
                      /\ Cur(u)'.key \in Seeded =>
                           /\ seen'[u].row = Row(Cur(u)'.key)
                           /\ holder'[seen'[u].row] = u
                           /\ seen'[u].val = Val(u, seen[u].row)'
    BY DEF IInv, SeenIsCurrent, Reset, TypeOK
  <2>1. u \notin T /\ pc[u] = "flush"
    BY DEF Final
  <2>2. /\ seen'[u] = seen[u] /\ work'[u] = work[u] /\ Cur(u)' = Cur(u)
    BY <2>1 DEF Reset, Cur, Lines
  <2>3. Cur(u).key \in Seeded => holder'[Row(Cur(u).key)] = u
    BY <2>1, RowIsRid DEF IInv, SeenIsCurrent, Reset, Freed
  <2> QED
    BY <2>1, <2>2, <2>3 DEF IInv, SeenIsCurrent, Val
<1>6. PendingChained'
  BY RowIsRid, EmptyChain DEF IInv, PendingChained, Reset, NoRows, NoEntries
<1>7. LedgerMatchesBalance'
  BY DEF IInv, LedgerMatchesBalance, Chained, Closing
<1> QED
  BY <1>1, <1>2, <1>3, <1>4, <1>5, <1>6, <1>7 DEF IInv

\* The commit appends what the session wrote, row by row, and releases its locks.
LEMMA CommitIInv ==
  ASSUME IInv, NEW t \in Tasks, Commit(t)
  PROVE  IInv'
<1> USE DEF IInv
<1>1. /\ mutex' \in [Procs -> Tasks \cup {None}]
      /\ UNCHANGED <<req, crashes>>
      /\ pc' = [pc EXCEPT ![t] = "done"]
      /\ Reset({t})
  BY ReleaseType DEF Commit
<1>2. /\ bal' \in [Rid -> Int \cup {None}]
      /\ ledger' \in [Keys -> Seq(Entry)]
  BY DEF Commit, TypeOK, Val
<1>3. TypeOK'
  <2>1. ln' \in [Tasks -> Nat \ {0}] /\ \A u \in Tasks : ln'[u] \in DOMAIN Lines(u)'
    BY <1>1 DEF TypeOK, Reset, Lines
  <2>2. work' \in [Tasks -> [Rid -> Int \cup {None}]] /\ pend' \in [Tasks -> [Keys -> Seq(Entry)]]
    BY <1>1 DEF TypeOK, Reset, NoRows, NoEntries
  <2>3. holder' \in [Locks -> Tasks \cup {None}]
    BY <1>1 DEF TypeOK, Reset, Freed
  <2>4. todo' \in [Tasks -> SUBSET Keys] /\ seen' \in [Tasks -> {None} \cup [row : Rid, val : Int]]
    BY <1>1 DEF TypeOK, Reset
  <2> QED
    BY <1>1, <1>2, <2>1, <2>2, <2>3, <2>4 DEF TypeOK, Final
<1>4. PrelockOver' /\ UnlockedElsewhere'
  BY <1>1 DEF TypeOK, PrelockOver, UnlockedElsewhere, Target, Cur, Lines, Reset
<1>5. OnlyRow'
  BY <1>1 DEF TypeOK, OnlyRow, Reset, NoRows, Rid, Origins, Row, Commit, Val
<1>6. WritersHold'
  BY <1>1, RowIsRid DEF TypeOK, WritersHold, Reset, NoRows, NoEntries, Freed
\* Whoever works on a seeded row that t has not written sees the same value;
\* nobody else works on one that t has written.
<1>7. \A k \in Seeded : bal'[Row(k)] = Val(t, Row(k))
  BY RowIsRid DEF Commit
<1>8. \A u \in Tasks \ {t}, k \in Seeded : pend[u][k] # <<>> => bal'[Row(k)] = bal[Row(k)]
  BY <1>7 DEF WritersHold, Val
<1>9. SeenIsCurrent'
  <2> SUFFICES ASSUME NEW u \in Tasks, pc'[u] = "flush"
               PROVE  /\ seen'[u] \in [row : Rid, val : Int]
                      /\ seen'[u].row[1] = Cur(u)'.key
                      /\ Cur(u)'.key \in Seeded =>
                           /\ seen'[u].row = Row(Cur(u)'.key)
                           /\ holder'[seen'[u].row] = u
                           /\ seen'[u].val = Val(u, seen[u].row)'
    BY <1>1 DEF SeenIsCurrent, Reset, TypeOK
  <2>1. u # t /\ pc[u] = "flush"
    BY <1>1 DEF TypeOK
  <2>2. /\ seen'[u] = seen[u] /\ work'[u] = work[u] /\ Cur(u)' = Cur(u)
    BY <1>1, <2>1 DEF Reset, Cur, Lines
  <2>3. ASSUME Cur(u).key \in Seeded
        PROVE  /\ holder'[Row(Cur(u).key)] = u
               /\ bal'[Row(Cur(u).key)] = bal[Row(Cur(u).key)]
    <3>1. holder[Row(Cur(u).key)] = u
      BY <2>1, <2>3 DEF SeenIsCurrent
    <3>2. work[t][Row(Cur(u).key)] = None
      BY <2>1, <2>3, <3>1 DEF WritersHold
    <3> QED
      BY <1>1, <1>7, <2>1, <2>3, <3>1, <3>2, RowIsRid DEF Reset, Freed, Val
  <2> QED
    BY <2>1, <2>2, <2>3 DEF SeenIsCurrent, Val
<1>10. PendingChained'
  BY <1>1, <1>8, RowIsRid, EmptyChain DEF PendingChained, Reset, NoRows, NoEntries
<1>11. LedgerMatchesBalance'
  <2> SUFFICES ASSUME NEW k \in Seeded
               PROVE  Chained(k)' /\ bal'[Row(k)] = Closing(k)'
    BY DEF LedgerMatchesBalance, Row
  <2>1. /\ ledger'[k] = ledger[k] \o pend[t][k]
        /\ ledger[k] \in Seq(Entry) /\ pend[t][k] \in Seq(Entry)
    <3>1. k \in Keys
      OBVIOUS
    <3>2. ledger'[k] = ledger[k] \o pend[t][k]
      BY <3>1 DEF Commit
    <3> QED
      BY <3>1, <3>2 DEF TypeOK
  <2>2. Chained(k) /\ bal[Row(k)] = Closing(k)
    BY DEF LedgerMatchesBalance, Row
  <2>3. CASE pend[t][k] = <<>>
    <3>1. ledger'[k] = ledger[k] /\ bal'[Row(k)] = bal[Row(k)]
      <4>1. ledger[k] \o <<>> = ledger[k]
        BY <2>1
      <4>2. work[t][Row(k)] = None
        BY <2>3 DEF PendingChained
      <4> QED
        BY <1>7, <2>1, <2>3, <4>1, <4>2 DEF Val
    <3> QED
      BY <2>2, <3>1 DEF Chained, Closing
  <2>4. CASE pend[t][k] # <<>>
    <3>1. bal'[Row(k)] = EndOf(pend[t][k], bal[Row(k)])
      <4>1. EndOf(pend[t][k], bal[Row(k)]) \in Int
        BY <2>1, EndOfInt DEF OnlyRow
      <4> QED
        BY <1>7, <2>4, <4>1 DEF PendingChained, Val
    <3>2. ChainFrom(pend[t][k], EndOf(ledger[k], InitQty[k]))
      BY <2>2, <2>4 DEF PendingChained, Closing
    <3> QED
      BY <2>1, <2>2, <2>4, <3>1, <3>2, ChainConcat DEF Chained, Closing
  <2> QED
    BY <2>3, <2>4
<1> QED
  BY <1>3, <1>4, <1>5, <1>6, <1>9, <1>10, <1>11

\* get_or_create_for_update returns: a seeded row only with its lock.
LEMMA GotIInv ==
  ASSUME IInv, NEW t \in Tasks, NEW r, NEW v \in Int, Got(t, r, v),
         pc[t] \in {"select", "plain", "insert"},
         todo[t] = {} => r \in Rid,
         r[1] = Target(t),
         Target(t) \in Seeded => r = Row(Target(t)) /\ v = Val(t, r) /\ holder'[r] = t,
         holder' \in [Locks -> Tasks \cup {None}],
         \A k \in Seeded : holder[Row(k)] # None => holder'[Row(k)] = holder[Row(k)],
         work' \in [Tasks -> [Rid -> Int \cup {None}]],
         \A u \in Tasks, k \in Seeded, o \in Origins :
           work'[u][<<k, o>>] = work[u][<<k, o>>]
  PROVE  IInv'
<1>0. PICK c \in {"enter", "select", "flush"} : pc' = [pc EXCEPT ![t] = c]
  BY DEF Got
<1>1. TypeOK'
  <2>1. pc' \in [Tasks -> {"idle", "select", "plain", "insert", "enter", "track",
                           "flush", "commit", "rollback"} \cup Final]
    BY <1>0 DEF IInv, TypeOK
  <2>2. CASE todo[t] = {}
    <3>1. [row |-> r, val |-> v] \in [row : Rid, val : Int]
      BY <2>2
    <3>2. todo' = todo /\ seen' = [seen EXCEPT ![t] = [row |-> r, val |-> v]]
      BY <2>2 DEF Got
    <3>3. seen' \in [Tasks -> {None} \cup [row : Rid, val : Int]]
      BY <3>1, <3>2 DEF IInv, TypeOK
    <3> QED
      BY <2>1, <3>2, <3>3 DEF IInv, TypeOK, Got, Lines, store
  <2>3. CASE todo[t] # {}
    <3>1. todo' = [todo EXCEPT ![t] = @ \ {Target(t)}] /\ seen' = seen
      BY <2>3 DEF Got
    <3> QED
      BY <2>1, <3>1 DEF IInv, TypeOK, Got, Lines, store
  <2> QED
    BY <2>2, <2>3
<1>2. PrelockOver'
  <2>1. /\ \A u \in Tasks \ {t} : pc'[u] = pc[u] /\ todo'[u] = todo[u]
        /\ pc'[t] \in {"enter", "track", "flush", "commit"} => todo'[t] = {}
    <3>1. CASE todo[t] = {}
      BY <3>1 DEF Got, IInv, TypeOK
    <3>2. CASE todo[t] # {}
      BY <3>2 DEF Got, IInv, TypeOK
    <3> QED
      BY <3>1, <3>2
  <2> QED
    BY <2>1 DEF IInv, PrelockOver
<1>3. UnlockedElsewhere'
  <2> SUFFICES ASSUME NEW u \in Tasks, pc'[u] \in {"plain", "insert"}
               PROVE  Target(u)' \notin Seeded
    BY DEF UnlockedElsewhere
  <2>1. u # t /\ pc'[u] = pc[u] /\ todo'[u] = todo[u]
    BY DEF IInv, TypeOK, Got
  <2>2. Target(u)' = Target(u)
    BY <2>1 DEF Target, Got, Cur, Lines
  <2> QED
    BY <2>1, <2>2 DEF IInv, UnlockedElsewhere
<1>4. OnlyRow'
  <2>1. bal' = bal
    BY DEF Got, store
  <2>2. ASSUME NEW u \in Tasks, NEW k \in Seeded, NEW o \in Tasks
        PROVE  work'[u][<<k, o>>] = None
    <3>1. work'[u][<<k, o>>] = work[u][<<k, o>>]
      BY DEF Origins
    <3> QED
      BY <3>1 DEF IInv, OnlyRow
  <2> QED
    BY <2>1, <2>2 DEF IInv, OnlyRow
<1>5. WritersHold'
  <2>1. ASSUME NEW u \in Tasks, NEW k \in Seeded
        PROVE  work'[u][Row(k)] = work[u][Row(k)]
    BY DEF Row, Origins
  <2>2. pend' = pend
    BY DEF Got
  <2>3. ASSUME NEW u \in Tasks, NEW k \in Seeded, holder[Row(k)] = u
        PROVE  holder'[Row(k)] = u
    BY <2>3
  <2> SUFFICES ASSUME NEW u \in Tasks, NEW k \in Seeded,
                      pend'[u][k] # <<>> \/ work'[u][Row(k)] # None
               PROVE  holder'[Row(k)] = u
    BY DEF WritersHold
  <2>4. pend[u][k] # <<>> \/ work[u][Row(k)] # None
    BY <2>1, <2>2
  <2>5. holder[Row(k)] = u
    BY <2>4 DEF IInv, WritersHold
  <2> QED
    BY <2>3, <2>5
<1>6. PendingChained'
  <2>1. ASSUME NEW u \in Tasks, NEW k \in Seeded
        PROVE  work'[u][Row(k)] = work[u][Row(k)]
    BY DEF Row, Origins
  <2>2. pend' = pend /\ bal' = bal
    BY DEF Got, store
  <2> QED
    BY <2>1, <2>2, SMTT(30) DEF IInv, PendingChained
<1>7. LedgerMatchesBalance'
  BY DEF IInv, LedgerMatchesBalance, Chained, Closing, Got, store
<1>8. SeenIsCurrent'
  <2> SUFFICES ASSUME NEW u \in Tasks, pc'[u] = "flush"
               PROVE  /\ seen'[u] \in [row : Rid, val : Int]
                      /\ seen'[u].row[1] = Cur(u)'.key
                      /\ Cur(u)'.key \in Seeded =>
                           /\ seen'[u].row = Row(Cur(u)'.key)
                           /\ holder'[seen'[u].row] = u
                           /\ seen'[u].val = Val(u, seen[u].row)'
    BY DEF SeenIsCurrent
  <2>1. Cur(u)' = Cur(u) /\ bal' = bal
    BY DEF Got, Cur, Lines, store
  <2>2. \A k \in Seeded : Val(u, Row(k))' = Val(u, Row(k))
    BY <2>1 DEF Val, Row, Origins
  <2>3. CASE u = t
    <3>1. todo[t] = {} /\ seen'[t] = [row |-> r, val |-> v]
      BY <2>3 DEF IInv, TypeOK, Got
    <3>2. Target(t) = Cur(t).key
      BY <3>1 DEF Target
    <3>3. seen'[t] \in [row : Rid, val : Int]
      BY <3>1
    <3> QED
      BY <2>1, <2>2, <2>3, <3>1, <3>2, <3>3 DEF Val
  <2>4. CASE u # t
    <3>1. pc[u] = "flush" /\ seen'[u] = seen[u]
      BY <2>4 DEF IInv, TypeOK, Got
    <3>2. Cur(u).key \in Seeded => holder'[Row(Cur(u).key)] = u
      <4>1. ASSUME Cur(u).key \in Seeded PROVE holder[Row(Cur(u).key)] = u
        BY <3>1, <4>1 DEF IInv, SeenIsCurrent
      <4> QED
        BY <4>1
    <3>3. /\ seen[u] \in [row : Rid, val : Int]
          /\ seen[u].row[1] = Cur(u).key
          /\ Cur(u).key \in Seeded => seen[u].row = Row(Cur(u).key) /\ seen[u].val = Val(u, seen[u].row)
      BY <3>1 DEF IInv, SeenIsCurrent
    <3>4. ASSUME Cur(u).key \in Seeded PROVE seen'[u].val = Val(u, seen[u].row)'
      <4>1. Val(u, seen[u].row)' = Val(u, seen[u].row)
        <5>1. seen'[u].row = Row(Cur(u).key)
          BY <3>1, <3>3, <3>4
        <5> QED
          BY <2>2, <3>1, <3>3, <3>4, <5>1 DEF Val
      <4> QED
        BY <3>1, <3>3, <3>4, <4>1
    <3> QED
      BY <2>1, <3>1, <3>2, <3>3, <3>4
  <2> QED
    BY <2>3, <2>4
<1> QED
  BY <1>1, <1>2, <1>3, <1>4, <1>5, <1>6, <1>7, <1>8 DEF IInv

\* What a free lock is grabbed over.
LEMMA GrabKeeps ==
  ASSUME TypeOK, NEW t \in Tasks, NEW S \in SUBSET Locks, Free(t, S), holder' = Grab(t, S)
  PROVE  /\ holder' \in [Locks -> Tasks \cup {None}]
         /\ \A x \in Locks : holder[x] # None => holder'[x] = holder[x]
         /\ \A x \in S : holder'[x] = t
BY DEF TypeOK, Free, Grab

\* A seeded key shows every statement exactly its one row.
LEMMA VisibleSeeded ==
  ASSUME IInv, NEW t \in Tasks, NEW k \in Seeded
  PROVE  Visible(t, k) = {Row(k)}
<1>1. Row(k) \in Visible(t, k)
  BY RowIsRid DEF IInv, OnlyRow, Visible, Val
<1>2. ASSUME NEW r \in Visible(t, k) PROVE r = Row(k)
  <2>1. PICK o \in Origins : r = <<k, o>>
    BY DEF Visible, Rid
  <2>2. o \notin Tasks
    BY <2>1 DEF IInv, OnlyRow, Visible, Val
  <2> QED
    BY <2>1, <2>2 DEF Origins, Row
<1> QED
  BY <1>1, <1>2

\* A row that a task sees is a row of its key, with a number.
LEMMA VisibleVal ==
  ASSUME TypeOK, NEW t \in Tasks, NEW k, NEW r \in Visible(t, k)
  PROVE  r \in Rid /\ r \in Locks /\ r[1] = k /\ Val(t, r) \in Int
BY DEF TypeOK, Visible, Val, Locks

\* SELECT ... FOR UPDATE finds the row of the key and locks it.
LEMMA SelectIInv ==
  ASSUME IInv, NEW t \in Tasks, SelectForUpdate(t)
  PROVE  IInv'
<1>1. PICK r \in Visible(t, Target(t)) : Got(t, r, Val(t, r))
  BY DEF SelectForUpdate
<1>2. r \in Rid /\ r[1] = Target(t) /\ Val(t, r) \in Int
  BY VisibleVal DEF IInv
<1>3. Visible(t, Target(t)) \in SUBSET Locks
  BY VisibleVal DEF IInv
<1>4. /\ holder' \in [Locks -> Tasks \cup {None}]
      /\ \A x \in Locks : holder[x] # None => holder'[x] = holder[x]
      /\ holder'[r] = t
  BY <1>3, GrabKeeps DEF IInv, SelectForUpdate
<1>5. work' = work /\ pc[t] = "select"
  BY DEF SelectForUpdate
<1>6. Target(t) \in Seeded => r = Row(Target(t))
  BY VisibleSeeded
<1>7. work' \in [Tasks -> [Rid -> Int \cup {None}]]
  BY <1>5 DEF IInv, TypeOK
<1>8. \A k \in Seeded : holder[Row(k)] # None => holder'[Row(k)] = holder[Row(k)]
  BY <1>4, RowIsRid
<1> HIDE DEF IInv
<1> QED
  BY <1>1, <1>2, <1>4, <1>5, <1>6, <1>7, <1>8, GotIInv

\* The fallback read, without a lock, concerns keys without a row at the start.
LEMMA PlainReadIInv ==
  ASSUME IInv, NEW t \in Tasks, PlainRead(t)
  PROVE  IInv'
<1>1. PICK r \in Visible(t, Target(t)) : Got(t, r, Val(t, r))
  BY DEF PlainRead
<1>2. r \in Rid /\ r[1] = Target(t) /\ Val(t, r) \in Int
  BY VisibleVal DEF IInv
<1>3. Target(t) \notin Seeded /\ pc[t] = "plain" /\ UNCHANGED <<work, holder>>
  BY DEF IInv, UnlockedElsewhere, PlainRead
<1>4. /\ work' \in [Tasks -> [Rid -> Int \cup {None}]]
      /\ holder' \in [Locks -> Tasks \cup {None}]
  BY <1>3 DEF IInv, TypeOK
<1> QED
  BY <1>1, <1>2, <1>3, <1>4, GotIInv

\* A balance row is inserted for a key that has none.
LEMMA InsertIInv ==
  ASSUME IInv, NEW t \in Tasks, InsertRow(t)
  PROVE  IInv'
<1> DEFINE r == <<Target(t), t>>
<1>1. Got(t, r, 0) /\ pc[t] = "insert" /\ Target(t) \notin Seeded
  BY DEF InsertRow, IInv, UnlockedElsewhere
<1>2. todo[t] = {} => r \in Rid
  <2>1. todo[t] = {} => Target(t) = Cur(t).key
    BY DEF Target
  <2>2. Cur(t).key \in Keys
    BY CurIsLine DEF IInv, Line
  <2> QED
    BY <2>1, <2>2 DEF Rid, Origins
<1>3. /\ work' = [work EXCEPT ![t] = [work[t] EXCEPT ![r] = 0]]
      /\ holder' = Grab(t, {r} \cup Dirty(t)) /\ Free(t, Dirty(t))
  BY DEF InsertRow
<1>4. r[1] = Target(t) /\ \A k \in Seeded, o \in Origins : <<k, o>> # r
  BY <1>1
<1> HIDE DEF r
<1>5. work' \in [Tasks -> [Rid -> Int \cup {None}]]
  <2>1. work[t] \in [Rid -> Int \cup {None}] /\ work \in [Tasks -> [Rid -> Int \cup {None}]]
    BY DEF IInv, TypeOK
  <2>2. [work[t] EXCEPT ![r] = 0] \in [Rid -> Int \cup {None}]
    <3>1. [work[t] EXCEPT ![r] = 0] = [x \in Rid |-> IF x = r THEN 0 ELSE work[t][x]]
      BY <2>1
    <3>2. \A x \in Rid : (IF x = r THEN 0 ELSE work[t][x]) \in Int \cup {None}
      BY <2>1
    <3>3. [x \in Rid |-> IF x = r THEN 0 ELSE work[t][x]] \in [Rid -> Int \cup {None}]
      BY <3>2
    <3> QED
      BY <3>1, <3>3
  <2> QED
    BY <1>3, <2>1, <2>2
<1>6. ASSUME NEW u \in Tasks, NEW k \in Seeded, NEW o \in Origins
      PROVE  work'[u][<<k, o>>] = work[u][<<k, o>>]
  <2>1. <<k, o>> \in Rid
    BY DEF Rid
  <2> QED
    BY <1>3, <1>4, <2>1 DEF IInv, TypeOK
<1>7. holder' \in [Locks -> Tasks \cup {None}]
  BY <1>3 DEF Grab, IInv, TypeOK
<1>8. ASSUME NEW k \in Seeded, holder[Row(k)] # None
      PROVE  holder'[Row(k)] = holder[Row(k)]
  <2>1. Row(k) # r /\ Row(k) \in Locks
    BY <1>4, RowIsRid DEF Row, Origins
  <2> QED
    BY <1>3, <1>8, <2>1 DEF Grab, Free
<1> QED
  <2>1. pc[t] \in {"select", "plain", "insert"} /\ 0 \in Int
    BY <1>1
  <2>2. Got(t, r, 0)
    BY <1>1 DEF r
  <2> QED
    BY <1>1, <1>2, <1>4, <1>5, <1>6, <1>7, <1>8, <2>1, <2>2, GotIInv

\* The entry a flush writes, and the value it leaves in the row.
LEMMA NewEntryType ==
  ASSUME IInv, NEW t \in Tasks, pc[t] = "flush"
  PROVE  /\ NewEntry(t) \in Entry
         /\ NewEntry(t).before = seen[t].val /\ NewEntry(t).after = After(t)
         /\ After(t) \in Int /\ Cur(t).key \in Keys
         /\ seen[t].row \in Rid /\ seen[t].row \in Locks /\ seen[t].row[1] = Cur(t).key
<1>1. Cur(t) \in Line
  BY CurIsLine DEF IInv
<1>2. seen[t] \in [row : Rid, val : Int] /\ seen[t].row[1] = Cur(t).key
  BY DEF IInv, SeenIsCurrent
<1>3. Delta(Cur(t)) \in Int
  BY <1>1 DEF Line, Delta
<1>4. After(t) \in Int
  BY <1>2, <1>3 DEF After
<1>5. NewEntry(t) \in Entry
  BY <1>1, <1>2, <1>4 DEF NewEntry, Entry, Line
<1> QED
  BY <1>1, <1>2, <1>4, <1>5 DEF NewEntry, Line, Locks

\* _execute_movement_tx writes the row and its ledger entry.
LEMMA FlushIInv ==
  ASSUME IInv, NEW t \in Tasks, FlushLine(t)
  PROVE  IInv'
<1> DEFINE r == seen[t].row  c == Cur(t).key  e == NewEntry(t)
<1>1. pc[t] = "flush"
  BY DEF FlushLine
<1>2. /\ e \in Entry /\ e.before = seen[t].val /\ e.after = After(t)
      /\ After(t) \in Int /\ c \in Keys /\ r \in Rid /\ r \in Locks /\ r[1] = c
  BY <1>1, NewEntryType
<1>3. /\ work' = [work EXCEPT ![t] = [work[t] EXCEPT ![r] = After(t)]]
      /\ pend' = [pend EXCEPT ![t] = [pend[t] EXCEPT ![c] = Append(pend[t][c], e)]]
      /\ seen' = [seen EXCEPT ![t] = None]
      /\ UNCHANGED <<req, todo, bal, ledger, crashes>>
  BY DEF FlushLine, store, IInv, TypeOK
<1>4. /\ holder' \in [Locks -> Tasks \cup {None}]
      /\ \A x \in Locks : holder[x] # None => holder'[x] = holder[x]
      /\ holder'[r] = t
  BY <1>2 DEF FlushLine, Grab, Free, IInv, TypeOK
<1>5. mutex' \in [Procs -> Tasks \cup {None}]
  BY ReleaseType DEF FlushLine, IInv, TypeOK
<1>6. /\ \A u \in Tasks \ {t} : pc'[u] = pc[u] /\ ln'[u] = ln[u]
      /\ pc'[t] \in {"enter", "commit"}
      /\ pc' \in [Tasks -> {"idle", "select", "plain", "insert", "enter", "track",
                            "flush", "commit", "rollback"} \cup Final]
  <2>1. \E next \in {"enter", "commit"} :
         \E n : pc' = [pc EXCEPT ![t] = next] /\ ln' = [ln EXCEPT ![t] = n]
    <3>1. ln = [ln EXCEPT ![t] = ln[t]]
      BY DEF IInv, TypeOK
    <3> QED
      BY <3>1 DEF FlushLine
  <2> QED
    BY <2>1 DEF IInv, TypeOK
<1>7. ln' \in [Tasks -> Nat \ {0}] /\ \A u \in Tasks : ln'[u] \in DOMAIN Lines(u)'
  <2>1. Lines(t) \in Seq(Line) /\ ln[t] \in DOMAIN Lines(t)
    BY DEF IInv, TypeOK, Lines
  <2>2. ~LastLine(t) => ln[t] + 1 \in DOMAIN Lines(t)
    BY <2>1 DEF LastLine
  <2> QED
    BY <1>3, <2>1, <2>2 DEF FlushLine, IInv, TypeOK, Lines
<1> HIDE DEF r, c, e
<1>8. pend' \in [Tasks -> [Keys -> Seq(Entry)]]
  <2>1. Append(pend[t][c], e) \in Seq(Entry)
    BY <1>2 DEF IInv, TypeOK
  <2> QED
    BY <1>3, <2>1 DEF IInv, TypeOK
<1>9. TypeOK'
  BY <1>2, <1>3, <1>4, <1>5, <1>6, <1>7, <1>8 DEF IInv, TypeOK
<1>10. PrelockOver' /\ UnlockedElsewhere'
  BY <1>1, <1>3, <1>6 DEF IInv, PrelockOver, UnlockedElsewhere, Target, Cur, Lines
\* A seeded key: the row is the seeded one, locked, and its value is current.
<1>11. c \in Seeded => r = Row(c) /\ holder[r] = t /\ seen[t].val = Val(t, r)
  BY <1>1 DEF IInv, SeenIsCurrent, r, c
<1>12. ASSUME NEW k \in Seeded, NEW o \in Origins, <<k, o>> = r
       PROVE  k = c /\ o = None
  BY <1>2, <1>11, <1>12 DEF Row
<1>13. OnlyRow'
  <2>1. ASSUME NEW k \in Seeded, NEW o \in Tasks, NEW u \in Tasks
        PROVE  work'[u][<<k, o>>] = None
    <3>1. <<k, o>> # r /\ <<k, o>> \in Rid
      BY <1>12 DEF Origins, Rid
    <3> QED
      BY <1>3, <3>1 DEF IInv, TypeOK, OnlyRow
  <2> QED
    BY <1>3, <2>1 DEF IInv, OnlyRow
<1>14. WritersHold'
  <2> SUFFICES ASSUME NEW u \in Tasks, NEW k \in Seeded,
                      pend'[u][k] # <<>> \/ work'[u][Row(k)] # None
               PROVE  holder'[Row(k)] = u
    BY DEF WritersHold
  <2>1. CASE u = t /\ k = c
    BY <1>4, <1>11, <2>1
  <2>2. CASE ~(u = t /\ k = c)
    <3>1. pend'[u][k] = pend[u][k] /\ work'[u][Row(k)] = work[u][Row(k)]
      BY <1>3, <1>12, <2>2, RowIsRid DEF IInv, TypeOK, Row, Origins
    <3>2. holder[Row(k)] = u
      BY <3>1 DEF IInv, WritersHold
    <3> QED
      BY <1>4, <3>2, RowIsRid
  <2> QED
    BY <2>1, <2>2
<1>15. SeenIsCurrent'
  <2> SUFFICES ASSUME NEW u \in Tasks, pc'[u] = "flush"
               PROVE  /\ seen'[u] \in [row : Rid, val : Int]
                      /\ seen'[u].row[1] = Cur(u)'.key
                      /\ Cur(u)'.key \in Seeded =>
                           /\ seen'[u].row = Row(Cur(u)'.key)
                           /\ holder'[seen'[u].row] = u
                           /\ seen'[u].val = Val(u, seen[u].row)'
    BY <1>3, <1>6 DEF SeenIsCurrent, IInv, TypeOK
  <2>1. u # t /\ pc[u] = "flush"
    BY <1>6
  <2>2. seen'[u] = seen[u] /\ work'[u] = work[u] /\ Cur(u)' = Cur(u) /\ bal' = bal
    BY <1>3, <1>6, <2>1 DEF Cur, Lines, IInv, TypeOK
  <2>3. Cur(u).key \in Seeded => holder'[Row(Cur(u).key)] = u
    BY <1>4, <2>1, RowIsRid DEF IInv, SeenIsCurrent
  <2> QED
    BY <2>1, <2>2, <2>3 DEF IInv, SeenIsCurrent, Val
<1>16. PendingChained'
  <2> SUFFICES ASSUME NEW u \in Tasks, NEW k \in Seeded
               PROVE  /\ ChainFrom(pend'[u][k], bal[Row(k)])
                      /\ IF pend'[u][k] = <<>> THEN work'[u][Row(k)] = None
                         ELSE work'[u][Row(k)] = EndOf(pend'[u][k], bal[Row(k)])
    BY <1>3 DEF PendingChained
  <2>1. /\ ChainFrom(pend[u][k], bal[Row(k)])
        /\ IF pend[u][k] = <<>> THEN work[u][Row(k)] = None
           ELSE work[u][Row(k)] = EndOf(pend[u][k], bal[Row(k)])
        /\ pend[u][k] \in Seq(Entry) /\ bal[Row(k)] \in Int
    BY DEF IInv, PendingChained, OnlyRow, TypeOK
  <2>2. CASE u = t /\ k = c
    <3>1. seen[t].val = EndOf(pend[u][k], bal[Row(k)])
      <4>1. CASE pend[u][k] = <<>>
        BY <1>11, <2>1, <2>2, <4>1, EmptyChain DEF Val
      <4>2. CASE pend[u][k] # <<>>
        <5>1. work[u][Row(k)] = EndOf(pend[u][k], bal[Row(k)])
          BY <2>1, <4>2
        <5>2. EndOf(pend[u][k], bal[Row(k)]) \in Int
          BY <2>1, EndOfInt
        <5> QED
          BY <1>11, <2>2, <5>1, <5>2 DEF Val
      <4> QED
        BY <4>1, <4>2
    <3>2. pend'[u][k] = Append(pend[u][k], e) /\ work'[u][Row(k)] = e.after
      BY <1>2, <1>3, <1>11, <2>2 DEF IInv, TypeOK
    <3>3. e \in Entry /\ e.before = EndOf(pend[u][k], bal[Row(k)])
      BY <1>2, <3>1
    <3>4. /\ ChainFrom(Append(pend[u][k], e), bal[Row(k)])
          /\ EndOf(Append(pend[u][k], e), bal[Row(k)]) = e.after
          /\ Append(pend[u][k], e) # <<>>
      BY <2>1, <3>3, ChainAppend
    <3> QED
      BY <3>2, <3>4
  <2>3. CASE ~(u = t /\ k = c)
    <3>1. pend'[u][k] = pend[u][k] /\ work'[u][Row(k)] = work[u][Row(k)]
      BY <1>3, <1>12, <2>3, RowIsRid DEF IInv, TypeOK, Row, Origins
    <3> QED
      BY <2>1, <3>1
  <2> QED
    BY <2>2, <2>3
<1>17. LedgerMatchesBalance'
  BY <1>3 DEF IInv, LedgerMatchesBalance, Chained, Closing
<1> QED
  BY <1>9, <1>10, <1>13, <1>14, <1>15, <1>16, <1>17 DEF IInv

\* A select that found nothing goes on to the fallback read or to the insert.
LEMMA UnlockedIInv ==
  ASSUME IInv, NEW t \in Tasks, NEW c \in {"plain", "insert"},
         Target(t) \notin Seeded, pc' = [pc EXCEPT ![t] = c],
         UNCHANGED <<req, ln, todo, seen, work, pend, mutex, holder, bal, ledger, crashes>>
  PROVE  IInv'
<1>1. TypeOK'
  BY DEF IInv, TypeOK, Lines, Final
<1>2. PrelockOver'
  BY DEF IInv, TypeOK, PrelockOver, Target, Cur, Lines
<1>3. UnlockedElsewhere'
  BY DEF IInv, TypeOK, UnlockedElsewhere, Target, Cur, Lines
<1>4. SeenIsCurrent'
  <2>1. /\ \A u \in Tasks : pc'[u] = "flush" => pc[u] = "flush"
        /\ \A u \in Tasks : Cur(u)' = Cur(u)
        /\ \A u, r : Val(u, r)' = Val(u, r)
    BY DEF IInv, TypeOK, Cur, Lines, Val
  <2> QED
    BY <2>1 DEF IInv, SeenIsCurrent
<1>5. OnlyRow' /\ WritersHold' /\ PendingChained' /\ LedgerMatchesBalance'
  BY DEF IInv, OnlyRow, WritersHold, PendingChained, LedgerMatchesBalance,
         Chained, Closing
<1> QED
  BY <1>1, <1>2, <1>3, <1>4, <1>5 DEF IInv

\* The transaction of one task ends without a trace.
LEMMA EndIInv ==
  ASSUME IInv, NEW t \in Tasks, Reset({t}), pc' = [pc EXCEPT ![t] = "failed"],
         UNCHANGED <<req, bal, ledger, crashes>>,
         mutex' \in [Procs -> Tasks \cup {None}], crashes' \in Nat
  PROVE  IInv'
<1>1. /\ pc' \in [Tasks -> {"idle", "select", "plain", "insert", "enter", "track",
                            "flush", "commit", "rollback"} \cup Final]
      /\ \A u \in Tasks \ {t} : pc'[u] = pc[u]
      /\ \A u \in {t} : pc'[u] \in Final
  BY DEF IInv, TypeOK, Final
<1>2. {t} \in SUBSET Tasks
  OBVIOUS
<1> QED
  BY <1>1, <1>2, ResetIInv

\* Every step keeps the invariant.
LEMMA NextIInv == IInv /\ [Next]_vars => IInv'
<1> SUFFICES ASSUME IInv, [Next]_vars PROVE IInv'
  OBVIOUS
<1>1. ASSUME NEW t \in Tasks, Step(t) PROVE IInv'
  <2>1. CASE Begin(t)
    BY <2>1, BeginIInv
  <2>2. CASE Replay(t)
    BY <2>2, QuietIInv DEF Replay, session, store, Final, IInv, TypeOK
  <2>3. CASE Enter(t)
    <3>1. todo[t] = {} /\ mutex' \in [Procs -> Tasks \cup {None}]
      BY <2>3 DEF Enter, IInv, TypeOK, PrelockOver
    <3> QED
      BY <2>3, <3>1, QuietIInv DEF Enter, session, store
  <2>4. CASE Reject(t)
    BY <2>4, FailIInv DEF Reject
  <2>5. CASE Track(t)
    <3>1. CASE Fail(t)
      BY <3>1, FailIInv
    <3>2. CASE ~Fail(t)
      <4>1. mutex' \in [Procs -> Tasks \cup {None}]
        BY <2>5, <3>2 DEF Track, IInv, TypeOK
      <4> QED
        BY <2>5, <3>2, <4>1, QuietIInv DEF Track, store
    <3> QED
      BY <3>1, <3>2
  <2>6. CASE SelectForUpdate(t)
    BY <2>6, SelectIInv
  <2>7. CASE SelectNothing(t)
    <3>1. Target(t) \notin Seeded
      <4>1. Visible(t, Target(t)) = {}
        BY <2>7 DEF SelectNothing
      <4>2. Target(t) \in Seeded => Visible(t, Target(t)) = {Row(Target(t))}
        BY VisibleSeeded
      <4> QED
        BY <4>1, <4>2, Zenon
    <3> QED
      BY <2>7, <3>1, UnlockedIInv DEF SelectNothing, session, store
  <2>8. CASE PlainRead(t)
    BY <2>8, PlainReadIInv
  <2>9. CASE PlainReadNothing(t)
    <3>1. Target(t) \notin Seeded
      BY <2>9 DEF PlainReadNothing, IInv, UnlockedElsewhere
    <3> QED
      BY <2>9, <3>1, UnlockedIInv DEF PlainReadNothing, session, store
  <2>10. CASE InsertRow(t)
    BY <2>10, InsertIInv
  <2>11. CASE RefuseNegative(t) \/ UniqueViolation(t)
    BY <2>11, FailIInv DEF RefuseNegative, UniqueViolation
  <2>12. CASE FlushLine(t)
    BY <2>12, FlushIInv
  <2>13. CASE Commit(t)
    BY <2>13, CommitIInv
  <2>14. CASE Rollback(t)
    <3>1. /\ Reset({t}) /\ UNCHANGED <<req, bal, ledger, crashes>>
          /\ mutex' \in [Procs -> Tasks \cup {None}] /\ crashes' \in Nat
          /\ pc' = [pc EXCEPT ![t] = "failed"]
      BY <2>14 DEF Rollback, store, IInv, TypeOK
    <3> QED
      BY <3>1, EndIInv
  <2>15. CASE DeadlockAbort(t)
    <3>1. /\ Reset({t}) /\ UNCHANGED <<req, bal, ledger, crashes>>
          /\ mutex' \in [Procs -> Tasks \cup {None}] /\ crashes' \in Nat
          /\ pc' = [pc EXCEPT ![t] = "failed"]
      BY <2>15, ReleaseType DEF DeadlockAbort, store, IInv, TypeOK
    <3> QED
      BY <3>1, EndIInv
  <2> QED
    BY <1>1, <2>1, <2>2, <2>3, <2>4, <2>5, <2>6, <2>7, <2>8, <2>9, <2>10,
       <2>11, <2>12, <2>13, <2>14, <2>15 DEF Step
<1>2. ASSUME NEW p \in Procs, Crash(p) PROVE IInv'
  <2> DEFINE T == {t \in Tasks : ProcOf[t] = p /\ pc[t] \notin Final \cup {"idle"}}
  <2>1. /\ Reset(T) /\ UNCHANGED <<req, bal, ledger>>
        /\ mutex' \in [Procs -> Tasks \cup {None}] /\ crashes' \in Nat
        /\ pc' = [t \in Tasks |-> IF t \in T THEN "failed" ELSE pc[t]]
    BY <1>2 DEF Crash, store, IInv, TypeOK
  <2>2. T \in SUBSET Tasks
    OBVIOUS
  <2> HIDE DEF T
  <2>3. /\ pc' \in [Tasks -> {"idle", "select", "plain", "insert", "enter", "track",
                              "flush", "commit", "rollback"} \cup Final]
        /\ \A u \in Tasks \ T : pc'[u] = pc[u]
        /\ \A u \in T : pc'[u] \in Final
    BY <2>1, <2>2 DEF IInv, TypeOK, Final
  <2> QED
    BY <2>1, <2>2, <2>3, ResetIInv
<1>3. CASE Terminated \/ UNCHANGED vars
  <2>1. UNCHANGED <<req, pc, ln, todo, seen, work, pend, mutex, holder, bal, ledger, crashes>>
    BY <1>3 DEF Terminated, vars, session, store
  <2>2. TypeOK'
    BY <2>1 DEF IInv, TypeOK, Lines
  <2>3. /\ \A t \in Tasks : Lines(t)' = Lines(t) /\ Cur(t)' = Cur(t) /\ Target(t)' = Target(t)
        /\ \A t, r : Val(t, r)' = Val(t, r)
    BY <2>1 DEF Lines, Cur, Target, Val
  <2>4. PrelockOver' /\ OnlyRow' /\ WritersHold'
    BY <2>1 DEF IInv, PrelockOver, OnlyRow, WritersHold
  <2>5. UnlockedElsewhere'
    BY <2>1, <2>3 DEF IInv, UnlockedElsewhere
  <2>6. SeenIsCurrent'
    BY <2>1, <2>3 DEF IInv, SeenIsCurrent
  <2>7. PendingChained' /\ LedgerMatchesBalance'
    BY <2>1 DEF IInv, PendingChained, LedgerMatchesBalance, Chained, Closing
  <2> QED
    BY <2>2, <2>4, <2>5, <2>6, <2>7 DEF IInv
<1> QED
  BY <1>1, <1>2, <1>3 DEF Next

\* Every variable keeps its type, whatever the requests and the schedule.
THEOREM TypeCorrect == Spec => []TypeOK
<1>1. IInv => TypeOK
  BY DEF IInv
<1> QED
  BY InitIInv, NextIInv, <1>1, PTL DEF Spec

\* The balance row and the ledger of a key agree at every moment: no schedule
\* of movements, documents and transfers, no failure, crash or deadlock loses
\* or doubles an update of a row that exists.
THEOREM BalanceCorrect == Spec => []LedgerMatchesBalance
<1>1. IInv => LedgerMatchesBalance
  BY DEF IInv
<1> QED
  BY InitIInv, NextIInv, <1>1, PTL DEF Spec

-----------------------------------------------------------------------------
(* Stock is never oversold: what an entry says, and that it was allowed. *)

HIDE StockAssumption

\* An entry of account k says what its movement did, and the policy of k allowed it.
Fits(k, e) ==
  /\ e.after = e.before + Delta(e)
  /\ k \in AllowNeg \/ e.after >= 0

\* Every entry written, committed or not, fits.
EntriesFit ==
  \A k \in Keys :
    /\ \A i \in DOMAIN ledger[k] : Fits(k, ledger[k][i])
    /\ \A t \in Tasks : \A i \in DOMAIN pend[t][k] : Fits(k, pend[t][k][i])

\* A new entry fits: RefuseNegative has sent every other one back.
LEMMA NewEntryFits ==
  ASSUME IInv, NEW t \in Tasks, FlushLine(t)
  PROVE  Fits(Cur(t).key, NewEntry(t))
<1>1. pc[t] = "flush" /\ ~Short(t)
  BY DEF FlushLine
<1>2. /\ After(t) \in Int /\ NewEntry(t).before = seen[t].val /\ NewEntry(t).after = After(t)
  BY <1>1, NewEntryType
<1>3. Delta(NewEntry(t)) = Delta(Cur(t))
  BY DEF NewEntry, Delta
<1>4. Cur(t).key \in AllowNeg \/ After(t) >= 0
  BY <1>1, <1>2 DEF Short
<1> QED
  BY <1>2, <1>3, <1>4 DEF Fits, After

\* How many lines of its request a task has flushed.
Done(t) == IF pc[t] = "commit" THEN Len(Lines(t)) ELSE ln[t] - 1

\* A commit moves the entries of its task to the ledger.
Moves(t) ==
  /\ ledger' = [k \in Keys |-> ledger[k] \o pend[t][k]]
  /\ pend'[t] = NoEntries /\ Done(t)' = 0
  /\ \A u \in Tasks \ {t} : pend'[u] = pend[u] /\ Done(u)' = Done(u)

\* The end of a transaction forgets the entries of its task.
Forgets(t) == pend'[t] = NoEntries /\ Done(t)' = 0

\* A flush appends one entry, a commit moves those of its task, and no other
\* step writes an entry.
LEMMA EntriesMove ==
  ASSUME IInv, [Next]_vars
  PROVE  /\ req' = req
         /\ \/ \E t \in Tasks : FlushLine(t) \/ (Commit(t) /\ Moves(t))
            \/ /\ ledger' = ledger
               /\ \A u \in Tasks : Forgets(u) \/ (pend'[u] = pend[u] /\ Done(u)' = Done(u))
<1> DEFINE Kept(u) == pend'[u] = pend[u] /\ Done(u)' = Done(u)
           Goal == /\ req' = req
                   /\ \/ \E t \in Tasks : FlushLine(t) \/ (Commit(t) /\ Moves(t))
                      \/ ledger' = ledger /\ \A u \in Tasks : Forgets(u) \/ Kept(u)
<1>1. ASSUME NEW T \in SUBSET Tasks, Reset(T), req' = req,
             \A u \in T : pc'[u] \in Final, \A u \in Tasks \ T : pc'[u] = pc[u]
      PROVE  /\ \A u \in T : Forgets(u)
             /\ \A u \in Tasks \ T : Kept(u)
  BY <1>1 DEF Reset, Forgets, Done, Lines, Final
<1>2. ASSUME NEW t \in Tasks, pend' = pend, ledger' = ledger, ln' = ln, req' = req,
             pc[t] # "commit", pc'[t] # "commit", \A u \in Tasks \ {t} : pc'[u] = pc[u]
      PROVE  Goal
  <2>1. ASSUME NEW u \in Tasks PROVE Kept(u)
    BY <1>2 DEF Done, Lines
  <2> QED
    BY <1>2, <2>1
<1>3. ASSUME NEW t \in Tasks, Step(t), ~FlushLine(t), ~Commit(t)
      PROVE  Goal
  <2>1. CASE Rollback(t) \/ DeadlockAbort(t)
    <3>1. /\ {t} \in SUBSET Tasks /\ Reset({t}) /\ ledger' = ledger /\ req' = req
          /\ \A u \in {t} : pc'[u] \in Final
          /\ \A u \in Tasks \ {t} : pc'[u] = pc[u]
      BY <2>1 DEF Rollback, DeadlockAbort, store, Final, IInv, TypeOK
    <3>2. \A u \in Tasks : Forgets(u) \/ Kept(u)
      BY <3>1, <1>1
    <3> QED
      BY <3>1, <3>2
  <2>2. CASE ~ (Rollback(t) \/ DeadlockAbort(t))
    <3> DEFINE Quiet == /\ UNCHANGED <<pend, ledger, ln, req>> /\ pc[t] # "commit"
                        /\ \E c \in {"select", "plain", "insert", "enter", "track", "flush",
                                     "rollback", "replayed"} : pc' = [pc EXCEPT ![t] = c]
    <3>1. ASSUME Fail(t), pc[t] \in {"track", "flush", "insert"} PROVE Quiet
      BY <3>1 DEF Fail, session, store
    <3>2. ASSUME NEW r, NEW v, Got(t, r, v), pc[t] \in {"select", "plain", "insert"} PROVE Quiet
      BY <3>2 DEF Got, store
    <3>3. Quiet
      <4>1. CASE Begin(t) \/ Replay(t) \/ Enter(t)
        BY <4>1 DEF Begin, Replay, Enter, session, store
      <4>2. CASE Reject(t) \/ RefuseNegative(t) \/ UniqueViolation(t)
        BY <4>2, <3>1 DEF Reject, RefuseNegative, UniqueViolation
      <4>3. CASE Track(t)
        BY <4>3, <3>1 DEF Track, store
      <4>4. CASE SelectForUpdate(t) \/ PlainRead(t) \/ InsertRow(t)
        BY <4>4, <3>2 DEF SelectForUpdate, PlainRead, InsertRow
      <4>5. CASE SelectNothing(t) \/ PlainReadNothing(t)
        BY <4>5 DEF SelectNothing, PlainReadNothing, session, store
      <4> QED
        BY <1>3, <2>2, <4>1, <4>2, <4>3, <4>4, <4>5 DEF Step
    <3>4. pc'[t] # "commit" /\ \A u \in Tasks \ {t} : pc'[u] = pc[u]
      BY <3>3 DEF IInv, TypeOK
    <3> QED
      BY <3>3, <3>4, <1>2
  <2> QED
    BY <2>1, <2>2
<1>4. ASSUME NEW t \in Tasks, Commit(t)
      PROVE  Goal
  <2>1. /\ {t} \in SUBSET Tasks /\ Reset({t}) /\ req' = req
        /\ \A u \in {t} : pc'[u] \in Final
        /\ \A u \in Tasks \ {t} : pc'[u] = pc[u]
    BY <1>4 DEF Commit, Final, IInv, TypeOK
  <2>2. Forgets(t) /\ \A u \in Tasks \ {t} : Kept(u)
    BY <2>1, <1>1
  <2>3. Moves(t)
    BY <1>4, <2>2 DEF Commit, Moves, Forgets
  <2> QED
    BY <1>4, <2>1, <2>3
<1>5. ASSUME NEW p \in Procs, Crash(p)
      PROVE  Goal
  <2> DEFINE T == {t \in Tasks : ProcOf[t] = p /\ pc[t] \notin Final \cup {"idle"}}
  <2>1. /\ Reset(T) /\ ledger' = ledger /\ req' = req
        /\ pc' = [t \in Tasks |-> IF t \in T THEN "failed" ELSE pc[t]]
    BY <1>5 DEF Crash, store
  <2>2. T \in SUBSET Tasks
    OBVIOUS
  <2> HIDE DEF T
  <2>3. /\ \A u \in T : pc'[u] \in Final
        /\ \A u \in Tasks \ T : pc'[u] = pc[u]
    BY <2>1, <2>2 DEF Final
  <2>4. \A u \in Tasks : Forgets(u) \/ Kept(u)
    BY <2>1, <2>2, <2>3, <1>1
  <2> QED
    BY <2>1, <2>4
<1>6. CASE Terminated \/ UNCHANGED vars
  <2>1. UNCHANGED <<pend, ledger, ln, req, pc>>
    BY <1>6 DEF Terminated, vars, session, store
  <2>2. \A u \in Tasks : Kept(u)
    BY <2>1 DEF Done, Lines
  <2> QED
    BY <2>1, <2>2
<1>7. ASSUME NEW t \in Tasks, FlushLine(t)
      PROVE  Goal
  <2>1. req' = req
    BY <1>7 DEF FlushLine
  <2> QED
    BY <1>7, <2>1
<1>8. Goal
  BY <1>3, <1>4, <1>5, <1>6, <1>7 DEF Next
<1> QED
  BY <1>8

\* The uncommitted entries a flush leaves.
LEMMA FlushAppends ==
  ASSUME IInv, NEW t \in Tasks, FlushLine(t), NEW u \in Tasks, NEW k \in Keys
  PROVE  /\ ledger'[k] = ledger[k]
         /\ pend'[u][k] = IF u = t /\ k = Cur(t).key THEN Append(pend[u][k], NewEntry(t))
                          ELSE pend[u][k]
<1>1. /\ pend' = [pend EXCEPT ![t] = [pend[t] EXCEPT ![Cur(t).key] =
                   Append(pend[t][Cur(t).key], NewEntry(t))]]
      /\ ledger' = ledger /\ pc[t] = "flush"
  BY DEF FlushLine, store, IInv, TypeOK
<1>2. Cur(t).key \in Keys
  BY <1>1, NewEntryType
<1>3. pend \in [Tasks -> [Keys -> Seq(Entry)]]
  BY DEF IInv, TypeOK
<1> QED
  BY <1>1, <1>2, <1>3

\* Ledgers and uncommitted entries are sequences of entries.
LEMMA EntryTypes ==
  ASSUME TypeOK, NEW k \in Keys
  PROVE  /\ ledger[k] \in Seq(Entry) /\ InitQty[k] \in Int
         /\ \A t \in Tasks : pend[t][k] \in Seq(Entry)
BY StockAssumption DEF TypeOK

\* Every step writes entries that fit, or moves them to the ledger.
LEMMA EntriesFitStep ==
  ASSUME IInv, EntriesFit, [Next]_vars
  PROVE  EntriesFit'
<1> SUFFICES ASSUME NEW k \in Keys
             PROVE  /\ \A i \in DOMAIN ledger'[k] : Fits(k, ledger'[k][i])
                    /\ \A u \in Tasks : \A i \in DOMAIN pend'[u][k] : Fits(k, pend'[u][k][i])
  BY DEF EntriesFit, Fits, Delta
<1>0. /\ \A i \in DOMAIN ledger[k] : Fits(k, ledger[k][i])
      /\ \A u \in Tasks : \A i \in DOMAIN pend[u][k] : Fits(k, pend[u][k][i])
      /\ ledger[k] \in Seq(Entry) /\ \A u \in Tasks : pend[u][k] \in Seq(Entry)
  BY DEF EntriesFit, IInv, TypeOK
<1>1. ASSUME NEW t \in Tasks, FlushLine(t)
      PROVE  /\ \A i \in DOMAIN ledger'[k] : Fits(k, ledger'[k][i])
             /\ \A u \in Tasks : \A i \in DOMAIN pend'[u][k] : Fits(k, pend'[u][k][i])
  <2>1. ledger'[k] = ledger[k]
    BY <1>1, FlushAppends
  <2>2. ASSUME NEW u \in Tasks, NEW i \in DOMAIN pend'[u][k]
        PROVE  Fits(k, pend'[u][k][i])
    <3>1. CASE u = t /\ k = Cur(t).key
      <4> DEFINE e == NewEntry(t)
      <4>1. pend'[u][k] = Append(pend[u][k], e) /\ Fits(k, e)
        BY <1>1, <3>1, FlushAppends, NewEntryFits
      <4> HIDE DEF e
      <4>2. i \in 1 .. Len(pend[u][k]) + 1
        BY <1>0, <2>2, <4>1
      <4>3. pend'[u][k][i] = IF i = Len(pend[u][k]) + 1 THEN e ELSE pend[u][k][i]
        BY <1>0, <4>1, <4>2
      <4>4. i = Len(pend[u][k]) + 1 \/ i \in DOMAIN pend[u][k]
        BY <1>0, <4>2
      <4> QED
        BY <1>0, <4>1, <4>3, <4>4
    <3>2. CASE ~ (u = t /\ k = Cur(t).key)
      BY <1>0, <1>1, <2>2, <3>2, FlushAppends
    <3> QED
      BY <3>1, <3>2
  <2> QED
    BY <1>0, <2>1, <2>2
<1>2. ASSUME NEW t \in Tasks, Moves(t)
      PROVE  /\ \A i \in DOMAIN ledger'[k] : Fits(k, ledger'[k][i])
             /\ \A u \in Tasks : \A i \in DOMAIN pend'[u][k] : Fits(k, pend'[u][k][i])
  <2> DEFINE m == Len(ledger[k])
  <2>1. ledger'[k] = ledger[k] \o pend[t][k]
    BY <1>2 DEF Moves
  <2>2. ASSUME NEW i \in DOMAIN ledger'[k]
        PROVE  Fits(k, ledger'[k][i])
    <3>1. CASE i \in DOMAIN ledger[k]
      <4>1. ledger'[k][i] = ledger[k][i]
        BY <1>0, <2>1, <3>1
      <4> QED
        BY <1>0, <3>1, <4>1
    <3>2. CASE i \notin DOMAIN ledger[k]
      <4> DEFINE old == ledger[k]  new == pend[t][k]
      <4>1. old \in Seq(Entry) /\ new \in Seq(Entry) /\ ledger'[k] = old \o new /\ m = Len(old)
        BY <1>0, <2>1
      <4>2. i \in DOMAIN (old \o new) /\ i \notin DOMAIN old
        BY <2>2, <3>2, <4>1
      <4> HIDE DEF old, new, m
      <4>3. i - m \in DOMAIN new /\ (old \o new)[i] = new[i - m]
        BY <4>1, <4>2
      <4>4. i - m \in DOMAIN pend[t][k] /\ ledger'[k][i] = pend[t][k][i - m]
        BY <4>1, <4>3 DEF new
      <4> QED
        BY <1>0, <4>4
    <3> QED
      BY <3>1, <3>2
  <2>3. ASSUME NEW u \in Tasks, NEW i \in DOMAIN pend'[u][k]
        PROVE  Fits(k, pend'[u][k][i])
    <3>1. pend'[u][k] = IF u = t THEN <<>> ELSE pend[u][k]
      BY <1>2 DEF Moves, NoEntries
    <3> QED
      BY <1>0, <2>3, <3>1
  <2> QED
    BY <2>2, <2>3
<1>3. CASE /\ ledger' = ledger
           /\ \A u \in Tasks : Forgets(u) \/ (pend'[u] = pend[u] /\ Done(u)' = Done(u))
  <2>1. \A u \in Tasks : pend'[u][k] \in {pend[u][k], <<>>}
    BY <1>3 DEF Forgets, NoEntries
  <2> QED
    BY <1>0, <1>3, <2>1
<1> QED
  BY <1>1, <1>2, <1>3, EntriesMove

\* There are no entries at first.
LEMMA EntriesFitInit == Init => EntriesFit
BY DEF Init, EntriesFit, NoEntries

\* The quantities booked on a chain of fitting entries add up to its end.
LEMMA BookedAddsUp ==
  ASSUME NEW k \in Keys, NEW s \in Seq(Entry), NEW q \in Int, ChainFrom(s, q),
         \A i \in DOMAIN s : Fits(k, s[i])
  PROVE  SumOver([i \in DOMAIN s |-> Delta(s[i])], DOMAIN s) = EndOf(s, q) - q
<1> DEFINE n == Len(s)
           f == [i \in DOMAIN s |-> Delta(s[i])]
           g == [i \in 0 .. n |-> IF i = 0 THEN q ELSE s[i].after]
<1>1. n \in Nat /\ DOMAIN s = 1 .. n /\ \A i \in 1 .. n : s[i] \in Entry
  OBVIOUS
<1>2. \A i \in 1 .. n : s[i].after \in Int /\ s[i].before \in Int /\ Delta(s[i]) \in Int
  BY <1>1 DEF Entry, Delta
<1>3. \A i \in 0 .. n : g[i] \in Int
  BY <1>1, <1>2
<1>4. ASSUME NEW i \in 1 .. n PROVE f[i] = g[i] - g[i - 1]
  <2>1. s[i].after = s[i].before + Delta(s[i])
    BY <1>1 DEF Fits
  <2>2. i \in 0 .. n /\ i - 1 \in 0 .. n /\ i # 0 /\ f[i] = Delta(s[i]) /\ g[i] = s[i].after
    BY <1>1
  <2>3. g[i - 1] = s[i].before
    BY <1>1, <2>2 DEF ChainFrom
  <2> QED
    BY <1>2, <2>1, <2>2, <2>3
<1>5. g[n] = EndOf(s, q) /\ g[0] = q
  BY <1>1 DEF EndOf
<1> HIDE DEF n, f, g
<1>6. SumOver(f, 1 .. n) = g[n] - g[0]
  BY <1>1, <1>3, <1>4, SumTelescope
<1> QED
  BY <1>1, <1>5, <1>6 DEF f

\* Stock never goes below zero where the policy forbids it: the quantities booked
\* on an account add up to its last entry, which RefuseNegative let pass.
LEMMA NeverOversold ==
  ASSUME IInv, EntriesFit
  PROVE  StockNeverOversold
<1> SUFFICES ASSUME NEW k \in Seeded \ AllowNeg, InitQty[k] >= 0
             PROVE  InitQty[k] + SumOver([i \in DOMAIN ledger[k] |-> Delta(ledger[k][i])],
                                         DOMAIN ledger[k]) >= 0
  BY DEF StockNeverOversold, SumOver
<1>0. k \in Keys /\ k \in Seeded /\ k \notin AllowNeg
  BY StockAssumption
<1> DEFINE s == ledger[k]  q == InitQty[k]
           sum == SumOver([i \in DOMAIN s |-> Delta(s[i])], DOMAIN s)
<1>1. s \in Seq(Entry) /\ q \in Int /\ ChainFrom(s, q)
  <2>1. ledger[k] \in Seq(Entry) /\ InitQty[k] \in Int
    BY <1>0, EntryTypes DEF IInv
  <2>2. Chained(k)
    BY <1>0 DEF IInv, LedgerMatchesBalance
  <2> QED
    BY <2>1, <2>2 DEF Chained
<1>2. \A i \in DOMAIN s : Fits(k, s[i])
  BY <1>0 DEF EntriesFit
<1>3. EndOf(s, q) >= 0
  <2>1. CASE s = <<>>
    BY <2>1 DEF EndOf
  <2>2. CASE s # <<>>
    <3>1. Len(s) \in DOMAIN s
      BY <1>1, <2>2
    <3> QED
      BY <1>0, <1>2, <2>2, <3>1 DEF EndOf, Fits
  <2> QED
    BY <2>1, <2>2
<1>4. EndOf(s, q) \in Int
  BY <1>1, EndOfInt
<1> HIDE DEF s, q, sum
<1>5. sum = EndOf(s, q) - q
  BY <1>0, <1>1, <1>2, BookedAddsUp DEF sum
<1>6. q + sum >= 0
  BY <1>1, <1>3, <1>4, <1>5
<1> QED
  BY <1>6 DEF sum, q, s

\* What was booked on a key never takes it below zero where the policy forbids
\* negative stock (_execute_movement_tx).
THEOREM NotOversold == Spec => []StockNeverOversold
<1>1. IInv /\ EntriesFit /\ [Next]_vars => (IInv /\ EntriesFit)'
  BY NextIInv, EntriesFitStep
<1>2. Init => IInv /\ EntriesFit
  BY InitIInv, EntriesFitInit
<1>3. IInv /\ EntriesFit => StockNeverOversold
  BY NeverOversold
<1> QED
  BY <1>1, <1>2, <1>3, PTL DEF Spec

-----------------------------------------------------------------------------
(* The entries a task has written are those of the lines it has flushed. *)

\* The first n lines that concern account k, and the place of line i among the
\* lines of its account.
Part(s, k, n) == {i \in 1 .. n : s[i].key = k}
Nth(s, i)     == Cardinality(Part(s, s[i].key, i))

\* Entry e of task t is what line l asked for.
Records(e, l, t) ==
  /\ e.by = t /\ e.dir = l.dir /\ e.qty = l.qty /\ e.idem = l.idem
  /\ e.batch = l.batch /\ e.serials = l.serials

LinesWritten ==
  \A t \in Tasks : \A k \in Keys :
    /\ Len(pend[t][k]) = Cardinality(Part(Lines(t), k, Done(t)))
    /\ \A i \in Part(Lines(t), k, Done(t)) :
         Records(pend[t][k][Nth(Lines(t), i)], Lines(t)[i], t)

\* A part of no lines is empty.
LEMMA PartNone ==
  ASSUME NEW s, NEW k
  PROVE  Part(s, k, 0) = {} /\ Cardinality(Part(s, k, 0)) = 0
<1>1. Part(s, k, 0) = {}
  BY DEF Part
<1> QED
  BY <1>1, FS_EmptySet

\* The lines of a request on one key are finitely many.
LEMMA PartFinite ==
  ASSUME NEW s, NEW k, NEW n \in Nat
  PROVE  IsFiniteSet(Part(s, k, n)) /\ Cardinality(Part(s, k, n)) \in Nat
<1> DEFINE P == Part(s, k, n)  I == 1 .. n
<1>1. P \subseteq I
  BY DEF Part
<1>2. IsFiniteSet(I)
  BY FS_Interval
<1> HIDE DEF P, I
<1>3. IsFiniteSet(P)
  BY <1>1, <1>2, FS_Subset
<1>4. Cardinality(P) \in Nat
  BY <1>3, FS_CardinalityType
<1> QED
  BY <1>3, <1>4 DEF P

\* One line more belongs to its own account only.
LEMMA PartNext ==
  ASSUME NEW s, NEW k, NEW n \in Nat \ {0}
  PROVE  IF s[n].key = k
         THEN /\ Part(s, k, n) = Part(s, k, n - 1) \cup {n}
              /\ Cardinality(Part(s, k, n)) = Cardinality(Part(s, k, n - 1)) + 1
         ELSE Part(s, k, n) = Part(s, k, n - 1)
<1> DEFINE P == Part(s, k, n - 1)
<1>1. CASE s[n].key = k
  <2>1. Part(s, k, n) = P \cup {n} /\ n \notin P
    BY <1>1 DEF Part
  <2>2. IsFiniteSet(P)
    BY PartFinite
  <2> HIDE DEF P
  <2>3. Cardinality(P \cup {n}) = Cardinality(P) + 1
    BY <2>1, <2>2, FS_AddElement
  <2> QED
    BY <1>1, <2>1, <2>3 DEF P
<1>2. CASE s[n].key # k
  BY <1>2 DEF Part
<1> QED
  BY <1>1, <1>2

\* The place of a line is among the lines counted so far.
LEMMA NthBounds ==
  ASSUME NEW s, NEW k, NEW n \in Nat, NEW i \in Part(s, k, n)
  PROVE  /\ s[i].key = k /\ i \in 1 .. n
         /\ Nth(s, i) \in 1 .. Cardinality(Part(s, k, n))
<1> DEFINE A == Part(s, k, i)  B == Part(s, k, n)
<1>1. s[i].key = k /\ i \in 1 .. n
  BY DEF Part
<1>2. A \subseteq B /\ i \in A
  BY <1>1 DEF Part
<1>3. IsFiniteSet(A) /\ IsFiniteSet(B) /\ Cardinality(A) \in Nat /\ Cardinality(B) \in Nat
  BY <1>1, PartFinite
<1>4. Nth(s, i) = Cardinality(A)
  BY <1>1 DEF Nth
<1> HIDE DEF A, B
<1>5. Cardinality(A) <= Cardinality(B)
  BY <1>2, <1>3, FS_Subset
<1>6. Cardinality(A) # 0
  BY <1>2, <1>3, FS_EmptySet
<1> QED
  BY <1>1, <1>3, <1>4, <1>5, <1>6 DEF B

\* At first no line is done and nothing is written.
LEMMA LinesWrittenInit == Init => LinesWritten
<1> SUFFICES ASSUME Init, NEW t \in Tasks, NEW k \in Keys
             PROVE  /\ Len(pend[t][k]) = Cardinality(Part(Lines(t), k, Done(t)))
                    /\ \A i \in Part(Lines(t), k, Done(t)) :
                         Records(pend[t][k][Nth(Lines(t), i)], Lines(t)[i], t)
  BY DEF LinesWritten
<1>1. Done(t) = 0 /\ pend[t][k] = <<>>
  BY DEF Init, Done, NoEntries
<1> QED
  BY <1>1, PartNone

\* The lines a task has flushed are lines of its request.
LEMMA DoneType ==
  ASSUME TypeOK, NEW t \in Tasks
  PROVE  Done(t) \in 0 .. Len(Lines(t)) /\ Lines(t) \in Seq(Line)
<1>1. Lines(t) \in Seq(Line) /\ ln[t] \in DOMAIN Lines(t)
  BY StockAssumption DEF TypeOK, Lines
<1> QED
  BY <1>1 DEF Done

\* What a flush adds to the lines done.
LEMMA FlushDone ==
  ASSUME IInv, NEW t \in Tasks, FlushLine(t)
  PROVE  /\ ln[t] \in 1 .. Len(Lines(t)) /\ Cur(t) = Lines(t)[ln[t]]
         /\ Done(t) = ln[t] - 1 /\ Done(t)' = ln[t]
         /\ \A u \in Tasks \ {t} : Done(u)' = Done(u)
         /\ req' = req
<1>1. pc[t] = "flush" /\ req' = req
  BY DEF FlushLine
<1>2. Lines(t) \in Seq(Line) /\ ln[t] \in DOMAIN Lines(t)
  BY StockAssumption DEF IInv, TypeOK, Lines
<1>3. \A u \in Tasks \ {t} : pc'[u] = pc[u] /\ ln'[u] = ln[u]
  BY DEF FlushLine, IInv, TypeOK
<1>4. Done(t)' = ln[t]
  <2>1. CASE LastLine(t)
    <3>1. pc'[t] = "commit" /\ ln[t] = Len(Lines(t))
      BY <2>1 DEF FlushLine, IInv, TypeOK, LastLine
    <3> QED
      BY <1>1, <3>1 DEF Done, Lines
  <2>2. CASE ~LastLine(t)
    <3>1. pc'[t] = "enter" /\ ln'[t] = ln[t] + 1
      BY <2>2 DEF FlushLine, IInv, TypeOK
    <3> QED
      BY <1>2, <3>1 DEF Done
  <2> QED
    BY <2>1, <2>2
<1> QED
  BY <1>1, <1>2, <1>3, <1>4 DEF Done, Cur, Lines

\* Every step that goes on to the next line has written the entry of the last one.
LEMMA LinesWrittenStep ==
  ASSUME IInv, LinesWritten, [Next]_vars
  PROVE  LinesWritten'
<1> DEFINE Written(p, s, n, u, k) ==
             /\ Len(p) = Cardinality(Part(s, k, n))
             /\ \A i \in Part(s, k, n) : Records(p[Nth(s, i)], s[i], u)
<1>0. ASSUME NEW u \in Tasks, NEW k \in Keys
      PROVE  Written(pend[u][k], Lines(u), Done(u), u, k)
  BY DEF LinesWritten
<1>1. \A u \in Tasks : Lines(u)' = Lines(u)
  BY EntriesMove DEF Lines
<1>2. ASSUME NEW u \in Tasks, NEW k \in Keys
      PROVE  Written(pend'[u][k], Lines(u), Done(u)', u, k)
  <2>1. ASSUME pend'[u] = NoEntries, Done(u)' = 0
        PROVE  Written(pend'[u][k], Lines(u), Done(u)', u, k)
    <3>1. pend'[u][k] = <<>>
      BY <2>1 DEF NoEntries
    <3> QED
      BY <2>1, <3>1, PartNone
  <2>2. ASSUME pend'[u] = pend[u], Done(u)' = Done(u)
        PROVE  Written(pend'[u][k], Lines(u), Done(u)', u, k)
    BY <1>0, <2>2
  <2>3. ASSUME NEW t \in Tasks, FlushLine(t)
        PROVE  Written(pend'[u][k], Lines(u), Done(u)', u, k)
    <3>1. CASE u # t
      <4>1. pend'[u][k] = pend[u][k] /\ Done(u)' = Done(u)
        BY <2>3, <3>1, FlushAppends, FlushDone
      <4> QED
        BY <1>0, <4>1
    <3>2. CASE u = t
      <4> DEFINE s == Lines(t)  n == ln[t]  c == Cur(t).key  e == NewEntry(t)  p == pend[t][k]
      <4>1. /\ n \in 1 .. Len(s) /\ Cur(t) = s[n] /\ Done(t) = n - 1 /\ Done(t)' = n
            /\ n \in Nat \ {0} /\ n - 1 \in Nat
        <5>1. Len(s) \in Nat
          BY DoneType DEF IInv
        <5> QED
          BY <2>3, <5>1, FlushDone
      <4>2. pend'[t][k] = IF k = c THEN Append(p, e) ELSE p
        BY <2>3, FlushAppends
      <4>3. Written(p, s, n - 1, t, k) /\ p \in Seq(Entry)
        BY <1>0, <4>1, EntryTypes DEF IInv
      <4>4. Records(e, s[n], t)
        BY <4>1 DEF Records, NewEntry
      <4> HIDE DEF s, n, c, e, p
      <4>5. CASE k # c
        <5>1. Part(s, k, n) = Part(s, k, n - 1)
          <6>1. s[n].key # k
            BY <4>1, <4>5 DEF c
          <6> QED
            BY <4>1, <6>1, PartNext
        <5> QED
          BY <3>2, <4>1, <4>2, <4>3, <4>5, <5>1 DEF s, p
      <4>6. CASE k = c
        <5> DEFINE q == Append(p, e)
        <5>1. /\ Part(s, k, n) = Part(s, k, n - 1) \cup {n}
              /\ Cardinality(Part(s, k, n)) = Len(p) + 1
          BY <4>1, <4>3, <4>6, PartNext DEF c
        <5>2. Nth(s, n) = Len(p) + 1
          BY <4>1, <4>6, <5>1 DEF Nth, c
        <5>3. Len(q) = Len(p) + 1 /\ q[Len(p) + 1] = e /\ \A j \in 1 .. Len(p) : q[j] = p[j]
          BY <4>3
        <5> HIDE DEF q
        <5>4. ASSUME NEW i \in Part(s, k, n - 1) PROVE Records(q[Nth(s, i)], s[i], t)
          <6>1. Nth(s, i) \in 1 .. Len(p)
            BY <4>1, <4>3, NthBounds
          <6> QED
            BY <4>3, <5>3, <6>1
        <5>5. Written(q, s, n, t, k)
          BY <4>4, <5>1, <5>2, <5>3, <5>4
        <5> QED
          BY <3>2, <4>1, <4>2, <4>6, <5>5 DEF q, s
      <4> QED
        BY <4>5, <4>6
    <3> QED
      BY <3>1, <3>2
  <2>4. ASSUME NEW t \in Tasks, Moves(t)
        PROVE  Written(pend'[u][k], Lines(u), Done(u)', u, k)
    BY <2>1, <2>2, <2>4 DEF Moves
  <2>5. CASE \A v \in Tasks : Forgets(v) \/ (pend'[v] = pend[v] /\ Done(v)' = Done(v))
    BY <2>1, <2>2, <2>5 DEF Forgets
  <2> QED
    BY <2>3, <2>4, <2>5, EntriesMove
<1> QED
  BY <1>1, <1>2 DEF LinesWritten

-----------------------------------------------------------------------------
(* Idempotency keys of uncommitted entries. *)

\* An idempotency key a task has written and not committed is in no committed
\* entry and in no entry of another task: the unique index on it makes every
\* rival wait, and refuses it once the first has committed.
KeysFresh ==
  \A t \in Tasks : \A e \in Uncommitted(t) : e.idem # None =>
    /\ \A f \in Committed : f.idem # e.idem
    /\ \A u \in Tasks : u # t => \A f \in Uncommitted(u) : f.idem # e.idem

\* The elements of a longer sequence.
LEMMA RangeAppend ==
  ASSUME NEW p \in Seq(Entry), NEW e \in Entry
  PROVE  Range(Append(p, e)) = Range(p) \cup {e}
<1> DEFINE q == Append(p, e)
<1>1. /\ DOMAIN q = 1 .. Len(p) + 1 /\ DOMAIN p = 1 .. Len(p) /\ Len(p) \in Nat
      /\ q[Len(p) + 1] = e /\ \A i \in 1 .. Len(p) : q[i] = p[i]
  OBVIOUS
<1> HIDE DEF q
<1>2. ASSUME NEW x \in Range(q) PROVE x \in Range(p) \cup {e}
  <2>1. PICK i \in DOMAIN q : x = q[i]
    BY DEF Range
  <2> QED
    BY <1>1, <2>1 DEF Range
<1>3. ASSUME NEW x \in Range(p) \cup {e} PROVE x \in Range(q)
  <2>1. \A i \in 1 .. Len(p) : i \in 1 .. Len(p) + 1
    BY <1>1
  <2>2. Len(p) + 1 \in DOMAIN q
    BY <1>1
  <2> QED
    BY <1>1, <1>3, <2>1, <2>2 DEF Range
<1> QED
  BY <1>2, <1>3 DEF q

\* The positions and elements of two sequences of entries put together.
LEMMA Concatenated ==
  ASSUME NEW p \in Seq(Entry), NEW q \in Seq(Entry)
  PROVE  /\ Len(p) \in Nat /\ Len(q) \in Nat
         /\ DOMAIN p = 1 .. Len(p) /\ DOMAIN q = 1 .. Len(q)
         /\ Len(p \o q) = Len(p) + Len(q) /\ DOMAIN (p \o q) = 1 .. (Len(p) + Len(q))
         /\ \A i \in 1 .. Len(p) : (p \o q)[i] = p[i]
         /\ \A i \in 1 .. Len(q) : (p \o q)[Len(p) + i] = q[i]
OBVIOUS

\* Two sequences put together have the elements of both.
LEMMA RangeConcat ==
  ASSUME NEW p \in Seq(Entry), NEW q \in Seq(Entry)
  PROVE  Range(p \o q) = Range(p) \cup Range(q)
<1> DEFINE r == p \o q
<1>1. /\ Len(p) \in Nat /\ Len(q) \in Nat
      /\ DOMAIN p = 1 .. Len(p) /\ DOMAIN q = 1 .. Len(q)
      /\ Len(r) = Len(p) + Len(q) /\ DOMAIN r = 1 .. (Len(p) + Len(q))
      /\ \A i \in 1 .. Len(p) : r[i] = p[i]
      /\ \A i \in 1 .. Len(q) : r[Len(p) + i] = q[i]
  BY Concatenated
<1> HIDE DEF r
<1>2. ASSUME NEW x \in Range(r) PROVE x \in Range(p) \cup Range(q)
  <2>1. PICK i \in DOMAIN r : x = r[i]
    BY DEF Range
  <2>2. CASE i \in DOMAIN p
    BY <1>1, <2>1, <2>2 DEF Range
  <2>3. CASE i \notin DOMAIN p
    <3>1. i - Len(p) \in DOMAIN q /\ i = Len(p) + (i - Len(p))
      BY <1>1, <2>1, <2>3
    <3>2. x = q[i - Len(p)]
      BY <1>1, <2>1, <3>1
    <3> QED
      BY <3>1, <3>2 DEF Range
  <2> QED
    BY <2>2, <2>3
<1>3. ASSUME NEW x \in Range(p) \cup Range(q) PROVE x \in Range(r)
  <2>1. /\ \A i \in DOMAIN p : i \in DOMAIN r
        /\ \A i \in DOMAIN q : Len(p) + i \in DOMAIN r
    BY <1>1
  <2> QED
    BY <1>1, <1>3, <2>1 DEF Range
<1> QED
  BY <1>2, <1>3 DEF r

\* What the steps do to the sets of entries.
LEMMA EntrySets ==
  ASSUME IInv, [Next]_vars
  PROVE  \/ \E t \in Tasks :
              /\ FlushLine(t) /\ Committed' = Committed
              /\ Uncommitted(t)' = Uncommitted(t) \cup {NewEntry(t)}
              /\ \A u \in Tasks \ {t} : Uncommitted(u)' = Uncommitted(u)
         \/ \E t \in Tasks :
              /\ Commit(t) /\ Committed' = Committed \cup Uncommitted(t)
              /\ Uncommitted(t)' = {}
              /\ \A u \in Tasks \ {t} : Uncommitted(u)' = Uncommitted(u)
         \/ /\ Committed' = Committed
            /\ \A u \in Tasks : Uncommitted(u)' \subseteq Uncommitted(u)
<1> DEFINE Same(u) == Uncommitted(u)' = Uncommitted(u)
<1>0. \A u \in Tasks : pend'[u] = pend[u] => Same(u)
  BY DEF Uncommitted
<1>1. \A u \in Tasks : pend'[u] = NoEntries => Uncommitted(u)' = {}
  BY DEF Uncommitted, NoEntries, Range
<1>2. ledger' = ledger => Committed' = Committed
  BY DEF Committed
<1>3. ASSUME NEW t \in Tasks, FlushLine(t)
      PROVE  /\ Committed' = Committed
             /\ Uncommitted(t)' = Uncommitted(t) \cup {NewEntry(t)}
             /\ \A u \in Tasks \ {t} : Uncommitted(u)' = Uncommitted(u)
  <2> DEFINE e == NewEntry(t)  c == Cur(t).key
  <2>1. ledger' = ledger
    BY <1>3 DEF FlushLine, store
  <2>2. c \in Keys
    BY <1>3, NewEntryType DEF FlushLine
  <2>3. \A u \in Tasks, k \in Keys : pend'[u][k] = IF u = t /\ k = c THEN Append(pend[u][k], e) ELSE pend[u][k]
    BY <1>3, FlushAppends
  <2>4. pend[t][c] \in Seq(Entry)
    BY <2>2, EntryTypes DEF IInv
  <2> HIDE DEF e, c
  <2>5. \A u \in Tasks \ {t}, k \in Keys : Range(pend'[u][k]) = Range(pend[u][k])
    BY <2>3
  <2>6. \A k \in Keys \ {c} : Range(pend'[t][k]) = Range(pend[t][k])
    BY <2>3
  <2>7. Range(pend'[t][c]) = Range(pend[t][c]) \cup {e}
    <3>1. e \in Entry
      BY <1>3, NewEntryType DEF e, FlushLine
    <3> QED
      BY <2>2, <2>3, <2>4, <3>1, RangeAppend
  <2>8. Uncommitted(t)' = Uncommitted(t) \cup {e}
    <3>1. ASSUME NEW x PROVE x \in Uncommitted(t)' <=> x \in Uncommitted(t) \cup {e}
      <4>1. x \in Uncommitted(t)' <=> \E k \in Keys : x \in Range(pend'[t][k])
        BY DEF Uncommitted
      <4>2. x \in Uncommitted(t) <=> \E k \in Keys : x \in Range(pend[t][k])
        BY DEF Uncommitted
      <4> QED
        BY <2>2, <2>6, <2>7, <4>1, <4>2
    <3> QED
      BY <3>1
  <2>9. \A u \in Tasks \ {t} : Uncommitted(u)' = Uncommitted(u)
    BY <2>5 DEF Uncommitted
  <2> QED
    BY <1>2, <2>1, <2>8, <2>9 DEF e
<1>4. ASSUME NEW t \in Tasks, Moves(t)
      PROVE  Committed' = Committed \cup Uncommitted(t)
  <2>1. ASSUME NEW k \in Keys
        PROVE  Range(ledger'[k]) = Range(ledger[k]) \cup Range(pend[t][k])
    <3>1. ledger[k] \in Seq(Entry) /\ pend[t][k] \in Seq(Entry)
      BY EntryTypes DEF IInv
    <3>2. ledger'[k] = ledger[k] \o pend[t][k]
      BY <1>4 DEF Moves
    <3> QED
      BY <3>1, <3>2, RangeConcat
  <2>2. ASSUME NEW x PROVE x \in Committed' <=> x \in Committed \cup Uncommitted(t)
    <3>1. x \in Committed' <=> \E k \in Keys : x \in Range(ledger'[k])
      BY DEF Committed
    <3>2. x \in Committed <=> \E k \in Keys : x \in Range(ledger[k])
      BY DEF Committed
    <3>3. x \in Uncommitted(t) <=> \E k \in Keys : x \in Range(pend[t][k])
      BY DEF Uncommitted
    <3> QED
      BY <2>1, <3>1, <3>2, <3>3
  <2> QED
    BY <2>2
<1>5. ASSUME NEW t \in Tasks, Commit(t), Moves(t)
      PROVE  /\ Commit(t) /\ Committed' = Committed \cup Uncommitted(t)
             /\ Uncommitted(t)' = {}
             /\ \A u \in Tasks \ {t} : Uncommitted(u)' = Uncommitted(u)
  BY <1>0, <1>1, <1>4, <1>5 DEF Moves
<1>6. ASSUME ledger' = ledger,
             \A u \in Tasks : Forgets(u) \/ (pend'[u] = pend[u] /\ Done(u)' = Done(u))
      PROVE  /\ Committed' = Committed
             /\ \A u \in Tasks : Uncommitted(u)' \subseteq Uncommitted(u)
  BY <1>0, <1>1, <1>2, <1>6 DEF Forgets
<1> QED
  BY <1>3, <1>5, <1>6, EntriesMove

\* Every step that writes an entry writes an idempotency key that nobody else has.
LEMMA KeysFreshStep ==
  ASSUME IInv, KeysFresh, [Next]_vars
  PROVE  KeysFresh'
<1> DEFINE Apart(e, S) == e.idem # None => \A f \in S : f.idem # e.idem
<1>0. \A t \in Tasks : \A e \in Uncommitted(t) :
        Apart(e, Committed) /\ \A u \in Tasks \ {t} : Apart(e, Uncommitted(u))
  BY DEF KeysFresh
<1>1. ASSUME NEW t \in Tasks, FlushLine(t), Committed' = Committed,
             Uncommitted(t)' = Uncommitted(t) \cup {NewEntry(t)},
             \A u \in Tasks \ {t} : Uncommitted(u)' = Uncommitted(u)
      PROVE  KeysFresh'
  <2> DEFINE e == NewEntry(t)
  <2>1. e.idem = Cur(t).idem /\ IdemRivals(t) = {} /\ ~IdemClash(t)
    BY <1>1 DEF FlushLine, NewEntry
  <2>2. Apart(e, Committed)
    BY <2>1 DEF IdemClash
  <2>3. \A u \in Tasks \ {t} : Apart(e, Uncommitted(u))
    BY <2>1 DEF IdemRivals
  <2> HIDE DEF e
  <2>4. Uncommitted(t)' = Uncommitted(t) \cup {e}
    BY <1>1 DEF e
  <2>5. ASSUME NEW u \in Tasks, NEW f \in Uncommitted(u)'
        PROVE  Apart(f, Committed) /\ \A v \in Tasks \ {u} : Apart(f, Uncommitted(v)')
    <3>1. CASE u = t /\ f = e
      BY <1>1, <2>2, <2>3, <3>1
    <3>2. CASE f \in Uncommitted(u)
      BY <1>0, <1>1, <2>3, <2>4, <3>2
    <3> QED
      BY <1>1, <2>4, <2>5, <3>1, <3>2
  <2> QED
    BY <1>1, <2>5 DEF KeysFresh
<1>2. ASSUME NEW t \in Tasks, Committed' = Committed \cup Uncommitted(t),
             Uncommitted(t)' = {}, \A u \in Tasks \ {t} : Uncommitted(u)' = Uncommitted(u)
      PROVE  KeysFresh'
  <2>1. ASSUME NEW u \in Tasks, NEW f \in Uncommitted(u)'
        PROVE  Apart(f, Committed') /\ \A v \in Tasks \ {u} : Apart(f, Uncommitted(v)')
    BY <1>0, <1>2, <2>1
  <2> QED
    BY <2>1 DEF KeysFresh
<1>3. ASSUME Committed' = Committed, \A u \in Tasks : Uncommitted(u)' \subseteq Uncommitted(u)
      PROVE  KeysFresh'
  BY <1>0, <1>3 DEF KeysFresh
<1> QED
  BY <1>1, <1>2, <1>3, EntrySets

\* Nothing is uncommitted at first.
LEMMA KeysFreshInit == Init => KeysFresh
<1>1. Init => \A t \in Tasks : Uncommitted(t) = {}
  BY DEF Init, Uncommitted, NoEntries, Range
<1> QED
  BY <1>1 DEF KeysFresh

-----------------------------------------------------------------------------
(* Refinement: a commit is the atomic booking of StockAccount. *)

AccountInv == IInv /\ EntriesFit /\ LinesWritten /\ KeysFresh

\* What the requests were told, as StockAccount sees it.
Told == [t \in Tasks |-> Answer(pc[t])]

\* Every step keeps what the refinement needs.
LEMMA NextAccountInv == AccountInv /\ [Next]_vars => AccountInv'
BY NextIInv, EntriesFitStep, LinesWrittenStep, KeysFreshStep DEF AccountInv

\* The initial states have what the refinement needs.
LEMMA InitAccountInv == Init => AccountInv
BY InitIInv, EntriesFitInit, LinesWrittenInit, KeysFreshInit DEF AccountInv

\* StockAccount counts as this module does.
LEMMA SameCount ==
  ASSUME NEW S
  PROVE  Account!Cardinality(S) = Cardinality(S)
BY DEF Account!Cardinality, Cardinality

\* The lines of an account and their places, in both vocabularies.
LEMMA SamePlaces ==
  ASSUME TypeOK, NEW t \in Tasks, NEW k
  PROVE  /\ Account!Of(t, k) = Part(Lines(t), k, Len(Lines(t)))
         /\ \A i \in Account!Of(t, k) : Account!Place(t, i) = Nth(Lines(t), i)
<1> DEFINE s == Lines(t)
<1>1. s \in Seq(Line) /\ DOMAIN s = 1 .. Len(s) /\ Len(s) \in Nat
  BY DoneType
<1>2. \A l : Account!Of(t, l) = {i \in DOMAIN s : s[i].key = l}
  BY DEF Account!Of
<1>3. ASSUME NEW i \in Account!Of(t, k)
      PROVE  Account!Place(t, i) = Nth(s, i)
  <2>1. i \in 1 .. Len(s) /\ s[i].key = k
    BY <1>1, <1>2
  <2>2. Account!Place(t, i) = Cardinality({j \in Account!Of(t, s[i].key) : j <= i})
    <3> DEFINE all == [u \in Tasks |-> Lines(u)]
    <3>1. Account!Place(t, i) = Account!Cardinality({j \in Account!Of(t, all[t][i].key) : j <= i})
      BY DEF Account!Place
    <3>2. all[t] = s
      OBVIOUS
    <3> HIDE DEF all, s
    <3> QED
      BY <3>1, <3>2, SameCount
  <2>3. {j \in Account!Of(t, s[i].key) : j <= i} = Part(s, s[i].key, i)
    BY <1>1, <1>2, <2>1 DEF Part
  <2> QED
    BY <2>2, <2>3 DEF Nth
<1> QED
  BY <1>1, <1>2, <1>3 DEF Part

\* The key of an uncommitted line has booked nothing.
LEMMA KeysUnused ==
  ASSUME AccountInv, NEW t \in Tasks, pc[t] = "commit",
         NEW i \in DOMAIN Lines(t), Lines(t)[i].idem # None
  PROVE  \A f \in Committed : f.idem # Lines(t)[i].idem
<1> DEFINE s == Lines(t)  k == s[i].key  n == Len(s)  p == Nth(s, i)
<1>1. TypeOK /\ LinesWritten /\ KeysFresh
  BY DEF AccountInv, IInv
<1>2. s \in Seq(Line) /\ n \in Nat /\ i \in 1 .. n /\ Done(t) = n
  BY <1>1, DoneType DEF Done
<1>3. k \in Keys
  <2>1. s[i] \in Line
    BY <1>2
  <2> QED
    BY <2>1 DEF Line
<1>4. i \in Part(s, k, n)
  BY <1>2 DEF Part
<1>5. /\ Len(pend[t][k]) = Cardinality(Part(s, k, n))
      /\ Records(pend[t][k][p], s[i], t)
  BY <1>1, <1>2, <1>3, <1>4 DEF LinesWritten
<1>6. p \in 1 .. Cardinality(Part(s, k, n))
  BY <1>2, <1>4, NthBounds
<1>7. pend[t][k] \in Seq(Entry)
  BY <1>1, <1>3, EntryTypes
<1> HIDE DEF s, k, n, p
<1>8. pend[t][k][p] \in Range(pend[t][k])
  <2>1. p \in DOMAIN pend[t][k]
    BY <1>5, <1>6, <1>7
  <2> QED
    BY <2>1 DEF Range
<1>9. pend[t][k][p] \in Uncommitted(t) /\ pend[t][k][p].idem = s[i].idem
  BY <1>3, <1>5, <1>8 DEF Uncommitted, Records
<1> QED
  BY <1>1, <1>9 DEF KeysFresh, s

\* An idempotency key is used in StockAccount when a committed entry has it.
LEMMA UsedCommitted ==
  ASSUME NEW x
  PROVE  Account!Used(x) <=> \E e \in Committed : e.idem = x
<1>1. Account!Used(x) <=> \E k \in Keys : \E i \in DOMAIN ledger[k] : ledger[k][i].idem = x
  BY DEF Account!Used
<1> QED
  BY <1>1 DEF Committed, Range

\* The entries of one account that a commit adds.
LEMMA BookEntries ==
  ASSUME Seeded = Keys, AccountInv, AccountInv', NEW t \in Tasks, Commit(t), Moves(t), NEW k \in Keys
  PROVE  LET n == Len(ledger[k]) IN
         /\ Len(ledger'[k]) = n + Cardinality(Account!Of(t, k))
         /\ \A i \in 1 .. n : ledger'[k][i] = ledger[k][i]
         /\ \A i \in Account!Of(t, k) :
              LET p == n + Account!Place(t, i)  e == ledger'[k][p]  l == Lines(t)[i] IN
              /\ e.by = t /\ e.dir = l.dir /\ e.qty = l.qty /\ e.idem = l.idem
              /\ e.before = IF p = 1 THEN InitQty[k] ELSE ledger'[k][p - 1].after
              /\ e.after = e.before + Account!Signed(l)
              /\ e.after >= 0 \/ k \in AllowNeg
<1> DEFINE s == Lines(t)  n == Len(ledger[k])  m == Len(pend[t][k])  log == ledger'[k]
           P == Part(s, k, Len(s))
<1>1. /\ s \in Seq(Line) /\ Done(t) = Len(s) /\ Len(s) \in Nat
      /\ ledger[k] \in Seq(Entry) /\ pend[t][k] \in Seq(Entry) /\ log \in Seq(Entry)
  <2>1. TypeOK /\ TypeOK' /\ pc[t] = "commit"
    BY DEF AccountInv, IInv, Commit
  <2>2. ledger[k] \in Seq(Entry) /\ pend[t][k] \in Seq(Entry)
    BY <2>1, EntryTypes
  <2>3. log \in Seq(Entry)
    BY <2>1 DEF TypeOK
  <2> QED
    BY <2>1, <2>2, <2>3, DoneType DEF Done
<1>2. log = ledger[k] \o pend[t][k]
  BY DEF Moves
<1>3. /\ n \in Nat /\ m \in Nat /\ Len(log) = n + m /\ DOMAIN log = 1 .. n + m
      /\ \A i \in 1 .. n : log[i] = ledger[k][i]
      /\ \A i \in 1 .. m : log[n + i] = pend[t][k][i]
  <2> DEFINE old == ledger[k]  new == pend[t][k]  all == old \o new
  <2>1. old \in Seq(Entry) /\ new \in Seq(Entry) /\ log = all
    BY <1>1, <1>2
  <2> HIDE DEF old, new, log
  <2>2. /\ Len(old) \in Nat /\ Len(new) \in Nat
        /\ Len(all) = Len(old) + Len(new) /\ DOMAIN all = 1 .. (Len(old) + Len(new))
        /\ \A i \in 1 .. Len(old) : all[i] = old[i]
        /\ \A i \in 1 .. Len(new) : all[Len(old) + i] = new[i]
    BY <2>1, Concatenated
  <2> QED
    BY <2>1, <2>2 DEF old, new
<1>4. /\ m = Cardinality(P)
      /\ \A i \in P : Records(pend[t][k][Nth(s, i)], s[i], t)
  BY <1>1 DEF AccountInv, LinesWritten
<1>5. Account!Of(t, k) = P /\ \A i \in P : Account!Place(t, i) = Nth(s, i)
  BY SamePlaces DEF AccountInv, IInv
<1>6. \A i \in DOMAIN log : log[i].before = IF i = 1 THEN InitQty[k] ELSE log[i - 1].after
  BY DEF AccountInv, IInv, LedgerMatchesBalance, Chained, ChainFrom
<1>7. \A i \in DOMAIN log : Fits(k, log[i])
  BY DEF AccountInv, EntriesFit, Fits, Delta
<1> HIDE DEF s, n, m, log, P
<1>8. ASSUME NEW i \in P
      PROVE  LET p == n + Nth(s, i)  e == log[p]  l == s[i] IN
             /\ e.by = t /\ e.dir = l.dir /\ e.qty = l.qty /\ e.idem = l.idem
             /\ e.before = IF p = 1 THEN InitQty[k] ELSE log[p - 1].after
             /\ e.after = e.before + Account!Signed(l)
             /\ e.after >= 0 \/ k \in AllowNeg
  <2> DEFINE j == Nth(s, i)  q == n + j  e == log[q]
  <2>1. j \in 1 .. m
    BY <1>1, <1>4, NthBounds DEF P
  <2>2. q \in DOMAIN log
    BY <1>3, <2>1
  <2>3. e = pend[t][k][j] /\ Records(e, s[i], t)
    BY <1>3, <1>4, <2>1
  <2>4. Account!Signed(s[i]) = Delta(e)
    BY <2>3 DEF Account!Signed, Delta, Records
  <2> HIDE DEF j, q, e
  <2>5. log[q].before = IF q = 1 THEN InitQty[k] ELSE log[q - 1].after
    BY <1>6, <2>2
  <2>6. Fits(k, log[q])
    BY <1>7, <2>2
  <2>7. e = log[q]
    BY DEF e
  <2>8. /\ e.by = t /\ e.dir = s[i].dir /\ e.qty = s[i].qty /\ e.idem = s[i].idem
        /\ e.before = IF q = 1 THEN InitQty[k] ELSE log[q - 1].after
        /\ e.after = e.before + Account!Signed(s[i])
        /\ e.after >= 0 \/ k \in AllowNeg
    BY <2>3, <2>4, <2>5, <2>6, <2>7 DEF Records, Fits
  <2> QED
    BY <2>8 DEF e, q, j
<1>9. ASSUME NEW i \in Account!Of(t, k)
      PROVE  LET p == n + Account!Place(t, i)  e == log[p]  l == s[i] IN
             /\ e.by = t /\ e.dir = l.dir /\ e.qty = l.qty /\ e.idem = l.idem
             /\ e.before = IF p = 1 THEN InitQty[k] ELSE log[p - 1].after
             /\ e.after = e.before + Account!Signed(l)
             /\ e.after >= 0 \/ k \in AllowNeg
  <2>1. i \in P /\ Account!Place(t, i) = Nth(s, i)
    BY <1>5
  <2> QED
    BY <1>8, <2>1
<1>10. Len(log) = n + Cardinality(Account!Of(t, k)) /\ \A i \in 1 .. n : log[i] = ledger[k][i]
  BY <1>3, <1>4, <1>5
<1> QED
  BY <1>9, <1>10 DEF n, s, log

\* A commit is the atomic booking of its request.
LEMMA CommitBooks ==
  ASSUME Seeded = Keys, AccountInv, AccountInv', NEW t \in Tasks, Commit(t), Moves(t)
  PROVE  Account!Book(t)
<1> DEFINE all == [u \in Tasks |-> Lines(u)]
<1>1. pc[t] = "commit" /\ pc'[t] = "done" /\ \A u \in Tasks : u # t => pc'[u] = pc[u]
  BY DEF Commit, AccountInv, IInv, TypeOK
<1>2. Told[t] = "pending"
  BY <1>1 DEF Told, Answer
<1>3. Told' = [Told EXCEPT ![t] = "booked"]
  BY <1>1 DEF Told, Answer
<1>4. all[t] = Lines(t)
  OBVIOUS
<1>5. \A i \in DOMAIN Lines(t) : Lines(t)[i].idem # None => ~Account!Used(Lines(t)[i].idem)
  BY <1>1, KeysUnused, UsedCommitted
<1>6. DOMAIN ledger' = Keys
  BY DEF Moves
<1>7. ASSUME NEW k \in Keys
      PROVE  LET n == Len(ledger[k]) IN
             /\ Len(ledger'[k]) = n + Account!Cardinality(Account!Of(t, k))
             /\ \A i \in 1 .. n : ledger'[k][i] = ledger[k][i]
             /\ \A i \in Account!Of(t, k) :
                  LET p == n + Account!Place(t, i)  e == ledger'[k][p]  l == all[t][i] IN
                  /\ e.by = t /\ e.dir = l.dir /\ e.qty = l.qty /\ e.idem = l.idem
                  /\ e.before = IF p = 1 THEN InitQty[k] ELSE ledger'[k][p - 1].after
                  /\ e.after = e.before + Account!Signed(l)
                  /\ e.after >= 0 \/ k \in AllowNeg
  BY <1>4, BookEntries, SameCount
<1> QED
  BY <1>2, <1>3, <1>4, <1>5, <1>6, <1>7 DEF Account!Book, Told

\* Every step of the engine is a step of the accounts, or none they see.
LEMMA NextAccount ==
  ASSUME Seeded = Keys, AccountInv, AccountInv', [Next]_vars
  PROVE  [Account!ANext]_(Account!acct)
<1> DEFINE all == [t \in Tasks |-> Lines(t)]
<1>1. req' = req /\ all' = all
  BY EntriesMove DEF AccountInv, Lines
<1>2. TypeOK /\ IInv
  BY DEF AccountInv, IInv
<1>3. ASSUME ledger' = ledger, Told' = Told
      PROVE  UNCHANGED Account!acct
  BY <1>1, <1>3 DEF Account!acct, Told
<1>4. ASSUME NEW T \in SUBSET Tasks, ledger' = ledger,
             \A t \in T : Answer(pc[t]) = "pending" /\ pc'[t] = "failed",
             \A t \in Tasks \ T : pc'[t] = pc[t]
      PROVE  Account!ANext
  <2>1. \A t \in T : Told[t] = "pending"
    BY <1>4 DEF Told
  <2>2. Told' = [t \in Tasks |-> IF t \in T THEN "refused" ELSE Told[t]]
    BY <1>4 DEF Told, Answer
  <2>3. Account!Refuse(T)
    BY <1>4, <2>1, <2>2 DEF Account!Refuse, Told
  <2> QED
    BY <1>1, <2>3 DEF Account!ANext
<1>5. ASSUME NEW t \in Tasks, Commit(t)
      PROVE  Account!ANext
  <2>1. Moves(t)
    <3>1. Reset({t}) /\ ledger' = [k \in Keys |-> ledger[k] \o pend[t][k]] /\ pc'[t] = "done"
          /\ \A u \in Tasks \ {t} : pc'[u] = pc[u]
      BY <1>2, <1>5 DEF Commit, TypeOK
    <3> QED
      BY <1>1, <3>1 DEF Reset, Moves, Done, Lines
  <2>2. Account!Book(t)
    BY <1>5, <2>1, CommitBooks
  <2> QED
    BY <1>1, <2>2 DEF Account!ANext
<1>6. ASSUME NEW t \in Tasks, Replay(t)
      PROVE  Account!ANext
  <2>1. /\ pc[t] = "enter" /\ pc'[t] = "replayed" /\ ledger' = ledger
        /\ \A u \in Tasks : u # t => pc'[u] = pc[u]
    BY <1>2, <1>6 DEF Replay, store, TypeOK
  <2>2. Told[t] = "pending" /\ Told' = [Told EXCEPT ![t] = "recalled"]
    BY <2>1 DEF Told, Answer
  <2>3. \E i \in DOMAIN Lines(t) : Lines(t)[i].idem # None /\ Account!Used(Lines(t)[i].idem)
    <3>1. ln[t] \in DOMAIN Lines(t)
      BY <1>2 DEF TypeOK
    <3>2. Lines(t)[ln[t]].idem # None /\ \E e \in Committed : e.idem = Lines(t)[ln[t]].idem
      BY <1>6 DEF Replay, IdemClash, Cur
    <3> QED
      BY <3>1, <3>2, UsedCommitted
  <2>4. all[t] = Lines(t)
    OBVIOUS
  <2>5. Account!Recall(t)
    BY <2>1, <2>2, <2>3, <2>4 DEF Account!Recall, Told
  <2> QED
    BY <1>1, <2>5 DEF Account!ANext
<1>7. ASSUME NEW t \in Tasks, Rollback(t)
      PROVE  Account!ANext
  <2>1. /\ {t} \in SUBSET Tasks /\ ledger' = ledger /\ pc[t] = "rollback" /\ pc'[t] = "failed"
        /\ \A u \in Tasks \ {t} : pc'[u] = pc[u]
    BY <1>2, <1>7 DEF Rollback, store, TypeOK
  <2> QED
    BY <1>4, <2>1 DEF Answer
<1>8. ASSUME NEW t \in Tasks, DeadlockAbort(t)
      PROVE  Account!ANext
  <2>1. /\ {t} \in SUBSET Tasks /\ ledger' = ledger /\ pc'[t] = "failed"
        /\ \A u \in Tasks \ {t} : pc'[u] = pc[u]
    BY <1>2, <1>8 DEF DeadlockAbort, store, TypeOK
  <2>2. Waits(t) # {}
    BY <1>8 DEF DeadlockAbort
  <2>3. pc[t] \in {"select", "insert", "flush"}
    BY <2>2 DEF Waits
  <2> QED
    BY <1>4, <2>1, <2>3 DEF Answer
<1>9. ASSUME NEW p \in Procs, Crash(p)
      PROVE  Account!ANext
  <2> DEFINE T == {t \in Tasks : ProcOf[t] = p /\ pc[t] \notin Final \cup {"idle"}}
  <2>1. ledger' = ledger /\ pc' = [t \in Tasks |-> IF t \in T THEN "failed" ELSE pc[t]]
    BY <1>9 DEF Crash, store
  <2>2. \A t \in T : Answer(pc[t]) = "pending"
    BY DEF Answer, Final
  <2>3. T \in SUBSET Tasks
    OBVIOUS
  <2> HIDE DEF T
  <2> QED
    BY <1>4, <2>1, <2>2, <2>3
\* The other steps of a request move it between unanswered control points.
<1>10. ASSUME NEW t \in Tasks, Step(t), ~Commit(t), ~Replay(t), ~Rollback(t), ~DeadlockAbort(t)
       PROVE  UNCHANGED Account!acct
  <2> DEFINE Quiet == /\ ledger' = ledger /\ Answer(pc[t]) = "pending"
                      /\ \E c \in {"select", "plain", "insert", "enter", "track", "flush",
                                   "commit", "rollback"} : pc' = [pc EXCEPT ![t] = c]
  <2>1. ASSUME Fail(t), pc[t] \in {"track", "flush", "insert"} PROVE Quiet
    BY <2>1 DEF Fail, store, Answer
  <2>2. ASSUME NEW r, NEW v, Got(t, r, v), pc[t] \in {"select", "plain", "insert"} PROVE Quiet
    BY <2>2 DEF Got, store, Answer
  <2>3. Quiet
    <3>1. CASE Begin(t) \/ Enter(t)
      BY <3>1 DEF Begin, Enter, store, Answer
    <3>2. CASE Reject(t) \/ RefuseNegative(t) \/ UniqueViolation(t)
      BY <3>2, <2>1 DEF Reject, RefuseNegative, UniqueViolation
    <3>3. CASE Track(t)
      BY <3>3, <2>1 DEF Track, store, Answer
    <3>4. CASE SelectForUpdate(t) \/ PlainRead(t) \/ InsertRow(t)
      BY <3>4, <2>2 DEF SelectForUpdate, PlainRead, InsertRow
    <3>5. CASE SelectNothing(t) \/ PlainReadNothing(t)
      BY <3>5 DEF SelectNothing, PlainReadNothing, store, Answer
    <3>6. CASE FlushLine(t)
      BY <3>6 DEF FlushLine, store, Answer
    <3> QED
      BY <1>10, <3>1, <3>2, <3>3, <3>4, <3>5, <3>6 DEF Step
  <2>4. Answer(pc'[t]) = "pending" /\ \A u \in Tasks : u # t => pc'[u] = pc[u]
    BY <1>2, <2>3 DEF TypeOK, Answer
  <2>5. Told' = Told
    BY <2>3, <2>4 DEF Told
  <2> QED
    BY <1>3, <2>3, <2>5
<1>11. CASE Terminated \/ UNCHANGED vars
  <2>1. ledger' = ledger /\ Told' = Told
    BY <1>11 DEF Terminated, vars, store, Told
  <2> QED
    BY <1>3, <2>1
<1> QED
  BY <1>5, <1>6, <1>7, <1>8, <1>9, <1>10, <1>11 DEF Next

\* Initial states of the engine are initial states of StockAccount.
LEMMA InitAccount == Init => Account!AInit
<1> SUFFICES ASSUME Init PROVE Account!AInit
  OBVIOUS
<1>1. [t \in Tasks |-> Lines(t)] \in [Tasks -> {q.lines : q \in Requests}]
  BY DEF Init, Lines
<1>2. Told = [t \in Tasks |-> "pending"]
  BY DEF Init, Told, Answer
<1> QED
  BY <1>1, <1>2 DEF Account!AInit, Init, NoEntries, Told

\* Where every key has its row, the engine is the stock accounts: what a request
\* does becomes visible in one step, in full, or never.
THEOREM AccountsImplemented ==
  ASSUME Seeded = Keys
  PROVE  Spec => ImplementsStockAccount
<1>1. AccountInv /\ AccountInv' /\ [Next]_vars => [Account!ANext]_(Account!acct)
  BY NextAccount
<1> QED
  BY <1>1, InitAccountInv, NextAccountInv, InitAccount, PTL DEF Spec, ImplementsStockAccount, Account!ASpec

-----------------------------------------------------------------------------
(* One balance row for a key. *)

\* Only single movements or the unique constraint guard the creation of key k.
Guarded(k) == k \in Located \/ Serialized(k)

\* A task that may still commit.
Open(t) == pc[t] \notin {"rollback"} \cup Final

\* Task t has created a row of key k and not committed it.
Creates(t, k) == work[t][<<k, t>>] # None

\* A task writes rows that exist or that it has created, of keys it asked for.
RowsMade ==
  \A t \in Tasks : \A r \in Rid : work[t][r] # None =>
    (bal[r] # None \/ r[2] = t) /\ r[1] \in KeysOf(req[t])

\* The object it is about to write belongs to a row it can see.
SeenMade == \A t \in Tasks : pc[t] = "flush" => Val(t, seen[t].row) # None

\* Only a request that is done has committed a row it created.
CreatorsDone == \A t \in Tasks : \A k \in Keys : bal[<<k, t>>] # None => pc[t] = "done"

\* A transfer pre-locks the keys it asks for.
PrelocksOwn ==
  \A t \in Tasks : todo[t] \subseteq KeysOf(req[t]) /\ (req[t].kind = "movement" => todo[t] = {})

\* A task that has not begun to write, or has ended, has written no row.
NothingWritten ==
  \A t \in Tasks :
    \/ pc[t] \in {"idle", "done"}
    \/ pc[t] = "enter" /\ req[t].kind = "movement"
    => work[t] = NoRows

\* A movement holds the lock of its process until it commits.
MovementHolds ==
  \A t \in Tasks :
    req[t].kind = "movement" /\ pc[t] \in {"track", "select", "plain", "insert", "flush", "commit"}
    => mutex[ProcOf[t]] = t

\* A key that is guarded has one row, one creator at a time, and none while it
\* is being created.
OneCreator ==
  \A k \in Keys : Guarded(k) =>
    /\ \A r, s \in Rid : r[1] = k /\ s[1] = k /\ bal[r] # None /\ bal[s] # None => r = s
    /\ \A t \in Tasks : Open(t) /\ Creates(t, k) =>
         /\ \A r \in Rid : r[1] = k => bal[r] = None
         /\ \A u \in Tasks : Open(u) /\ Creates(u, k) => u = t
    /\ \A t \in Tasks : k \notin Located /\ pc[t] \in {"plain", "insert"} /\ Target(t) = k =>
         \A r \in Rid : r[1] = k => bal[r] = None

RowInv ==
  /\ RowsMade /\ SeenMade /\ CreatorsDone /\ PrelocksOwn
  /\ NothingWritten /\ MovementHolds /\ OneCreator

\* The next key of a sorted pre-lock is one of the keys left.
LEMMA LeastIsOne ==
  ASSUME NEW S \in SUBSET Keys, S # {}
  PROVE  Least(S) \in S
<1> DEFINE R == {Rank[k] : k \in S}
<1>1. R \subseteq Nat /\ R # {}
  BY StockAssumption
<1>2. \E n \in R : \A m \in R : ~ (m < n)
  <2>1. \E n \in R : \A m \in R : <<m, n>> \notin OpToRel(<, Nat)
    BY <1>1, NatLessThanWellFounded, WFMin, Zenon
  <2> QED
    BY <1>1, <2>1 DEF OpToRel
<1>3. \E k \in S : \A l \in S : Rank[k] <= Rank[l]
  <2>1. PICK n \in R : \A m \in R : ~ (m < n)
    BY <1>2
  <2>2. PICK k \in S : n = Rank[k]
    BY <2>1
  <2>3. ASSUME NEW l \in S PROVE Rank[k] <= Rank[l]
    <3>1. Rank[l] \in R /\ Rank[l] \in Nat /\ n \in Nat
      BY <1>1
    <3> QED
      BY <2>1, <2>2, <3>1
  <2> QED
    BY <2>3
<1> QED
  BY <1>3 DEF Least

\* The key a task is about to lock is one it asked for; a movement has one line.
LEMMA TargetAsked ==
  ASSUME TypeOK, PrelocksOwn, NEW t \in Tasks
  PROVE  /\ Target(t) \in KeysOf(req[t]) /\ Target(t) \in Keys
         /\ Cur(t).key \in KeysOf(req[t])
         /\ KeysOf(req[t]) \subseteq Keys
         /\ req[t].kind = "movement" => LastLine(t)
<1>1. /\ Lines(t) \in Seq(Line) /\ ln[t] \in DOMAIN Lines(t) /\ req[t] \in Requests
  BY StockAssumption DEF TypeOK, Lines
<1>2. KeysOf(req[t]) \subseteq Keys
  <2>1. ASSUME NEW i \in DOMAIN Lines(t) PROVE Lines(t)[i].key \in Keys
    <3>1. Lines(t)[i] \in Line
      BY <1>1
    <3> QED
      BY <3>1 DEF Line
  <2> QED
    BY <2>1 DEF KeysOf, Lines
<1>3. Cur(t).key \in KeysOf(req[t])
  BY <1>1 DEF Cur, KeysOf, Lines
<1>4. todo[t] # {} => Least(todo[t]) \in todo[t]
  BY LeastIsOne DEF TypeOK
<1>5. Target(t) \in KeysOf(req[t])
  BY <1>3, <1>4 DEF Target, PrelocksOwn
<1>6. ASSUME req[t].kind = "movement" PROVE LastLine(t)
  <2>1. Len(Lines(t)) = 1
    BY <1>1, <1>6, StockAssumption DEF Lines
  <2> QED
    BY <1>1, <2>1 DEF LastLine
<1> QED
  BY <1>2, <1>3, <1>5, <1>6

\* What holds of a key does not depend on the step.
LEMMA GuardedKept ==
  ASSUME req' = req, NEW k
  PROVE  Guarded(k)' <=> Guarded(k)
BY DEF Guarded, Serialized, KeysOf

HoldPoints == {"track", "select", "plain", "insert", "flush", "commit"}

\* A step that writes no row.
LEMMA RowQuiet ==
  ASSUME IInv, RowInv, NEW t \in Tasks, NEW c,
         pc[t] \notin Final \cup {"rollback"}, c # "done", c # "idle",
         pc' = [pc EXCEPT ![t] = c],
         UNCHANGED <<req, ln, work, bal>>,
         \A u \in Tasks : u # t => seen'[u] = seen[u] /\ todo'[u] = todo[u],
         c = "flush" => Val(t, seen'[t].row) # None,
         todo'[t] \subseteq KeysOf(req[t]), req[t].kind = "movement" => todo'[t] = {},
         c = "enter" /\ req[t].kind = "movement" => work[t] = NoRows,
         c \in HoldPoints /\ req[t].kind = "movement" => mutex'[ProcOf[t]] = t,
         \A u \in Tasks : u # t /\ mutex[ProcOf[u]] = u => mutex'[ProcOf[u]] = u,
         c \in {"plain", "insert"} =>
           /\ todo'[t] = todo[t]
           /\ \A r \in Rid : r[1] = Target(t) => bal[r] = None
  PROVE  RowInv'
<1>0. pc'[t] = c /\ \A u \in Tasks : u # t => pc'[u] = pc[u]
  BY DEF IInv, TypeOK
<1>1. RowsMade'
  BY DEF RowInv, RowsMade, KeysOf
<1>2. SeenMade'
  BY <1>0 DEF RowInv, SeenMade, Val
<1>3. CreatorsDone'
  BY <1>0 DEF RowInv, CreatorsDone, Final
<1>4. PrelocksOwn'
  BY DEF RowInv, PrelocksOwn, KeysOf
<1>5. NothingWritten'
  BY <1>0 DEF RowInv, NothingWritten, NoRows
<1>6. MovementHolds'
  BY <1>0 DEF RowInv, MovementHolds, HoldPoints
<1>7. OneCreator'
  <2> SUFFICES ASSUME NEW k \in Keys, Guarded(k)'
               PROVE  /\ \A r, s \in Rid : r[1] = k /\ s[1] = k /\ bal'[r] # None /\ bal'[s] # None => r = s
                      /\ \A u \in Tasks : Open(u)' /\ Creates(u, k)' =>
                           /\ \A r \in Rid : r[1] = k => bal'[r] = None
                           /\ \A v \in Tasks : Open(v)' /\ Creates(v, k)' => v = u
                      /\ \A u \in Tasks : k \notin Located /\ pc'[u] \in {"plain", "insert"} /\ Target(u)' = k =>
                           \A r \in Rid : r[1] = k => bal'[r] = None
    BY DEF OneCreator
  <2>1. Guarded(k)
    BY GuardedKept
  <2>2. \A u \in Tasks : (Open(u)' => Open(u)) /\ (Creates(u, k)' <=> Creates(u, k))
    BY <1>0 DEF Open, Creates
  <2>3. \A u \in Tasks : pc'[u] \in {"plain", "insert"} => Target(u)' = Target(u)
    BY <1>0 DEF Target, Cur, Lines
  <2>4. /\ \A r, s \in Rid : r[1] = k /\ s[1] = k /\ bal[r] # None /\ bal[s] # None => r = s
        /\ \A u \in Tasks : Open(u) /\ Creates(u, k) =>
             /\ \A r \in Rid : r[1] = k => bal[r] = None
             /\ \A v \in Tasks : Open(v) /\ Creates(v, k) => v = u
        /\ \A u \in Tasks : k \notin Located /\ pc[u] \in {"plain", "insert"} /\ Target(u) = k =>
             \A r \in Rid : r[1] = k => bal[r] = None
    BY <2>1 DEF RowInv, OneCreator
  <2> QED
    BY <1>0, <2>2, <2>3, <2>4
<1> QED
  BY <1>1, <1>2, <1>3, <1>4, <1>5, <1>6, <1>7 DEF RowInv

\* The end of transactions without a commit.
LEMMA RowReset ==
  ASSUME IInv, RowInv, NEW T \in SUBSET Tasks, Reset(T), UNCHANGED <<req, bal>>,
         \A u \in T : pc'[u] = "failed" /\ pc[u] # "done",
         \A u \in Tasks \ T : pc'[u] = pc[u] /\ (mutex[ProcOf[u]] = u /\ pc[u] \in HoldPoints => mutex'[ProcOf[u]] = u)
  PROVE  RowInv'
<1>0. /\ \A u \in T : work'[u] = NoRows /\ todo'[u] = {}
      /\ \A u \in Tasks \ T : work'[u] = work[u] /\ todo'[u] = todo[u] /\ seen'[u] = seen[u] /\ ln'[u] = ln[u]
      /\ \A r \in Rid : NoRows[r] = None
  BY DEF Reset, NoRows
<1>1. RowsMade'
  BY <1>0 DEF RowInv, RowsMade, KeysOf
<1>2. SeenMade'
  BY <1>0 DEF RowInv, SeenMade, Val
<1>3. CreatorsDone'
  BY <1>0 DEF RowInv, CreatorsDone
<1>4. PrelocksOwn'
  BY <1>0 DEF RowInv, PrelocksOwn, KeysOf
<1>5. NothingWritten'
  BY <1>0 DEF RowInv, NothingWritten, NoRows
<1>6. MovementHolds'
  BY <1>0 DEF RowInv, MovementHolds, HoldPoints
<1>7. OneCreator'
  <2> SUFFICES ASSUME NEW k \in Keys, Guarded(k)'
               PROVE  /\ \A r, s \in Rid : r[1] = k /\ s[1] = k /\ bal'[r] # None /\ bal'[s] # None => r = s
                      /\ \A u \in Tasks : Open(u)' /\ Creates(u, k)' =>
                           /\ \A r \in Rid : r[1] = k => bal'[r] = None
                           /\ \A v \in Tasks : Open(v)' /\ Creates(v, k)' => v = u
                      /\ \A u \in Tasks : k \notin Located /\ pc'[u] \in {"plain", "insert"} /\ Target(u)' = k =>
                           \A r \in Rid : r[1] = k => bal'[r] = None
    BY DEF OneCreator
  <2>1. Guarded(k)
    BY GuardedKept
  <2>2. \A u \in Tasks : Open(u)' => u \notin T /\ Open(u) /\ (Creates(u, k)' <=> Creates(u, k))
    BY <1>0 DEF Open, Creates, Final
  <2>3. \A u \in Tasks : pc'[u] \in {"plain", "insert"} => pc[u] = pc'[u] /\ Target(u)' = Target(u)
    BY <1>0 DEF Target, Cur, Lines
  <2>4. /\ \A r, s \in Rid : r[1] = k /\ s[1] = k /\ bal[r] # None /\ bal[s] # None => r = s
        /\ \A u \in Tasks : Open(u) /\ Creates(u, k) =>
             /\ \A r \in Rid : r[1] = k => bal[r] = None
             /\ \A v \in Tasks : Open(v) /\ Creates(v, k) => v = u
        /\ \A u \in Tasks : k \notin Located /\ pc[u] \in {"plain", "insert"} /\ Target(u) = k =>
             \A r \in Rid : r[1] = k => bal[r] = None
    BY <2>1 DEF RowInv, OneCreator
  <2> QED
    BY <2>2, <2>3, <2>4
<1> QED
  BY <1>1, <1>2, <1>3, <1>4, <1>5, <1>6, <1>7 DEF RowInv

\* What OneCreator says of a guarded key.
LEMMA Creators ==
  ASSUME RowInv, NEW k \in Keys, Guarded(k)
  PROVE  /\ \A r, s \in Rid : r[1] = k /\ s[1] = k /\ bal[r] # None /\ bal[s] # None => r = s
         /\ \A u \in Tasks : Open(u) /\ Creates(u, k) =>
              /\ \A r \in Rid : r[1] = k => bal[r] = None
              /\ \A v \in Tasks : Open(v) /\ Creates(v, k) => v = u
         /\ \A u \in Tasks : k \notin Located /\ pc[u] \in {"plain", "insert"} /\ Target(u) = k =>
              \A r \in Rid : r[1] = k => bal[r] = None
BY DEF RowInv, OneCreator

\* The row a flush writes is one the task sees, of the key of its line; a row of
\* its own making it has made before.
LEMMA RowFlush ==
  ASSUME IInv, RowInv, NEW t \in Tasks, FlushLine(t)
  PROVE  RowInv'
<1> DEFINE x == seen[t].row
<1>1. /\ pc[t] = "flush" /\ UNCHANGED <<req, todo, bal>>
      /\ work' = [work EXCEPT ![t] = [work[t] EXCEPT ![x] = After(t)]]
      /\ seen' = [seen EXCEPT ![t] = None]
  BY DEF FlushLine, store, IInv, TypeOK
<1>2. x \in Rid /\ x[1] = Cur(t).key /\ Val(t, x) # None /\ After(t) \in Int /\ After(t) # None
  <2>1. After(t) # None
    BY <1>1, NewEntryType, StockAssumption
  <2> QED
    BY <1>1, <2>1, NewEntryType DEF RowInv, SeenMade
<1>3. x[1] \in KeysOf(req[t]) /\ (req[t].kind = "movement" => LastLine(t))
  BY <1>2, TargetAsked DEF RowInv, IInv
<1>4. /\ \A u \in Tasks : u # t => pc'[u] = pc[u] /\ seen'[u] = seen[u] /\ ln'[u] = ln[u]
      /\ pc'[t] \in {"enter", "commit"} /\ (LastLine(t) => pc'[t] = "commit")
  BY DEF FlushLine, IInv, TypeOK
<1>5. \A u \in Tasks, r \in Rid :
        work'[u][r] = IF u = t /\ r = x THEN After(t) ELSE work[u][r]
  BY <1>1, <1>2 DEF IInv, TypeOK
<1>6. x[2] = t => work[t][x] # None
  <2>1. ASSUME x[2] = t PROVE bal[x] = None
    <3>1. PICK k \in Keys : x = <<k, t>>
      BY <1>2, <2>1 DEF Rid
    <3> QED
      BY <1>1, <3>1 DEF RowInv, CreatorsDone
  <2> QED
    BY <1>2, <2>1 DEF Val
<1>7. \A u \in Tasks : u # t => work'[u] = work[u]
  BY <1>1 DEF IInv, TypeOK
<1> HIDE DEF x
<1>8. RowsMade'
  <2> SUFFICES ASSUME NEW u \in Tasks, NEW r \in Rid, work'[u][r] # None
               PROVE  (bal[r] # None \/ r[2] = u) /\ r[1] \in KeysOf(req[u])
    BY <1>1 DEF RowsMade, KeysOf
  <2>1. CASE u = t /\ r = x
    <3>1. bal[x] # None \/ work[t][x] # None
      BY <1>2 DEF Val
    <3> QED
      BY <1>2, <1>3, <2>1, <3>1 DEF RowInv, RowsMade
  <2>2. CASE ~ (u = t /\ r = x)
    BY <1>5, <2>2 DEF RowInv, RowsMade
  <2> QED
    BY <2>1, <2>2
<1>9. SeenMade'
  BY <1>1, <1>4, <1>7 DEF RowInv, SeenMade, Val
<1>10. CreatorsDone'
  BY <1>1, <1>4 DEF RowInv, CreatorsDone
<1>11. PrelocksOwn'
  BY <1>1 DEF RowInv, PrelocksOwn, KeysOf
<1>12. NothingWritten'
  BY <1>1, <1>3, <1>4, <1>7 DEF RowInv, NothingWritten, NoRows
<1>13. MovementHolds'
  <2>1. req[t].kind = "movement" => mutex' = mutex
    BY DEF FlushLine, ReleasesEarly, IsDoc
  <2>2. \A u \in Tasks : u # t /\ mutex[ProcOf[u]] = u => mutex'[ProcOf[u]] = u
    BY StockAssumption DEF FlushLine, Release, IInv, TypeOK
  <2>3. mutex[ProcOf[t]] = t \/ req[t].kind # "movement"
    BY <1>1 DEF RowInv, MovementHolds
  <2> QED
    BY <1>1, <1>4, <2>1, <2>2, <2>3 DEF RowInv, MovementHolds
<1>14. OneCreator'
  <2> SUFFICES ASSUME NEW k \in Keys, Guarded(k)'
               PROVE  /\ \A r, s \in Rid : r[1] = k /\ s[1] = k /\ bal'[r] # None /\ bal'[s] # None => r = s
                      /\ \A u \in Tasks : Open(u)' /\ Creates(u, k)' =>
                           /\ \A r \in Rid : r[1] = k => bal'[r] = None
                           /\ \A v \in Tasks : Open(v)' /\ Creates(v, k)' => v = u
                      /\ \A u \in Tasks : k \notin Located /\ pc'[u] \in {"plain", "insert"} /\ Target(u)' = k =>
                           \A r \in Rid : r[1] = k => bal'[r] = None
    BY DEF OneCreator
  <2>1. Guarded(k)
    BY <1>1, GuardedKept
  <2>2. \A u \in Tasks : Open(u)' => Open(u)
    BY <1>1, <1>4 DEF Open, Final
  <2>3. \A u \in Tasks : Creates(u, k)' => Creates(u, k)
    <3>1. ASSUME NEW u \in Tasks, Creates(u, k)' PROVE Creates(u, k)
      <4>1. <<k, u>> \in Rid /\ <<k, u>>[2] = u
        BY DEF Rid, Origins
      <4> QED
        BY <1>5, <1>6, <3>1, <4>1 DEF Creates
    <3> QED
      BY <3>1
  <2>4. \A u \in Tasks : pc'[u] \in {"plain", "insert"} => pc[u] = pc'[u] /\ Target(u)' = Target(u)
    BY <1>1, <1>4 DEF Target, Cur, Lines
  <2>5. /\ \A r, s \in Rid : r[1] = k /\ s[1] = k /\ bal[r] # None /\ bal[s] # None => r = s
        /\ \A u \in Tasks : Open(u) /\ Creates(u, k) =>
             /\ \A r \in Rid : r[1] = k => bal[r] = None
             /\ \A v \in Tasks : Open(v) /\ Creates(v, k) => v = u
        /\ \A u \in Tasks : k \notin Located /\ pc[u] \in {"plain", "insert"} /\ Target(u) = k =>
             \A r \in Rid : r[1] = k => bal[r] = None
    BY <2>1, Creators
  <2> QED
    BY <1>1, <2>2, <2>3, <2>4, <2>5
<1> QED
  BY <1>8, <1>9, <1>10, <1>11, <1>12, <1>13, <1>14 DEF RowInv

\* Two movements of one process are not both between Enter and Commit.
LEMMA OneMovement ==
  ASSUME IInv, RowInv, NEW k, Serialized(k), NEW t \in Tasks, NEW u \in Tasks,
         k \in KeysOf(req[t]), k \in KeysOf(req[u]),
         pc[t] \in HoldPoints, pc[u] \in HoldPoints
  PROVE  t = u
BY DEF Serialized, RowInv, MovementHolds, HoldPoints

\* A task that has created a row of a serialized key and may commit holds the
\* lock.
LEMMA CreatorHolds ==
  ASSUME IInv, RowInv, NEW k \in Keys, Serialized(k), NEW t \in Tasks, Open(t), Creates(t, k)
  PROVE  pc[t] \in HoldPoints /\ k \in KeysOf(req[t])
<1>1. <<k, t>> \in Rid /\ <<k, t>>[1] = k
  BY DEF Rid, Origins
<1>2. k \in KeysOf(req[t]) /\ work[t] # NoRows
  BY <1>1 DEF RowInv, RowsMade, Creates, NoRows
<1>3. req[t].kind = "movement"
  BY <1>2 DEF Serialized
<1> QED
  BY <1>2, <1>3 DEF RowInv, NothingWritten, Open, HoldPoints, IInv, TypeOK

\* A row is created where there was none, by one task at a time.
LEMMA RowInsert ==
  ASSUME IInv, RowInv, NEW t \in Tasks, InsertRow(t)
  PROVE  RowInv'
<1> DEFINE g == Target(t)  x == <<g, t>>
<1>1. /\ pc[t] = "insert" /\ UNCHANGED <<req, ln, mutex, bal>>
      /\ work' = [work EXCEPT ![t] = [work[t] EXCEPT ![x] = 0]]
      /\ Got(t, x, 0)
  BY DEF InsertRow, Got, store
<1>2. g \in KeysOf(req[t]) /\ g \in Keys /\ x \in Rid /\ x[1] = g /\ x[2] = t
  <2>1. g \in KeysOf(req[t]) /\ g \in Keys
    BY TargetAsked DEF RowInv, IInv
  <2> QED
    BY <2>1 DEF Rid, Origins
<1>3. 0 # None
  BY StockAssumption
<1>4. \A u \in Tasks, r \in Rid :
        work'[u][r] = IF u = t /\ r = x THEN 0 ELSE work[u][r]
  BY <1>1, <1>2 DEF IInv, TypeOK
<1>5. /\ \A u \in Tasks : u # t => pc'[u] = pc[u] /\ seen'[u] = seen[u] /\ todo'[u] = todo[u] /\ work'[u] = work[u]
      /\ pc'[t] \in {"enter", "select", "flush"}
      /\ todo'[t] \subseteq todo[t]
      /\ pc'[t] = "flush" <=> todo[t] = {}
      /\ pc'[t] = "flush" => seen'[t].row = x
  <2>1. CASE todo[t] = {}
    BY <1>1, <2>1 DEF Got, IInv, TypeOK
  <2>2. CASE todo[t] # {}
    BY <1>1, <2>2 DEF Got, IInv, TypeOK
  <2> QED
    BY <2>1, <2>2
<1> HIDE DEF x
<1>6. RowsMade'
  BY <1>1, <1>2, <1>4 DEF RowInv, RowsMade, KeysOf
<1>7. SeenMade'
  <2> SUFFICES ASSUME NEW u \in Tasks, pc'[u] = "flush"
               PROVE  Val(u, seen[u].row)' # None
    BY DEF SeenMade
  <2>1. CASE u = t
    <3>1. seen'[u].row = x /\ work'[t][x] = 0
      BY <1>2, <1>4, <1>5, <2>1
    <3> QED
      BY <1>3, <2>1, <3>1 DEF Val
  <2>2. CASE u # t
    BY <1>1, <1>5, <2>2 DEF RowInv, SeenMade, Val
  <2> QED
    BY <2>1, <2>2
<1>8. CreatorsDone'
  BY <1>1, <1>5 DEF RowInv, CreatorsDone
<1>9. PrelocksOwn'
  BY <1>1, <1>5 DEF RowInv, PrelocksOwn, KeysOf
<1>10. NothingWritten'
  BY <1>1, <1>5 DEF RowInv, NothingWritten, NoRows, PrelocksOwn
<1>11. MovementHolds'
  BY <1>1, <1>5 DEF RowInv, MovementHolds
<1>12. OneCreator'
  <2> SUFFICES ASSUME NEW k \in Keys, Guarded(k)'
               PROVE  /\ \A r, s \in Rid : r[1] = k /\ s[1] = k /\ bal'[r] # None /\ bal'[s] # None => r = s
                      /\ \A u \in Tasks : Open(u)' /\ Creates(u, k)' =>
                           /\ \A r \in Rid : r[1] = k => bal'[r] = None
                           /\ \A v \in Tasks : Open(v)' /\ Creates(v, k)' => v = u
                      /\ \A u \in Tasks : k \notin Located /\ pc'[u] \in {"plain", "insert"} /\ Target(u)' = k =>
                           \A r \in Rid : r[1] = k => bal'[r] = None
    BY DEF OneCreator
  <2>1. Guarded(k)
    BY <1>1, GuardedKept
  <2>2. \A u \in Tasks : Open(u)' => Open(u)
    BY <1>1, <1>5 DEF Open, Final
  <2>3. \A u \in Tasks : ~(u = t /\ k = g) => (Creates(u, k)' <=> Creates(u, k))
    <3>1. ASSUME NEW u \in Tasks, ~(u = t /\ k = g) PROVE Creates(u, k)' <=> Creates(u, k)
      <4>1. <<k, u>> \in Rid /\ <<k, u>>[2] = u /\ <<k, u>>[1] = k
        BY DEF Rid, Origins
      <4> QED
        BY <1>2, <1>4, <3>1, <4>1 DEF Creates
    <3> QED
      BY <3>1
  <2>4. \A u \in Tasks : pc'[u] \in {"plain", "insert"} => u # t /\ pc[u] = pc'[u] /\ Target(u)' = Target(u)
    BY <1>1, <1>5 DEF Target, Cur, Lines
  <2>5. /\ \A r, s \in Rid : r[1] = k /\ s[1] = k /\ bal[r] # None /\ bal[s] # None => r = s
        /\ \A u \in Tasks : Open(u) /\ Creates(u, k) =>
             /\ \A r \in Rid : r[1] = k => bal[r] = None
             /\ \A v \in Tasks : Open(v) /\ Creates(v, k) => v = u
        /\ \A u \in Tasks : k \notin Located /\ pc[u] \in {"plain", "insert"} /\ Target(u) = k =>
             \A r \in Rid : r[1] = k => bal[r] = None
    BY <2>1, Creators
\* For the key of the new row, nobody has a row and nobody else creates one.
  <2>6. ASSUME k = g
        PROVE  /\ \A r \in Rid : r[1] = k => bal[r] = None
               /\ \A u \in Tasks : Open(u) /\ Creates(u, k) => u = t
    <3>1. CASE k \in Located
      <4>1. \A r \in Rid : r[1] = k => bal[r] = None
        BY <2>6, <3>1 DEF InsertRow, RowClash
      <4>2. \A u \in Tasks : u # t => ~Creates(u, k)
        BY <2>6, <3>1 DEF InsertRow, RowRivals, Creates
      <4> QED
        BY <4>1, <4>2
    <3>2. CASE k \notin Located
      <4>1. Serialized(k) /\ k \in KeysOf(req[t]) /\ pc[t] \in HoldPoints
        BY <1>1, <1>2, <2>1, <2>6, <3>2 DEF Guarded, HoldPoints
      <4>2. \A r \in Rid : r[1] = k => bal[r] = None
        BY <1>1, <2>5, <2>6, <3>2
      <4>3. \A u \in Tasks : Open(u) /\ Creates(u, k) => u = t
        BY <4>1, OneMovement, CreatorHolds
      <4> QED
        BY <4>2, <4>3
    <3> QED
      BY <3>1, <3>2
  <2> QED
    BY <1>1, <2>2, <2>3, <2>4, <2>5, <2>6
<1> QED
  BY <1>6, <1>7, <1>8, <1>9, <1>10, <1>11, <1>12 DEF RowInv

\* A commit makes the rows its task has created visible; their keys had none.
LEMMA RowCommit ==
  ASSUME IInv, RowInv, NEW t \in Tasks, Commit(t)
  PROVE  RowInv'
<1>1. /\ pc[t] = "commit" /\ req' = req /\ Reset({t})
      /\ \A r \in Rid : bal'[r] = Val(t, r)
      /\ pc'[t] = "done" /\ \A u \in Tasks : u # t => pc'[u] = pc[u]
  BY DEF Commit, IInv, TypeOK
<1>2. /\ work'[t] = NoRows /\ todo'[t] = {}
      /\ \A u \in Tasks : u # t => work'[u] = work[u] /\ todo'[u] = todo[u] /\ seen'[u] = seen[u] /\ ln'[u] = ln[u]
      /\ \A r \in Rid : NoRows[r] = None
  BY <1>1 DEF Reset, NoRows
<1>3. ASSUME NEW r \in Rid, bal[r] # None PROVE bal'[r] # None
  BY <1>1, <1>3 DEF Val
<1>4. ASSUME NEW r \in Rid, bal'[r] # bal[r], bal[r] = None
      PROVE  /\ work[t][r] # None /\ r[1] \in Keys /\ r = <<r[1], t>>
             /\ Creates(t, r[1]) /\ r[1] \in KeysOf(req[t])
  <2>1. work[t][r] # None
    BY <1>1, <1>4 DEF Val
  <2>2. r[2] = t /\ r[1] \in KeysOf(req[t])
    BY <1>4, <2>1 DEF RowInv, RowsMade
  <2>3. r = <<r[1], r[2]>> /\ r[1] \in Keys
    BY DEF Rid
  <2> QED
    BY <2>1, <2>2, <2>3 DEF Creates
<1>5. RowsMade'
  BY <1>1, <1>2, <1>3 DEF RowInv, RowsMade, KeysOf
<1>6. SeenMade'
  <2> SUFFICES ASSUME NEW u \in Tasks, pc'[u] = "flush"
               PROVE  Val(u, seen[u].row)' # None
    BY DEF SeenMade
  <2>1. u # t /\ pc[u] = "flush" /\ seen'[u] = seen[u] /\ work'[u] = work[u]
    BY <1>1, <1>2
  <2>2. seen[u].row \in Rid /\ Val(u, seen[u].row) # None
    BY <2>1, NewEntryType DEF RowInv, SeenMade
  <2> QED
    BY <1>3, <2>1, <2>2 DEF Val
<1>7. CreatorsDone'
  <2> SUFFICES ASSUME NEW u \in Tasks, NEW k \in Keys, bal'[<<k, u>>] # None
               PROVE  pc'[u] = "done"
    BY DEF CreatorsDone
  <2>1. <<k, u>> \in Rid /\ <<k, u>>[1] = k
    BY DEF Rid, Origins
  <2>2. CASE bal[<<k, u>>] # None
    BY <1>1, <2>2 DEF RowInv, CreatorsDone
  <2>3. CASE bal[<<k, u>>] = None
    BY <1>1, <1>4, <2>1, <2>3
  <2> QED
    BY <2>2, <2>3
<1>8. PrelocksOwn'
  BY <1>1, <1>2 DEF RowInv, PrelocksOwn, KeysOf
<1>9. NothingWritten'
  BY <1>1, <1>2 DEF RowInv, NothingWritten, NoRows
<1>10. MovementHolds'
  <2>1. \A u \in Tasks : u # t /\ mutex[ProcOf[u]] = u => mutex'[ProcOf[u]] = u
    BY StockAssumption DEF Commit, Release, IInv, TypeOK
  <2> QED
    BY <1>1, <2>1 DEF RowInv, MovementHolds
<1>11. OneCreator'
  <2> SUFFICES ASSUME NEW k \in Keys, Guarded(k)'
               PROVE  /\ \A r, s \in Rid : r[1] = k /\ s[1] = k /\ bal'[r] # None /\ bal'[s] # None => r = s
                      /\ \A u \in Tasks : Open(u)' /\ Creates(u, k)' =>
                           /\ \A r \in Rid : r[1] = k => bal'[r] = None
                           /\ \A v \in Tasks : Open(v)' /\ Creates(v, k)' => v = u
                      /\ \A u \in Tasks : k \notin Located /\ pc'[u] \in {"plain", "insert"} /\ Target(u)' = k =>
                           \A r \in Rid : r[1] = k => bal'[r] = None
    BY DEF OneCreator
  <2>1. Guarded(k)
    BY <1>1, GuardedKept
  <2>2. \A u \in Tasks : Open(u)' => u # t /\ Open(u) /\ (Creates(u, k)' <=> Creates(u, k))
    BY <1>1, <1>2 DEF Open, Creates, Final
  <2>3. \A u \in Tasks : pc'[u] \in {"plain", "insert"} => u # t /\ pc[u] = pc'[u] /\ Target(u)' = Target(u)
    BY <1>1, <1>2 DEF Target, Cur, Lines
  <2>4. /\ \A r, s \in Rid : r[1] = k /\ s[1] = k /\ bal[r] # None /\ bal[s] # None => r = s
        /\ \A u \in Tasks : Open(u) /\ Creates(u, k) =>
             /\ \A r \in Rid : r[1] = k => bal[r] = None
             /\ \A v \in Tasks : Open(v) /\ Creates(v, k) => v = u
        /\ \A u \in Tasks : k \notin Located /\ pc[u] \in {"plain", "insert"} /\ Target(u) = k =>
             \A r \in Rid : r[1] = k => bal[r] = None
    BY <2>1, Creators
  <2>5. CASE ~Creates(t, k)
    <3>1. \A r \in Rid : r[1] = k => (bal'[r] = None <=> bal[r] = None)
      BY <1>3, <1>4, <2>5
    <3> QED
      BY <2>2, <2>3, <2>4, <3>1
  <2>6. CASE Creates(t, k)
    <3>1. Open(t)
      BY <1>1 DEF Open, Final
    <3>2. \A r \in Rid : r[1] = k /\ bal'[r] # None => r = <<k, t>>
      BY <1>4, <2>4, <2>6, <3>1
    <3>3. \A u \in Tasks : ~(Open(u)' /\ Creates(u, k)')
      BY <2>2, <2>4, <2>6, <3>1
    <3>4. ASSUME NEW u \in Tasks, k \notin Located, pc'[u] \in {"plain", "insert"}, Target(u)' = k
          PROVE  FALSE
      <4>1. Serialized(k)
        BY <2>1, <3>4 DEF Guarded
      <4>2. pc[t] \in HoldPoints /\ k \in KeysOf(req[t])
        BY <2>6, <3>1, <4>1, CreatorHolds
      <4>3. u # t /\ pc[u] \in HoldPoints /\ k \in KeysOf(req[u])
        BY <2>3, <3>4, TargetAsked DEF HoldPoints, RowInv, IInv
      <4> QED
        BY <4>1, <4>2, <4>3, OneMovement
    <3> QED
      BY <3>2, <3>3, <3>4
  <2> QED
    BY <2>5, <2>6
<1> QED
  BY <1>5, <1>6, <1>7, <1>8, <1>9, <1>10, <1>11 DEF RowInv

\* The lock of a process is freed by its holder only.
LEMMA ReleaseKeeps ==
  ASSUME IInv, NEW t \in Tasks, NEW u \in Tasks, u # t, mutex[ProcOf[u]] = u,
         mutex' \in {mutex, Release(t)}
  PROVE  mutex'[ProcOf[u]] = u
BY StockAssumption DEF Release, IInv, TypeOK

\* A handler that fails writes nothing more and gives its lock back.
LEMMA RowFail ==
  ASSUME IInv, RowInv, NEW t \in Tasks, Fail(t), pc[t] \in {"track", "flush", "insert"}
  PROVE  RowInv'
<1>1. /\ pc' = [pc EXCEPT ![t] = "rollback"] /\ mutex' = Release(t)
      /\ UNCHANGED <<req, ln, work, bal, seen, todo>>
  BY DEF Fail, session, store
<1>2. \A u \in Tasks : u # t /\ mutex[ProcOf[u]] = u => mutex'[ProcOf[u]] = u
  BY <1>1, ReleaseKeeps
<1>3. pc[t] \notin Final \cup {"rollback"}
  BY DEF Final
<1>4. todo'[t] \subseteq KeysOf(req[t]) /\ (req[t].kind = "movement" => todo'[t] = {})
  BY <1>1 DEF RowInv, PrelocksOwn
<1> QED
  BY <1>1, <1>2, <1>3, <1>4, RowQuiet DEF HoldPoints

\* get_or_create_for_update found row r.
LEMMA RowGot ==
  ASSUME IInv, RowInv, NEW t \in Tasks, NEW r \in Visible(t, Target(t)), Got(t, r, Val(t, r)),
         pc[t] \in {"select", "plain"}, work' = work
  PROVE  RowInv'
<1> DEFINE c == IF todo[t] = {} THEN "flush"
                ELSE IF todo[t] \ {Target(t)} = {} THEN "enter" ELSE "select"
<1>1. /\ pc' = [pc EXCEPT ![t] = c]
      /\ \A u \in Tasks : u # t => seen'[u] = seen[u] /\ todo'[u] = todo[u]
      /\ todo'[t] \subseteq todo[t]
      /\ c = "flush" => seen'[t].row = r
      /\ c \in {"flush", "enter", "select"} /\ (c = "enter" => todo[t] # {})
      /\ c # "flush" => todo[t] # {}
  <2>1. CASE todo[t] = {}
    BY <2>1 DEF Got, IInv, TypeOK
  <2>2. CASE todo[t] # {}
    BY <2>2 DEF Got, IInv, TypeOK
  <2> QED
    BY <2>1, <2>2
<1> HIDE DEF c
<1>2. Val(t, r) # None
  BY DEF Visible
<1>3. UNCHANGED <<req, ln, mutex, bal>>
  BY DEF Got, store
<1>4. todo[t] \subseteq KeysOf(req[t]) /\ (req[t].kind = "movement" => todo[t] = {})
  BY DEF RowInv, PrelocksOwn
<1>5. todo'[t] \subseteq KeysOf(req[t]) /\ (req[t].kind = "movement" => todo'[t] = {})
  BY <1>1, <1>4
<1>6. req[t].kind = "movement" => c = "flush" /\ mutex'[ProcOf[t]] = t
  BY <1>1, <1>3, <1>4 DEF RowInv, MovementHolds
<1>7. pc[t] \notin Final \cup {"rollback"}
  BY DEF Final
<1>8. c = "flush" => Val(t, seen'[t].row) # None
  BY <1>1, <1>2
<1> QED
  BY <1>1, <1>3, <1>5, <1>6, <1>7, <1>8, RowQuiet

\* Every step keeps the rows of each key in one hand.
LEMMA RowStep ==
  ASSUME IInv, RowInv, [Next]_vars
  PROVE  RowInv'
<1>1. ASSUME NEW t \in Tasks, Step(t) PROVE RowInv'
  <2> DEFINE Own == todo[t] \subseteq KeysOf(req[t]) /\ (req[t].kind = "movement" => todo[t] = {})
  <2>0. Own
    BY DEF RowInv, PrelocksOwn
  <2>1. CASE Begin(t)
    <3> DEFINE c == IF req[t].kind = "transfer" THEN "select" ELSE "enter"
    <3>1. /\ pc' = [pc EXCEPT ![t] = c] /\ pc[t] = "idle" /\ UNCHANGED <<req, ln, work, bal, seen, mutex>>
          /\ \A u \in Tasks : u # t => todo'[u] = todo[u]
          /\ todo'[t] = IF req[t].kind = "transfer" THEN KeysOf(req[t]) ELSE {}
      BY <2>1 DEF Begin, store, IInv, TypeOK
    <3>2. work[t] = NoRows
      BY <3>1 DEF RowInv, NothingWritten
    <3>3. c \in {"select", "enter"} /\ (req[t].kind = "movement" => c = "enter")
      OBVIOUS
    <3>4. todo'[t] \subseteq KeysOf(req[t]) /\ (req[t].kind = "movement" => todo'[t] = {})
      BY <3>1
    <3> HIDE DEF c
    <3> QED
      BY <3>1, <3>2, <3>3, <3>4, RowQuiet DEF Final, HoldPoints
  <2>2. CASE Replay(t)
    <3>1. /\ pc' = [pc EXCEPT ![t] = "replayed"] /\ pc[t] = "enter"
          /\ UNCHANGED <<req, ln, work, bal, seen, todo, mutex>>
      BY <2>2 DEF Replay, session, store
    <3> QED
      BY <2>0, <3>1, RowQuiet DEF Final, HoldPoints
  <2>3. CASE Enter(t)
    <3>1. /\ pc' = [pc EXCEPT ![t] = "track"] /\ pc[t] = "enter" /\ mutex[ProcOf[t]] = None
          /\ mutex' = [mutex EXCEPT ![ProcOf[t]] = t]
          /\ UNCHANGED <<req, ln, work, bal, seen, todo>>
      BY <2>3 DEF Enter, session, store
    <3>2. mutex'[ProcOf[t]] = t /\ \A u \in Tasks : u # t /\ mutex[ProcOf[u]] = u => mutex'[ProcOf[u]] = u
      <4>1. mutex \in [Procs -> Tasks \cup {None}] /\ \A u \in Tasks : ProcOf[u] \in Procs /\ u # None
        BY StockAssumption DEF IInv, TypeOK
      <4>2. mutex'[ProcOf[t]] = t
        BY <3>1, <4>1
      <4>3. ASSUME NEW u \in Tasks, mutex[ProcOf[u]] = u PROVE mutex'[ProcOf[u]] = u
        <5>1. ProcOf[u] # ProcOf[t]
          BY <3>1, <4>1, <4>3
        <5> QED
          BY <3>1, <4>1, <4>3, <5>1
      <4> QED
        BY <4>2, <4>3
    <3> QED
      BY <2>0, <3>1, <3>2, RowQuiet DEF Final, HoldPoints
  <2>4. CASE Reject(t) \/ RefuseNegative(t) \/ UniqueViolation(t)
    BY <2>4, RowFail DEF Reject, RefuseNegative, UniqueViolation
  <2>5. CASE Track(t)
    <3>1. CASE Fail(t)
      BY <2>5, <3>1, RowFail DEF Track
    <3>2. CASE ~Fail(t)
      <4>1. /\ pc' = [pc EXCEPT ![t] = "select"] /\ pc[t] = "track"
            /\ UNCHANGED <<req, ln, work, bal, seen, todo, mutex>>
        BY <2>5, <3>2 DEF Track, store
      <4>2. req[t].kind = "movement" => mutex[ProcOf[t]] = t
        BY <4>1 DEF RowInv, MovementHolds
      <4> QED
        BY <2>0, <4>1, <4>2, RowQuiet DEF Final, HoldPoints
    <3> QED
      BY <3>1, <3>2
  <2>6. CASE SelectForUpdate(t) \/ PlainRead(t)
    BY <2>6, RowGot DEF SelectForUpdate, PlainRead
  <2>7. CASE SelectNothing(t) \/ PlainReadNothing(t)
    <3>1. PICK c \in {"plain", "insert"} : pc' = [pc EXCEPT ![t] = c]
      BY <2>7 DEF SelectNothing, PlainReadNothing
    <3>2. /\ pc[t] \in {"select", "plain"} /\ Visible(t, Target(t)) = {}
          /\ UNCHANGED <<req, ln, work, bal, seen, todo, mutex>>
      BY <2>7 DEF SelectNothing, PlainReadNothing, session, store
    <3>3. \A r \in Rid : r[1] = Target(t) => bal[r] = None
      BY <3>2 DEF Visible, Val
    <3>4. req[t].kind = "movement" => mutex[ProcOf[t]] = t
      BY <3>2 DEF RowInv, MovementHolds
    <3>5. c # "done" /\ c # "idle" /\ c # "flush" /\ c # "enter"
      OBVIOUS
    <3> QED
      BY <2>0, <3>1, <3>2, <3>3, <3>4, <3>5, RowQuiet DEF Final
  <2>8. CASE InsertRow(t)
    BY <2>8, RowInsert
  <2>9. CASE FlushLine(t)
    BY <2>9, RowFlush
  <2>10. CASE Commit(t)
    BY <2>10, RowCommit
  <2>11. CASE Rollback(t) \/ DeadlockAbort(t)
    <3>1. /\ {t} \in SUBSET Tasks /\ Reset({t}) /\ UNCHANGED <<req, bal>>
          /\ pc'[t] = "failed" /\ \A u \in Tasks : u # t => pc'[u] = pc[u]
          /\ mutex' \in {mutex, Release(t)}
      BY <2>11 DEF Rollback, DeadlockAbort, store, IInv, TypeOK
    <3>2. pc[t] # "done"
      <4>1. CASE Rollback(t)
        BY <4>1 DEF Rollback
      <4>2. CASE DeadlockAbort(t)
        <5>1. Waits(t) # {}
          BY <4>2 DEF DeadlockAbort
        <5> QED
          BY <5>1 DEF Waits
      <4> QED
        BY <2>11, <4>1, <4>2
    <3>3. \A u \in Tasks \ {t} : mutex[ProcOf[u]] = u => mutex'[ProcOf[u]] = u
      BY <3>1, ReleaseKeeps
    <3> QED
      BY <3>1, <3>2, <3>3, RowReset
  <2> QED
    BY <1>1, <2>1, <2>2, <2>3, <2>4, <2>5, <2>6, <2>7, <2>8, <2>9, <2>10, <2>11 DEF Step
<1>2. ASSUME NEW p \in Procs, Crash(p) PROVE RowInv'
  <2> DEFINE T == {t \in Tasks : ProcOf[t] = p /\ pc[t] \notin Final \cup {"idle"}}
  <2>1. /\ Reset(T) /\ UNCHANGED <<req, bal>> /\ mutex' = [mutex EXCEPT ![p] = None]
        /\ pc' = [t \in Tasks |-> IF t \in T THEN "failed" ELSE pc[t]]
    BY <1>2 DEF Crash, store
  <2>2. T \in SUBSET Tasks /\ \A u \in T : pc[u] # "done"
    BY DEF Final
  <2>3. \A u \in Tasks \ T : mutex[ProcOf[u]] = u /\ pc[u] \in HoldPoints => mutex'[ProcOf[u]] = u
    <3>1. ASSUME NEW u \in Tasks \ T, mutex[ProcOf[u]] = u, pc[u] \in HoldPoints
          PROVE  mutex'[ProcOf[u]] = u
      <4>1. ProcOf[u] # p
        BY <3>1 DEF HoldPoints, Final
      <4> QED
        BY <2>1, <3>1, <4>1, StockAssumption DEF IInv, TypeOK
    <3> QED
      BY <3>1
  <2> HIDE DEF T
  <2>4. /\ \A u \in T : pc'[u] = "failed" /\ pc[u] # "done"
        /\ \A u \in Tasks \ T : pc'[u] = pc[u]
    BY <2>1, <2>2
  <2> QED
    BY <2>1, <2>2, <2>3, <2>4, RowReset
<1>3. CASE Terminated \/ UNCHANGED vars
  <2>1. UNCHANGED <<req, pc, ln, todo, seen, work, bal, mutex>>
    BY <1>3 DEF Terminated, vars, session, store
  <2>2. RowsMade' /\ SeenMade' /\ CreatorsDone' /\ PrelocksOwn' /\ NothingWritten' /\ MovementHolds'
    BY <2>1 DEF RowInv, RowsMade, SeenMade, CreatorsDone, PrelocksOwn, NothingWritten,
       MovementHolds, KeysOf, Val, NoRows
  <2>3. OneCreator'
    BY <2>1 DEF RowInv, OneCreator, Guarded, Serialized, KeysOf, Open, Creates, Target, Cur, Lines
  <2> QED
    BY <2>2, <2>3 DEF RowInv
<1> QED
  BY <1>1, <1>2, <1>3 DEF Next

\* At first rows are those of the seeded keys and nobody holds or writes any.
LEMMA RowInit == Init => RowInv
<1> SUFFICES ASSUME Init PROVE RowInv
  OBVIOUS
<1>1. /\ \A t \in Tasks : pc[t] = "idle" /\ work[t] = NoRows /\ todo[t] = {}
      /\ \A r \in Rid : NoRows[r] = None /\ (bal[r] # None => r[2] = None)
  BY DEF Init, NoRows
<1>2. \A t \in Tasks, k \in Keys : <<k, t>> \in Rid /\ <<k, t>>[2] = t /\ t # None
  BY StockAssumption DEF Rid, Origins
<1>3. RowsMade /\ SeenMade /\ PrelocksOwn /\ NothingWritten /\ MovementHolds
  BY <1>1 DEF RowsMade, SeenMade, PrelocksOwn, NothingWritten, MovementHolds
<1>4. CreatorsDone
  BY <1>1, <1>2 DEF CreatorsDone
<1>5. OneCreator
  <2>1. \A r, s \in Rid : r[1] = s[1] /\ bal[r] # None /\ bal[s] # None => r = s
    BY <1>1 DEF Rid
  <2>2. \A t \in Tasks, k \in Keys : ~Creates(t, k)
    BY <1>1, <1>2 DEF Creates
  <2> QED
    BY <1>1, <2>1, <2>2 DEF OneCreator
<1> QED
  BY <1>3, <1>4, <1>5 DEF RowInv

\* One row for every key the locks or the constraint guard.
LEMMA RowsCount ==
  ASSUME IInv, RowInv
  PROVE  OneRowPerKey
<1> SUFFICES ASSUME NEW k \in Keys, k \in Located \cup Seeded \/ Serialized(k)
             PROVE  Cardinality({r \in Rid : r[1] = k /\ bal[r] # None}) <= 1
  BY DEF OneRowPerKey
<1> DEFINE S == {r \in Rid : r[1] = k /\ bal[r] # None}
<1>1. \A r, s \in S : r = s
  <2>1. CASE k \in Seeded
    <3>1. \A r \in S : r = <<k, None>>
      BY <2>1 DEF IInv, OnlyRow, Rid, Origins
    <3> QED
      BY <3>1
  <2>2. CASE k \notin Seeded
    <3>1. Guarded(k)
      BY <2>2 DEF Guarded
    <3> QED
      BY <3>1, Creators
  <2> QED
    BY <2>1, <2>2
<1> HIDE DEF S
<1>2. CASE S = {}
  BY <1>2, FS_EmptySet DEF S
<1>3. CASE S # {}
  <2>1. PICK r \in S : TRUE
    BY <1>3
  <2>2. S = {r}
    BY <1>1, <2>1
  <2>3. Cardinality(S) = 1
    BY <2>2, FS_Singleton
  <2> QED
    BY <2>3 DEF S
<1> QED
  BY <1>2, <1>3

\* A stock coordinate never gets a second balance row.
THEOREM OneRow == Spec => []OneRowPerKey
<1>1. IInv /\ RowInv /\ [Next]_vars => (IInv /\ RowInv)'
  BY NextIInv, RowStep
<1>2. Init => IInv /\ RowInv
  BY InitIInv, RowInit
<1>3. IInv /\ RowInv => OneRowPerKey
  BY RowsCount
<1> QED
  BY <1>1, <1>2, <1>3, PTL DEF Spec
-----------------------------------------------------------------------------
(* Batches and serial numbers. *)

\* The committed entries that concern tracking record y.
Booked(y) == {z \in Slots : y \in ItemsOf(At(z))}

\* Points of a request before its movement is checked, and after.
Loading == {"idle", "enter", "track"}
Checked == {"select", "plain", "insert", "flush", "commit"}

TrackTyped ==
  /\ track \in [Items -> Tracks] /\ \A m \in Batches : track[m] \in Int
  /\ view \in [Tasks -> [Items -> {None} \cup [old : Tracks, new : Tracks]]]

\* A session holds tracking records its request names.  A movement that is
\* alone with a record has loaded it when it checked it, and the record has not
\* changed since.
Viewed(t) ==
  /\ \A m \in Batches : view[t][m] # None => view[t][m].new \in Int
  /\ \A y \in Items : view[t][y] # None => y \in ItemsAsked(t)
  /\ req[t].kind = "movement" =>
       /\ pc[t] \in Loading => view[t] = NoItems
       /\ pc[t] \in Checked =>
            \A y \in ItemsOf(Cur(t)) : TrackedAlone(y) =>
              /\ Acceptable(Cur(t), y, track[y])
              /\ view[t][y] # None /\ view[t][y].new = Tracked(Cur(t), y, track[y])

\* What a record that one process moves alone was at the start, and what its
\* entries did since, is what it says.
InStock(w) == IF w \in Sites THEN 1 ELSE 0
Effects == [z \in Slots |-> Delta(At(z))]
BookedAs(y, d) == {z \in Booked(y) : At(z).dir = d}
Tallies(y) ==
  /\ IsFiniteSet(Booked(y))
  /\ y \in Batches => track[y] = InitTrack[y] + SumOver(Effects, Booked(y))
  /\ y \in Serials =>
       Cardinality(BookedAs(y, "IN")) - Cardinality(BookedAs(y, "OUT")) =
         InStock(track[y]) - InStock(InitTrack[y])

\* A task writes entries of the records its request names.
EntriesAsked ==
  \A t \in Tasks : \A k \in Keys : \A i \in DOMAIN pend[t][k] :
    ItemsOf(pend[t][k][i]) \subseteq ItemsAsked(t)

TrackInv ==
  /\ TrackTyped
  /\ EntriesAsked
  /\ \A t \in Tasks : Viewed(t)
  /\ \A y \in Items : TrackedAlone(y) => Tallies(y)

\* The line a task works on, and the tracking records it names.
LEMMA ItemsOfCur ==
  ASSUME TypeOK, NEW t \in Tasks
  PROVE  /\ Cur(t) \in Line
         /\ ItemsOf(Cur(t)) \subseteq Items
         /\ ItemsOf(Cur(t)) \subseteq ItemsAsked(t)
         /\ req[t].kind = "movement" => ItemsAsked(t) = ItemsOf(Cur(t))
<1>1. Lines(t) \in Seq(Line) /\ ln[t] \in DOMAIN Lines(t) /\ req[t] \in Requests
  BY StockAssumption DEF TypeOK, Lines
<1>2. Cur(t) \in Line
  BY <1>1 DEF Cur
<1>3. Cur(t).serials \subseteq Serials /\ Cur(t).batch \in Batches \cup {None}
  BY <1>2 DEF Line
<1>4. ItemsOf(Cur(t)) \subseteq Items
  BY <1>3 DEF ItemsOf, Items
<1>5. ItemsOf(Cur(t)) \subseteq ItemsAsked(t)
  BY <1>1 DEF Cur, ItemsAsked
<1>6. ASSUME req[t].kind = "movement" PROVE ItemsAsked(t) = ItemsOf(Cur(t))
  <2>1. Len(Lines(t)) = 1
    BY <1>1, <1>6, StockAssumption DEF Lines
  <2>2. DOMAIN Lines(t) = {1} /\ ln[t] = 1
    BY <1>1, <2>1
  <2> QED
    BY <2>2 DEF ItemsAsked, Cur
<1> QED
  BY <1>2, <1>4, <1>5, <1>6

\* What a check makes of a tracking record.
LEMMA TrackedType ==
  ASSUME TypeOK, NEW t \in Tasks, NEW y \in ItemsOf(Cur(t)), NEW v \in Tracks,
         y \in Batches => v \in Int
  PROVE  /\ Tracked(Cur(t), y, v) \in Tracks
         /\ y \in Batches => Tracked(Cur(t), y, v) \in Int
<1>1. Cur(t) \in Line
  BY ItemsOfCur
<1>2. Delta(Cur(t)) \in Int /\ Cur(t).key \in Keys
  BY <1>1 DEF Delta, Line
<1>3. SiteOf[Cur(t).key] \in Sites
  BY <1>2, StockAssumption
<1> QED
  BY <1>2, <1>3 DEF Tracked, Tracks

\* A record of the session is what it shows of it.
LEMMA LoadedType ==
  ASSUME TrackTyped, NEW t \in Tasks, Viewed(t), NEW y \in Items
  PROVE  /\ Loaded(t, y) \in Tracks /\ Original(t, y) \in Tracks
         /\ y \in Batches => Loaded(t, y) \in Int
<1>1. view[t][y] \in {None} \cup [old : Tracks, new : Tracks]
  BY DEF TrackTyped
<1>2. view[t][y] # None => view[t][y].old \in Tracks /\ view[t][y].new \in Tracks
  BY <1>1
<1> QED
  BY <1>2 DEF Loaded, Original, TrackTyped, Viewed

\* A session whose task has not gone past the checks.
LEMMA ViewedKept ==
  ASSUME NEW u \in Tasks, Viewed(u), req' = req, view'[u] = view[u], ln'[u] = ln[u],
         req[u].kind = "movement" =>
           /\ pc'[u] \in Loading => pc[u] \in Loading
           /\ pc'[u] \in Checked => pc[u] \in Checked,
         req[u].kind = "movement" /\ pc[u] \in Checked =>
           \A y \in ItemsOf(Cur(u)) : TrackedAlone(y) => track'[y] = track[y]
  PROVE  Viewed(u)'
<1>1. /\ Lines(u)' = Lines(u) /\ Cur(u)' = Cur(u) /\ ItemsAsked(u)' = ItemsAsked(u)
      /\ \A y : TrackedAlone(y)' <=> TrackedAlone(y)
      /\ NoItems' = NoItems
  BY DEF Lines, Cur, ItemsAsked, TrackedAlone, NoItems
<1>2. ASSUME req[u].kind = "movement", pc'[u] \in Checked,
             NEW y \in ItemsOf(Cur(u)), TrackedAlone(y)
      PROVE  /\ Acceptable(Cur(u), y, track'[y])
             /\ view'[u][y] # None /\ view'[u][y].new = Tracked(Cur(u), y, track'[y])
  BY <1>2 DEF Viewed
<1>3. ASSUME NEW l, NEW y
      PROVE  /\ Acceptable(l, y, track[y])' <=> Acceptable(l, y, track'[y])
             /\ Tracked(l, y, track[y])' = Tracked(l, y, track'[y])
  BY DEF Acceptable, Tracked
<1> QED
  BY <1>1, <1>2, <1>3 DEF Viewed

\* The end of a transaction empties its session.
LEMMA ViewedEmpty ==
  ASSUME NEW u \in Tasks, req' = req, view'[u] = NoItems, pc'[u] \in Final
  PROVE  Viewed(u)'
<1>1. /\ \A y \in Items : NoItems[y] = None
      /\ Batches \subseteq Items
  BY DEF NoItems, Items
<1>2. pc'[u] \notin Loading \cup Checked
  BY DEF Final, Loading, Checked
<1> QED
  BY <1>1, <1>2 DEF Viewed

\* Loading a request loads the batches of a document.
LEMMA ViewedBegin ==
  ASSUME TypeOK, TrackTyped, NEW t \in Tasks, Begin(t)
  PROVE  TrackTyped' /\ Viewed(t)'
<1> DEFINE fresh(y) == [old |-> track[y], new |-> track[y]]
           mine == [y \in Items |-> IF IsDoc(t) /\ y \in BatchesOf(req[t]) THEN fresh(y) ELSE None]
<1>1. /\ req' = req /\ track' = track /\ view' = [view EXCEPT ![t] = mine]
      /\ req[t].kind = "movement" => pc'[t] \notin Checked
  BY DEF Begin, store, TypeOK, Checked
<1>2. mine \in [Items -> {None} \cup [old : Tracks, new : Tracks]]
  BY DEF TrackTyped
<1>3. view'[t] = mine /\ TrackTyped'
  BY <1>1, <1>2 DEF TrackTyped
<1>4. ASSUME NEW y \in Items, mine[y] # None
      PROVE  y \in ItemsAsked(t) /\ (y \in Batches => mine[y].new \in Int)
  <2>1. y \in BatchesOf(req[t]) /\ mine[y] = fresh(y)
    BY <1>4
  <2>2. PICK i \in DOMAIN req[t].lines : y = req[t].lines[i].batch /\ y # None
    BY <2>1 DEF BatchesOf
  <2>3. y \in ItemsOf(Lines(t)[i]) /\ i \in DOMAIN Lines(t)
    BY <2>2 DEF ItemsOf, Lines
  <2> QED
    BY <2>1, <2>3 DEF ItemsAsked, TrackTyped
<1>5. req[t].kind = "movement" => mine = NoItems
  BY DEF IsDoc, NoItems
<1>6. ItemsAsked(t)' = ItemsAsked(t) /\ NoItems' = NoItems /\ Batches \subseteq Items
  BY <1>1 DEF ItemsAsked, Lines, NoItems, Items
<1> HIDE DEF mine, fresh
<1> QED
  BY <1>1, <1>3, <1>4, <1>5, <1>6 DEF Viewed

\* The check of a line changes the objects of its records.
LEMMA ViewedTrack ==
  ASSUME TypeOK, TrackTyped, NEW t \in Tasks, Viewed(t), Track(t), ~Fail(t)
  PROVE  TrackTyped' /\ Viewed(t)'
<1> DEFINE l == Cur(t)
           fresh(y) == [old |-> Original(t, y), new |-> Tracked(l, y, Loaded(t, y))]
           mine == [y \in Items |-> IF y \in ItemsOf(l) THEN fresh(y) ELSE view[t][y]]
<1>1. /\ req' = req /\ track' = track /\ ln' = ln /\ view' = [view EXCEPT ![t] = mine]
      /\ pc[t] = "track" /\ pc'[t] = "select"
      /\ \A y \in ItemsOf(l) : Acceptable(l, y, Loaded(t, y))
  BY DEF Track, store, TypeOK, TrackTyped
<1>2. ItemsOf(l) \subseteq Items /\ ItemsOf(l) \subseteq ItemsAsked(t)
  BY ItemsOfCur
<1>3. ASSUME NEW y \in ItemsOf(l)
      PROVE  /\ fresh(y) \in [old : Tracks, new : Tracks]
             /\ y \in Batches => fresh(y).new \in Int
  BY <1>2, <1>3, LoadedType, TrackedType
<1>4. mine \in [Items -> {None} \cup [old : Tracks, new : Tracks]]
  <2> HIDE DEF fresh, l
  <2>1. \A y \in Items : view[t][y] \in {None} \cup [old : Tracks, new : Tracks]
    BY DEF TrackTyped
  <2> QED
    BY <1>3, <2>1
<1>5. view'[t] = mine /\ TrackTyped'
  BY <1>1, <1>4 DEF TrackTyped
<1>6. ASSUME NEW y \in Items, mine[y] # None
      PROVE  y \in ItemsAsked(t) /\ (y \in Batches => mine[y].new \in Int)
  <2> HIDE DEF fresh, l
  <2>1. CASE y \in ItemsOf(l)
    BY <1>2, <1>3, <2>1
  <2>2. CASE y \notin ItemsOf(l)
    BY <1>6, <2>2 DEF Viewed
  <2> QED
    BY <2>1, <2>2
<1>7. ASSUME req[t].kind = "movement", NEW y \in ItemsOf(l)
      PROVE  /\ Acceptable(l, y, track[y])
             /\ mine[y] # None /\ mine[y].new = Tracked(l, y, track[y])
  <2>1. view[t][y] = None
    BY <1>1, <1>2, <1>7 DEF Viewed, Loading, NoItems
  <2>2. Loaded(t, y) = track[y]
    BY <2>1 DEF Loaded
  <2>3. mine[y] = fresh(y) /\ fresh(y).new = Tracked(l, y, track[y])
    BY <1>2, <1>7, <2>2
  <2> HIDE DEF mine, fresh
  <2>4. mine[y] # None
    BY <1>3, <1>7, <2>3, TrackAssumption
  <2> QED
    BY <1>1, <1>7, <2>2, <2>3, <2>4
<1>8. /\ Lines(t)' = Lines(t) /\ Cur(t)' = l /\ ItemsAsked(t)' = ItemsAsked(t)
      /\ Batches \subseteq Items
  BY <1>1 DEF Lines, Cur, ItemsAsked, Items
<1>9. ASSUME NEW k, NEW y
      PROVE  /\ Acceptable(k, y, track[y])' <=> Acceptable(k, y, track[y])
             /\ Tracked(k, y, track[y])' = Tracked(k, y, track[y])
  BY <1>1 DEF Acceptable, Tracked
<1>10. pc'[t] \notin Loading
  BY <1>1 DEF Loading
<1> HIDE DEF mine, fresh, l
<1> QED
  BY <1>1, <1>5, <1>6, <1>7, <1>8, <1>9, <1>10 DEF Viewed

\* Points of a movement that does not wait for its first row lock any more.
LEMMA MovementSteps ==
  ASSUME IInv, RowInv, NEW t \in Tasks, req[t].kind = "movement", NEW r, NEW v, Got(t, r, v)
  PROVE  pc'[t] = "flush"
BY DEF Got, IInv, TypeOK, RowInv, PrelocksOwn

\* What a step does to the sessions' tracking records, unless it commits.
LEMMA ViewsMove ==
  ASSUME IInv, RowInv, TrackInv, NEW t \in Tasks, Step(t), ~Commit(t)
  PROVE  /\ req' = req /\ track' = track /\ ledger' = ledger /\ TrackTyped'
         /\ Viewed(t)' /\ \A u \in Tasks \ {t} : view'[u] = view[u] /\ pc'[u] = pc[u] /\ ln'[u] = ln[u]
<1> DEFINE Goal == /\ req' = req /\ track' = track /\ ledger' = ledger /\ TrackTyped'
                   /\ Viewed(t)'
                   /\ \A u \in Tasks \ {t} : view'[u] = view[u] /\ pc'[u] = pc[u] /\ ln'[u] = ln[u]
<1>0. TypeOK /\ TrackTyped /\ Viewed(t)
  BY DEF IInv, TrackInv
<1>1. ASSUME UNCHANGED <<req, track, ledger, view, ln>>,
             \A u \in Tasks \ {t} : pc'[u] = pc[u],
             req[t].kind = "movement" =>
               /\ pc'[t] \in Loading => pc[t] \in Loading
               /\ pc'[t] \in Checked => pc[t] \in Checked
      PROVE  Goal
  <2>1. Viewed(t)'
    BY <1>0, <1>1, ViewedKept
  <2>2. TrackTyped'
    BY <1>0, <1>1 DEF TrackTyped
  <2> QED
    BY <1>1, <2>1, <2>2
<1>2. CASE Begin(t)
  <2>1. TrackTyped' /\ Viewed(t)'
    BY <1>0, <1>2, ViewedBegin
  <2>2. /\ req' = req /\ track' = track /\ ledger' = ledger /\ ln' = ln
        /\ \A u \in Tasks \ {t} : view'[u] = view[u] /\ pc'[u] = pc[u]
    BY <1>0, <1>2 DEF Begin, store, TypeOK, TrackTyped
  <2> QED
    BY <2>1, <2>2
<1>3. CASE Replay(t) \/ Enter(t)
  <2>1. /\ UNCHANGED <<req, track, ledger, view, ln>> /\ pc[t] = "enter"
        /\ pc'[t] \in {"replayed", "track"} /\ \A u \in Tasks \ {t} : pc'[u] = pc[u]
    BY <1>0, <1>3 DEF Replay, Enter, session, store, TypeOK
  <2>2. pc[t] \in Loading /\ pc'[t] \notin Checked
    BY <2>1 DEF Loading, Checked
  <2> QED
    BY <1>1, <2>1, <2>2
<1>4. ASSUME Fail(t) PROVE Goal
  <2>1. /\ UNCHANGED <<req, track, ledger, view, ln>>
        /\ pc'[t] = "rollback" /\ \A u \in Tasks \ {t} : pc'[u] = pc[u]
    BY <1>0, <1>4 DEF Fail, session, store, TypeOK
  <2>2. pc'[t] \notin Loading /\ pc'[t] \notin Checked
    BY <2>1 DEF Loading, Checked
  <2> QED
    BY <1>1, <2>1, <2>2
<1>5. CASE Reject(t) \/ RefuseNegative(t) \/ UniqueViolation(t)
  BY <1>4, <1>5 DEF Reject, RefuseNegative, UniqueViolation
<1>6. CASE Track(t)
  <2>1. CASE Fail(t)
    BY <1>4, <2>1
  <2>2. CASE ~Fail(t)
    <3>1. TrackTyped' /\ Viewed(t)'
      BY <1>0, <1>6, <2>2, ViewedTrack
    <3>2. /\ req' = req /\ track' = track /\ ledger' = ledger /\ ln' = ln
          /\ \A u \in Tasks \ {t} : view'[u] = view[u] /\ pc'[u] = pc[u]
      BY <1>0, <1>6, <2>2 DEF Track, store, TypeOK, TrackTyped
    <3> QED
      BY <3>1, <3>2
  <2> QED
    BY <2>1, <2>2
<1>7. ASSUME NEW r, NEW v, Got(t, r, v), pc[t] \in {"select", "plain", "insert"} PROVE Goal
  <2>1. /\ UNCHANGED <<req, track, ledger, view, ln>>
        /\ \A u \in Tasks \ {t} : pc'[u] = pc[u]
    BY <1>0, <1>7 DEF Got, store, TypeOK
  <2>2. /\ req[t].kind = "movement" => pc'[t] = "flush"
        /\ pc[t] \in Checked /\ "flush" \notin Loading
    BY <1>7, MovementSteps DEF Loading, Checked
  <2> QED
    BY <1>1, <2>1, <2>2
<1>8. CASE SelectForUpdate(t) \/ PlainRead(t) \/ InsertRow(t)
  BY <1>7, <1>8 DEF SelectForUpdate, PlainRead, InsertRow
<1>9. CASE SelectNothing(t) \/ PlainReadNothing(t)
  <2>1. /\ UNCHANGED <<req, track, ledger, view, ln>> /\ pc[t] \in {"select", "plain"}
        /\ pc'[t] \in {"plain", "insert"} /\ \A u \in Tasks \ {t} : pc'[u] = pc[u]
    BY <1>0, <1>9 DEF SelectNothing, PlainReadNothing, session, store, TypeOK
  <2>2. pc[t] \in Checked /\ pc'[t] \notin Loading
    BY <2>1 DEF Loading, Checked
  <2> QED
    BY <1>1, <2>1, <2>2
<1>10. CASE FlushLine(t)
  <2>1. /\ UNCHANGED <<req, track, ledger, view>> /\ pc[t] = "flush"
        /\ \A u \in Tasks \ {t} : pc'[u] = pc[u] /\ ln'[u] = ln[u]
    BY <1>0, <1>10 DEF FlushLine, store, TypeOK
  <2>2. TrackTyped' /\ \A u \in Tasks : view'[u] = view[u]
    BY <1>0, <2>1 DEF TrackTyped
  <2>3. CASE req[t].kind = "movement"
    <3>1. LastLine(t)
      BY <1>0, <2>3, TargetAsked DEF RowInv
    <3>2. ln' = ln /\ pc'[t] = "commit"
      BY <1>0, <1>10, <3>1 DEF FlushLine, TypeOK
    <3>3. pc[t] \in Checked /\ pc'[t] \notin Loading
      BY <2>1, <3>2 DEF Checked, Loading
    <3>4. Viewed(t)'
      BY <1>0, <2>1, <3>2, <3>3, ViewedKept
    <3> QED
      BY <2>1, <2>2, <3>4
  <2>4. CASE req[t].kind # "movement"
    <3>1. Viewed(t)'
      BY <1>0, <2>1, <2>4 DEF Viewed, ItemsAsked, Lines
    <3> QED
      BY <2>1, <2>2, <3>1
  <2> QED
    BY <2>3, <2>4
<1>11. CASE Rollback(t) \/ DeadlockAbort(t)
  <2>1. /\ UNCHANGED <<req, track, ledger>> /\ Reset({t}) /\ pc'[t] = "failed"
        /\ \A u \in Tasks \ {t} : pc'[u] = pc[u]
    BY <1>0, <1>11 DEF Rollback, DeadlockAbort, store, TypeOK
  <2>2. /\ view' = [u \in Tasks |-> IF u \in {t} THEN NoItems ELSE view[u]]
        /\ \A u \in Tasks \ {t} : ln'[u] = ln[u]
    BY <2>1 DEF Reset
  <2>3. view'[t] = NoItems /\ TrackTyped' /\ \A u \in Tasks \ {t} : view'[u] = view[u]
    BY <1>0, <2>1, <2>2 DEF TrackTyped, NoItems
  <2>4. Viewed(t)'
    BY <2>1, <2>3, ViewedEmpty DEF Final
  <2> QED
    BY <2>1, <2>2, <2>3, <2>4
<1> QED
  BY <1>2, <1>3, <1>5, <1>6, <1>8, <1>9, <1>10, <1>11 DEF Step

\* A slot of the ledger.
LEMMA SlotIs ==
  ASSUME NEW z
  PROVE  z \in Slots <=> \E k \in Keys : \E i \in DOMAIN ledger[k] : z = <<k, i>>
BY DEF Slots

\* The entry of a single movement that is about to commit.
LEMMA SingleEntry ==
  ASSUME TypeOK, LinesWritten, NEW t \in Tasks, req[t].kind = "movement", pc[t] = "commit"
  PROVE  LET c == Cur(t).key IN
         /\ c \in Keys
         /\ Len(pend[t][c]) = 1 /\ Records(pend[t][c][1], Cur(t), t)
         /\ \A k \in Keys : k # c => Len(pend[t][k]) = 0
<1> DEFINE s == Lines(t)  c == Cur(t).key
<1>1. /\ s \in Seq(Line) /\ ln[t] \in DOMAIN s /\ Len(s) = 1
  BY StockAssumption DEF TypeOK, Lines
<1>2. Done(t) = 1 /\ ln[t] = 1 /\ Cur(t) = s[1] /\ c = s[1].key /\ c \in Keys
  <2>1. ln[t] = 1 /\ Done(t) = 1
    BY <1>1 DEF Done
  <2>2. Cur(t) = s[1]
    BY <2>1 DEF Cur
  <2>3. c \in Keys
    BY ItemsOfCur DEF Line
  <2> QED
    BY <2>1, <2>2, <2>3
<1>3. \A k \in Keys : /\ Len(pend[t][k]) = Cardinality(Part(s, k, 1))
                      /\ \A i \in Part(s, k, 1) : Records(pend[t][k][Nth(s, i)], s[i], t)
  BY <1>2 DEF LinesWritten
<1> HIDE DEF s, c
<1>4. ASSUME NEW k
      PROVE  IF c = k THEN Part(s, k, 1) = {1} /\ Cardinality(Part(s, k, 1)) = 1
             ELSE Cardinality(Part(s, k, 1)) = 0
  <2>1. 1 \in Nat \ {0} /\ 1 - 1 = 0
    OBVIOUS
  <2>2. Part(s, k, 0) = {} /\ Cardinality(Part(s, k, 0)) = 0
    BY PartNone
  <2>3. IF s[1].key = k
        THEN /\ Part(s, k, 1) = Part(s, k, 0) \cup {1}
             /\ Cardinality(Part(s, k, 1)) = Cardinality(Part(s, k, 0)) + 1
        ELSE Part(s, k, 1) = Part(s, k, 0)
    BY <2>1, PartNext
  <2> QED
    BY <1>2, <2>2, <2>3
<1>5. Nth(s, 1) = 1
  BY <1>2, <1>4 DEF Nth
<1> QED
  BY <1>2, <1>3, <1>4, <1>5 DEF c

\* A commit keeps the slots of the ledger and adds those of its entries.
LEMMA CommitSlots ==
  ASSUME TypeOK, NEW t \in Tasks, Moves(t)
  PROVE  /\ \A z \in Slots : z \in Slots' /\ At(z)' = At(z)
         /\ \A k \in Keys : \A j \in DOMAIN pend[t][k] :
              \E z \in Slots' :
                z = <<k, Len(ledger[k]) + j>> /\ z \notin Slots /\ At(z)' = pend[t][k][j]
         /\ \A z \in Slots' : z \in Slots \/
              \E k \in Keys : \E j \in DOMAIN pend[t][k] : z = <<k, Len(ledger[k]) + j>>
<1>1. ASSUME NEW k \in Keys
      PROVE  \E n, m \in Nat :
               /\ n = Len(ledger[k]) /\ DOMAIN ledger'[k] = 1 .. (n + m)
               /\ DOMAIN ledger[k] = 1 .. n /\ DOMAIN pend[t][k] = 1 .. m
               /\ \A i \in 1 .. n : ledger'[k][i] = ledger[k][i]
               /\ \A i \in 1 .. m : ledger'[k][n + i] = pend[t][k][i]
  <2> DEFINE old == ledger[k]  new == pend[t][k]  all == old \o new
  <2>1. old \in Seq(Entry) /\ new \in Seq(Entry) /\ ledger'[k] = all
    BY DEF Moves, TypeOK
  <2> HIDE DEF old, new
  <2>2. /\ Len(old) \in Nat /\ Len(new) \in Nat
        /\ Len(all) = Len(old) + Len(new) /\ DOMAIN all = 1 .. (Len(old) + Len(new))
        /\ \A i \in 1 .. Len(old) : all[i] = old[i]
        /\ \A i \in 1 .. Len(new) : all[Len(old) + i] = new[i]
    BY <2>1, Concatenated
  <2>3. DOMAIN old = 1 .. Len(old) /\ DOMAIN new = 1 .. Len(new)
    BY <2>1
  <2> HIDE DEF all
  <2> QED
    BY <2>1, <2>2, <2>3 DEF old, new
<1>2. \A z : z \in Slots' <=> \E k \in Keys : \E i \in DOMAIN ledger'[k] : z = <<k, i>>
  BY DEF Slots
<1>3. ASSUME NEW k, NEW i PROVE At(<<k, i>>) = ledger[k][i] /\ At(<<k, i>>)' = ledger'[k][i]
  BY DEF At
<1>4. ASSUME NEW z \in Slots PROVE z \in Slots' /\ At(z)' = At(z)
  <2>1. PICK k \in Keys : \E i \in DOMAIN ledger[k] : z = <<k, i>>
    BY SlotIs
  <2>2. PICK i \in DOMAIN ledger[k] : z = <<k, i>>
    BY <2>1
  <2>5. PICK n, m \in Nat :
           /\ n = Len(ledger[k]) /\ DOMAIN ledger'[k] = 1 .. (n + m)
           /\ DOMAIN ledger[k] = 1 .. n /\ DOMAIN pend[t][k] = 1 .. m
           /\ \A q \in 1 .. n : ledger'[k][q] = ledger[k][q]
           /\ \A q \in 1 .. m : ledger'[k][n + q] = pend[t][k][q]
    BY <1>1
  <2>3. i \in DOMAIN ledger'[k] /\ ledger'[k][i] = ledger[k][i]
    BY <2>2, <2>5
  <2>4. z \in Slots'
    BY <1>2, <2>2, <2>3
  <2> QED
    BY <1>3, <2>2, <2>3, <2>4
<1>5. ASSUME NEW k \in Keys, NEW j \in DOMAIN pend[t][k]
      PROVE  \E z \in Slots' :
               z = <<k, Len(ledger[k]) + j>> /\ z \notin Slots /\ At(z)' = pend[t][k][j]
  <2>0. PICK n, m \in Nat :
           /\ n = Len(ledger[k]) /\ DOMAIN ledger'[k] = 1 .. (n + m)
           /\ DOMAIN ledger[k] = 1 .. n /\ DOMAIN pend[t][k] = 1 .. m
           /\ \A i \in 1 .. n : ledger'[k][i] = ledger[k][i]
           /\ \A i \in 1 .. m : ledger'[k][n + i] = pend[t][k][i]
    BY <1>1
  <2>1. PICK p \in Nat : p = n + j
    BY <1>5, <2>0
  <2>2. p \in DOMAIN ledger'[k] /\ p \notin DOMAIN ledger[k] /\ ledger'[k][p] = pend[t][k][j]
    <3>1. j \in 1 .. m
      BY <1>5, <2>0
    <3>2. ledger'[k][n + j] = pend[t][k][j]
      BY <2>0, <3>1
    <3>3. p \in 1 .. (n + m) /\ p \notin 1 .. n
      BY <2>1, <3>1
    <3> QED
      BY <2>0, <2>1, <3>2, <3>3
  <2>3. <<k, p>> \notin Slots /\ <<k, p>> \in Slots'
    BY <1>2, <2>2, SlotIs
  <2>4. At(<<k, p>>)' = pend[t][k][j] /\ <<k, p>> = <<k, Len(ledger[k]) + j>>
    BY <1>3, <2>0, <2>1, <2>2
  <2> QED
    BY <2>3, <2>4
<1>6. ASSUME NEW z \in Slots', z \notin Slots
      PROVE  \E k \in Keys : \E j \in DOMAIN pend[t][k] : z = <<k, Len(ledger[k]) + j>>
  <2>1. PICK k \in Keys : \E i \in DOMAIN ledger'[k] : z = <<k, i>>
    BY <1>2
  <2>2. PICK i \in DOMAIN ledger'[k] : z = <<k, i>>
    BY <2>1
  <2>3. i \notin DOMAIN ledger[k]
    BY <1>6, <2>2, SlotIs
  <2>5. PICK n, m \in Nat :
           /\ n = Len(ledger[k]) /\ DOMAIN ledger'[k] = 1 .. (n + m)
           /\ DOMAIN ledger[k] = 1 .. n /\ DOMAIN pend[t][k] = 1 .. m
           /\ \A q \in 1 .. n : ledger'[k][q] = ledger[k][q]
           /\ \A q \in 1 .. m : ledger'[k][n + q] = pend[t][k][q]
    BY <1>1
  <2>4. i - Len(ledger[k]) \in DOMAIN pend[t][k] /\ i = Len(ledger[k]) + (i - Len(ledger[k]))
    BY <2>2, <2>3, <2>5
  <2> QED
    BY <2>2, <2>4
<1> QED
  BY <1>4, <1>5, <1>6

\* A commit adds to the entries of a record it names the one of its movement.
LEMMA CommitBooked ==
  ASSUME TypeOK, LinesWritten, NEW t \in Tasks, Moves(t), pc[t] = "commit",
         req[t].kind = "movement", NEW y \in ItemsOf(Cur(t))
  PROVE  \E z \in Slots' :
           /\ z \notin Slots /\ Records(At(z)', Cur(t), t)
           /\ Booked(y)' = Booked(y) \cup {z}
<1> DEFINE c == Cur(t).key
<1>1. /\ c \in Keys /\ Len(pend[t][c]) = 1 /\ Records(pend[t][c][1], Cur(t), t)
      /\ \A k \in Keys : k # c => Len(pend[t][k]) = 0
  BY SingleEntry
<1>2. \A k \in Keys : pend[t][k] \in Seq(Entry)
  BY EntryTypes
<1> HIDE DEF c
<1>3. DOMAIN pend[t][c] = {1} /\ \A k \in Keys : k # c => DOMAIN pend[t][k] = {}
  BY <1>1, <1>2
<1>4. PICK z \in Slots' : z = <<c, Len(ledger[c]) + 1>> /\ z \notin Slots /\ At(z)' = pend[t][c][1]
  BY <1>1, <1>3, CommitSlots
<1>5. \A a \in Slots' : a \in Slots \/ a = z
  BY <1>3, <1>4, CommitSlots
<1>6. ItemsOf(At(z))' = ItemsOf(Cur(t))
  BY <1>1, <1>4 DEF Records, ItemsOf
<1>7. \A a \in Slots : a \in Slots' /\ ItemsOf(At(a))' = ItemsOf(At(a))
  BY CommitSlots DEF ItemsOf
<1>8. Booked(y)' = Booked(y) \cup {z}
  <2>1. Booked(y)' = {a \in Slots' : y \in ItemsOf(At(a))'}
    BY DEF Booked
  <2>2. Booked(y) = {a \in Slots : y \in ItemsOf(At(a))}
    BY DEF Booked
  <2> QED
    BY <1>4, <1>5, <1>6, <1>7, <2>1, <2>2
<1> QED
  BY <1>1, <1>4, <1>8

\* A commit leaves alone the records its request does not name.
LEMMA CommitSkips ==
  ASSUME TypeOK, EntriesAsked, NEW t \in Tasks, Moves(t), NEW y, y \notin ItemsAsked(t)
  PROVE  Booked(y)' = Booked(y)
<1>1. \A a \in Slots : a \in Slots' /\ ItemsOf(At(a))' = ItemsOf(At(a))
  BY CommitSlots DEF ItemsOf
<1>2. ASSUME NEW a \in Slots', a \notin Slots
      PROVE  y \notin ItemsOf(At(a))'
  <2>1. PICK k \in Keys : \E j \in DOMAIN pend[t][k] : a = <<k, Len(ledger[k]) + j>>
    BY <1>2, CommitSlots
  <2>2. PICK j \in DOMAIN pend[t][k] : a = <<k, Len(ledger[k]) + j>>
    BY <2>1
  <2>3. PICK z \in Slots' : z = <<k, Len(ledger[k]) + j>> /\ At(z)' = pend[t][k][j]
    BY CommitSlots
  <2>4. ItemsOf(At(a))' = ItemsOf(pend[t][k][j])
    BY <2>2, <2>3 DEF ItemsOf
  <2> QED
    BY <2>4 DEF EntriesAsked
<1>3. Booked(y)' = {a \in Slots' : y \in ItemsOf(At(a))'} /\ Booked(y) = {a \in Slots : y \in ItemsOf(At(a))}
  BY DEF Booked
<1> QED
  BY <1>1, <1>2, <1>3

\* The records of a new entry are named by its request.
LEMMA EntriesAskedStep ==
  ASSUME IInv, EntriesAsked, [Next]_vars
  PROVE  EntriesAsked'
<1>0. req' = req /\ \A u \in Tasks : ItemsAsked(u)' = ItemsAsked(u)
  BY EntriesMove DEF ItemsAsked, Lines
<1> SUFFICES ASSUME NEW u \in Tasks, NEW k \in Keys, NEW i \in DOMAIN pend'[u][k]
             PROVE  ItemsOf(pend'[u][k][i]) \subseteq ItemsAsked(u)
  BY <1>0 DEF EntriesAsked, ItemsOf
<1>1. pend[u][k] \in Seq(Entry) /\ \A j \in DOMAIN pend[u][k] : ItemsOf(pend[u][k][j]) \subseteq ItemsAsked(u)
  BY EntryTypes DEF EntriesAsked, IInv
<1>2. ASSUME NEW t \in Tasks, FlushLine(t)
      PROVE  ItemsOf(pend'[u][k][i]) \subseteq ItemsAsked(u)
  <2>1. CASE u = t /\ k = Cur(t).key
    <3> DEFINE e == NewEntry(t)  p == pend[u][k]
    <3>1. pend'[u][k] = Append(p, e)
      BY <1>2, <2>1, FlushAppends
    <3>2. ItemsOf(e) \subseteq ItemsAsked(u)
      BY <2>1, ItemsOfCur DEF NewEntry, ItemsOf, IInv
    <3> HIDE DEF e, p
    <3>3. i \in DOMAIN Append(p, e)
      BY <3>1
    <3>4. p \in Seq(Entry) /\ \A j \in DOMAIN p : ItemsOf(p[j]) \subseteq ItemsAsked(u)
      BY <1>1 DEF p
    <3>5. Append(p, e)[i] = e \/ (i \in DOMAIN p /\ Append(p, e)[i] = p[i])
      BY <3>3, <3>4
    <3> QED
      BY <3>1, <3>2, <3>4, <3>5
  <2>2. CASE ~ (u = t /\ k = Cur(t).key)
    BY <1>1, <1>2, <2>2, FlushAppends
  <2> QED
    BY <2>1, <2>2
<1>3. ASSUME pend'[u] = NoEntries \/ pend'[u] = pend[u]
      PROVE  ItemsOf(pend'[u][k][i]) \subseteq ItemsAsked(u)
  <2>1. pend'[u][k] = pend[u][k]
    BY <1>3 DEF NoEntries
  <2> QED
    BY <1>1, <2>1
<1>4. ASSUME NEW t \in Tasks, Moves(t)
      PROVE  pend'[u] = NoEntries \/ pend'[u] = pend[u]
  BY <1>4 DEF Moves
<1>5. CASE \A v \in Tasks : Forgets(v) \/ (pend'[v] = pend[v] /\ Done(v)' = Done(v))
  BY <1>3, <1>5 DEF Forgets
<1> QED
  BY <1>2, <1>3, <1>4, <1>5, EntriesMove

\* An entry books a whole number.
LEMMA EffectsInt ==
  ASSUME TypeOK, NEW a \in Slots
  PROVE  Effects[a] = Delta(At(a)) /\ Effects[a] \in Int
<1>1. PICK k \in Keys : \E i \in DOMAIN ledger[k] : a = <<k, i>>
  BY SlotIs
<1>2. PICK i \in DOMAIN ledger[k] : a = <<k, i>>
  BY <1>1
<1>3. At(a) \in Entry
  BY <1>2 DEF At, TypeOK
<1> QED
  BY <1>3 DEF Effects, Delta, Entry

\* One more entry of a batch changes its quantity by what it books.
LEMMA BatchTally ==
  ASSUME TypeOK, NEW t \in Tasks, Moves(t), NEW y, IsFiniteSet(Booked(y)),
         NEW z \in Slots', z \notin Slots, Delta(At(z))' = Delta(Cur(t)),
         Booked(y)' = Booked(y) \cup {z}
  PROVE  SumOver(Effects, Booked(y))' = SumOver(Effects, Booked(y)) + Delta(Cur(t))
<1> DEFINE B == Booked(y)  C == Booked(y)'  f == Effects  g == Effects'
<1>1. \A a \in Slots : f[a] = Delta(At(a)) /\ f[a] \in Int
  BY EffectsInt
<1>2. \A a \in Slots : a \in Slots' /\ g[a] = f[a]
  BY <1>1, CommitSlots DEF Effects, Delta
<1>3. g[z] = Delta(Cur(t)) /\ g[z] \in Int
  <2>1. g[z] = Delta(At(z))'
    BY DEF Effects, Delta
  <2>2. Delta(Cur(t)) \in Int
    BY ItemsOfCur DEF Line, Delta
  <2> QED
    BY <2>1, <2>2
<1>4. B \subseteq Slots /\ z \notin B /\ IsFiniteSet(B) /\ C = B \cup {z}
  BY DEF Booked
<1>5. SumOver(Effects, Booked(y))' = SumOver(g, C)
  OBVIOUS
<1> HIDE DEF B, C, f, g
<1>6. SumOver(g, B) = SumOver(f, B)
  <2>1. \A a \in B : f[a] = g[a]
    BY <1>2, <1>4
  <2> QED
    BY <1>4, <2>1, SumAgree
<1>7. SumOver(g, B \cup {z}) = SumOver(g, B) + g[z]
  <2>1. \A a \in B : g[a] \in Int
    BY <1>1, <1>2, <1>4
  <2> QED
    BY <1>3, <1>4, <2>1, SumPut
<1>8. SumOver(g, C) = SumOver(f, B) + Delta(Cur(t))
  BY <1>3, <1>4, <1>6, <1>7
<1> QED
  BY <1>5, <1>8 DEF f, B

\* One more entry of a serial number is one more movement in its direction.
LEMMA SerialTally ==
  ASSUME TypeOK, NEW t \in Tasks, Moves(t), NEW y, IsFiniteSet(Booked(y)),
         NEW z \in Slots', z \notin Slots, Booked(y)' = Booked(y) \cup {z}, NEW d
  PROVE  /\ Cardinality(BookedAs(y, d)) \in Nat
         /\ Cardinality(BookedAs(y, d))' =
              Cardinality(BookedAs(y, d)) + (IF At(z).dir' = d THEN 1 ELSE 0)
<1> DEFINE A == BookedAs(y, d)  C == BookedAs(y, d)'
<1>1. A \subseteq Booked(y) /\ Booked(y) \subseteq Slots
  BY DEF BookedAs, Booked
<1>2. IsFiniteSet(A) /\ z \notin A
  BY <1>1, FS_Subset
<1>3. Cardinality(A) \in Nat
  BY <1>2, FS_CardinalityType
<1>4. C = {a \in Booked(y)' : At(a).dir' = d} /\ A = {a \in Booked(y) : At(a).dir = d}
  BY DEF BookedAs
<1>5. \A a \in Booked(y) : At(a).dir' = At(a).dir
  BY <1>1, CommitSlots
<1>6. C = IF At(z).dir' = d THEN A \cup {z} ELSE A
  BY <1>1, <1>4, <1>5
<1>7. Cardinality(BookedAs(y, d))' = Cardinality(C)
  OBVIOUS
<1> HIDE DEF A, C
<1>8. Cardinality(A \cup {z}) = Cardinality(A) + 1
  BY <1>2, FS_AddElement
<1>9. Cardinality(C) = Cardinality(A) + (IF At(z).dir' = d THEN 1 ELSE 0)
  BY <1>3, <1>6, <1>8
<1> QED
  BY <1>3, <1>7, <1>9 DEF A

\* A movement alone with a record keeps the account of it.
LEMMA CommitTallies ==
  ASSUME IInv, LinesWritten, TrackInv, NEW t \in Tasks, Commit(t), Moves(t),
         NEW y \in Items, TrackedAlone(y)
  PROVE  Tallies(y)'
<1>1. /\ TypeOK /\ TrackTyped /\ EntriesAsked /\ Viewed(t) /\ Tallies(y)
      /\ pc[t] = "commit" /\ track'[y] = Loaded(t, y)
  BY DEF IInv, TrackInv, Commit
<1>2. CASE y \notin ItemsAsked(t)
  <2>1. track'[y] = track[y]
    BY <1>1, <1>2 DEF Viewed, Loaded
  <2>2. Booked(y)' = Booked(y)
    BY <1>1, <1>2, CommitSkips
  <2>3. \A a \in Booked(y) : a \in Slots /\ a \in Slots' /\ At(a)' = At(a)
    BY CommitSlots, <1>1 DEF Booked
  <2>4. \A d : BookedAs(y, d)' = BookedAs(y, d)
    BY <2>2, <2>3 DEF BookedAs
  <2>5. SumOver(Effects, Booked(y))' = SumOver(Effects, Booked(y))
    <3> DEFINE f == Effects  g == Effects'  B == Booked(y)
    <3>1. \A a \in B : f[a] = g[a]
      BY <2>3 DEF Effects, Delta
    <3>2. IsFiniteSet(B)
      BY <1>1 DEF Tallies
    <3>3. SumOver(Effects, Booked(y))' = SumOver(g, B)
      BY <2>2
    <3> HIDE DEF f, g, B
    <3>4. SumOver(f, B) = SumOver(g, B)
      BY <3>1, <3>2, SumAgree
    <3> QED
      BY <3>3, <3>4 DEF f, B
  <2>6. InStock(track[y])' = InStock(track[y]) /\ InStock(InitTrack[y])' = InStock(InitTrack[y])
    BY <2>1 DEF InStock
  <2>7. /\ Cardinality(BookedAs(y, "IN"))' = Cardinality(BookedAs(y, "IN"))
        /\ Cardinality(BookedAs(y, "OUT"))' = Cardinality(BookedAs(y, "OUT"))
    BY <2>4
  <2> QED
    BY <1>1, <2>1, <2>2, <2>5, <2>6, <2>7 DEF Tallies
<1>3. CASE y \in ItemsAsked(t)
  <2> DEFINE l == Cur(t)
  <2>1. req[t].kind = "movement"
    BY <1>3 DEF TrackedAlone
  <2>2. y \in ItemsOf(l) /\ l \in Line
    BY <1>1, <1>3, <2>1, ItemsOfCur
  <2>3. Acceptable(l, y, track[y]) /\ track'[y] = Tracked(l, y, track[y])
    BY <1>1, <2>1, <2>2 DEF Viewed, Checked, Loaded
  <2>4. PICK z \in Slots' : /\ z \notin Slots /\ Records(At(z)', Cur(t), t)
                            /\ Booked(y)' = Booked(y) \cup {z}
    BY <1>1, <2>1, <2>2, CommitBooked
  <2>5. At(z).dir' = l.dir /\ Delta(At(z))' = Delta(l)
    BY <2>4 DEF Records, Delta
  <2>6. IsFiniteSet(Booked(y))
    BY <1>1 DEF Tallies
  <2>7. IsFiniteSet(Booked(y))'
    BY <2>4, <2>6, FS_AddElement
  <2>8. ASSUME y \in Batches
        PROVE  track'[y] = InitTrack[y] + SumOver(Effects, Booked(y))'
    <3>1. SumOver(Effects, Booked(y))' = SumOver(Effects, Booked(y)) + Delta(l)
      BY <1>1, <2>4, <2>5, <2>6, BatchTally
    <3>2. track'[y] = track[y] + Delta(l) /\ track[y] = InitTrack[y] + SumOver(Effects, Booked(y))
      BY <1>1, <2>3, <2>8 DEF Tracked, Tallies
    <3>3. Delta(l) \in Int /\ InitTrack[y] \in Int
      BY <2>2, <2>8, TrackAssumption DEF Line, Delta
    <3>4. SumOver(Effects, Booked(y)) \in Int
      <4> DEFINE f == Effects  B == Booked(y)
      <4>1. \A a \in B : f[a] \in Int
        BY <1>1, EffectsInt DEF Booked
      <4> HIDE DEF f, B
      <4>2. IsFiniteSet(B) => SumOver(f, B) \in Int
        BY <4>1, SumInt
      <4> QED
        BY <2>6, <4>2 DEF f, B
    <3> QED
      BY <3>1, <3>2, <3>3, <3>4
  <2>9. ASSUME y \in Serials
        PROVE  Cardinality(BookedAs(y, "IN"))' - Cardinality(BookedAs(y, "OUT"))' =
                 InStock(track'[y]) - InStock(InitTrack[y])
    <3>1. ASSUME NEW d
          PROVE  /\ Cardinality(BookedAs(y, d)) \in Nat
                 /\ Cardinality(BookedAs(y, d))' =
                      Cardinality(BookedAs(y, d)) + (IF l.dir = d THEN 1 ELSE 0)
      BY <1>1, <2>4, <2>5, <2>6, SerialTally
    <3>2. Cardinality(BookedAs(y, "IN")) - Cardinality(BookedAs(y, "OUT")) =
            InStock(track[y]) - InStock(InitTrack[y])
      BY <1>1, <2>9 DEF Tallies
    <3>3. y \notin Batches /\ SiteOf[l.key] \in Sites /\ Issued \notin Sites /\ l.dir \in {"IN", "OUT"}
      BY <2>2, <2>9, TrackAssumption, StockAssumption DEF Line
    <3>4. InStock(track'[y]) = InStock(track[y]) + (IF l.dir = "IN" THEN 1 ELSE -1)
      BY <2>3, <3>3 DEF InStock, Acceptable, Tracked
    <3>5. InStock(track[y]) \in Int /\ InStock(InitTrack[y]) \in Int
      BY DEF InStock
    <3> DEFINE i == Cardinality(BookedAs(y, "IN"))   j == Cardinality(BookedAs(y, "IN"))'
               o == Cardinality(BookedAs(y, "OUT"))  p == Cardinality(BookedAs(y, "OUT"))'
    <3>6. /\ i \in Nat /\ o \in Nat
          /\ j = i + (IF l.dir = "IN" THEN 1 ELSE 0) /\ p = o + (IF l.dir = "OUT" THEN 1 ELSE 0)
      BY <3>1
    <3> HIDE DEF i, j, o, p, l
    <3>7. j - p = InStock(track'[y]) - InStock(InitTrack[y])
      BY <3>2, <3>3, <3>4, <3>5, <3>6 DEF i, o
    <3> QED
      BY <3>7 DEF j, p
  <2>10. InStock(track[y])' = InStock(track'[y]) /\ InStock(InitTrack[y])' = InStock(InitTrack[y])
    BY DEF InStock
  <2> QED
    BY <2>7, <2>8, <2>9, <2>10 DEF Tallies
<1> QED
  BY <1>2, <1>3

\* A commit moves the entries of its task to the ledger.
LEMMA CommitMoves ==
  ASSUME IInv, NEW t \in Tasks, Commit(t)
  PROVE  Moves(t)
<1>1. /\ Reset({t}) /\ req' = req /\ pc'[t] = "done" /\ \A u \in Tasks \ {t} : pc'[u] = pc[u]
      /\ ledger' = [k \in Keys |-> ledger[k] \o pend[t][k]]
  BY DEF Commit, IInv, TypeOK
<1>2. /\ pend'[t] = NoEntries /\ ln'[t] = 1
      /\ \A u \in Tasks \ {t} : pend'[u] = pend[u] /\ ln'[u] = ln[u]
  BY <1>1 DEF Reset
<1> QED
  BY <1>1, <1>2 DEF Moves, Done, Lines

\* No step but the commit of its movement touches a record that is alone.
LEMMA TrackStep ==
  ASSUME IInv, RowInv, LinesWritten, TrackInv, [Next]_vars
  PROVE  TrackInv'
<1>0. /\ TypeOK /\ TrackTyped /\ EntriesAsked /\ EntriesAsked'
      /\ \A u \in Tasks : Viewed(u)
      /\ \A y \in Items : TrackedAlone(y) => Tallies(y)
  BY EntriesAskedStep DEF IInv, TrackInv
<1>1. req' = req /\ \A y : TrackedAlone(y)' <=> TrackedAlone(y)
  BY EntriesMove DEF TrackedAlone, ItemsAsked, Lines
<1>2. ASSUME track' = track, ledger' = ledger, TrackTyped', \A u \in Tasks : Viewed(u)'
      PROVE  TrackInv'
  <2>1. ASSUME NEW y \in Items, TrackedAlone(y) PROVE Tallies(y)'
    <3>1. Tallies(y)
      BY <1>0, <2>1
    <3>2. Slots' = Slots /\ \A a : At(a)' = At(a)
      BY <1>2 DEF Slots, At
    <3>3. Booked(y)' = Booked(y) /\ \A d : BookedAs(y, d)' = BookedAs(y, d)
      BY <3>2 DEF Booked, BookedAs
    <3>4. Effects' = Effects
      BY <3>2 DEF Effects, Delta
    <3>5. SumOver(Effects, Booked(y))' = SumOver(Effects, Booked(y))
      BY <3>3, <3>4
    <3> QED
      BY <1>2, <3>1, <3>3, <3>5 DEF Tallies, InStock
  <2> QED
    BY <1>0, <1>1, <1>2, <2>1 DEF TrackInv
<1>3. ASSUME NEW t \in Tasks, Step(t), ~Commit(t)
      PROVE  TrackInv'
  <2>1. /\ track' = track /\ ledger' = ledger /\ TrackTyped' /\ Viewed(t)'
        /\ \A u \in Tasks \ {t} : view'[u] = view[u] /\ pc'[u] = pc[u] /\ ln'[u] = ln[u]
    BY <1>3, ViewsMove
  <2>2. ASSUME NEW u \in Tasks \ {t} PROVE Viewed(u)'
    BY <1>0, <1>1, <2>1, ViewedKept
  <2> QED
    BY <1>2, <2>1, <2>2
<1>4. ASSUME NEW t \in Tasks, Commit(t), Moves(t)
      PROVE  TrackInv'
  <2>1. /\ pc[t] = "commit" /\ pc'[t] = "done" /\ \A u \in Tasks \ {t} : pc'[u] = pc[u]
        /\ track' = [y \in Items |-> Loaded(t, y)]
        /\ view' = [u \in Tasks |-> IF u \in {t} THEN NoItems ELSE view[u]]
        /\ \A u \in Tasks \ {t} : ln'[u] = ln[u]
    BY <1>0, <1>4 DEF Commit, Reset, TypeOK
  <2>2. TrackTyped'
    <3>1. \A y \in Items : Loaded(t, y) \in Tracks /\ (y \in Batches => Loaded(t, y) \in Int)
      BY <1>0, LoadedType
    <3>2. Batches \subseteq Items
      BY DEF Items
    <3> QED
      BY <1>0, <2>1, <3>1, <3>2 DEF TrackTyped, NoItems
  <2>3. Viewed(t)'
    BY <1>1, <2>1, ViewedEmpty DEF Final
  <2>4. ASSUME NEW u \in Tasks \ {t} PROVE Viewed(u)'
    <3>1. ASSUME req[u].kind = "movement", pc[u] \in Checked,
                 NEW y \in ItemsOf(Cur(u)), TrackedAlone(y)
          PROVE  track'[y] = track[y]
      <4>1. y \in Items /\ y \in ItemsAsked(u)
        BY <1>0, <3>1, ItemsOfCur
      <4>2. CASE y \in ItemsAsked(t)
        <5>1. req[t].kind = "movement" /\ ProcOf[t] = ProcOf[u]
          BY <3>1, <4>1, <4>2 DEF TrackedAlone
        <5>2. mutex[ProcOf[t]] = t /\ mutex[ProcOf[u]] = u
          BY <2>1, <3>1, <5>1 DEF RowInv, MovementHolds, Checked
        <5> QED
          BY <5>1, <5>2
      <4>3. CASE y \notin ItemsAsked(t)
        BY <1>0, <2>1, <4>1, <4>3 DEF Viewed, Loaded
      <4> QED
        BY <4>2, <4>3
    <3>2. view'[u] = view[u] /\ ln'[u] = ln[u] /\ pc'[u] = pc[u]
      BY <2>1
    <3> QED
      BY <1>0, <1>1, <3>1, <3>2, ViewedKept
  <2>5. \A y \in Items : TrackedAlone(y) => Tallies(y)'
    BY <1>4, CommitTallies
  <2> QED
    BY <1>0, <1>1, <2>2, <2>3, <2>4, <2>5 DEF TrackInv
<1>5. ASSUME NEW p \in Procs, Crash(p)
      PROVE  TrackInv'
  <2> DEFINE T == {t \in Tasks : ProcOf[t] = p /\ pc[t] \notin Final \cup {"idle"}}
  <2>1. /\ Reset(T) /\ track' = track /\ ledger' = ledger
        /\ pc' = [t \in Tasks |-> IF t \in T THEN "failed" ELSE pc[t]]
    BY <1>5 DEF Crash, store
  <2> HIDE DEF T
  <2>2. /\ view' = [u \in Tasks |-> IF u \in T THEN NoItems ELSE view[u]]
        /\ ln' = [u \in Tasks |-> IF u \in T THEN 1 ELSE ln[u]]
    BY <2>1 DEF Reset
  <2>3. TrackTyped'
    BY <1>0, <2>1, <2>2 DEF TrackTyped, NoItems
  <2>4. ASSUME NEW u \in Tasks PROVE Viewed(u)'
    <3>1. CASE u \in T
      BY <1>1, <2>1, <2>2, <3>1, ViewedEmpty DEF Final
    <3>2. CASE u \notin T
      <4>1. view'[u] = view[u] /\ ln'[u] = ln[u] /\ pc'[u] = pc[u]
        BY <2>1, <2>2, <3>2
      <4> QED
        BY <1>0, <1>1, <2>1, <4>1, ViewedKept
    <3> QED
      BY <3>1, <3>2
  <2> QED
    BY <1>2, <2>1, <2>3, <2>4
<1>6. CASE Terminated \/ UNCHANGED vars
  <2>1. UNCHANGED <<req, pc, ln, view, track, ledger>>
    BY <1>6 DEF Terminated, vars, session, store
  <2>2. TrackTyped'
    BY <1>0, <2>1 DEF TrackTyped
  <2>3. ASSUME NEW u \in Tasks PROVE Viewed(u)'
    BY <1>0, <2>1, ViewedKept
  <2> QED
    BY <1>2, <2>1, <2>2, <2>3
<1>7. ASSUME NEW t \in Tasks, Commit(t)
      PROVE  Moves(t)
  BY <1>7, CommitMoves
<1> QED
  BY <1>3, <1>4, <1>5, <1>6, <1>7 DEF Next

\* The records of a fresh system have no entries yet.
LEMMA TrackInit == Init => TrackInv
<1> SUFFICES ASSUME Init PROVE TrackInv
  OBVIOUS
<1>1. /\ \A t \in Tasks : view[t] = NoItems /\ pc[t] = "idle" /\ pend[t] = NoEntries
      /\ view = [t \in Tasks |-> NoItems] /\ track = InitTrack /\ ledger = NoEntries
      /\ \A y \in Items : NoItems[y] = None
      /\ Batches \subseteq Items
  BY DEF Init, NoItems, Items
<1>2. TrackTyped
  BY <1>1, TrackAssumption DEF TrackTyped, NoItems
<1>3. EntriesAsked
  BY <1>1 DEF EntriesAsked, NoEntries
<1>4. ASSUME NEW t \in Tasks PROVE Viewed(t)
  BY <1>1 DEF Viewed, Loading, Checked
<1>5. ASSUME NEW y \in Items PROVE Tallies(y)
  <2>1. Slots = {}
    BY <1>1 DEF Slots, NoEntries
  <2>2. Booked(y) = {} /\ BookedAs(y, "IN") = {} /\ BookedAs(y, "OUT") = {}
    BY <2>1 DEF Booked, BookedAs
  <2>3. IsFiniteSet(Booked(y)) /\ SumOver(Effects, Booked(y)) = 0
    BY <2>2, FS_EmptySet, SumEmpty
  <2>4. Cardinality(BookedAs(y, "IN")) = 0 /\ Cardinality(BookedAs(y, "OUT")) = 0
    BY <2>2, FS_EmptySet
  <2>5. y \in Batches => InitTrack[y] \in Int
    BY TrackAssumption
  <2>6. InStock(track[y]) = InStock(InitTrack[y]) /\ InStock(track[y]) \in Int
    BY <1>1 DEF InStock
  <2> QED
    BY <1>1, <2>3, <2>4, <2>5, <2>6 DEF Tallies
<1> QED
  BY <1>2, <1>3, <1>4, <1>5 DEF TrackInv

\* The tallies are the property.
LEMMA TalliesAgree ==
  ASSUME TypeOK, TrackInv
  PROVE  TrackingMatchesLedger
<1>1. ASSUME NEW a \in Slots
      PROVE  At(a).serials \subseteq Serials /\ At(a).batch \in Batches \cup {None}
  <2>1. PICK k \in Keys : \E i \in DOMAIN ledger[k] : a = <<k, i>>
    BY <1>1, SlotIs
  <2>2. PICK i \in DOMAIN ledger[k] : a = <<k, i>>
    BY <2>1
  <2>3. At(a) \in Entry
    BY <2>2 DEF At, TypeOK
  <2> QED
    BY <2>3 DEF Entry
<1>2. ASSUME NEW y \in Batches, TrackedAlone(y)
      PROVE  track[y] = InitTrack[y] + SumOver(Effects, {a \in Slots : At(a).batch = y})
  <2>1. y \in Items /\ y \notin Serials /\ y # None
    BY <1>2, TrackAssumption, StockAssumption DEF Items
  <2>2. {a \in Slots : At(a).batch = y} = Booked(y)
    BY <1>1, <2>1 DEF Booked, ItemsOf
  <2> QED
    BY <1>2, <2>1, <2>2 DEF TrackInv, Tallies
<1>3. ASSUME NEW y \in Serials, TrackedAlone(y)
      PROVE  Cardinality({a \in Slots : y \in At(a).serials /\ At(a).dir = "IN"})
               - Cardinality({a \in Slots : y \in At(a).serials /\ At(a).dir = "OUT"})
             = InStock(track[y]) - InStock(InitTrack[y])
  <2>1. y \in Items /\ y \notin Batches
    BY <1>3, TrackAssumption DEF Items
  <2>2. ASSUME NEW d PROVE {a \in Slots : y \in At(a).serials /\ At(a).dir = d} = BookedAs(y, d)
    <3>1. \A a \in Slots : y \in ItemsOf(At(a)) <=> y \in At(a).serials
      BY <1>1, <2>1 DEF ItemsOf
    <3> QED
      BY <3>1 DEF Booked, BookedAs
  <2>3. Tallies(y)
    BY <1>3, <2>1 DEF TrackInv
  <2> QED
    BY <1>3, <2>2, <2>3 DEF Tallies
<1> QED
  BY <1>2, <1>3 DEF TrackingMatchesLedger, SumOver, Effects, InStock

\* What the ledger says of a batch or a serial number is what its record says,
\* where the lock of one process keeps its movements apart.
THEOREM TrackingAgrees == Spec => []TrackingMatchesLedger
<1> DEFINE Inv == IInv /\ RowInv /\ LinesWritten /\ TrackInv
<1>1. Inv /\ [Next]_vars => Inv'
  BY NextIInv, RowStep, LinesWrittenStep, TrackStep
<1>2. Init => Inv
  BY InitIInv, RowInit, LinesWrittenInit, TrackInit
<1>3. Inv => TrackingMatchesLedger
  BY TalliesAgree DEF IInv
<1> QED
  BY <1>1, <1>2, <1>3, PTL DEF Spec
=============================================================================
