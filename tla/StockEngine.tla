---------------------------- MODULE StockEngine ----------------------------
(***************************************************************************)
(* The stock movement engine of ApnaERP: StockMovementService and the      *)
(* StockBalance / StockLedger repositories under it, together with the     *)
(* multi-line callers (goods receipt, goods issue, stock transfer) that    *)
(* run several movements in one database transaction.                      *)
(*                                                                         *)
(* A task is one HTTP request (or one Celery task) with its own database   *)
(* session, run by one of several operating-system processes.  A step ends *)
(* where the code awaits the database or the process-wide asyncio lock.    *)
(* PostgreSQL is modelled at READ COMMITTED: every statement sees what was *)
(* committed before it plus the task's own writes, SELECT ... FOR UPDATE   *)
(* and UPDATE wait for the row lock, an INSERT that collides on a unique   *)
(* key waits for the other transaction, and a cycle of transactions that   *)
(* wait for one another is broken by aborting one of them.                 *)
(***************************************************************************)
EXTENDS Integers, Sequences, FiniteSets, FiniteSetsExt

CONSTANTS
  Tasks,       \* requests in flight
  Procs,       \* uvicorn / Celery processes
  Keys,        \* (product, warehouse, location) coordinates of a balance
  Located,     \* keys with a storage location: their row is unique
  Seeded,      \* keys whose row exists when the model starts
  AllowNeg,    \* keys whose resolved policy allows negative stock
  Batches,     \* product batches
  Serials,     \* serial numbers
  Sites,       \* warehouses
  IdemKeys,    \* idempotency keys
  None, Absent, Issued,
  ProcOf,      \* the process that runs a task
  SiteOf,      \* the warehouse of a key
  Rank,        \* position of a key in the lexicographic order of its strings
  InitQty,     \* quantity of a key's row when the model starts
  InitTrack,   \* quantity of a batch, whereabouts of a serial, at the start
  Requests,    \* what a task may ask for
  MaxCrashes   \* bound on process crashes

Origins == Tasks \cup {None}
Rid     == Keys \X Origins          \* a balance row: its key and its creator
Items   == Batches \cup Serials     \* tracking records
Locks   == Rid \cup Items           \* what PostgreSQL locks row by row
Kinds   == {"movement", "document", "transfer"}

Line == [key: Keys, dir: {"IN", "OUT"}, qty: Nat \ {0},
         idem: IdemKeys \cup {None}, batch: Batches \cup {None},
         serials: SUBSET Serials]

Entry == [dir: {"IN", "OUT"}, qty: Nat \ {0}, before: Int, after: Int,
          by: Tasks, idem: IdemKeys \cup {None}, batch: Batches \cup {None},
          serials: SUBSET Serials]

\* What a tracking record says: a quantity, or where a serial number is.
Tracks == Int \cup Sites \cup {Absent, Issued}

ASSUME StockAssumption ==
  /\ Located \subseteq Keys /\ Seeded \subseteq Keys /\ AllowNeg \subseteq Keys
  /\ None \notin Tasks \cup IdemKeys \cup Batches \cup Int
  /\ ProcOf \in [Tasks -> Procs]
  /\ SiteOf \in [Keys -> Sites]
  /\ Rank \in [Keys -> Nat]
  /\ \A k, l \in Keys : Rank[k] = Rank[l] => k = l
  /\ InitQty \in [Keys -> Int]
  /\ \A k \in Keys : k \in Seeded \/ InitQty[k] = 0
  /\ \A r \in Requests :
       /\ r.kind \in Kinds
       /\ r.lines \in Seq(Line) /\ r.lines # <<>>
       /\ r.kind = "movement" => Len(r.lines) = 1
  /\ MaxCrashes \in Nat

\* Batches and serial numbers are rows of different tables.
ASSUME TrackAssumption ==
  /\ Batches \cap Serials = {}
  /\ Sites \cap {Absent, Issued} = {}
  /\ InitTrack \in [Items -> Tracks] /\ \A b \in Batches : InitTrack[b] \in Int
  /\ None \notin [old : Tracks, new : Tracks]

VARIABLES
  req,      \* the request of each task
  pc,       \* where each task is
  ln,       \* index of the line it works on
  todo,     \* keys a transfer has still to pre-lock
  seen,     \* the balance object it holds: [row, val] or None
  work,     \* balance rows it has written and not committed
  pend,     \* ledger entries it has written and not committed, by key
  view,     \* batch and serial objects in its session: [old, new] or None
  mutex,    \* holder of StockMovementService._lock in each process
  holder,   \* holder of each row lock
  bal,      \* committed StockBalance.available_quantity, None if no row
  ledger,   \* committed StockLedger entries of each key, oldest first
  track,    \* committed batch quantities and serial whereabouts
  crashes

session == <<ln, todo, seen, work, pend, view>>
store   == <<bal, ledger, track>>
vars    == <<req, pc, session, mutex, holder, store, crashes>>

-----------------------------------------------------------------------------
(* What a task works on. *)

Lines(t)  == req[t].lines
Cur(t)    == Lines(t)[ln[t]]
IsDoc(t)  == req[t].kind # "movement"
KeysOf(q) == {q.lines[i].key : i \in DOMAIN q.lines}
Least(S)  == CHOOSE k \in S : \A l \in S : Rank[k] <= Rank[l]

\* The key it is about to lock: the next of the sorted keys, or the line's.
Target(t) == IF todo[t] # {} THEN Least(todo[t]) ELSE Cur(t).key

ItemsOf(l) == l.serials \cup (IF l.batch = None THEN {} ELSE {l.batch})
ItemsAsked(t) == UNION {ItemsOf(Lines(t)[i]) : i \in DOMAIN Lines(t)}
BatchesOf(q) == {q.lines[i].batch : i \in DOMAIN q.lines} \ {None}

\* Value of a row, and rows of a key, as a statement of task t sees them.
Val(t, r)     == IF work[t][r] # None THEN work[t][r] ELSE bal[r]
Visible(t, k) == {r \in Rid : r[1] = k /\ Val(t, r) # None}

FreeUnlocked(t, S) == TRUE
Free(t, S) == \A x \in S : holder[x] \in {None, t}
Grab(t, S) == [x \in Locks |-> IF x \in S THEN t ELSE holder[x]]

NoRows    == [r \in Rid |-> None]
NoEntries == [k \in Keys |-> <<>>]
NoItems   == [x \in Items |-> None]

Committed    == UNION {Range(ledger[k]) : k \in Keys}
Uncommitted(t) == UNION {Range(pend[t][k]) : k \in Keys}

Delta(l) == IF l.dir = "IN" THEN l.qty ELSE -l.qty

-----------------------------------------------------------------------------
(* Ends of a step. *)

Release(t) == [mutex EXCEPT ![ProcOf[t]] = IF @ = t THEN None ELSE @]

FreedNever(T) == holder
Freed(T) == [x \in Locks |-> IF holder[x] \in T THEN None ELSE holder[x]]

\* The transactions of T end: their locks go, and so do their sessions.
Reset(T) ==
  /\ ln'   = [t \in Tasks |-> IF t \in T THEN 1         ELSE ln[t]]
  /\ todo' = [t \in Tasks |-> IF t \in T THEN {}        ELSE todo[t]]
  /\ seen' = [t \in Tasks |-> IF t \in T THEN None      ELSE seen[t]]
  /\ work' = [t \in Tasks |-> IF t \in T THEN NoRows    ELSE work[t]]
  /\ pend' = [t \in Tasks |-> IF t \in T THEN NoEntries ELSE pend[t]]
  /\ view' = [t \in Tasks |-> IF t \in T THEN NoItems   ELSE view[t]]
  /\ holder' = Freed(T)

\* An exception leaves "async with self._lock"; get_db rolls back later.
Fail(t) ==
  /\ pc' = [pc EXCEPT ![t] = "rollback"]
  /\ mutex' = Release(t)
  /\ UNCHANGED <<req, session, holder, store, crashes>>

\* get_or_create_for_update returned row r to the caller: a transfer that is
\* pre-locking drops it, process_movement keeps the object it has read.
Got(t, r, v) ==
  /\ IF todo[t] # {}
     THEN /\ todo' = [todo EXCEPT ![t] = @ \ {Target(t)}]
          /\ pc' = [pc EXCEPT ![t] = IF todo'[t] = {} THEN "enter" ELSE "select"]
          /\ seen' = seen
     ELSE /\ todo' = todo
          /\ pc' = [pc EXCEPT ![t] = "flush"]
          /\ seen' = [seen EXCEPT ![t] = [row |-> r, val |-> v]]
  /\ UNCHANGED <<req, ln, pend, view, mutex, store, crashes>>

-----------------------------------------------------------------------------
(* Unique keys. *)

\* Session objects a flush writes besides the balance and the ledger entry.
Dirty(t) == IF todo[t] # {} THEN {} ELSE ItemsOf(Cur(t))

\* Another transaction committed the same serial number first.
SerialClash(t) ==
  \E s \in Dirty(t) \cap Serials : view[t][s].old = Absent /\ track[s] # Absent

RowClash(t) ==
  Target(t) \in Located /\ \E r \in Rid : r[1] = Target(t) /\ bal[r] # None

RowRivals(t) ==
  IF Target(t) \in Located
  THEN {u \in Tasks \ {t} : work[u][<<Target(t), u>>] # None} ELSE {}

IdemClashUnchecked(t) == FALSE
IdemClash(t) ==
  Cur(t).idem # None /\ \E e \in Committed : e.idem = Cur(t).idem

IdemRivals(t) ==
  IF Cur(t).idem = None THEN {}
  ELSE {u \in Tasks \ {t} : \E e \in Uncommitted(u) : e.idem = Cur(t).idem}

-----------------------------------------------------------------------------
(* The steps of a request. *)

Init ==
  /\ req \in [Tasks -> Requests]
  /\ pc = [t \in Tasks |-> "idle"]
  /\ ln = [t \in Tasks |-> 1]
  /\ todo = [t \in Tasks |-> {}]
  /\ seen = [t \in Tasks |-> None]
  /\ work = [t \in Tasks |-> NoRows]
  /\ pend = [t \in Tasks |-> NoEntries]
  /\ view = [t \in Tasks |-> NoItems]
  /\ mutex = [p \in Procs |-> None]
  /\ holder = [x \in Locks |-> None]
  /\ bal = [r \in Rid |-> IF r[1] \in Seeded /\ r[2] = None
                          THEN InitQty[r[1]] ELSE None]
  /\ ledger = NoEntries
  /\ track = InitTrack
  /\ crashes = 0

\* Loading a document loads the batches of its items (lazy="selectin").
Begin(t) ==
  /\ pc[t] = "idle"
  /\ view' = [view EXCEPT ![t] = [x \in Items |->
                IF IsDoc(t) /\ x \in BatchesOf(req[t])
                THEN [old |-> track[x], new |-> track[x]] ELSE None]]
  /\ todo' = [todo EXCEPT ![t] =
                IF req[t].kind = "transfer" THEN KeysOf(req[t]) ELSE {}]
  /\ pc' = [pc EXCEPT ![t] =
                IF req[t].kind = "transfer" THEN "select" ELSE "enter"]
  /\ UNCHANGED <<req, ln, seen, work, pend, mutex, holder, store, crashes>>

\* process_movement entered, and the key is known: the old entry is returned.
Replay(t) ==
  /\ pc[t] = "enter"
  /\ mutex[ProcOf[t]] = None
  /\ IdemClash(t)
  /\ pc' = [pc EXCEPT ![t] = "replayed"]
  /\ UNCHANGED <<req, session, mutex, holder, store, crashes>>

\* process_movement entered, up to the validation of the master data.
Enter(t) ==
  /\ pc[t] = "enter"
  /\ mutex[ProcOf[t]] = None
  /\ ~IdemClash(t)
  /\ mutex' = [mutex EXCEPT ![ProcOf[t]] = t]
  /\ pc' = [pc EXCEPT ![t] = "track"]
  /\ UNCHANGED <<req, session, holder, store, crashes>>

\* A product, warehouse or location is unusable, or a batch has expired.
Reject(t) == pc[t] = "track" /\ Fail(t)

Loaded(t, x) == IF view[t][x] # None THEN view[t][x].new ELSE track[x]
Original(t, x) == IF view[t][x] # None THEN view[t][x].old ELSE track[x]

Acceptable(l, x, v) ==
  IF x \in Batches THEN l.dir = "OUT" => l.qty <= v
  ELSE IF l.dir = "IN" THEN v \notin Sites ELSE v = SiteOf[l.key]

Tracked(l, x, v) ==
  IF x \in Batches THEN v + Delta(l)
  ELSE IF l.dir = "IN" THEN SiteOf[l.key] ELSE Issued

\* Batch and serial checks read without a lock and change the objects only.
Track(t) ==
  LET l == Cur(t) IN
  /\ pc[t] = "track"
  /\ IF \A x \in ItemsOf(l) : Acceptable(l, x, Loaded(t, x))
     THEN /\ view' = [view EXCEPT ![t] = [x \in Items |->
               IF x \in ItemsOf(l)
               THEN [old |-> Original(t, x), new |-> Tracked(l, x, Loaded(t, x))]
               ELSE @[x]]]
          /\ pc' = [pc EXCEPT ![t] = "select"]
          /\ UNCHANGED <<req, ln, todo, seen, work, pend, mutex, holder, store, crashes>>
     ELSE Fail(t)

\* get_for_update: waits for every visible row of the key, and locks them.
SelectForUpdate(t) ==
  /\ pc[t] = "select"
  /\ Visible(t, Target(t)) # {}
  /\ Free(t, Visible(t, Target(t)))
  /\ holder' = Grab(t, Visible(t, Target(t)))
  /\ \E r \in Visible(t, Target(t)) : Got(t, r, Val(t, r))
  /\ work' = work

SelectNothing(t) ==
  /\ pc[t] = "select"
  /\ Visible(t, Target(t)) = {}
  /\ pc' = [pc EXCEPT ![t] = "plain"]
  /\ UNCHANGED <<req, session, mutex, holder, store, crashes>>

\* get_by_keys: a row committed since then is used without locking it.
PlainRead(t) ==
  /\ pc[t] = "plain"
  /\ \E r \in Visible(t, Target(t)) : Got(t, r, Val(t, r))
  /\ UNCHANGED <<work, holder>>

PlainReadNothing(t) ==
  /\ pc[t] = "plain"
  /\ Visible(t, Target(t)) = {}
  /\ pc' = [pc EXCEPT ![t] = "insert"]
  /\ UNCHANGED <<req, session, mutex, holder, store, crashes>>

\* A new row with quantity zero; the flush also writes what is dirty.
InsertRow(t) ==
  LET r == <<Target(t), t>> IN
  /\ pc[t] = "insert"
  /\ ~RowClash(t) /\ ~SerialClash(t)
  /\ RowRivals(t) = {} /\ Free(t, Dirty(t))
  /\ work' = [work EXCEPT ![t][r] = 0]
  /\ holder' = Grab(t, {r} \cup Dirty(t))
  /\ Got(t, r, 0)

After(t) == seen[t].val + Delta(Cur(t))
ShortBefore(t) == seen[t].val < 0 /\ Cur(t).key \notin AllowNeg
Short(t) == After(t) < 0 /\ Cur(t).key \notin AllowNeg

RefuseNegative(t) == pc[t] = "flush" /\ Short(t) /\ Fail(t)

UniqueViolation(t) ==
  /\ \/ pc[t] = "insert" /\ (RowClash(t) \/ SerialClash(t))
     \/ pc[t] = "flush" /\ ~Short(t) /\ (IdemClash(t) \/ SerialClash(t))
  /\ Fail(t)

NewEntry(t) ==
  [dir |-> Cur(t).dir, qty |-> Cur(t).qty, before |-> seen[t].val,
   after |-> After(t), by |-> t, idem |-> Cur(t).idem,
   batch |-> Cur(t).batch, serials |-> Cur(t).serials]

LastLine(t) == ln[t] = Len(Lines(t))

\* commit=False: the asyncio lock is released when the line is flushed.
ReleasesEarlyAlways(t) == TRUE
ReleasesEarly(t) == IsDoc(t)

\* Balance, ledger entry, batch and serials are written in one flush.
FlushLine(t) ==
  LET r == seen[t].row IN
  /\ pc[t] = "flush"
  /\ ~Short(t) /\ ~IdemClash(t) /\ ~SerialClash(t)
  /\ IdemRivals(t) = {} /\ Free(t, {r} \cup Dirty(t))
  /\ holder' = Grab(t, {r} \cup Dirty(t))
  /\ work' = [work EXCEPT ![t][r] = After(t)]
  /\ pend' = [pend EXCEPT ![t][Cur(t).key] = Append(@, NewEntry(t))]
  /\ seen' = [seen EXCEPT ![t] = None]
  /\ mutex' = IF ReleasesEarly(t) THEN Release(t) ELSE mutex
  /\ IF LastLine(t)
     THEN ln' = ln /\ pc' = [pc EXCEPT ![t] = "commit"]
     ELSE ln' = [ln EXCEPT ![t] = @ + 1] /\ pc' = [pc EXCEPT ![t] = "enter"]
  /\ UNCHANGED <<req, todo, view, store, crashes>>

Commit(t) ==
  /\ pc[t] = "commit"
  /\ bal' = [r \in Rid |-> Val(t, r)]
  /\ ledger' = [k \in Keys |-> ledger[k] \o pend[t][k]]
  /\ track' = [x \in Items |-> Loaded(t, x)]
  /\ Reset({t})
  /\ mutex' = Release(t)
  /\ pc' = [pc EXCEPT ![t] = "done"]
  /\ UNCHANGED <<req, crashes>>

Rollback(t) ==
  /\ pc[t] = "rollback"
  /\ Reset({t})
  /\ pc' = [pc EXCEPT ![t] = "failed"]
  /\ UNCHANGED <<req, mutex, store, crashes>>

\* Transactions the current statement of t waits for.
Waits(t) ==
  CASE pc[t] = "select" -> {holder[r] : r \in Visible(t, Target(t))} \ {None, t}
    [] pc[t] = "insert" -> RowRivals(t)
                           \cup ({holder[x] : x \in Dirty(t)} \ {None, t})
    [] pc[t] = "flush"  -> IdemRivals(t) \cup
         ({holder[x] : x \in {seen[t].row} \cup Dirty(t)} \ {None, t})
    [] OTHER -> {}

\* PostgreSQL finds a cycle of waiting transactions and aborts one of them.
DeadlockAbort(t) ==
  /\ \E S \in SUBSET Tasks : t \in S /\ \A u \in S : Waits(u) \cap S # {}
  /\ Reset({t})
  /\ mutex' = Release(t)
  /\ pc' = [pc EXCEPT ![t] = "failed"]
  /\ UNCHANGED <<req, store, crashes>>

Final == {"done", "replayed", "failed"}

\* A process dies: its connections close, its transactions roll back.
Crash(p) ==
  LET T == {t \in Tasks : ProcOf[t] = p /\ pc[t] \notin Final \cup {"idle"}} IN
  /\ crashes < MaxCrashes /\ T # {}
  /\ crashes' = crashes + 1
  /\ Reset(T)
  /\ mutex' = [mutex EXCEPT ![p] = None]
  /\ pc' = [t \in Tasks |-> IF t \in T THEN "failed" ELSE pc[t]]
  /\ UNCHANGED <<req, store>>

Step(t) ==
  \/ Begin(t) \/ Replay(t) \/ Enter(t) \/ Reject(t) \/ Track(t)
  \/ SelectForUpdate(t) \/ SelectNothing(t) \/ PlainRead(t)
  \/ PlainReadNothing(t) \/ InsertRow(t) \/ RefuseNegative(t)
  \/ UniqueViolation(t) \/ FlushLine(t) \/ Commit(t) \/ Rollback(t)
  \/ DeadlockAbort(t)

Terminated == (\A t \in Tasks : pc[t] \in Final) /\ UNCHANGED vars

Next == (\E t \in Tasks : Step(t)) \/ (\E p \in Procs : Crash(p)) \/ Terminated

Spec == Init /\ [][Next]_vars

\* The event loop runs every ready task and PostgreSQL answers every
\* statement that need not wait; a crash is never obliged to happen.
FairSpec == Spec /\ \A t \in Tasks : WF_vars(Step(t))

-----------------------------------------------------------------------------
(* Properties. *)

\* Every variable holds a value of the kind the code gives it.
TypeOK ==
  /\ req \in [Tasks -> Requests]
  /\ pc \in [Tasks -> {"idle", "select", "plain", "insert", "enter", "track",
                       "flush", "commit", "rollback"} \cup Final]
  /\ ln \in [Tasks -> Nat \ {0}] /\ \A t \in Tasks : ln[t] \in DOMAIN Lines(t)
  /\ todo \in [Tasks -> SUBSET Keys]
  /\ seen \in [Tasks -> {None} \cup [row : Rid, val : Int]]
  /\ work \in [Tasks -> [Rid -> Int \cup {None}]]
  /\ pend \in [Tasks -> [Keys -> Seq(Entry)]]
  /\ mutex \in [Procs -> Tasks \cup {None}]
  /\ holder \in [Locks -> Tasks \cup {None}]
  /\ bal \in [Rid -> Int \cup {None}]
  /\ ledger \in [Keys -> Seq(Entry)]
  /\ crashes \in Nat

\* The entries of s start at quantity q, each where the previous one ended.
ChainFrom(s, q) ==
  \A i \in DOMAIN s : s[i].before = IF i = 1 THEN q ELSE s[i-1].after

EndOf(s, q) == IF s = <<>> THEN q ELSE s[Len(s)].after

Chained(k) == ChainFrom(ledger[k], InitQty[k])
Closing(k) == EndOf(ledger[k], InitQty[k])

\* process_movement's promise for a balance row that exists: the ledger is a
\* chain of quantity_before / quantity_after that ends at the balance, however
\* requests of several processes interleave, fail, deadlock or crash.
LedgerMatchesBalance ==
  \A k \in Seeded : Chained(k) /\ bal[<<k, None>>] = Closing(k)

\* Only single movements, all in one process, concern key k.
Serialized(k) ==
  \A t, u \in Tasks : k \in KeysOf(req[t]) /\ k \in KeysOf(req[u]) =>
    req[t].kind = "movement" /\ ProcOf[t] = ProcOf[u]

\* A (product, warehouse, location) coordinate has one balance row, whoever
\* creates it, if it names a location, if it had a row already, or if the
\* process-wide lock of the movements keeps its creators apart: the unique
\* constraint does not compare missing locations (get_or_create_for_update).
OneRowPerKey ==
  \A k \in Keys :
    k \in Located \cup Seeded \/ Serialized(k) =>
      Cardinality({r \in Rid : r[1] = k /\ bal[r] # None}) <= 1

Slots == UNION {{<<k, i>> : i \in DOMAIN ledger[k]} : k \in Keys}
At(slot) == ledger[slot[1]][slot[2]]

\* Physical stock, counted from what was booked in and out, is never negative
\* where the policy forbids it: two issues never both take the last unit.
StockNeverOversold ==
  \A k \in Seeded \ AllowNeg :
    InitQty[k] >= 0 =>
      LET booked == [i \in DOMAIN ledger[k] |-> Delta(ledger[k][i])]
      IN  InitQty[k] + MapThenSumSet(LAMBDA i : booked[i], DOMAIN booked) >= 0

\* Only single movements, all in one process, concern tracking record x.
TrackedAlone(x) ==
  \A t, u \in Tasks : x \in ItemsAsked(t) /\ x \in ItemsAsked(u) =>
    req[t].kind = "movement" /\ ProcOf[t] = ProcOf[u]

\* Where the process-wide lock of the movements keeps its users apart, the
\* quantity of a batch is what was booked into it minus what was booked out, and
\* a serial number is received only when it is out of stock and issued only when
\* it is in stock, so receipts and issues of it alternate, with lines refused and
\* processes lost in between (_handle_batch_tracking, _handle_serial_tracking,
\* which lock no row).
TrackingMatchesLedger ==
  /\ \A b \in Batches : TrackedAlone(b) =>
       LET booked == [a \in Slots |-> Delta(At(a))]
       IN  track[b] = InitTrack[b] +
             MapThenSumSet(LAMBDA a : booked[a], {a \in Slots : At(a).batch = b})
  /\ \A s \in Serials : TrackedAlone(s) =>
       LET Moves(d) == Cardinality({a \in Slots : s \in At(a).serials /\ At(a).dir = d})
           InStock(w) == IF w \in Sites THEN 1 ELSE 0
       IN  Moves("IN") - Moves("OUT") = InStock(track[s]) - InStock(InitTrack[s])

\* The engine implements the stock accounts of StockAccount, for keys that have
\* a row: a commit is the atomic booking, everything before it invisible.
Answer(c) ==
  CASE c = "done" -> "booked" [] c = "replayed" -> "recalled"
    [] c = "failed" -> "refused" [] OTHER -> "pending"

Account == INSTANCE StockAccount WITH
  Accounts <- Keys, Opening <- InitQty, Overdrawn <- AllowNeg, NoKey <- None,
  Demands <- {q.lines : q \in Requests},
  lines <- [t \in Tasks |-> Lines(t)], log <- ledger, answer <- [t \in Tasks |-> Answer(pc[t])]

ImplementsStockAccount == Account!ASpec

\* Every request is answered: nothing it can wait for holds it for ever.
EveryRequestAnswered ==
  \A t \in Tasks : (pc[t] # "idle") ~> (pc[t] \in Final)
=============================================================================
