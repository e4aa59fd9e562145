------------------------- MODULE WarehouseDocuments -------------------------
(***************************************************************************)
(* The documents of a warehouse and the reservations of its stock, for one *)
(* product: goods receipts and issues, transfers in one or two stages,     *)
(* adjustments, opening stock, cycle counts, StockReservationService, and  *)
(* the recalculation of a balance from the ledger.                         *)
(*                                                                         *)
(* Documents are read without a lock; a balance row is locked from the     *)
(* first movement that touches it to the next commit.  A handler works     *)
(* through a script: what it must do, in order, before its last commit.    *)
(***************************************************************************)
EXTENDS Integers, Sequences, FiniteSets, FiniteSetsExt, SequencesExt

CONSTANTS
  Tasks,         \* handlers in flight
  Docs,          \* ids of documents
  Reservations,  \* ids of reservations
  Batches,       \* batch numbers that receipts name
  Places,        \* where the product has a balance row
  Stocked,       \* what a place may hold at the start
  MaxLine,       \* most that a line or a reservation names
  MaxStock,      \* bound on the stock of a place
  Scenarios      \* what is asked, and how many handlers overlap

Missing  == "none"
Movers   == {"receipt", "issue", "transfer"}
Kinds    == Movers \cup {"adjustment", "opening", "count"}
Statuses == {"Draft", "Approved", "Posted", "In Transit", "Completed", "Applied",
             "Cancelled", "Deleted"}
RowOps   == {"update", "approve", "cancel", "delete"}
StockOps == {"post", "dispatch", "complete", "apply", "settle"}
ReservationOps == {"reserve", "release", "withdraw", "consume", "expire"}
Ops      == {"create", "open", "recalculate", "audit"} \cup RowOps \cup StockOps \cup ReservationOps
Scenario == [width: Nat \ {0}, ops: SUBSET Ops, kinds: SUBSET Kinds,
             lines: {1, 2},        \* lines of a document
             naming: BOOLEAN,      \* lines may name a reservation or a batch
             docs: Nat, resvs: Nat, \* bounds on documents and reservations
             together: BOOLEAN,    \* the places are locations of one warehouse
             crashes: Nat]         \* bound on handlers lost

ASSUME WarehouseAssumption ==
  /\ Stocked \subseteq Nat /\ MaxLine \in Nat \ {0} /\ MaxStock \in Nat
  /\ Scenarios \subseteq Scenario

VARIABLES
  doc,       \* the committed documents
  resv,      \* the committed reservations
  stock,     \* available_quantity and reserved_quantity of each place
  start,     \* what the ledger adds up to for each place at the start
  moved,     \* what the ledger has of each document for each place
  batches,   \* the batch numbers on record
  lock,      \* who holds the lock on each balance row
  task,      \* what each handler is doing
  crashes,   \* handlers lost so far
  scenario   \* the demand this behaviour is about

vars == <<doc, resv, stock, start, moved, batches, lock, task, crashes, scenario>>

----------------------------------------------------------------------------
(* Rows *)

\* of: the reservation a line of an issue names, the batch of a receipt.
Named == Reservations \cup Batches \cup {Missing}
Line == [no: 1..4, qty: 1..MaxLine, of: Named]
\* system and counted: expected and actual of an adjustment, or of a count;
\* opening stock has its quantity in counted.
Document == [kind: Kinds \cup {Missing}, status: Statuses \cup {Missing},
             from: Places, to: Places, lines: SUBSET Line, system: Int, counted: Nat]
Reservation == [status: {Missing, "Active", "Released", "Cancelled", "Consumed", "Expired"},
                place: Places, qty: 0..MaxLine, expires: BOOLEAN]
Balance == [available: Int, reserved: Int]

SomePlace == CHOOSE p \in Places : TRUE
NoDoc == [kind |-> Missing, status |-> Missing, from |-> SomePlace, to |-> SomePlace,
          lines |-> {}, system |-> 0, counted |-> 0]
NoReservation == [status |-> Missing, place |-> SomePlace, qty |-> 0, expires |-> FALSE]

InOrder(lines) == SetToSortSeq(lines, LAMBDA l, k : l.no < k.no)
Total(lines) == MapThenSumSet(LAMBDA l : l.qty, lines)
Diff(row) == row.counted - row.system

ActiveAt(rows, places) ==
  MapThenSumSet(LAMBDA r : rows[r].qty,
                {r \in Reservations : rows[r].status = "Active" /\ rows[r].place \in places})
Warehouse(p) == IF scenario.together THEN Places ELSE {p}

\* Of the places of one warehouse, SomePlace is the row without a location.
\* calculate_derived_balance_from_history asks for a location only when it is
\* given one: for that row it adds up the whole warehouse.
LedgerSum(places) ==
  MapThenSumSet(LAMBDA p : start[p] + MapThenSumSet(LAMBDA d : moved[d][p], Docs), places)
DerivedBalance(p) == LedgerSum(IF p = SomePlace THEN Warehouse(p) ELSE {p})

----------------------------------------------------------------------------
(* Scripts: the calls a handler makes before its last commit *)

Act(act, p, q, n) == [act |-> act, place |-> p, qty |-> q, of |-> n]
Move(p, q)  == Act("move", p, q, Missing)
CommitNow   == Act("commit", SomePlace, 0, Missing)

Outs(row) == [k \in 1..Cardinality(row.lines) |-> Move(row.from, - InOrder(row.lines)[k].qty)]
Ins(row)  == [k \in 1..Cardinality(row.lines) |-> Move(row.to, InOrder(row.lines)[k].qty)]

\* execute_goods_receipt: a line that names a batch number looks it up first.
ReceiptLine(row, l) ==
  (IF l.of = Missing THEN << >> ELSE <<Act("batch", row.to, 0, l.of)>>)
    \o <<Move(row.to, l.qty)>>

\* execute_goods_issue: a line that names a reservation consumes it first.
IssueLine(row, l) ==
  (IF l.of = Missing THEN << >> ELSE <<Act("consume", row.from, l.qty, l.of)>>)
    \o <<Move(row.from, - l.qty)>>

\* A mistaken SettleCount: the variance is booked as it was counted.
SettleCountByVariance(row) == <<Move(row.from, Diff(row)), CommitNow>>

\* approve_cycle_count adjusts where the count found a variance.
SettleCount(row) ==
  IF Diff(row) = 0 THEN << >> ELSE <<Act("adjust", row.from, row.counted, Missing)>>

\* apply_adjustment: create_ledger_entry commits before the status is written.
ApplyAdjustment(row) ==
  IF Diff(row) = 0 THEN << >> ELSE <<Move(row.from, Diff(row)), CommitNow>>

Script(op, row) ==
  CASE op = "post" /\ row.kind = "receipt" ->
         FoldLeft(LAMBDA s, l : s \o ReceiptLine(row, l), << >>, InOrder(row.lines))
    [] op = "post" /\ row.kind = "issue" ->
         FoldLeft(LAMBDA s, l : s \o IssueLine(row, l), << >>, InOrder(row.lines))
    [] op = "post" /\ row.kind = "transfer" ->
         <<Act("lock", row.from, 0, Missing)>> \o Outs(row) \o Ins(row)
    [] op = "dispatch" -> Outs(row)
    [] op = "complete" -> Ins(row)
    [] op = "apply" -> ApplyAdjustment(row)
    [] op = "open" -> <<Act("insert", row.to, 0, Missing), Move(row.to, row.counted)>>
    [] op = "settle" -> SettleCount(row)
    [] OTHER -> << >>

----------------------------------------------------------------------------
(* Handlers *)

Still == [p \in Places |-> 0]
Resting ==
  [pc |-> "idle", op |-> Missing, d |-> Missing, r |-> Missing, qty |-> 0,
   seen |-> NoDoc, snap |-> [r \in Reservations |-> NoReservation], todo |-> << >>,
   new |-> {}, work |-> [p \in Places |-> [available |-> 0, reserved |-> 0]], by |-> Still]

Task == [pc: {"idle", "work"}, op: Ops \cup {Missing}, d: Docs \cup {Missing},
         r: Reservations \cup {Missing}, qty: 0..MaxLine,
         seen: Document,                      \* the document as it was loaded
         snap: [Reservations -> Reservation], \* the reservations loaded with it
         todo: Seq([act: {"move", "commit", "consume", "batch", "record", "lock", "insert",
                          "adjust", "load", "derive", "overwrite"},
                    place: Places, qty: Int, of: Named]),
         new: SUBSET Line,                    \* lines an update puts in place
         work: [Places -> Balance],           \* flushed values of the rows it has locked;
                                              \* of a recalculation, the row it has loaded
         by: [Places -> Int]]                 \* movements it has not committed

TypeOK ==
  /\ doc \in [Docs -> Document] /\ resv \in [Reservations -> Reservation]
  /\ stock \in [Places -> [available: Int, reserved: Nat]]
  /\ start \in [Places -> Stocked] /\ moved \in [Docs -> [Places -> Int]]
  /\ batches \subseteq Batches
  /\ lock \in [Places -> Tasks \cup {Missing}]
  /\ task \in [Tasks -> Task]
  /\ crashes \in 0..scenario.crashes /\ scenario \in Scenarios

Init ==
  /\ doc = [d \in Docs |-> NoDoc]
  /\ resv = [r \in Reservations |-> NoReservation]
  /\ start \in [Places -> Stocked]
  /\ stock = [p \in Places |-> [available |-> start[p], reserved |-> 0]]
  /\ moved = [d \in Docs |-> Still] /\ batches = {}
  /\ lock = [p \in Places |-> Missing]
  /\ task = [t \in Tasks |-> Resting]
  /\ crashes = 0
  /\ scenario \in Scenarios

Asked(op) == op \in scenario.ops
MayBegin(t) ==
  /\ task[t].pc = "idle"
  /\ Cardinality({u \in Tasks : task[u].pc # "idle"}) < scenario.width
Start(t, me) == task' = [task EXCEPT ![t] = me]
MayLock(t, p) == lock[p] \in {Missing, t}
Unlocked(t) == [p \in Places |-> IF lock[p] = t THEN Missing ELSE lock[p]]

\* The row of a place as the handler sees it once it holds the lock.
Held(t, p) == IF lock[p] = t THEN task[t].work[p] ELSE stock[p]

\* What a commit of the handler's session makes of the stock and its record.
Committed(t) == [p \in Places |-> Held(t, p)]
Recorded(t) ==
  IF task[t].d = Missing THEN moved
  ELSE [moved EXCEPT ![task[t].d] = [p \in Places |-> @[p] + task[t].by[p]]]

\* An exception: the session is rolled back and the request ends.
Fail(t) ==
  /\ Start(t, Resting) /\ lock' = Unlocked(t)
  /\ UNCHANGED <<doc, resv, stock, moved, batches>>

----------------------------------------------------------------------------
(* Documents: read, decide, and work *)

\* A mistaken PostableFrom: a dispatched transfer may be posted as well.
PostableInTransit == {"Draft", "Approved", "In Transit"}

\* post_receipt, post_issue and post_transfer exclude every other status.
PostableFrom == {"Draft", "Approved"}

Permitted(op, row) ==
  CASE op = "update"   -> row.kind \in Movers \cup {"adjustment"} /\ row.status = "Draft"
    [] op = "approve"  -> row.kind \in Movers \cup {"adjustment"} /\ row.status = "Draft"
    [] op = "delete"   -> row.kind \in Movers /\ row.status = "Draft"
    [] op = "cancel"   -> row.kind \in Movers /\ row.status \in {"Draft", "Approved", "In Transit"}
    [] op = "post"     -> row.kind \in Movers /\ row.status \in PostableFrom
    [] op = "dispatch" -> row.kind = "transfer" /\ row.status \in {"Draft", "Approved"}
    [] op = "complete" -> row.kind = "transfer" /\ row.status = "In Transit"
    [] op = "apply"    -> row.kind = "adjustment" /\ row.status = "Approved"
    [] op = "settle"   -> row.kind = "count" /\ row.status = "Draft"
    [] OTHER -> FALSE

Target(op, row) ==
  CASE op = "approve"  -> "Approved"
    [] op = "cancel"   -> "Cancelled"
    [] op = "delete"   -> "Deleted"
    [] op = "post"     -> "Posted"
    [] op = "dispatch" -> "In Transit"
    [] op = "complete" -> "Completed"
    [] op = "apply"    -> "Applied"
    [] op = "settle"   -> "Approved"
    [] OTHER           -> row.status

\* The lines a client writes, numbered from n.
NewLines(n, kind) ==
  {lines \in SUBSET [no: n .. n + scenario.lines - 1, qty: 1..MaxLine,
                     of: {Missing} \cup
                         IF ~ scenario.naming THEN {}
                         ELSE CASE kind = "issue" ->
                                     {r \in Reservations : resv[r].status # Missing}
                                [] kind = "receipt" -> Batches
                                [] OTHER -> {}] :
     /\ lines # {} /\ \A l, k \in lines : l.no = k.no => l = k
     /\ \A l \in lines : l.no > n => \E k \in lines : k.no = n}

\* An adjustment and a count note the stock they find.
NewDocs ==
  {row \in [kind: scenario.kinds \cap Movers, status: {"Draft"}, from: Places, to: Places,
            lines: UNION {NewLines(1, k) : k \in Movers}, system: {0}, counted: {0}] :
     /\ row.lines \in NewLines(1, row.kind)
     /\ row.from # row.to <=> row.kind = "transfer"}
  \cup
  {[kind |-> k, status |-> "Draft", from |-> p, to |-> p, lines |-> {},
    system |-> stock[p].available, counted |-> c] :
     k \in scenario.kinds \cap {"adjustment", "count"}, p \in Places, c \in 0..MaxStock}

\* create_receipt, create_issue, create_transfer, create_adjustment and
\* create_cycle_count insert one document in Draft.
Create(t) ==
  /\ MayBegin(t) /\ Asked("create")
  /\ Cardinality({d \in Docs : doc[d] # NoDoc}) < scenario.docs
  /\ \E d \in Docs, row \in NewDocs :
       doc[d] = NoDoc /\ doc' = [doc EXCEPT ![d] = row]
  /\ UNCHANGED <<resv, stock, moved, batches, lock, task, crashes, scenario>>

BeginDocument(t) ==
  /\ MayBegin(t)
  /\ \E op \in (RowOps \cup StockOps) \cap scenario.ops, d \in Docs :
       /\ Permitted(op, doc[d])
       /\ \E new \in IF op = "update" /\ doc[d].kind \in Movers
                     THEN NewLines(3, doc[d].kind) ELSE {{}} :
            Start(t, [Resting EXCEPT
              !.pc = "work", !.op = op, !.d = d, !.seen = doc[d], !.snap = resv,
              !.todo = Script(op, doc[d]), !.new = new])
  /\ UNCHANGED <<doc, resv, stock, moved, batches, lock, crashes, scenario>>

\* create_opening_stock counts the rows of the place; nothing else forbids two.
BeginOpening(t) ==
  /\ MayBegin(t) /\ Asked("open")
  /\ \E d \in Docs, p \in Places, q \in 1..MaxLine :
       LET row == [NoDoc EXCEPT !.kind = "opening", !.status = "Applied",
                                !.from = p, !.to = p, !.counted = q] IN
       /\ doc[d] = NoDoc /\ \A u \in Tasks : task[u].d # d
       /\ \A e \in Docs : ~ (doc[e].kind = "opening" /\ doc[e].to = p)
       /\ Start(t, [Resting EXCEPT !.pc = "work", !.op = "open", !.d = d, !.seen = row,
                                   !.todo = Script("open", row)])
  /\ UNCHANGED <<doc, resv, stock, moved, batches, lock, crashes, scenario>>

Doing(t, act) ==
  /\ task[t].pc = "work" /\ task[t].todo # << >>
  /\ Head(task[t].todo).act = act
Done(t, me) == Start(t, [me EXCEPT !.todo = Tail(@)])

\* process_movement with commit=False, or create_ledger_entry before its commit.
MoveStock(t) ==
  LET me == task[t]
      now == Head(me.todo)
      row == Held(t, now.place)
  IN
  /\ Doing(t, "move") /\ MayLock(t, now.place)
  /\ row.available + now.qty <= MaxStock
  /\ IF row.available + now.qty < 0 THEN Fail(t)
     ELSE /\ lock' = [lock EXCEPT ![now.place] = t]
          /\ Done(t, [me EXCEPT !.work[now.place] = [row EXCEPT !.available = @ + now.qty],
                                !.by[now.place] = @ + now.qty])
          /\ UNCHANGED <<doc, resv, stock, moved, batches>>
  /\ UNCHANGED <<crashes, scenario>>

\* execute_stock_transfer_atomic locks the rows of both ends before it moves.
LockBoth(t) ==
  LET me == task[t]  ends == {me.seen.from, me.seen.to} IN
  /\ Doing(t, "lock") /\ \A p \in ends : MayLock(t, p)
  /\ lock' = [p \in Places |-> IF p \in ends THEN t ELSE lock[p]]
  /\ Done(t, [me EXCEPT !.work = [p \in Places |-> stock[p]]])
  /\ UNCHANGED <<doc, resv, stock, moved, batches, crashes, scenario>>

\* What was flushed becomes permanent and every lock is given back.
CommitPart(t) ==
  /\ Doing(t, "commit")
  /\ stock' = Committed(t) /\ moved' = Recorded(t) /\ lock' = Unlocked(t)
  /\ Done(t, [task[t] EXCEPT !.by = Still])
  /\ UNCHANGED <<doc, resv, batches, crashes, scenario>>

\* A line of a receipt: the batch it names is looked up ...
FindBatch(t) ==
  LET me == task[t]  now == Head(me.todo) IN
  /\ Doing(t, "batch")
  /\ Start(t, [me EXCEPT !.todo = (IF now.of \in batches THEN << >>
                                   ELSE <<[now EXCEPT !.act = "record"]>>) \o Tail(@)])
  /\ UNCHANGED <<doc, resv, stock, moved, batches, lock, crashes, scenario>>

\* ... and created when there is none, unless its number is taken by then.
\* BaseRepository.create commits: the lines before this one with it.
RecordBatch(t) ==
  LET me == task[t]  now == Head(me.todo) IN
  /\ Doing(t, "record")
  /\ IF now.of \in batches THEN Fail(t)
     ELSE /\ batches' = batches \cup {now.of}
          /\ stock' = Committed(t) /\ moved' = Recorded(t) /\ lock' = Unlocked(t)
          /\ Done(t, [me EXCEPT !.by = Still])
          /\ UNCHANGED <<doc, resv>>
  /\ UNCHANGED <<crashes, scenario>>

\* The row of the opening stock is committed before its movement.
InsertOpening(t) ==
  /\ Doing(t, "insert")
  /\ doc' = [doc EXCEPT ![task[t].d] = task[t].seen]
  /\ Done(t, task[t])
  /\ UNCHANGED <<resv, stock, moved, batches, lock, crashes, scenario>>

\* A line of an approved count: create_adjustment compares the count with
\* the stock as it is now and refuses an Increase that would decrease.
AdjustToCount(t) ==
  LET me == task[t]
      now == Head(me.todo)
      diff == now.qty - stock[now.place].available
  IN
  /\ Doing(t, "adjust")
  /\ IF (Diff(me.seen) > 0 /\ diff < 0) \/ (Diff(me.seen) < 0 /\ diff > 0) THEN Fail(t)
     ELSE /\ Start(t, [me EXCEPT !.todo = IF diff = 0 THEN << >>
                                          ELSE <<Move(now.place, diff), CommitNow>>])
          /\ UNCHANGED <<doc, resv, stock, moved, batches, lock>>
  /\ UNCHANGED <<crashes, scenario>>

\* The last commit: the status, or the replaced lines, with what was flushed.
\* A row that was deleted meanwhile fails the flush.
WriteDocument(t) ==
  LET me == task[t] IN
  /\ me.pc = "work" /\ me.todo = << >> /\ me.d # Missing
  /\ IF me.op # "open" /\ doc[me.d].status = "Deleted" THEN Fail(t)
     ELSE /\ \E counted \in IF me.op = "update" /\ me.seen.kind = "adjustment"
                            THEN 0..MaxStock ELSE {me.seen.counted} :
               doc' = [doc EXCEPT
                 ![me.d].status = IF me.op \in {"update", "open"} THEN @ ELSE Target(me.op, me.seen),
                 ![me.d].lines = IF me.new = {} THEN @ ELSE (@ \ me.seen.lines) \cup me.new,
                 ![me.d].counted = IF me.op = "update" THEN counted ELSE @]
          /\ stock' = Committed(t) /\ moved' = Recorded(t) /\ lock' = Unlocked(t)
          /\ Start(t, Resting)
          /\ UNCHANGED <<resv, batches>>
  /\ UNCHANGED <<crashes, scenario>>

----------------------------------------------------------------------------
(* recalculate_balance_projection: the ledger is added up, the balance row  *)
(* is loaded without a lock, and upsert_balance overwrites it.              *)

\* A user asks for one row.
BeginRecalculation(t) ==
  /\ MayBegin(t) /\ Asked("recalculate")
  /\ \E p \in Places : Start(t, [Resting EXCEPT
       !.pc = "work", !.op = "recalculate",
       !.todo = <<Act("derive", p, 0, Missing), Act("load", p, 0, Missing)>>])
  /\ UNCHANGED <<doc, resv, stock, moved, batches, lock, crashes, scenario>>

\* detect_balance_inconsistencies_task loads all rows first.
BeginAudit(t) ==
  /\ MayBegin(t) /\ Asked("audit")
  /\ Start(t, [Resting EXCEPT !.pc = "work", !.op = "audit", !.work = stock,
                 !.todo = SetToSeq({Act("derive", p, 0, Missing) : p \in Places})])
  /\ UNCHANGED <<doc, resv, stock, moved, batches, lock, crashes, scenario>>

AddUpLedger(t) ==
  LET me == task[t]
      p == Head(me.todo).place
      overwrite == Act("overwrite", p, DerivedBalance(p), Missing)
  IN
  /\ Doing(t, "derive") /\ DerivedBalance(p) <= MaxStock
  /\ Start(t, [me EXCEPT !.todo = IF me.op = "audit" THEN <<overwrite>> \o Tail(@)
                                  ELSE Append(Tail(@), overwrite)])
  /\ UNCHANGED <<doc, resv, stock, moved, batches, lock, crashes, scenario>>

LoadBalance(t) ==
  /\ Doing(t, "load")
  /\ Done(t, [task[t] EXCEPT !.work = stock])
  /\ UNCHANGED <<doc, resv, stock, moved, batches, lock, crashes, scenario>>

\* The sum, and a reserved quantity of zero: a column is written where it
\* differs from what was loaded, once no movement holds the row.
OverwriteBalance(t) ==
  LET me == task[t]
      now == Head(me.todo)
      loaded == me.work[now.place]
  IN
  /\ Doing(t, "overwrite") /\ MayLock(t, now.place)
  /\ stock' = [stock EXCEPT
       ![now.place].available = IF loaded.available = now.qty THEN @ ELSE now.qty,
       ![now.place].reserved  = IF loaded.reserved = 0 THEN @ ELSE 0]
  /\ IF Len(me.todo) = 1 THEN Start(t, Resting) ELSE Done(t, me)
  /\ UNCHANGED <<doc, resv, moved, batches, lock, crashes, scenario>>

----------------------------------------------------------------------------
(* Reservations *)

\* A mistaken Effective: the reserved quantity of the balance is trusted.
EffectiveOfRow(p) == stock[p].reserved

\* effective_reserved: the larger of the row's figure and the active ones of
\* the warehouse, whatever location they are for.
Effective(p) ==
  LET active == ActiveAt(resv, Warehouse(p)) IN
  IF stock[p].reserved > active THEN stock[p].reserved ELSE active

\* create_reservation locks the row, compares and commits both rows at once.
Reserve(t) ==
  /\ MayBegin(t) /\ Asked("reserve")
  /\ Cardinality({r \in Reservations : resv[r] # NoReservation}) < scenario.resvs
  /\ \E r \in Reservations, p \in Places, q \in 1..MaxLine, expires \in BOOLEAN :
       /\ resv[r] = NoReservation
       /\ expires => Asked("expire")
       /\ MayLock(t, p)
       /\ q <= stock[p].available - Effective(p)
       /\ resv' = [resv EXCEPT ![r] = [status |-> "Active", place |-> p, qty |-> q,
                                       expires |-> expires]]
       /\ stock' = [stock EXCEPT ![p].reserved = Effective(p) + q]
  /\ UNCHANGED <<doc, moved, batches, lock, task, crashes, scenario>>

\* Release, cancellation and consumption check the reservation without a lock.
BeginSettlement(t) ==
  /\ MayBegin(t)
  /\ \E op \in {"release", "withdraw", "consume"} \cap scenario.ops, r \in Reservations :
       \E q \in IF op = "consume" THEN 1..resv[r].qty ELSE {resv[r].qty} :
         /\ resv[r].status = "Active"
         /\ Start(t, [Resting EXCEPT !.pc = "work", !.op = op, !.r = r, !.qty = q, !.snap = resv])
  /\ UNCHANGED <<doc, resv, stock, moved, batches, lock, crashes, scenario>>

\* max(0.0, curr_res - q)
TakeOff(row, seen, q) == [row EXCEPT !.reserved = IF @ > q THEN @ - q ELSE 0]

\* The columns a consumption changes, from the reservation as it was loaded.
AfterConsumption(row, seen, q) ==
  IF q = seen.qty THEN [row EXCEPT !.status = "Consumed"] ELSE [row EXCEPT !.qty = seen.qty - q]

Settle(t) ==
  LET me == task[t]
      seen == me.snap[me.r]
  IN
  /\ me.pc = "work" /\ me.r # Missing /\ MayLock(t, seen.place)
  /\ stock' = [stock EXCEPT ![seen.place] = TakeOff(@, seen, me.qty)]
  /\ resv' = [resv EXCEPT ![me.r] =
       CASE me.op = "release"  -> [@ EXCEPT !.status = "Released"]
         [] me.op = "withdraw" -> [@ EXCEPT !.status = "Cancelled"]
         [] me.op = "consume"  -> AfterConsumption(@, seen, me.qty)]
  /\ Start(t, Resting)
  /\ UNCHANGED <<doc, moved, batches, lock, crashes, scenario>>

\* A line of an issue: consume_reservation(commit=False) flushes, and then
\* writes an audit record, which commits: lines before it are permanent and
\* the locks are gone.
ConsumeForIssue(t) ==
  LET me == task[t]
      now == Head(me.todo)
      seen == me.snap[now.of]
      p == seen.place
  IN
  /\ Doing(t, "consume") /\ MayLock(t, p)
  /\ IF seen.status # "Active" \/ now.qty > seen.qty THEN Fail(t)
     ELSE /\ stock' = [Committed(t) EXCEPT ![p] = TakeOff(Held(t, p), seen, now.qty)]
          /\ resv' = [resv EXCEPT ![now.of] = AfterConsumption(@, seen, now.qty)]
          /\ moved' = Recorded(t) /\ lock' = Unlocked(t)
          /\ Done(t, [me EXCEPT !.by = Still,
                                !.snap[now.of] = AfterConsumption(seen, seen, now.qty)])
          /\ UNCHANGED <<doc, batches>>
  /\ UNCHANGED <<crashes, scenario>>

\* cleanup_expired_reservations_task reads the outdated reservations ...
BeginExpiry(t) ==
  /\ MayBegin(t) /\ Asked("expire")
  /\ \E r \in Reservations : resv[r].status = "Active" /\ resv[r].expires
  /\ Start(t, [Resting EXCEPT !.pc = "work", !.op = "expire", !.snap = resv])
  /\ UNCHANGED <<doc, resv, stock, moved, batches, lock, crashes, scenario>>

\* ... and marks them; the reserved quantity of the balance stays.
Expire(t) ==
  LET due == {r \in Reservations : task[t].snap[r].status = "Active" /\ task[t].snap[r].expires} IN
  /\ task[t].pc = "work" /\ task[t].op = "expire"
  /\ resv' = [r \in Reservations |->
                IF r \in due THEN [resv[r] EXCEPT !.status = "Expired"] ELSE resv[r]]
  /\ Start(t, Resting)
  /\ UNCHANGED <<doc, stock, moved, batches, lock, crashes, scenario>>

----------------------------------------------------------------------------
\* The process is lost: the database rolls back what was not committed.
Crash(t) ==
  /\ task[t].pc # "idle" /\ crashes < scenario.crashes
  /\ crashes' = crashes + 1
  /\ Fail(t)
  /\ UNCHANGED scenario

Step(t) ==
  \/ Create(t) \/ BeginDocument(t) \/ BeginOpening(t) \/ WriteDocument(t)
  \/ MoveStock(t) \/ LockBoth(t) \/ CommitPart(t) \/ InsertOpening(t) \/ AdjustToCount(t)
  \/ FindBatch(t) \/ RecordBatch(t)
  \/ BeginRecalculation(t) \/ BeginAudit(t) \/ AddUpLedger(t) \/ LoadBalance(t)
  \/ OverwriteBalance(t)
  \/ Reserve(t) \/ BeginSettlement(t) \/ Settle(t) \/ ConsumeForIssue(t)
  \/ BeginExpiry(t) \/ Expire(t)
  \/ Crash(t)

Next == (\E t \in Tasks : Step(t)) /\ UNCHANGED start

Spec == Init /\ [][Next]_vars

----------------------------------------------------------------------------
(* Properties *)

OneAtATime == scenario.width = 1
Quiet(d) == \A t \in Tasks : task[t].d # d
Recalculated == Asked("recalculate") \/ Asked("audit")

\* What a document in its status should have moved at a place.
Effect(row, p) ==
  LET out == IF p = row.from THEN - Total(row.lines) ELSE 0
      in  == IF p = row.to THEN Total(row.lines) ELSE 0
  IN
  CASE row.kind = "receipt" /\ row.status = "Posted" -> in
    [] row.kind = "issue" /\ row.status = "Posted" -> out
    [] row.kind = "transfer" /\ row.status \in {"Posted", "Completed"} -> out + in
    [] row.kind = "transfer" /\ row.status = "In Transit" -> out
    [] row.kind = "adjustment" /\ row.status = "Applied" -> IF p = row.from THEN Diff(row) ELSE 0
    [] row.kind = "opening" -> IF p = row.to THEN row.counted ELSE 0
    [] OTHER -> 0

\* Documents that may end half booked: those the code commits in parts.  An
\* issue that consumes a reservation commits the lines before, and so does a
\* receipt that creates a batch; an update may replace such lines afterwards.
CommittedInParts(row) ==
  \/ row.kind = "count"
  \/ row.kind \in {"adjustment", "opening"} /\ crashes > 0
  \/ /\ row.kind \in {"receipt", "issue"} /\ scenario.naming
     /\ \/ Asked("update")
        \/ Cardinality(row.lines) > 1 /\ \E l \in row.lines : l.of # Missing
  \/ row.kind = "transfer" /\ {"cancel", "dispatch"} \subseteq scenario.ops

\* One handler at a time, with handlers lost and lines refused, the ledger
\* holds of a document exactly what its status says, and the balance of a
\* place is what the ledger adds up to, recalculated or not; only the row
\* without a location is wrong after a recalculation, where its warehouse has
\* locations as well.  With two at once, no document claims stock that was not
\* moved, as long as its lines stay (post_*, dispatch_transfer,
\* complete_transfer, apply_adjustment, recalculate_balance_projection).
MovedAsStatus ==
  /\ OneAtATime => \A p \in Places :
       \/ stock[p].available = LedgerSum({p})
       \/ p = SomePlace /\ scenario.together /\ Recalculated
  /\ \A d \in Docs, p \in Places :
       LET due == Effect(doc[d], p) IN
       /\ OneAtATime /\ Quiet(d) /\ ~ CommittedInParts(doc[d]) => moved[d][p] = due
       /\ ~ Asked("update") /\ doc[d].kind # "opening" =>
            (due > 0 => moved[d][p] >= due) /\ (due < 0 => moved[d][p] <= due)

\* What a place has reserved, and what its active reservations hold.  With any
\* two handlers at once a reservation is only granted for stock that no other
\* one holds (effective_reserved under the row lock of create_reservation).
\* One handler at a time, and unless a balance is recalculated (which sets its
\* reserved quantity to zero), the place has reserved what they hold: no less
\* ever, and no more unless reservations expire or the warehouse has several
\* locations (create, release, cancel and consume of StockReservationService,
\* consumption by issues included).
ReservationsHold ==
  [][/\ \A r \in Reservations :
          resv[r].status # "Active" /\ resv'[r].status = "Active" =>
            ActiveAt(resv', {resv'[r].place}) <= stock[resv'[r].place].available
     /\ OneAtATime /\ ~ Recalculated => \A p \in Places :
          /\ stock'[p].reserved >= ActiveAt(resv', {p})
          /\ ~ Asked("expire") /\ ~ scenario.together =>
               stock'[p].reserved = ActiveAt(resv', {p})]_vars

\* One handler at a time, when a count that found a variance is approved the
\* stock is what was counted, also after movements since the count and after
\* attempts to approve it that were lost half way (approve_cycle_count).
CountSettles ==
  [][OneAtATime => \A d \in Docs :
       doc[d].kind = "count" /\ doc[d].status = "Draft" /\ doc'[d].status = "Approved"
         /\ Diff(doc[d]) # 0
       => stock'[doc[d].from].available = doc[d].counted]_vars

=============================================================================
