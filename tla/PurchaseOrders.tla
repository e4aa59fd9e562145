-------------------------- MODULE PurchaseOrders --------------------------
(***************************************************************************)
(* One purchase order, the goods received against it and the goods sent    *)
(* back: the handlers of PurchaseOrderService and PurchaseReturnService.   *)
(*                                                                         *)
(* Receiving and processing a return lock the order's row; every other     *)
(* handler reads without a lock and only waits for it when it writes.  The *)
(* ORM writes the columns that differ from those it loaded, a counter as   *)
(* an absolute value, and does not reload a row its session already holds. *)
(***************************************************************************)
EXTENDS Integers, Sequences, FiniteSets, FiniteSetsExt

CONSTANTS
  Tasks,       \* handlers in flight
  Items,       \* ids of order lines, never used again
  Returns,     \* ids of purchase returns
  Quantities,  \* what a line orders
  MaxLine,     \* most that one line of a receipt or of a return names
  MaxBooked,   \* bound on the stock received for a line
  Scenarios    \* what is asked, and how many handlers overlap

Missing    == "none"
Statuses   == {"Draft", "Submitted", "Rejected", "Approved", "Dispatched",
               "Partially Received", "Fully Received", "Closed", "Cancelled"}
RetStatuses == {"Draft", "Approved", "Processed", "Cancelled"}
OrderOps  == {"create", "update", "submit", "approve", "reject", "amend",
              "dispatch", "cancel", "close", "reopen"}
ReturnOps == {"draftReturn", "editReturn", "approveReturn", "cancelReturn"}
Ops       == OrderOps \cup ReturnOps \cup {"receive", "process"}
Scenario  == [width: Nat \ {0}, ops: SUBSET Ops,
              lines: {1, 2},      \* longest document
              batches: BOOLEAN,   \* a receipt may name a batch that is new
              repeats: BOOLEAN]   \* a document may name an order line twice

ASSUME PurchaseAssumption ==
  /\ IsFiniteSet(Tasks) /\ IsFiniteSet(Items) /\ IsFiniteSet(Returns)
  /\ Missing \notin Tasks
  /\ Quantities \subseteq Nat \ {0}
  /\ MaxLine \in Nat \ {0} /\ MaxBooked \in Nat
  /\ Scenarios \subseteq Scenario

VARIABLES
  order,    \* status of the order's row
  line,     \* its lines, with their received and returned counters
  ret,      \* the returns raised against it
  booked,   \* committed stock movements that name a line, in and out
  lock,     \* who holds the lock on the order's row
  task,     \* what each handler is doing
  scenario  \* the demand this behaviour is about

vars == <<order, line, ret, booked, lock, task, scenario>>

----------------------------------------------------------------------------
(* Rows and documents *)

Line == [live: BOOLEAN, quantity: Nat, received: Nat, returned: Nat]
Entry == [item: Items, qty: 1..MaxLine]
Documents == {<<e>> : e \in Entry} \cup {<<e, f>> : e, f \in Entry}
Return == [status: RetStatuses \cup {Missing}, doc: Documents \cup {<< >>}]

NoLine == [live |-> FALSE, quantity |-> 0, received |-> 0, returned |-> 0]
NoReturn == [status |-> Missing, doc |-> << >>]

\* A line as PurchaseOrderItem(...) makes it.
Ordered(q) == [live |-> TRUE, quantity |-> q, received |-> 0, returned |-> 0]

Named(doc) == {doc[k].item : k \in DOMAIN doc}
Sum(S, f) == MapThenSumSet(LAMBDA x : f[x], S)
Total(doc, i) == Sum({k \in DOMAIN doc : doc[k].item = i}, [k \in DOMAIN doc |-> doc[k].qty])

Live(rows) == {i \in Items : rows[i].live}
Received(rows) == Sum(Live(rows), [i \in Items |-> rows[i].received])

\* remaining_qty of receive_goods, avail_ret of the returns
Remaining(row)  == row.quantity - row.received + row.returned
Returnable(row) == row.received - row.returned

\* Every line of the document is checked against the row on its own.
Receivable(rows, doc) ==
  \A k \in DOMAIN doc :
    /\ doc[k].item \in Live(rows)
    /\ doc[k].qty <= Remaining(rows[doc[k].item])

SendsBack(rows, doc) ==
  \A k \in DOMAIN doc :
    /\ doc[k].item \in Live(rows)
    /\ doc[k].qty <= Returnable(rows[doc[k].item])

----------------------------------------------------------------------------
(* Handlers *)

Nothing == [i \in Items |-> 0]

Resting ==
  [pc |-> "idle", op |-> Missing, r |-> Missing, doc |-> << >>, n |-> 0, status |-> Missing,
   seen |-> [i \in Items |-> NoLine], new |-> Nothing, moved |-> Nothing]

Task == [pc: {"idle", "lock", "book", "write"}, op: Ops \cup {Missing},
         r: Returns \cup {Missing}, doc: Documents \cup {<< >>}, n: Nat,
         status: Statuses \cup {Missing}, seen: [Items -> Line],
         new: [Items -> Quantities \cup {0}],  \* lines the handler inserts
         moved: [Items -> Nat]]                \* movements it has not committed

TypeOK ==
  /\ order \in Statuses \cup {Missing}
  /\ line \in [Items -> Line]
  /\ ret \in [Returns -> Return]
  /\ booked \in [Items -> [in: Nat, out: Nat]]
  /\ lock \in Tasks \cup {Missing}
  /\ task \in [Tasks -> Task]
  /\ scenario \in Scenarios

Init ==
  /\ order = Missing
  /\ line = [i \in Items |-> NoLine]
  /\ ret = [v \in Returns |-> NoReturn]
  /\ booked = [i \in Items |-> [in |-> 0, out |-> 0]]
  /\ lock = Missing
  /\ task = [t \in Tasks |-> Resting]
  /\ scenario \in Scenarios

\* A handler may start when fewer than the scenario's width are under way.
MayBegin(t) ==
  /\ task[t].pc = "idle"
  /\ Cardinality({u \in Tasks : task[u].pc # "idle"}) < scenario.width

At(t, pc) == task[t].pc = pc
Finish(t) == task' = [task EXCEPT ![t] = Resting]

\* A row lock is taken, and a row written, when nobody else has it locked.
MayLock(t) == lock \in {Missing, t}
Release(t) == lock' = IF lock = t THEN Missing ELSE lock

\* The documents the scenario's clients write.
Written(doc) ==
  /\ Len(doc) <= scenario.lines
  /\ scenario.repeats \/ Cardinality(Named(doc)) = Len(doc)

----------------------------------------------------------------------------
(* The order's own life: each handler reads, decides, and commits *)

\* A mistaken NothingIn: the status tells whether goods came in.
NothingInYet == order \notin {"Partially Received", "Fully Received"}

\* total_received of cancel_order and amend_order
NothingIn == Received(line) = 0
\* The status an operation asks of the order it has just read.
Permitted(op) ==
  CASE op = "create"   -> order = Missing
    [] op = "update"   -> order = "Draft"
    [] op = "submit"   -> order \in {"Draft", "Rejected"}
    [] op = "approve"  -> order \notin {Missing, "Approved", "Closed", "Cancelled", "Dispatched"}
    [] op = "reject"   -> order = "Submitted"
    [] op = "amend"    -> order \in {"Approved", "Dispatched"} /\ NothingIn
    [] op = "dispatch" -> order = "Approved"
    [] op = "cancel"   -> order \notin {Missing, "Closed", "Cancelled"} /\ NothingIn
    [] op = "close"    -> order \notin {Missing, "Closed", "Cancelled"}
    [] op = "reopen"   -> order = "Closed"

Target(op) ==
  CASE op \in {"create", "amend"}   -> "Draft"
    [] op = "submit"                -> "Submitted"
    [] op \in {"approve", "reopen"} -> "Approved"
    [] op = "reject"                -> "Rejected"
    [] op = "dispatch"              -> "Dispatched"
    [] op = "cancel"                -> "Cancelled"
    [] op = "close"                 -> "Closed"
    [] op = "update"                -> order

\* Line ids nobody has inserted or is about to insert.
Fresh == {i \in Items : line[i].quantity = 0 /\ \A u \in Tasks : task[u].new[i] = 0}

\* The lines an operation puts in place of those it found; none, to keep them.
NewLines(op) ==
  {new \in [Items -> Quantities \cup {0}] :
     /\ \A i \in Items \ Fresh : new[i] = 0
     /\ op \notin {"create", "update", "amend"} => new = Nothing
     /\ op = "create" => new # Nothing}

BeginOrderOp(t) ==
  /\ MayBegin(t)
  /\ \E op \in OrderOps \cap scenario.ops : \E new \in NewLines(op) :
       /\ Permitted(op)
       /\ task' = [task EXCEPT ![t] = [Resting EXCEPT
            !.pc = "write", !.op = op, !.status = order, !.seen = line, !.new = new]]
  /\ UNCHANGED <<order, line, ret, booked, lock, scenario>>

\* The lines the commit deletes: replaced ones, by their orphan rule.
Dropped(me) == IF me.new = Nothing THEN {} ELSE Live(me.seen)

\* The commit is refused: a return names a line to delete, or a line to
\* update is gone, or the order was created meanwhile.
Refused(me) ==
  \/ \E v \in Returns : Named(ret[v].doc) \cap Dropped(me) # {}
  \/ me.op = "cancel" /\ ~ (Live(me.seen) \subseteq Live(line))
  \/ me.op = "create" /\ order # Missing

WriteOrderOp(t) ==
  LET me == task[t] IN
  /\ At(t, "write") /\ me.op \in OrderOps /\ MayLock(t)
  /\ IF Refused(me) THEN UNCHANGED <<order, line>>
     ELSE /\ order' = Target(me.op)
          /\ line' = [i \in Items |->
               IF me.new[i] > 0 THEN Ordered(me.new[i])
               ELSE IF i \in Dropped(me) THEN [line[i] EXCEPT !.live = FALSE] ELSE line[i]]
  /\ Finish(t)
  /\ UNCHANGED <<ret, booked, lock, scenario>>

----------------------------------------------------------------------------
(* Receiving *)

OpenForReceipt == {"Approved", "Dispatched", "Partially Received"}
BeginReceipt(t) ==
  /\ MayBegin(t) /\ "receive" \in scenario.ops
  /\ \E doc \in Documents :
       /\ Written(doc)
       /\ \A i \in Items : booked[i].in + Total(doc, i) <= MaxBooked
       /\ task' = [task EXCEPT ![t] =
            [Resting EXCEPT !.pc = "lock", !.op = "receive", !.doc = doc]]
  /\ UNCHANGED <<order, line, ret, booked, lock, scenario>>

\* get_for_update, then the status and every line as they are now.
LockForReceipt(t) ==
  LET me == task[t] IN
  /\ At(t, "lock") /\ me.op = "receive" /\ MayLock(t)
  /\ IF order \in OpenForReceipt /\ Receivable(line, me.doc)
     THEN /\ lock' = t
          /\ task' = [task EXCEPT ![t].pc = "book", ![t].n = 1,
                                  ![t].seen = line, ![t].status = order]
     ELSE Finish(t) /\ UNCHANGED lock
  /\ UNCHANGED <<order, line, ret, booked, scenario>>

Plus(f, e) == [f EXCEPT ![e.item] = @ + e.qty]
NextPc(me) == IF me.n = Len(me.doc) THEN "write" ELSE "book"

\* stock_in with commit=False: one more movement of the open transaction.
BookLine(t) ==
  LET me == task[t] IN
  /\ At(t, "book")
  /\ task' = [task EXCEPT ![t].pc = NextPc(me), ![t].n = @ + 1,
                          ![t].moved = Plus(@, me.doc[me.n])]
  /\ UNCHANGED <<order, line, ret, booked, lock, scenario>>

CommitIn(moved) == [i \in Items |-> [booked[i] EXCEPT !.in = @ + moved[i]]]

\* The line's batch does not exist: batch_repository.create commits, which
\* makes the lines before it permanent and gives the order's lock away.
BookLineOfNewBatch(t) ==
  LET me == task[t] IN
  /\ At(t, "book") /\ scenario.batches
  /\ booked' = CommitIn(me.moved)
  /\ Release(t)
  /\ task' = [task EXCEPT ![t].pc = NextPc(me), ![t].n = @ + 1,
                          ![t].moved = Plus(Nothing, me.doc[me.n])]
  /\ UNCHANGED <<order, line, ret, scenario>>

\* The counters of the seen lines with the document counted in.
CountedIn(me) ==
  [i \in Items |-> [me.seen[i] EXCEPT !.received = @ + Total(me.doc, i)]]

AllReceived(rows) == \A i \in Live(rows) : rows[i].received >= rows[i].quantity
StatusAfter(me) ==
  IF AllReceived(CountedIn(me)) THEN "Fully Received" ELSE "Partially Received"

\* A line to update is gone: the flush fails and the rest is rolled back.
LineGone(me) == ~ (Named(me.doc) \subseteq Live(line))

\* A mistaken CountReceipt: the counter takes the delivered quantity itself.
CountLast(me) ==
  [i \in Items |-> IF i \in Named(me.doc)
                   THEN [line[i] EXCEPT !.received = Total(me.doc, i)] ELSE line[i]]
CountReceipt(me) ==
  [i \in Items |-> IF i \in Named(me.doc)
                   THEN [line[i] EXCEPT !.received = CountedIn(me)[i].received] ELSE line[i]]
WriteReceipt(t) ==
  LET me == task[t] IN
  /\ At(t, "write") /\ me.op = "receive" /\ MayLock(t)
  /\ IF LineGone(me) THEN UNCHANGED <<order, line, booked>>
     ELSE /\ order' = IF StatusAfter(me) = me.status THEN order ELSE StatusAfter(me)
          /\ line' = CountReceipt(me)
          /\ booked' = CommitIn(me.moved)
  /\ Release(t) /\ Finish(t)
  /\ UNCHANGED <<ret, scenario>>

----------------------------------------------------------------------------
(* Returns *)

ReturnableOrder == {"Approved", "Dispatched", "Partially Received", "Fully Received"}

\* What an operation asks of the return and of the order it reads.
MayReturn(op, row, doc) ==
  CASE op = "draftReturn"   -> /\ row.status = Missing /\ order \in ReturnableOrder
                               /\ SendsBack(line, doc)
    [] op = "editReturn"    -> row.status = "Draft" /\ SendsBack(line, doc)
    [] op = "approveReturn" -> row.status = "Draft" /\ doc = row.doc
    [] op = "cancelReturn"  -> row.status \in {"Draft", "Approved"} /\ doc = row.doc
    [] op = "process"       -> row.status \in {"Draft", "Approved"} /\ doc = row.doc

\* Processing loads the order and its lines with the return, before the lock.
BeginReturnOp(t) ==
  /\ MayBegin(t)
  /\ \E op \in (ReturnOps \cup {"process"}) \cap scenario.ops, v \in Returns, doc \in Documents :
       /\ Written(doc)
       /\ MayReturn(op, ret[v], doc)
       /\ \A u \in Tasks : ~ (op = "draftReturn" /\ task[u].op = op /\ task[u].r = v)
       /\ task' = [task EXCEPT ![t] = [Resting EXCEPT
            !.pc = IF op = "process" THEN "lock" ELSE "write",
            !.op = op, !.r = v, !.doc = doc, !.seen = line]]
  /\ UNCHANGED <<order, line, ret, booked, lock, scenario>>

WriteReturnOp(t) ==
  LET me == task[t]
      status == CASE me.op \in {"draftReturn", "editReturn"} -> "Draft"
                  [] me.op = "approveReturn" -> "Approved"
                  [] me.op = "cancelReturn" -> "Cancelled"
  IN
  /\ At(t, "write") /\ me.op \in ReturnOps
  /\ me.op = "draftReturn" => MayLock(t)
  /\ ret' = IF LineGone(me) THEN ret
            ELSE [ret EXCEPT
              ![me.r].status = IF me.op = "editReturn" THEN @ ELSE status,
              ![me.r].doc = IF me.op \in {"draftReturn", "editReturn"} THEN me.doc ELSE @]
  /\ Finish(t)
  /\ UNCHANGED <<order, line, booked, lock, scenario>>

\* get_for_update locks the row, but the session keeps the lines it has: the
\* validation under the lock compares with what was loaded before it.
LockForReturn(t) ==
  LET me == task[t] IN
  /\ At(t, "lock") /\ me.op = "process" /\ MayLock(t)
  /\ IF SendsBack(me.seen, me.doc)
     THEN lock' = t /\ task' = [task EXCEPT ![t].pc = "write"]
     ELSE Finish(t) /\ UNCHANGED lock
  /\ UNCHANGED <<order, line, ret, booked, scenario>>

CountReturn(me) ==
  [i \in Items |-> IF i \in Named(me.doc)
     THEN [line[i] EXCEPT !.returned = me.seen[i].returned + Total(me.doc, i)] ELSE line[i]]

\* stock_out for every line, the counters and the status in one commit.
WriteProcessed(t) ==
  LET me == task[t] IN
  /\ At(t, "write") /\ me.op = "process" /\ MayLock(t)
  /\ IF LineGone(me) THEN UNCHANGED <<line, ret, booked>>
     ELSE /\ line' = CountReturn(me)
          /\ ret' = [ret EXCEPT ![me.r].status = "Processed"]
          /\ booked' = [i \in Items |-> [booked[i] EXCEPT !.out = @ + Total(me.doc, i)]]
  /\ Release(t) /\ Finish(t)
  /\ UNCHANGED <<order, scenario>>

----------------------------------------------------------------------------
(* A movement is refused or the connection fails: the open transaction is   *)
(* rolled back, and with it the lock.                                       *)
Abandon(t) ==
  /\ task[t].pc # "idle"
  /\ Release(t) /\ Finish(t)
  /\ UNCHANGED <<order, line, ret, booked, scenario>>

Step(t) ==
  \/ BeginOrderOp(t) \/ WriteOrderOp(t)
  \/ BeginReceipt(t) \/ LockForReceipt(t) \/ BookLine(t) \/ BookLineOfNewBatch(t)
  \/ WriteReceipt(t)
  \/ BeginReturnOp(t) \/ WriteReturnOp(t) \/ LockForReturn(t) \/ WriteProcessed(t)
  \/ Abandon(t)

Next == \E t \in Tasks : Step(t)

Spec == Init /\ [][Next]_vars

----------------------------------------------------------------------------
(* Properties *)

OneAtATime == scenario.width = 1
WholeDocuments == ~ scenario.batches

SentBack(i) == Sum({v \in Returns : ret[v].status = "Processed"},
                   [v \in Returns |-> Total(ret[v].doc, i)])

\* A counter is never ahead of the stock ledger: goods counted as received or
\* returned were booked, whatever overlaps, fails or commits half way.  Every
\* booked receipt is counted once, with handlers overlapping, unless a new
\* batch splits the document.  One handler at a time, the goods booked out are
\* those of the processed returns, each booked and counted once, and never
\* more than came in.  What came in, less what went back, never exceeds what was
\* ordered, with receipts and returns overlapping, when a document names a line
\* once (row lock and remaining_qty of receive_goods, process_return).
CountersMatchStock ==
  \A i \in Items :
    /\ line[i].received <= booked[i].in /\ line[i].returned <= booked[i].out
    /\ WholeDocuments /\ line[i].live => line[i].received = booked[i].in
    /\ OneAtATime => booked[i].out = SentBack(i) /\ line[i].returned = SentBack(i)
    /\ OneAtATime /\ ~ scenario.repeats => SentBack(i) <= booked[i].in
    /\ WholeDocuments /\ ~ scenario.repeats => booked[i].in - booked[i].out <= line[i].quantity

Short == {i \in Live(line) : line[i].received < line[i].quantity}

\* No draft is updated while another handler takes it further.
UpdatesAlone == OneAtATime \/ "update" \notin scenario.ops

\* A fully received order has no line short of its quantity, whatever
\* amendments, receipts and returns overlap.  One handler at a time, goods
\* that came in stay attached to a live line of an order that is not cancelled
\* (receive_goods, cancel_order, amend_order, update_order).
NothingDropped ==
  WholeDocuments =>
    /\ UpdatesAlone /\ order = "Fully Received" => Short = {}
    /\ OneAtATime => \A i \in Items : booked[i].in > 0 => line[i].live /\ order # "Cancelled"

=============================================================================
