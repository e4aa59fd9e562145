---------------------------- MODULE SalesDelivery ----------------------------
(***************************************************************************)
(* Sales: QuotationService, SalesOrderService, DeliveryService and         *)
(* SalesReturnService over the stock of one product in one warehouse.      *)
(*                                                                         *)
(* Rows are read without a lock (the one FOR UPDATE, of a quotation, ends  *)
(* with the commit of the order's header).  Orders, deliveries and returns *)
(* are committed header first, and the goods issue or receipt of a         *)
(* delivery or return in three commits of its own.  A handler therefore    *)
(* works through a script of commits.  A return whose goods fail is        *)
(* completed without them; a delivery whose goods fail ends there, still a *)
(* draft with its counters committed, because the handler of the exception *)
(* names a logger that create_delivery's module does not define.  What is  *)
(* left behind may be changed and posted by the warehouse.                 *)
(***************************************************************************)
EXTENDS Integers, Sequences, FiniteSets, FiniteSetsExt

CONSTANTS
  Tasks,      \* handlers in flight
  Quotes,     \* ids of quotations
  Orders,     \* ids of sales orders
  Docs,       \* ids of deliveries and returns
  Stocked,    \* what the warehouse may hold at the start
  MaxLine,    \* most that a line names
  Scenarios   \* what is asked, and how many handlers overlap

Missing == "none"
QuoteOps == {"quote", "clone", "revise", "submit q", "approve q", "reject q", "cancel q",
             "expire", "convert"}
OrderOps == {"order", "update", "submit", "approve", "reject", "cancel", "close", "reopen"}
DocOps   == {"deliver", "cancel delivery", "return", "approve return", "post", "edit"}
Ops      == QuoteOps \cup OrderOps \cup DocOps
Scenario == [width: Nat \ {0}, ops: SUBSET Ops,
             begin: {"quotes", "order"},          \* start from nothing, or from an approved order
             lines: {1, 2},                       \* lines of a document
             quotes: Nat, orders: Nat, docs: Nat, \* bounds on rows
             crashes: Nat]                        \* bound on handlers lost

ASSUME SalesAssumption ==
  /\ IsFiniteSet(Tasks) /\ IsFiniteSet(Quotes) /\ IsFiniteSet(Orders) /\ IsFiniteSet(Docs)
  /\ Missing \notin Quotes \cup Orders \cup Docs
  /\ Stocked \subseteq Nat /\ MaxLine \in Nat \ {0}
  /\ Orders # {} /\ Scenarios \subseteq Scenario

VARIABLES
  quote,     \* the committed quotations
  order,     \* the committed orders, with their lines
  doc,       \* the committed deliveries and returns
  stock,     \* what the warehouse holds
  task,      \* what each handler is doing
  crashes,   \* handlers lost so far
  scenario   \* the demand this behaviour is about

vars == <<quote, order, doc, stock, task, crashes, scenario>>

----------------------------------------------------------------------------
(* Rows *)

\* Of the lines of a quotation it matters only whether there are any.
Quote == [status: {Missing, "Draft", "Submitted", "Approved", "Rejected", "Cancelled",
                   "Converted", "Expired"}, lines: BOOLEAN]
OrderLine == [no: 1..4, qty: 1..MaxLine, done: 0..MaxLine]   \* done is delivered_quantity
Order == [status: {Missing, "Draft", "Submitted", "Approved", "Rejected", "Partially Delivered",
                   "Fully Delivered", "Cancelled", "Closed"},
          quote: Quotes \cup {Missing},
          whole: BOOLEAN,               \* ghost: its creation reached its last commit
          lines: SUBSET OrderLine]
DocLine == [no: 1..4, qty: 1..MaxLine]
\* goods is the goods issue or receipt, named what its lines name of the
\* product, linked whether the document names it, and moved a ghost: what
\* postings of it have booked.
Document == [kind: {Missing, "delivery", "return"},
             status: {Missing, "Draft", "Approved", "Delivered", "Completed", "Cancelled"},
             order: Orders, lines: Seq(DocLine),
             goods: {Missing, "Draft", "Approved", "Posted"}, named: Nat, linked: BOOLEAN,
             moved: Nat]

NoQuote == [status |-> Missing, lines |-> FALSE]
NoOrder == [status |-> Missing, quote |-> Missing, whole |-> FALSE, lines |-> {}]
NoDoc   == [kind |-> Missing, status |-> Missing, order |-> CHOOSE o \in Orders : TRUE,
            lines |-> << >>, goods |-> Missing, named |-> 0, linked |-> FALSE, moved |-> 0]

Sum(S, f) == MapThenSumSet(LAMBDA x : f[x], S)
Quantities(lines) == [k \in DOMAIN lines |-> lines[k].qty]
Total(lines) == Sum(DOMAIN lines, Quantities(lines))
On(lines, no) == Sum({k \in DOMAIN lines : lines[k].no = no}, Quantities(lines))

Resting == [pc |-> "idle", op |-> Missing, q |-> Missing, o |-> Missing, d |-> Missing,
            todo |-> << >>, quote |-> NoQuote, order |-> NoOrder, doc |-> NoDoc,
            new |-> {}, due |-> {}, linked |-> FALSE]
Task == [pc: {"idle", "work"}, op: Ops \cup {Missing}, q: Quotes \cup {Missing},
         o: Orders \cup {Missing}, d: Docs \cup {Missing},
         todo: Seq({"status", "quote", "revise", "order", "rewrite", "count", "lines",
                    "draft", "sign", "post", "finish"}),
         quote: Quote, order: Order, doc: Document,  \* rows as they were loaded
         new: SUBSET OrderLine,                      \* lines it writes to an order
         due: SUBSET Quotes,                         \* quotations it found expired
         linked: BOOLEAN]                            \* goods_issue_id was assigned

TypeOK ==
  /\ quote \in [Quotes -> Quote] /\ order \in [Orders -> Order] /\ doc \in [Docs -> Document]
  /\ stock \in Nat /\ task \in [Tasks -> Task]
  /\ crashes \in 0..scenario.crashes /\ scenario \in Scenarios

\* The lines a client may write to an order, numbered from n.
NewLines(n) ==
  {lines \in SUBSET [no: n .. n + scenario.lines - 1, qty: 1..MaxLine, done: {0}] :
     /\ lines # {} /\ \A l, k \in lines : l.no = k.no => l = k
     /\ \A l \in lines : l.no > n => \E k \in lines : k.no = n}

Init ==
  /\ scenario \in Scenarios
  /\ quote = [q \in Quotes |-> NoQuote]
  /\ \E first \in Orders, lines \in NewLines(1) :
       order = [o \in Orders |->
         IF scenario.begin = "order" /\ o = first
         THEN [status |-> "Approved", quote |-> Missing, whole |-> TRUE, lines |-> lines]
         ELSE NoOrder]
  /\ doc = [d \in Docs |-> NoDoc]
  /\ stock \in Stocked
  /\ task = [t \in Tasks |-> Resting]
  /\ crashes = 0

Asked(op) == op \in scenario.ops
MayBegin(t) ==
  /\ task[t].pc = "idle"
  /\ Cardinality({u \in Tasks : task[u].pc # "idle"}) < scenario.width
Start(t, me) == task' = [task EXCEPT ![t] = [me EXCEPT !.pc = "work"]]
Stop(t) == task' = [task EXCEPT ![t] = Resting]
Doing(t, act) == task[t].pc = "work" /\ task[t].todo # << >> /\ Head(task[t].todo) = act
Go(t, me) == IF Len(me.todo) = 1 THEN Stop(t)
             ELSE task' = [task EXCEPT ![t] = [me EXCEPT !.todo = Tail(@)]]
FreeQuote(q) == quote[q] = NoQuote
                /\ Cardinality({x \in Quotes : ~ (quote[x] = NoQuote)}) < scenario.quotes
FreeOrder(o) == order[o] = NoOrder
                /\ Cardinality({x \in Orders : ~ (order[x] = NoOrder)}) < scenario.orders
FreeDoc(d) == doc[d] = NoDoc
              /\ Cardinality({x \in Docs : ~ (doc[x] = NoDoc)}) < scenario.docs

----------------------------------------------------------------------------
(* Status changes: the handler reads the row, decides, and commits *)

MayQuote(op, row) ==
  CASE op = "revise"    -> row.status = "Draft"
    [] op = "submit q"  -> row.status = "Draft" /\ row.lines
    [] op = "approve q" -> row.status \in {"Draft", "Submitted"}
    [] op = "reject q"  -> row.status \in {"Draft", "Submitted"}
    [] op = "cancel q"  -> row.status \notin {Missing, "Converted", "Cancelled"}
    [] OTHER -> FALSE

MayOrder(op, row) ==
  CASE op = "update"  -> row.status = "Draft"
    [] op = "submit"  -> row.status = "Draft" /\ row.lines # {}
    [] op \in {"approve", "reject"} -> row.status \in {"Draft", "Submitted"}
    [] op = "cancel"  -> /\ row.status \notin {Missing, "Closed", "Cancelled", "Fully Delivered"}
                         /\ \A l \in row.lines : l.done = 0
    [] op = "close"   -> row.status # Missing
    [] op = "reopen"  -> row.status = "Closed"
    [] OTHER -> FALSE

MayDoc(op, row) ==
  \/ op = "cancel delivery" /\ row.kind = "delivery" /\ row.status # "Cancelled"
  \/ op = "approve return" /\ row.kind = "return" /\ row.status = "Draft"

Target(op) ==
  CASE op \in {"submit", "submit q"} -> "Submitted"
    [] op \in {"approve", "approve q", "reopen", "approve return"} -> "Approved"
    [] op \in {"reject", "reject q"} -> "Rejected"
    [] op \in {"cancel", "cancel q", "cancel delivery"} -> "Cancelled"
    [] op = "close" -> "Closed"

BeginQuoteStep(t) ==
  /\ MayBegin(t)
  /\ \E op \in scenario.ops, q \in Quotes :
       /\ MayQuote(op, quote[q])
       /\ Start(t, [Resting EXCEPT !.op = op, !.q = q, !.quote = quote[q],
                                   !.todo = <<IF op = "revise" THEN "revise" ELSE "status">>])
  /\ UNCHANGED <<quote, order, doc, stock, crashes, scenario>>

BeginOrderStep(t) ==
  /\ MayBegin(t)
  /\ \E op \in scenario.ops, o \in Orders :
       /\ MayOrder(op, order[o])
       /\ \E new \in IF op = "update" THEN NewLines(3) ELSE {{}} :
            Start(t, [Resting EXCEPT !.op = op, !.o = o, !.order = order[o], !.new = new,
                        !.todo = <<IF op = "update" THEN "rewrite" ELSE "status">>])
  /\ UNCHANGED <<quote, order, doc, stock, crashes, scenario>>

BeginDocStep(t) ==
  /\ MayBegin(t)
  /\ \E op \in scenario.ops, d \in Docs :
       /\ MayDoc(op, doc[d])
       /\ Start(t, [Resting EXCEPT !.op = op, !.d = d, !.doc = doc[d],
                      !.todo = IF op = "cancel delivery" THEN <<"status">>
                               ELSE <<"status", "draft", "sign", "post", "finish">>])
  /\ UNCHANGED <<quote, order, doc, stock, crashes, scenario>>

WriteStatus(t) ==
  LET me == task[t] IN
  /\ Doing(t, "status")
  /\ quote' = IF me.q = Missing THEN quote ELSE [quote EXCEPT ![me.q].status = Target(me.op)]
  /\ order' = IF me.o = Missing THEN order
              ELSE [order EXCEPT ![me.o].status = IF me.order.status = Target(me.op) THEN @
                                                  ELSE Target(me.op)]
  /\ doc' = IF me.d = Missing THEN doc ELSE [doc EXCEPT ![me.d].status = Target(me.op)]
  /\ Go(t, me)
  /\ UNCHANGED <<stock, crashes, scenario>>

\* update_order: the lines it loaded go, the new ones come; a line that a
\* delivery or return names cannot be deleted (ON DELETE RESTRICT).
RewriteOrder(t) ==
  LET me == task[t]
      named == {no \in 1..4 : \E d \in Docs : doc[d].order = me.o /\ On(doc[d].lines, no) > 0}
  IN
  /\ Doing(t, "rewrite")
  /\ order' = IF \E l \in me.order.lines : l.no \in named THEN order
              ELSE [order EXCEPT ![me.o].lines = {l \in @ : \A k \in me.order.lines : k.no # l.no}
                                                   \cup me.new]
  /\ Stop(t)
  /\ UNCHANGED <<quote, doc, stock, crashes, scenario>>

----------------------------------------------------------------------------
(* Quotations and orders: the header is committed before the lines *)

QuoteHeader(t, op, lines) ==
  \E q \in Quotes :
    /\ FreeQuote(q)
    /\ quote' = [quote EXCEPT ![q].status = "Draft"]
    /\ Start(t, [Resting EXCEPT !.op = op, !.q = q, !.quote.lines = lines, !.todo = <<"quote">>])

\* create_quotation.
CreateQuote(t) ==
  /\ MayBegin(t) /\ Asked("quote")
  /\ QuoteHeader(t, "quote", TRUE)
  /\ UNCHANGED <<order, doc, stock, crashes, scenario>>

\* clone_quotation copies a quotation of any status.
CloneQuote(t) ==
  /\ MayBegin(t) /\ Asked("clone")
  /\ \E source \in Quotes :
       quote[source] # NoQuote /\ QuoteHeader(t, "clone", quote[source].lines)
  /\ UNCHANGED <<order, doc, stock, crashes, scenario>>

\* The lines of a new or cloned quotation.
WriteQuoteLines(t) ==
  /\ Doing(t, "quote")
  /\ quote' = [quote EXCEPT ![task[t].q].lines = @ \/ task[t].quote.lines]
  /\ Go(t, task[t])
  /\ UNCHANGED <<order, doc, stock, crashes, scenario>>

\* update_quotation puts other lines in place, and there must be some.
ReviseQuote(t) ==
  /\ Doing(t, "revise")
  /\ quote' = [quote EXCEPT ![task[t].q].lines = TRUE]
  /\ Go(t, task[t])
  /\ UNCHANGED <<order, doc, stock, crashes, scenario>>

\* A mistaken Convertible: a quotation is only refused while it is a draft.
ConvertibleUnlessDraft(row) == row.status \notin {Missing, "Draft"} /\ row.lines

\* The quotation is read with a lock that the commit of the header releases.
Convertible(row) == row.status = "Approved" /\ row.lines

OrderHeader(t, op, o, q) ==
  /\ FreeOrder(o)
  /\ order' = [order EXCEPT ![o] = [NoOrder EXCEPT !.status = "Draft", !.quote = q]]
  /\ \E new \in NewLines(1) :
       Start(t, [Resting EXCEPT !.op = op, !.o = o, !.new = new, !.todo = <<"order">>])

\* create_order, alone or for an approved quotation.
CreateOrder(t) ==
  /\ MayBegin(t) /\ Asked("order")
  /\ \E o \in Orders, q \in Quotes \cup {Missing} :
       /\ q # Missing => quote[q].status = "Approved"
       /\ OrderHeader(t, "order", o, q)
  /\ UNCHANGED <<quote, doc, stock, crashes, scenario>>

\* create_from_quotation.
Convert(t) ==
  /\ MayBegin(t) /\ Asked("convert")
  /\ \E o \in Orders, q \in Quotes :
       /\ Convertible(quote[q])
       /\ OrderHeader(t, "convert", o, q)
  /\ UNCHANGED <<quote, doc, stock, crashes, scenario>>

\* The second commit: the lines, and the quotation becomes Converted.
WriteOrderLines(t) ==
  LET me == task[t]  q == order[me.o].quote IN
  /\ Doing(t, "order")
  /\ order' = [order EXCEPT ![me.o].lines = @ \cup me.new, ![me.o].whole = TRUE]
  /\ quote' = IF q = Missing THEN quote ELSE [quote EXCEPT ![q].status = "Converted"]
  /\ Stop(t)
  /\ UNCHANGED <<doc, stock, crashes, scenario>>

\* A line names an inactive product: the header is all that remains.
RefuseLines(t) ==
  /\ task[t].op \in {"quote", "order", "return"}
  /\ \E act \in {"quote", "order", "lines"} : Doing(t, act)
  /\ Stop(t)
  /\ UNCHANGED <<quote, order, doc, stock, crashes, scenario>>

\* expire_quotations reads the submitted quotations past their validity ...
BeginExpiry(t) ==
  /\ MayBegin(t) /\ Asked("expire")
  /\ \E due \in SUBSET {q \in Quotes : quote[q].status = "Submitted"} \ {{}} :
       Start(t, [Resting EXCEPT !.op = "expire", !.due = due])
  /\ UNCHANGED <<quote, order, doc, stock, crashes, scenario>>

\* ... and marks them.
Expire(t) ==
  /\ task[t].op = "expire"
  /\ quote' = [q \in Quotes |-> IF q \in task[t].due THEN [quote[q] EXCEPT !.status = "Expired"]
                                ELSE quote[q]]
  /\ Stop(t)
  /\ UNCHANGED <<order, doc, stock, crashes, scenario>>

----------------------------------------------------------------------------
(* Deliveries and returns *)

\* Lines of a delivery or return; a line of the order may be named twice.
Requests(o) ==
  UNION {[1..n -> {l \in DocLine : \E k \in order[o].lines : k.no = l.no}] : n \in 1..scenario.lines}

OpenForDelivery(row) == row.status \in {"Approved", "Partially Delivered"}

\* create_delivery reads the order and commits the header of the delivery ...
BeginDelivery(t) ==
  /\ MayBegin(t) /\ Asked("deliver")
  /\ \E d \in Docs, o \in Orders :
       /\ FreeDoc(d) /\ OpenForDelivery(order[o])
       /\ doc' = [doc EXCEPT ![d] = [NoDoc EXCEPT !.kind = "delivery", !.status = "Draft",
                                                  !.order = o]]
       /\ \E lines \in Requests(o) :
            Start(t, [Resting EXCEPT !.op = "deliver", !.o = o, !.d = d, !.order = order[o],
                        !.doc = [doc'[d] EXCEPT !.lines = lines],
                        !.todo = <<"count", "draft", "sign", "post", "finish">>])
  /\ UNCHANGED <<quote, order, stock, crashes, scenario>>

\* The delivered quantities after all lines of a request.
Counted(lines, request) == {[l EXCEPT !.done = @ + On(request, l.no)] : l \in lines}

\* A mistaken Fits: every line of the request is compared with the order alone.
FitsAlone(lines, request) ==
  \A k \in DOMAIN request : \E l \in lines : l.no = request[k].no /\ request[k].qty <= l.qty - l.done

\* Every line is compared with what the lines before it have left, so what
\* all of them name of an order line has to fit.
Fits(lines, request) == \A l \in Counted(lines, request) : l.done <= l.qty

StatusAfter(lines) ==
  IF \A l \in lines : l.done >= l.qty THEN "Fully Delivered" ELSE "Partially Delivered"

\* ... then commits the counters it loaded, increased, with the lines.
CountDelivery(t) ==
  LET me == task[t]
      after == Counted(me.order.lines, me.doc.lines)
      written == {l \in after : On(me.doc.lines, l.no) > 0}
  IN
  /\ Doing(t, "count")
  /\ IF /\ Fits(me.order.lines, me.doc.lines)
        /\ \A l \in written : \E k \in order[me.o].lines : k.no = l.no
     THEN /\ order' = [order EXCEPT
               ![me.o].lines = {l \in @ : \A k \in written : k.no # l.no} \cup written,
               ![me.o].status = IF StatusAfter(after) = me.order.status THEN @
                                ELSE StatusAfter(after)]
          /\ doc' = [doc EXCEPT ![me.d].lines = me.doc.lines]
          /\ Go(t, me)
     ELSE Stop(t) /\ UNCHANGED <<order, doc>>
  /\ UNCHANGED <<quote, stock, crashes, scenario>>

\* create_return reads the order, whatever its status, and commits a header ...
BeginReturn(t) ==
  /\ MayBegin(t) /\ Asked("return")
  /\ \E d \in Docs, o \in Orders :
       /\ FreeDoc(d)
       /\ \E lines \in Requests(o) :
            /\ doc' = [doc EXCEPT ![d] = [NoDoc EXCEPT !.kind = "return", !.status = "Draft",
                                                       !.order = o]]
            /\ Start(t, [Resting EXCEPT !.op = "return", !.o = o, !.d = d,
                           !.doc = [doc'[d] EXCEPT !.lines = lines], !.todo = <<"lines">>])
  /\ UNCHANGED <<quote, order, stock, crashes, scenario>>

\* ... then the lines.
WriteReturnLines(t) ==
  LET me == task[t] IN
  /\ Doing(t, "lines")
  /\ doc' = IF \A n \in DOMAIN me.doc.lines : \E l \in order[me.o].lines : l.no = me.doc.lines[n].no
            THEN [doc EXCEPT ![me.d].lines = me.doc.lines] ELSE doc
  /\ Stop(t)
  /\ UNCHANGED <<quote, order, stock, crashes, scenario>>

\* The goods issue or receipt is created, under a number no other may have,
\* approved and posted: one commit each.
DraftGoods(t) ==
  LET me == task[t] IN
  /\ Doing(t, "draft") /\ me.doc.lines # << >> /\ doc[me.d].goods = Missing
  /\ doc' = [doc EXCEPT ![me.d].goods = "Draft", ![me.d].named = Total(me.doc.lines)]
  /\ Go(t, me)
  /\ UNCHANGED <<quote, order, stock, crashes, scenario>>

ApproveGoods(t) ==
  /\ Doing(t, "sign")
  /\ doc' = [doc EXCEPT ![task[t].d].goods = "Approved"]
  /\ Go(t, task[t])
  /\ UNCHANGED <<quote, order, stock, crashes, scenario>>

StockAfter(row) == IF row.kind = "return" THEN stock + row.named ELSE stock - row.named

Post(d) ==
  /\ StockAfter(doc[d]) >= 0
  /\ stock' = StockAfter(doc[d])
  /\ doc' = [doc EXCEPT ![d].goods = "Posted", ![d].moved = @ + doc[d].named]

\* The session read the lines again when it had approved them, and nobody
\* changes them afterwards.
PostGoods(t) ==
  LET me == task[t] IN
  /\ Doing(t, "post")
  /\ Post(me.d)
  /\ Go(t, [me EXCEPT !.linked = TRUE])
  /\ UNCHANGED <<quote, order, crashes, scenario>>

\* Too little stock, an inactive warehouse or product, a number that exists.
GoodsRefused(t) == Doing(t, "draft") \/ Doing(t, "post")

\* A return swallows the exception and is completed without its goods.
SwallowFailure(t) ==
  /\ GoodsRefused(t) /\ task[t].op = "approve return"
  /\ task' = [task EXCEPT ![t].todo = <<"finish">>]
  /\ UNCHANGED <<quote, order, doc, stock, crashes, scenario>>

\* A delivery fails: the handler of the exception raises a NameError.
FailDelivery(t) ==
  /\ GoodsRefused(t) /\ task[t].op = "deliver"
  /\ Stop(t)
  /\ UNCHANGED <<quote, order, doc, stock, crashes, scenario>>

\* A mistaken FinishDocument: goods_issue_id is assigned before the posting.
FinishLinked(t) ==
  /\ Doing(t, "finish")
  /\ doc' = [doc EXCEPT
       ![task[t].d].status = IF task[t].op = "deliver" THEN "Delivered" ELSE "Completed",
       ![task[t].d].linked = doc[task[t].d].goods # Missing]
  /\ Stop(t)
  /\ UNCHANGED <<quote, order, stock, crashes, scenario>>

FinishDocument(t) ==
  /\ Doing(t, "finish")
  /\ doc' = [doc EXCEPT
       ![task[t].d].status = IF task[t].op = "deliver" THEN "Delivered" ELSE "Completed",
       ![task[t].d].linked = @ \/ task[t].linked]
  /\ Stop(t)
  /\ UNCHANGED <<quote, order, stock, crashes, scenario>>

\* post_issue or receive_receipt from the warehouse: goods whose posting
\* failed, or was lost, are posted later, or while the handler is at it.
WarehousePosts(t) ==
  /\ MayBegin(t) /\ Asked("post")
  /\ \E d \in Docs : doc[d].goods \in {"Draft", "Approved"} /\ Post(d)
  /\ UNCHANGED <<quote, order, task, crashes, scenario>>

\* update_issue or update_receipt: goods that are a draft get other lines,
\* which name more or less of the product, or none.
WarehouseEdits(t) ==
  /\ MayBegin(t) /\ Asked("edit")
  /\ \E d \in Docs, n \in 0..MaxLine :
       /\ doc[d].goods = "Draft"
       /\ doc' = [doc EXCEPT ![d].named = n]
  /\ UNCHANGED <<quote, order, stock, task, crashes, scenario>>

----------------------------------------------------------------------------
\* The process is lost: what was committed stays.
Crash(t) ==
  /\ task[t].pc = "work" /\ crashes < scenario.crashes
  /\ crashes' = crashes + 1
  /\ Stop(t)
  /\ UNCHANGED <<quote, order, doc, stock, scenario>>

Step(t) ==
  \/ BeginQuoteStep(t) \/ BeginOrderStep(t) \/ BeginDocStep(t) \/ WriteStatus(t) \/ RewriteOrder(t)
  \/ CreateQuote(t) \/ CloneQuote(t) \/ WriteQuoteLines(t) \/ ReviseQuote(t) \/ CreateOrder(t) \/ Convert(t) \/ WriteOrderLines(t)
  \/ RefuseLines(t) \/ BeginExpiry(t) \/ Expire(t)
  \/ BeginDelivery(t) \/ CountDelivery(t) \/ BeginReturn(t) \/ WriteReturnLines(t)
  \/ DraftGoods(t) \/ ApproveGoods(t) \/ PostGoods(t) \/ SwallowFailure(t) \/ FailDelivery(t)
  \/ FinishDocument(t) \/ WarehousePosts(t) \/ WarehouseEdits(t) \/ Crash(t)

Next == \E t \in Tasks : Step(t)

Spec == Init /\ [][Next]_vars

----------------------------------------------------------------------------
(* Properties *)

OneAtATime == scenario.width = 1

DeliveredOn(o, no) ==
  Sum({d \in Docs : doc[d].kind = "delivery" /\ doc[d].order = o},
      [d \in Docs |-> On(doc[d].lines, no)])

\* No order line has more delivered than was ordered, nor more than the
\* deliveries of the order name, with any two handlers at once.  One at a time
\* it is exactly what they name, whatever was refused or lost, and the status
\* agrees: a fully delivered order has everything delivered, a partly delivered
\* one has not, and a draft, rejected or cancelled one has nothing delivered
\* (create_delivery, cancel_order, reopen_order).
DeliveredIsCounted ==
  \A o \in Orders : LET lines == order[o].lines  status == order[o].status IN
    /\ \A l \in lines :
         /\ l.done <= l.qty /\ l.done <= DeliveredOn(o, l.no)
         /\ OneAtATime => l.done = DeliveredOn(o, l.no)
    /\ OneAtATime =>
         /\ status = "Fully Delivered" => \A l \in lines : l.done = l.qty
         /\ status = "Partially Delivered" => \E l \in lines : l.done < l.qty
         /\ status \in {"Draft", "Submitted", "Rejected", "Cancelled"} =>
              \A l \in lines : l.done = 0

\* What the goods of a document have to move: all its lines, unless the
\* warehouse may have changed the draft before the document named it.
Due(row) == IF ~ Asked("edit") \/ (OneAtATime /\ row.linked) THEN Total(row.lines) ELSE row.named

\* A delivery or return that names its goods issue or receipt has moved all
\* its goods, with any two handlers at once; one at a time no goods move
\* twice or in part, though the posting may fail, be lost, and be made up
\* for by the warehouse (create_delivery, approve_return).  Where the
\* warehouse may change the lines of a draft (update_issue, update_receipt),
\* goods move as the changed draft says, but one handler at a time a document
\* that names its goods still moved all of its own lines.
GoodsMovedOnce ==
  \A d \in Docs :
    /\ doc[d].linked => doc[d].moved >= Due(doc[d])
    /\ OneAtATime => doc[d].moved = IF doc[d].goods = "Posted" THEN Due(doc[d]) ELSE 0

\* One handler at a time, at most one order completes the conversion of a
\* quotation, and a quotation is Converted exactly when one has, although a
\* lost handler or refused line leaves an order without lines behind
\* (create_from_quotation, create_order).
ConvertedOnce ==
  OneAtATime => \A q \in Quotes :
    Cardinality({o \in Orders : order[o].quote = q /\ order[o].whole})
      = IF quote[q].status = "Converted" THEN 1 ELSE 0

=============================================================================
