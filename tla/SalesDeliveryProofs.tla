------------------------ MODULE SalesDeliveryProofs -------------------------
(***************************************************************************)
(* No order line is delivered beyond what was ordered, and the goods of a  *)
(* document that names them have moved, with any number of handlers        *)
(* overlapping.                                                            *)
(*                                                                         *)
(* IInv is about any number of handlers: what each one carries, which      *)
(* documents it has to itself, and how the counters of every order line    *)
(* are covered by its deliveries.  Orderly is about one handler at a time, *)
(* when the rows it loaded are still as they were.  Agreed says when the   *)
(* goods of a document name what its lines name, though the warehouse may  *)
(* change a draft.                                                         *)
(*                                                                         *)
(* The last section is about LeadConversion: no lead is converted twice.   *)
(***************************************************************************)
EXTENDS SalesAndLeads, Sums

----------------------------------------------------------------------------
(* The invariant of any number of handlers *)

Counting == <<"count", "draft", "sign", "post", "finish">>
Signing  == <<"status", "draft", "sign", "post", "finish">>
Drafting == <<"draft", "sign", "post", "finish">>
Approving == <<"sign", "post", "finish">>
Posting  == <<"post", "finish">>
Finishing == <<"finish">>
Later == {Drafting, Approving, Posting, Finishing}

QuoteSteps == {"submit q", "approve q", "reject q", "cancel q"}
OrderSteps == {"submit", "approve", "reject", "cancel", "close", "reopen"}
Carriers   == {"deliver", "return", "approve return"}

\* What a handler works on, and what it has left to do.
Knows(t) ==
  LET me == task[t] IN
    /\ me.pc = "idle" => me = Resting
    /\ me.pc = "work" => me.op \in Ops
    /\ me.op \in QuoteSteps \cup {"revise", "quote", "clone"} =>
         /\ me.q \in Quotes /\ me.o = Missing /\ me.d = Missing
         /\ me.todo = CASE me.op \in QuoteSteps -> <<"status">>
                        [] me.op = "revise" -> <<"revise">>
                        [] OTHER -> <<"quote">>
    /\ me.op \in OrderSteps \cup {"update", "order", "convert"} =>
         /\ me.o \in Orders /\ me.q = Missing /\ me.d = Missing
         /\ me.todo = CASE me.op \in OrderSteps -> <<"status">>
                        [] me.op = "update" -> <<"rewrite">>
                        [] OTHER -> <<"order">>
         /\ \A l \in me.new : l.done = 0
    /\ me.op = "expire" => me.todo = << >>
    /\ me.op \in Carriers \cup {"cancel delivery"} =>
         /\ me.d \in Docs /\ me.q = Missing
         /\ me.o \in IF me.op \in {"deliver", "return"} THEN Orders ELSE {Missing}
         /\ me.todo \in CASE me.op = "deliver" -> Later \cup {Counting}
                          [] me.op = "approve return" -> Later \cup {Signing}
                          [] me.op = "return" -> {<<"lines">>}
                          [] OTHER -> {<<"status">>}
    /\ me.op \notin Ops \ {"post", "edit"} => me = Resting

\* A handler that has yet to write the lines of its document.
Creating(t) ==
  \/ task[t].op = "deliver" /\ task[t].todo = Counting
  \/ task[t].op = "return"

\* Goods that were approved, with lines the warehouse can no longer change,
\* and have moved.
Booked(row) == row.lines # << >> /\ row.goods \notin {Missing, "Draft"} /\ row.moved >= row.named

\* No goods move back, and those that were approved stay as they are.
Grows(row, next) ==
  /\ row.moved <= next.moved
  /\ row.goods # Missing => next.goods # Missing
  /\ row.goods \notin {Missing, "Draft"} =>
       next.goods \notin {Missing, "Draft"} /\ next.named = row.named

\* A document under creation has no lines, and one creator; afterwards its
\* lines stay, and a handler that posts them has them as they are, and has
\* drafted their goods.
Carries(t) ==
  LET me == task[t]  row == doc[task[t].d] IN
  me.op \in Carriers =>
    /\ row.kind = me.doc.kind /\ row.kind # Missing
    /\ me.op = "deliver" => row.kind = "delivery" /\ row.order = me.o
    /\ me.op # "deliver" => row.kind = "return"
    /\ Creating(t) => row.lines = << >> /\ \A u \in Tasks \ {t} : Creating(u) => task[u].d # me.d
    /\ ~ Creating(t) => me.doc.lines = << >> \/ me.doc.lines = row.lines
    /\ me.todo \in {Approving, Posting} => me.doc.lines # << >> /\ row.goods # Missing
    /\ me.linked => Booked(row)

\* The counters a delivery loaded are covered by the deliveries committed so far.
Loaded(t) ==
  task[t].op = "deliver" /\ task[t].todo = Counting =>
    \A l \in task[t].order.lines : l.done <= DeliveredOn(task[t].o, l.no)

Covered(o) ==
  \A l \in order[o].lines : l.done <= l.qty /\ l.done <= DeliveredOn(o, l.no)

Linked(d) == doc[d].linked => Booked(doc[d])

Handling == \A t \in Tasks : Knows(t) /\ Carries(t) /\ Loaded(t)
Alone    == OneAtATime => \A t, u \in Tasks : task[t].pc # "idle" /\ task[u].pc # "idle" => t = u

IInv == /\ TypeOK /\ Handling /\ Alone
        /\ \A o \in Orders : Covered(o)
        /\ \A d \in Docs : Linked(d)

----------------------------------------------------------------------------
(* One handler at a time *)

\* No two lines have one number.
Numbered(lines) == \A l, k \in lines : l.no = k.no => l = k

\* What a handler loaded is current.
Current(t) ==
  LET me == task[t] IN
    /\ me.op \in QuoteSteps => quote[me.q].status # "Converted"
    /\ me.op = "expire" => \A q \in me.due : quote[q].status # "Converted"
    /\ me.op \in OrderSteps \cup {"update"} =>
         me.order = order[me.o] /\ MayOrder(me.op, me.order) /\ Numbered(me.new)
    /\ me.op \in {"order", "convert"} =>
         /\ order[me.o].status = "Draft" /\ order[me.o].lines = {} /\ ~ order[me.o].whole
         /\ order[me.o].quote # Missing => quote[order[me.o].quote].status = "Approved"
         /\ Numbered(me.new)
    /\ me.op = "deliver" /\ me.todo = Counting =>
         me.order = order[me.o] /\ OpenForDelivery(me.order)
    /\ me.op \in Carriers =>
         /\ me.todo \notin {Approving, Posting, Finishing} => doc[me.d].goods = Missing
         /\ me.todo \in {Approving, Posting} => doc[me.d].goods \in {"Draft", "Approved"}
         /\ me.op = "approve return" /\ me.todo \in Later => doc[me.d].status # "Draft"

\* Counters are exact, and the status of an order agrees with them.
Exact(o) ==
  LET row == order[o] IN
    /\ Numbered(row.lines)
    /\ \A l \in row.lines : l.done = DeliveredOn(o, l.no)
    /\ row.status = "Fully Delivered" => \A l \in row.lines : l.done = l.qty
    /\ row.status = "Partially Delivered" => \E l \in row.lines : l.done < l.qty
    /\ row.status \in {"Draft", "Submitted", "Rejected", "Cancelled"} =>
         \A l \in row.lines : l.done = 0
    /\ row.status \in {Missing, "Draft"} => \A no \in 1..4 : DeliveredOn(o, no) = 0

\* Goods move when they are posted, and a return that is a draft has none.
Moved(d) ==
  /\ doc[d].moved = IF doc[d].goods = "Posted" THEN doc[d].named ELSE 0
  /\ doc[d].kind = "return" /\ doc[d].status = "Draft" => doc[d].goods = Missing

\* The orders that completed the conversion of a quotation.
Whole(q) == {o \in Orders : order[o].quote = q /\ order[o].whole}
Converted(q) ==
  IF quote[q].status = "Converted" THEN \E o \in Orders : Whole(q) = {o} ELSE Whole(q) = {}

Orderly ==
  OneAtATime => /\ \A t \in Tasks : Current(t)
                /\ \A o \in Orders : Exact(o)
                /\ \A d \in Docs : Moved(d)
                /\ \A q \in Quotes : Converted(q)

----------------------------------------------------------------------------
(* Quantities *)

\* The sum of the model is the sum the lemmas of Sums are about.
LEMMA SumIs == \A S, f : Sum(S, f) = SumOver(f, S)
BY DEF Sum, SumOver

\* Larger numbers have a larger sum.
LEMMA SumLeq ==
  ASSUME NEW f, NEW h, NEW S, IsFiniteSet(S),
         \A x \in S : f[x] \in Int /\ h[x] \in Int /\ f[x] <= h[x]
  PROVE  SumOver(f, S) <= SumOver(h, S)
<1> DEFINE g == [x \in S |-> h[x] - f[x]]
<1>1. \A x \in S : f[x] \in Int /\ g[x] \in Int /\ g[x] \in Nat /\ h[x] = f[x] + g[x]
  OBVIOUS
<1> HIDE DEF g
<1>2. SumOver(h, S) = SumOver(f, S) + SumOver(g, S) /\ SumOver(f, S) \in Int
      /\ SumOver(g, S) \in Nat
  BY <1>1, SumPlus, SumInt, SumNat
<1> QED
  BY <1>2

\* What a document names of an order line is a number, and of all lines too.
LEMMA QuantityNat ==
  ASSUME NEW lines \in Seq(DocLine)
  PROVE  Total(lines) \in Nat /\ \A no : On(lines, no) \in Nat
<1> DEFINE D == DOMAIN lines
<1>1. IsFiniteSet(D) /\ \A k \in D : Quantities(lines)[k] \in Nat
  <2>1. Len(lines) \in Nat /\ D = 1 .. Len(lines) /\ \A k \in D : lines[k] \in DocLine
    OBVIOUS
  <2>2. IsFiniteSet(D)
    BY <2>1, FS_Interval
  <2>3. \A k \in D : Quantities(lines)[k] = lines[k].qty
    BY DEF Quantities
  <2>4. \A l \in DocLine : l.qty \in Nat
    BY SalesAssumption DEF DocLine
  <2> QED
    BY <2>1, <2>2, <2>3, <2>4
<1>2. ASSUME NEW no PROVE On(lines, no) \in Nat
  <2> DEFINE S == {k \in D : lines[k].no = no}
  <2>1. IsFiniteSet(S) /\ \A k \in S : Quantities(lines)[k] \in Nat
    BY <1>1, FS_Subset
  <2>2. On(lines, no) = SumOver(Quantities(lines), S)
    BY SumIs DEF On
  <2> HIDE DEF S
  <2> QED
    BY <2>1, <2>2, SumNat
<1>3. Total(lines) \in Nat
  <2>1. Total(lines) = SumOver(Quantities(lines), D)
    BY SumIs DEF Total
  <2> HIDE DEF D
  <2> QED
    BY <1>1, <2>1, SumNat
<1> QED
  BY <1>2, <1>3

\* A document without lines names nothing.
LEMMA NothingNamed == Total(<< >>) = 0 /\ \A no : On(<< >>, no) = 0
<1>1. DOMAIN << >> = {} /\ \A no : {k \in DOMAIN << >> : << >>[k].no = no} = {}
  OBVIOUS
<1> QED
  BY <1>1, SumIs, SumEmpty DEF Total, On

----------------------------------------------------------------------------
(* Delivered quantities *)

\* What a document delivers of an order line.
Share(row, o, no) == IF row.kind = "delivery" /\ row.order = o THEN On(row.lines, no) ELSE 0

\* What the documents deliver of an order line, as a sum over all of them.
Delivered(rows, o, no) == SumOver([d \in Docs |-> Share(rows[d], o, no)], Docs)

\* What a document delivers of an order line is a number.
LEMMA ShareNat ==
  ASSUME NEW rows \in [Docs -> Document], NEW o, NEW no
  PROVE  \A d \in Docs : /\ Share(rows[d], o, no) \in Nat
                         /\ [e \in Docs |-> Share(rows[e], o, no)][d] = Share(rows[d], o, no)
<1>1. \A d \in Docs : rows[d].lines \in Seq(DocLine)
  BY DEF Document
<1> QED
  BY <1>1, QuantityNat DEF Share

\* Only deliveries of the order count.
LEMMA DeliveredSums ==
  ASSUME NEW rows \in [Docs -> Document], NEW o, NEW no
  PROVE  /\ Delivered(rows, o, no) \in Nat
         /\ Sum({d \in Docs : rows[d].kind = "delivery" /\ rows[d].order = o},
                [d \in Docs |-> On(rows[d].lines, no)]) = Delivered(rows, o, no)
<1> DEFINE P == {d \in Docs : rows[d].kind = "delivery" /\ rows[d].order = o}
           f == [d \in Docs |-> Share(rows[d], o, no)]
           g == [d \in Docs |-> On(rows[d].lines, no)]
<1>1. IsFiniteSet(Docs) /\ IsFiniteSet(P) /\ IsFiniteSet(Docs \ P) /\ P \subseteq Docs
  BY SalesAssumption, FS_Subset
<1>2. \A d \in Docs : f[d] \in Nat
  BY ShareNat
<1>3. (\A d \in P : g[d] = f[d]) /\ (\A d \in Docs \ P : f[d] = 0)
  BY DEF Share
<1>4. Delivered(rows, o, no) = SumOver(f, Docs) /\ Sum(P, g) = SumOver(g, P)
  BY SumIs DEF Delivered
<1> HIDE DEF P, f, g
<1>5. SumOver(f, Docs) = SumOver(f, P) + SumOver(f, Docs \ P)
  BY <1>1, <1>2, SumSplit
<1>6. SumOver(f, Docs \ P) = 0 /\ SumOver(g, P) = SumOver(f, P)
  BY <1>1, <1>3, SumZero, SumAgree
<1>7. SumOver(f, Docs) \in Nat /\ SumOver(f, P) \in Nat
  BY <1>1, <1>2, SumNat
<1>8. Delivered(rows, o, no) \in Nat /\ Sum(P, g) = Delivered(rows, o, no)
  BY <1>4, <1>5, <1>6, <1>7
<1> QED
  BY <1>8 DEF P, g

\* More is delivered when every document delivers as much or more.
LEMMA DeliveredGrows ==
  ASSUME NEW rows \in [Docs -> Document], NEW next \in [Docs -> Document], NEW o, NEW no,
         \A d \in Docs : Share(rows[d], o, no) <= Share(next[d], o, no)
  PROVE  Delivered(rows, o, no) <= Delivered(next, o, no)
<1> DEFINE f == [d \in Docs |-> Share(rows[d], o, no)]
           h == [d \in Docs |-> Share(next[d], o, no)]
<1>1. \A d \in Docs : f[d] \in Int /\ h[d] \in Int /\ f[d] <= h[d]
  BY ShareNat
<1>2. IsFiniteSet(Docs) /\ Delivered(rows, o, no) = SumOver(f, Docs)
      /\ Delivered(next, o, no) = SumOver(h, Docs)
  BY SalesAssumption DEF Delivered
<1> HIDE DEF f, h
<1> QED
  BY <1>1, <1>2, SumLeq

\* A document that changes changes what is delivered by its own share.
LEMMA DeliveredStep ==
  ASSUME NEW rows \in [Docs -> Document], NEW next \in [Docs -> Document], NEW o, NEW no,
         NEW d \in Docs, \A e \in Docs \ {d} : Share(rows[e], o, no) = Share(next[e], o, no)
  PROVE  Delivered(next, o, no) =
           Delivered(rows, o, no) - Share(rows[d], o, no) + Share(next[d], o, no)
<1> DEFINE f == [e \in Docs |-> Share(rows[e], o, no)]
           h == [e \in Docs |-> Share(next[e], o, no)]
<1>1. \A e \in Docs : f[e] \in Int /\ h[e] \in Int
  BY ShareNat
<1>2. \A e \in Docs \ {d} : f[e] = h[e]
  OBVIOUS
<1>3. IsFiniteSet(Docs) /\ Delivered(rows, o, no) = SumOver(f, Docs)
      /\ Delivered(next, o, no) = SumOver(h, Docs)
      /\ f[d] = Share(rows[d], o, no) /\ h[d] = Share(next[d], o, no)
  BY SalesAssumption DEF Delivered
<1> HIDE DEF f, h
<1>4. SumOver(h, Docs) = SumOver(f, Docs) - f[d] + h[d]
  BY <1>1, <1>2, <1>3, SumChange
<1> QED
  BY <1>3, <1>4

\* The model's sum over the deliveries of the order, now and after a step.
LEMMA DeliveredOnIs ==
  ASSUME NEW o, NEW no
  PROVE  /\ doc \in [Docs -> Document] =>
              DeliveredOn(o, no) = Delivered(doc, o, no) /\ DeliveredOn(o, no) \in Nat
         /\ (doc \in [Docs -> Document])' =>
              DeliveredOn(o, no)' = Delivered(doc', o, no) /\ DeliveredOn(o, no)' \in Nat
<1>1. ASSUME doc \in [Docs -> Document]
      PROVE  DeliveredOn(o, no) = Delivered(doc, o, no) /\ DeliveredOn(o, no) \in Nat
  <2>1. /\ Delivered(doc, o, no) \in Nat
        /\ Sum({d \in Docs : doc[d].kind = "delivery" /\ doc[d].order = o},
               [d \in Docs |-> On(doc[d].lines, no)]) = Delivered(doc, o, no)
    BY <1>1, DeliveredSums
  <2> QED
    BY <2>1 DEF DeliveredOn
<1>2. ASSUME (doc \in [Docs -> Document])'
      PROVE  DeliveredOn(o, no)' = Delivered(doc', o, no) /\ DeliveredOn(o, no)' \in Nat
  <2>1. doc' \in [Docs -> Document]
    BY <1>2
  <2>2. /\ Delivered(doc', o, no) \in Nat
        /\ Sum({d \in Docs : doc'[d].kind = "delivery" /\ doc'[d].order = o},
               [d \in Docs |-> On(doc'[d].lines, no)]) = Delivered(doc', o, no)
    BY <2>1, DeliveredSums
  <2> QED
    BY <2>2 DEF DeliveredOn
<1> QED
  BY <1>1, <1>2

----------------------------------------------------------------------------
(* Steps, with any number of handlers *)

\* Rows that nobody has written are typed.
LEMMA NoRows == NoQuote \in Quote /\ NoOrder \in Order /\ NoDoc \in Document
<1>1. NoQuote \in Quote
  BY DEF NoQuote, Quote
<1>2. NoOrder \in Order
  BY DEF NoOrder, Order
<1>3. (CHOOSE o \in Orders : TRUE) \in Orders
  BY SalesAssumption
<1>4. NoDoc \in Document
  <2>1. << >> \in Seq(DocLine)
    OBVIOUS
  <2> QED
    BY <1>3, <2>1 DEF NoDoc, Document
<1> QED
  BY <1>1, <1>2, <1>4

\* What a document that stays as it is, but for its status, has moved.
LEMMA GoodsStay ==
  ASSUME NEW row \in Document, NEW next, next.goods = row.goods, next.named = row.named,
         next.moved = row.moved
  PROVE  Grows(row, next)
<1>1. row.moved \in Nat
  BY DEF Document
<1> QED
  BY <1>1 DEF Grows

\* What was booked stays booked.
LEMMA StaysBooked ==
  ASSUME NEW row \in Document, NEW next \in Document, Booked(row), Grows(row, next),
         next.lines = row.lines
  PROVE  Booked(next)
<1>1. row.moved \in Nat /\ next.moved \in Nat /\ row.named \in Nat
  BY DEF Document
<1> QED
  BY <1>1 DEF Booked, Grows

Acts == {"status", "quote", "revise", "order", "rewrite", "count", "lines",
         "draft", "sign", "post", "finish"}

\* A handler that begins is typed.
LEMMA Begun ==
  ASSUME NEW pc \in {"idle", "work"}, NEW op \in Ops \cup {Missing},
         NEW q \in Quotes \cup {Missing}, NEW o \in Orders \cup {Missing},
         NEW d \in Docs \cup {Missing}, NEW todo \in Seq(Acts),
         NEW qrow \in Quote, NEW orow \in Order, NEW drow \in Document,
         NEW new \in SUBSET OrderLine, NEW due \in SUBSET Quotes, NEW linked \in BOOLEAN
  PROVE  [pc |-> pc, op |-> op, q |-> q, o |-> o, d |-> d, todo |-> todo, quote |-> qrow,
          order |-> orow, doc |-> drow, new |-> new, due |-> due, linked |-> linked] \in Task
BY DEF Task, Acts

\* A handler at rest is a typed one.
LEMMA RestingType == Resting \in Task
<1>1. << >> \in Seq(Acts)
  OBVIOUS
<1> QED
  BY <1>1, NoRows, Begun DEF Resting

\* The fields of a handler.
LEMMA TaskFields ==
  ASSUME NEW me \in Task
  PROVE  /\ me.pc \in {"idle", "work"} /\ me.op \in Ops \cup {Missing}
         /\ me.q \in Quotes \cup {Missing} /\ me.o \in Orders \cup {Missing}
         /\ me.d \in Docs \cup {Missing} /\ me.todo \in Seq(Acts) /\ me.quote \in Quote
         /\ me.order \in Order /\ me.doc \in Document /\ me.new \in SUBSET OrderLine
         /\ me.due \in SUBSET Quotes /\ me.linked \in BOOLEAN
         /\ me = [pc |-> me.pc, op |-> me.op, q |-> me.q, o |-> me.o, d |-> me.d,
                  todo |-> me.todo, quote |-> me.quote, order |-> me.order, doc |-> me.doc,
                  new |-> me.new, due |-> me.due, linked |-> me.linked]
BY DEF Task, Acts

\* The scripts, one commit after another.
LEMMA Scripts ==
  /\ \A a \in Acts : <<a>> \in Seq(Acts) /\ Len(<<a>>) = 1 /\ Head(<<a>>) = a /\ <<a>> # << >>
  /\ Counting \in Seq(Acts) /\ Len(Counting) = 5 /\ Head(Counting) = "count"
  /\ Tail(Counting) = Drafting
  /\ Signing \in Seq(Acts) /\ Len(Signing) = 5 /\ Head(Signing) = "status" /\ Tail(Signing) = Drafting
  /\ Drafting \in Seq(Acts) /\ Len(Drafting) = 4 /\ Head(Drafting) = "draft"
  /\ Tail(Drafting) = Approving
  /\ Approving \in Seq(Acts) /\ Len(Approving) = 3 /\ Head(Approving) = "sign"
  /\ Tail(Approving) = Posting
  /\ Posting \in Seq(Acts) /\ Len(Posting) = 2 /\ Head(Posting) = "post" /\ Tail(Posting) = Finishing
  /\ Finishing \in Seq(Acts) /\ Len(Finishing) = 1 /\ Head(Finishing) = "finish"
<1>1. \A a \in Acts : <<a>> \in Seq(Acts) /\ Len(<<a>>) = 1 /\ Head(<<a>>) = a /\ <<a>> # << >>
  OBVIOUS
<1>2. Finishing \in Seq(Acts) /\ Len(Finishing) = 1 /\ Head(Finishing) = "finish"
  BY DEF Finishing, Acts
<1>3. Posting \in Seq(Acts) /\ Len(Posting) = 2 /\ Head(Posting) = "post" /\ Tail(Posting) = Finishing
  BY DEF Finishing, Posting, Acts
<1>4. Approving \in Seq(Acts) /\ Len(Approving) = 3 /\ Head(Approving) = "sign"
      /\ Tail(Approving) = Posting
  BY DEF Approving, Posting, Acts
<1>5. Drafting \in Seq(Acts) /\ Len(Drafting) = 4 /\ Head(Drafting) = "draft"
      /\ Tail(Drafting) = Approving
  BY DEF Approving, Drafting, Acts
<1>6. Signing \in Seq(Acts) /\ Len(Signing) = 5 /\ Head(Signing) = "status"
      /\ Tail(Signing) = Drafting
  BY DEF Signing, Drafting, Acts
<1>7. Counting \in Seq(Acts) /\ Len(Counting) = 5 /\ Head(Counting) = "count"
      /\ Tail(Counting) = Drafting
  BY DEF Counting, Drafting, Acts
<1> QED
  BY <1>1, <1>2, <1>3, <1>4, <1>5, <1>6, <1>7

\* Nobody else is under way when a handler begins and they do not overlap.
LEMMA NobodyElse ==
  ASSUME OneAtATime, NEW t \in Tasks, MayBegin(t)
  PROVE  \A u \in Tasks : task[u].pc = "idle"
<1> DEFINE busy == {u \in Tasks : task[u].pc # "idle"}
<1>1. IsFiniteSet(busy) /\ Cardinality(busy) < 1
  BY SalesAssumption, FS_Subset DEF OneAtATime, MayBegin
<1>2. Cardinality(busy) = 0
  BY <1>1, FS_CardinalityType
<1>3. busy = {}
  BY <1>1, <1>2, FS_EmptySet
<1> QED
  BY <1>3

\* A handler at rest carries nothing.
LEMMA RestingKnows ==
  ASSUME NEW t \in Tasks, task'[t] = Resting
  PROVE  Knows(t)' /\ Carries(t)' /\ Loaded(t)' /\ ~ Creating(t)' /\ task'[t].pc = "idle"
<1>1. Resting.pc = "idle" /\ Resting.op = Missing
  BY DEF Resting
<1>2. /\ Missing \notin Ops /\ Missing \notin Carriers
      /\ Missing \notin QuoteSteps \cup {"revise", "quote", "clone"}
      /\ Missing \notin OrderSteps \cup {"update", "order", "convert"}
      /\ Missing # "expire" /\ Missing \notin Carriers \cup {"cancel delivery"}
      /\ Missing # "deliver" /\ Missing # "return"
  BY DEF Missing, Ops, QuoteOps, OrderOps, DocOps, Carriers, QuoteSteps, OrderSteps
<1>3. task'[t].pc = "idle" /\ task'[t].op = Missing /\ task'[t] = Resting
  BY <1>1
<1> HIDE DEF Resting, Missing
<1>4. Knows(t)'
  BY <1>2, <1>3 DEF Knows
<1>5. Carries(t)' /\ Loaded(t)' /\ ~ Creating(t)'
  BY <1>2, <1>3 DEF Carries, Loaded, Creating
<1> QED
  BY <1>3, <1>4, <1>5

\* The documents of a step: kinds and orders stay, nothing moves back, and
\* only the creator of a document writes its lines, which ends the creation.
Rows(t) ==
  \A d \in Docs :
    /\ doc[d].kind # Missing => doc'[d].kind = doc[d].kind /\ doc'[d].order = doc[d].order
    /\ Grows(doc[d], doc'[d])
    /\ \/ doc'[d].lines = doc[d].lines
       \/ Creating(t) /\ task[t].d = d /\ ~ Creating(t)'

\* Deliveries only add up.
LEMMA MoreDelivered ==
  ASSUME IInv, TypeOK', NEW t \in Tasks, Rows(t)
  PROVE  \A o, no : DeliveredOn(o, no) <= DeliveredOn(o, no)'
<1>1. doc \in [Docs -> Document] /\ (doc \in [Docs -> Document])' /\ doc' \in [Docs -> Document]
  BY DEF IInv, TypeOK
<1>2. ASSUME NEW o, NEW no, NEW d \in Docs
      PROVE  Share(doc[d], o, no) <= Share(doc'[d], o, no)
  <2>1. doc[d].lines \in Seq(DocLine) /\ doc'[d].lines \in Seq(DocLine)
    BY <1>1 DEF Document
  <2>2. On(doc[d].lines, no) \in Nat /\ On(doc'[d].lines, no) \in Nat /\ On(<< >>, no) = 0
    BY <2>1, QuantityNat, NothingNamed
  <2>3. doc'[d].lines = doc[d].lines \/ doc[d].lines = << >>
    <3>1. Creating(t) /\ task[t].d = d => doc[d].lines = << >>
      BY DEF IInv, Handling, Carries, Creating, Carriers
    <3> QED
      BY <3>1 DEF Rows
  <2>4. doc[d].kind = "delivery" => doc'[d].kind = "delivery" /\ doc'[d].order = doc[d].order
    BY DEF Rows, Missing
  <2> QED
    BY <2>2, <2>3, <2>4 DEF Share
<1>3. ASSUME NEW o, NEW no
      PROVE  DeliveredOn(o, no) <= DeliveredOn(o, no)'
  <2>1. Delivered(doc, o, no) <= Delivered(doc', o, no)
    BY <1>1, <1>2, DeliveredGrows
  <2> QED
    BY <1>1, <2>1, DeliveredOnIs
<1> QED
  BY <1>3

\* What a step has to show.
LEMMA StepKept ==
  ASSUME IInv, TypeOK', NEW t \in Tasks, UNCHANGED scenario,
         \A u \in Tasks \ {t} : task'[u] = task[u],
         task[t].pc # "idle" \/ MayBegin(t), Rows(t),
         Knows(t)', Carries(t)', Loaded(t)',
         \A o \in Orders : \A l \in order'[o].lines :
           \/ l \in order[o].lines \/ l.done = 0
           \/ l.done <= l.qty /\ l.done <= DeliveredOn(o, l.no)',
         \A d \in Docs : doc'[d].linked =>
           \/ doc[d].linked
           \/ Booked(doc'[d])
  PROVE  IInv'
<1>1. \A o, no : DeliveredOn(o, no) <= DeliveredOn(o, no)'
  BY MoreDelivered
<1>2. \A o, no : DeliveredOn(o, no) \in Nat /\ DeliveredOn(o, no)' \in Nat
  <2>1. doc \in [Docs -> Document] /\ (doc \in [Docs -> Document])'
    BY DEF IInv, TypeOK
  <2> QED
    BY <2>1, DeliveredOnIs
<1>3. \A d \in Docs : /\ doc[d] \in Document /\ doc'[d] \in Document
  BY DEF IInv, TypeOK
<1>4. ASSUME NEW u \in Tasks \ {t}
      PROVE  Knows(u)' /\ Carries(u)' /\ Loaded(u)'
  <2>1. task'[u] = task[u] /\ Knows(u) /\ Carries(u) /\ Loaded(u) /\ task[u] \in Task
    BY DEF IInv, Handling, TypeOK
  <2>2. Knows(u)'
    BY <2>1 DEF Knows
  <2>3. Creating(u)' <=> Creating(u)
    BY <2>1 DEF Creating
  <2>4. Loaded(u)'
    <3>1. ASSUME task[u].op = "deliver", task[u].todo = Counting, NEW l \in task[u].order.lines
          PROVE  l.done <= DeliveredOn(task[u].o, l.no)'
      <4>1. l.done \in Nat
        <5>1. task[u].order \in Order
          BY <2>1, TaskFields
        <5>2. l \in OrderLine
          BY <3>1, <5>1 DEF Order
        <5> QED
          BY <5>2, SalesAssumption DEF OrderLine
      <4>2. l.done <= DeliveredOn(task[u].o, l.no)
        BY <2>1, <3>1 DEF Loaded
      <4>3. DeliveredOn(task[u].o, l.no) <= DeliveredOn(task[u].o, l.no)'
        BY <1>1
      <4>4. DeliveredOn(task[u].o, l.no) \in Nat /\ DeliveredOn(task[u].o, l.no)' \in Nat
        BY <1>2
      <4> QED
        BY <4>1, <4>2, <4>3, <4>4
    <3> QED
      BY <2>1, <3>1 DEF Loaded
  <2>5. Carries(u)'
    <3>1. SUFFICES ASSUME task[u].op \in Carriers PROVE Carries(u)'
      BY <2>1 DEF Carries
    <3> DEFINE me == task[u]
               d == task[u].d
    <3>2. d \in Docs
      BY <2>1, <3>1 DEF Knows
    <3>3. /\ doc[d].kind = me.doc.kind /\ doc[d].kind # Missing
          /\ me.op = "deliver" => doc[d].kind = "delivery" /\ doc[d].order = me.o
          /\ me.op # "deliver" => doc[d].kind = "return"
          /\ Creating(u) => doc[d].lines = << >>
          /\ Creating(u) => \A w \in Tasks \ {u} : Creating(w) => task[w].d # d
          /\ ~ Creating(u) => me.doc.lines = << >> \/ me.doc.lines = doc[d].lines
          /\ me.todo \in {Approving, Posting} => me.doc.lines # << >> /\ doc[d].goods # Missing
          /\ me.linked => Booked(doc[d])
      BY <2>1, <3>1 DEF Carries
    <3>4. doc'[d].kind = doc[d].kind /\ doc'[d].order = doc[d].order /\ Grows(doc[d], doc'[d])
      BY <3>2, <3>3 DEF Rows
    <3>5. \/ doc'[d].lines = doc[d].lines
          \/ ~ Creating(u) /\ doc[d].lines = << >>
      <4>1. Creating(t) /\ task[t].d = d => ~ Creating(u) /\ doc[d].lines = << >>
        <5>1. Carries(t)
          BY DEF IInv, Handling
        <5> QED
          BY <3>3, <5>1 DEF Carries, Creating, Carriers
      <4> QED
        BY <3>2, <4>1 DEF Rows
    <3>6. Creating(u)' => \A w \in Tasks \ {u} : Creating(w)' => task'[w].d # task'[u].d
      <4>1. SUFFICES ASSUME Creating(u)', NEW w \in Tasks \ {u}, Creating(w)'
                     PROVE  task'[w].d # task'[u].d
        OBVIOUS
      <4>2. CASE w = t
        BY <4>1, <4>2 DEF Carries, Creating, Carriers
      <4>3. CASE w # t
        <5>1. task'[w] = task[w] /\ Creating(w)
          BY <4>1, <4>3 DEF Creating
        <5> QED
          BY <2>1, <2>3, <3>3, <4>1, <5>1
      <4> QED
        BY <4>2, <4>3
    <3>7. me.linked => Booked(doc'[d])
      <4>1. SUFFICES ASSUME me.linked PROVE Booked(doc'[d])
        OBVIOUS
      <4>2. doc[d].lines # << >> /\ Booked(doc[d])
        BY <3>3, <4>1 DEF Booked
      <4>3. doc'[d].lines = doc[d].lines
        BY <3>5, <4>2
      <4> QED
        BY <1>3, <3>2, <3>4, <4>2, <4>3, StaysBooked
    <3>8. doc'[d].lines = doc[d].lines \/ me.doc.lines = << >>
      BY <3>3, <3>5
    <3>9. doc[d].goods # Missing => doc'[d].goods # Missing
      BY <3>4 DEF Grows
    <3> QED
      BY <2>1, <2>3, <3>3, <3>4, <3>5, <3>6, <3>7, <3>8, <3>9 DEF Carries
  <2> QED
    BY <2>2, <2>4, <2>5
<1>5. Handling'
  BY <1>4 DEF Handling
<1>6. Alone'
  <2>1. SUFFICES ASSUME OneAtATime, NEW u \in Tasks, NEW w \in Tasks,
                        task'[u].pc # "idle", task'[w].pc # "idle"
                 PROVE  u = w
    BY DEF Alone, OneAtATime
  <2>2. \A v \in Tasks \ {t} : task[v].pc = "idle"
    BY <2>1, NobodyElse DEF IInv, Alone
  <2> QED
    BY <2>1, <2>2
<1>7. \A o \in Orders : Covered(o)'
  <2>1. SUFFICES ASSUME NEW o \in Orders, NEW l \in order'[o].lines
                 PROVE  l.done <= l.qty /\ l.done <= DeliveredOn(o, l.no)'
    BY DEF Covered
  <2>2. l.done \in Nat /\ l.qty \in Nat
    <3>1. order'[o] \in Order
      BY DEF TypeOK
    <3>2. l \in OrderLine
      BY <3>1 DEF Order
    <3> QED
      BY <3>2, SalesAssumption DEF OrderLine
  <2>3. DeliveredOn(o, l.no) \in Nat /\ DeliveredOn(o, l.no)' \in Nat
        /\ DeliveredOn(o, l.no) <= DeliveredOn(o, l.no)'
    BY <1>1, <1>2
  <2>4. l \in order[o].lines => l.done <= l.qty /\ l.done <= DeliveredOn(o, l.no)
    BY DEF IInv, Covered
  <2> QED
    BY <2>2, <2>3, <2>4
<1>8. \A d \in Docs : Linked(d)'
  <2>1. SUFFICES ASSUME NEW d \in Docs, doc'[d].linked, doc[d].linked
                 PROVE  Booked(doc'[d])
    BY DEF Linked
  <2>2. Booked(doc[d]) /\ doc[d].lines # << >>
    BY <2>1 DEF IInv, Linked, Booked
  <2>3. doc'[d].lines = doc[d].lines
    <3>1. Creating(t) /\ task[t].d = d => doc[d].lines = << >>
      BY DEF IInv, Handling, Carries, Creating, Carriers
    <3> QED
      BY <2>2, <3>1 DEF Rows
  <2>4. Grows(doc[d], doc'[d])
    BY <2>1 DEF Rows
  <2> QED
    BY <1>3, <2>1, <2>2, <2>3, <2>4, StaysBooked
<1> QED
  BY <1>5, <1>6, <1>7, <1>8 DEF IInv

\* A handler takes a step of its own, and the others none.
LEMMA Takes ==
  ASSUME IInv, NEW t \in Tasks, NEW me \in Task, task' = [task EXCEPT ![t] = me]
  PROVE  /\ task'[t] = me /\ task' \in [Tasks -> Task]
         /\ \A u \in Tasks \ {t} : task'[u] = task[u]
BY DEF IInv, TypeOK

\* A step that changes no order and no document.
LEMMA TaskStep ==
  ASSUME IInv, NEW t \in Tasks, task[t].pc # "idle" \/ MayBegin(t),
         UNCHANGED <<order, doc, stock, scenario>>, quote' \in [Quotes -> Quote],
         crashes' \in 0..scenario.crashes,
         NEW me \in Task, task' = [task EXCEPT ![t] = me],
         Knows(t)', Carries(t)', Loaded(t)'
  PROVE  IInv'
<1>1. /\ task'[t] = me /\ task' \in [Tasks -> Task]
      /\ \A u \in Tasks \ {t} : task'[u] = task[u]
  BY Takes
<1>2. TypeOK'
  BY <1>1 DEF IInv, TypeOK
<1>3. Rows(t)
  <2>1. \A d \in Docs : doc[d] \in Document /\ doc'[d] = doc[d]
    BY DEF IInv, TypeOK
  <2>2. \A d \in Docs : Grows(doc[d], doc'[d])
    BY <2>1, GoodsStay
  <2> QED
    BY <2>1, <2>2 DEF Rows
<1> QED
  BY <1>1, <1>2, <1>3, StepKept

\* A handler that ends, or is lost, leaves what it has committed.
LEMMA StopStep ==
  ASSUME IInv, NEW t \in Tasks, task[t].pc # "idle", Stop(t),
         UNCHANGED <<order, doc, stock, scenario>>, quote' \in [Quotes -> Quote],
         crashes' \in 0..scenario.crashes
  PROVE  IInv'
<1>1. Resting \in Task /\ task' = [task EXCEPT ![t] = Resting]
  BY RestingType DEF Stop
<1>2. task'[t] = Resting
  BY <1>1, Takes
<1>3. Knows(t)' /\ Carries(t)' /\ Loaded(t)'
  BY <1>2, RestingKnows
<1> HIDE DEF Resting
<1> QED
  BY <1>1, <1>3, TaskStep

\* What a handler that works knows.
LEMMA Working ==
  ASSUME IInv, NEW t \in Tasks
  PROVE  /\ task[t] \in Task /\ Knows(t) /\ Carries(t) /\ Loaded(t)
         /\ quote \in [Quotes -> Quote] /\ order \in [Orders -> Order]
         /\ doc \in [Docs -> Document] /\ stock \in Nat
         /\ crashes \in 0..scenario.crashes /\ scenario \in Scenarios /\ task \in [Tasks -> Task]
         /\ scenario \in Scenario
BY SalesAssumption DEF IInv, Handling, TypeOK

\* A handler has something to do.
LEMMA Doer ==
  ASSUME IInv, NEW t \in Tasks, NEW act, Doing(t, act)
  PROVE  /\ task[t].pc = "work" /\ task[t].pc # "idle" /\ task[t].op \in Ops
         /\ task[t].todo # << >> /\ Head(task[t].todo) = act
BY Working DEF Doing, Knows

----------------------------------------------------------------------------
(* Beginnings *)

\* submit, approve, reject, cancel or update a quotation: loaded and checked.
LEMMA BeginQuoteStepKept ==
  ASSUME IInv, NEW t \in Tasks, BeginQuoteStep(t)
  PROVE  IInv'
<1>1. PICK op \in scenario.ops, q \in Quotes :
        /\ MayQuote(op, quote[q])
        /\ Start(t, [Resting EXCEPT !.op = op, !.q = q, !.quote = quote[q],
                                    !.todo = <<IF op = "revise" THEN "revise" ELSE "status">>])
  BY DEF BeginQuoteStep
<1>2. op \in QuoteSteps \cup {"revise"} /\ op \in Ops
  BY <1>1 DEF MayQuote, QuoteSteps, Ops, QuoteOps
<1> DEFINE todo == <<IF op = "revise" THEN "revise" ELSE "status">>
           me == [[Resting EXCEPT !.op = op, !.q = q, !.quote = quote[q], !.todo = todo]
                    EXCEPT !.pc = "work"]
<1>3. task' = [task EXCEPT ![t] = me]
  BY <1>1 DEF Start
<1>4. todo \in Seq(Acts) /\ todo = IF op = "revise" THEN <<"revise">> ELSE <<"status">>
  BY Scripts DEF Acts
<1>5. me \in Task
  <2> HIDE DEF todo
  <2>1. quote[q] \in Quote
    BY Working
  <2>2. Resting \in Task
    BY RestingType
  <2> QED
    BY <1>2, <1>4, <2>1, <2>2, ZenonT(60) DEF Task, Acts
<1>6. task'[t] = me
  BY <1>3, <1>5, Takes
<1>7. /\ me.pc = "work" /\ me.op = op /\ me.q = q /\ me.o = Missing /\ me.d = Missing
      /\ me.todo = IF op = "revise" THEN <<"revise">> ELSE <<"status">>
  <2> HIDE DEF todo
  <2> QED
    BY <1>4 DEF Resting
<1> HIDE DEF me, todo
<1>8. Knows(t)'
  BY <1>2, <1>6, <1>7 DEF Knows, QuoteSteps, OrderSteps, Carriers, Ops, QuoteOps, OrderOps, DocOps
<1>9. Carries(t)' /\ Loaded(t)'
  BY <1>2, <1>6, <1>7 DEF Carries, Loaded, QuoteSteps, Carriers
<1> QED
  BY <1>3, <1>5, <1>8, <1>9, TaskStep, Working DEF BeginQuoteStep

\* The lines a client writes have nothing delivered, and a number each.
LEMMA NewLinesAre ==
  ASSUME IInv, NEW n \in {1, 3}, NEW lines \in NewLines(n)
  PROVE  /\ lines \in SUBSET OrderLine /\ Numbered(lines)
         /\ \A l \in lines : l.done = 0 /\ l \in OrderLine
<1>1. scenario.lines \in {1, 2}
  BY SalesAssumption DEF IInv, TypeOK, Scenario
<1>2. lines \in SUBSET [no: n .. n + scenario.lines - 1, qty: 1..MaxLine, done: {0}]
      /\ Numbered(lines)
  BY DEF NewLines, Numbered
<1>3. ASSUME NEW l \in lines PROVE l.done = 0 /\ l \in OrderLine
  <2>1. l \in [no: n .. n + scenario.lines - 1, qty: 1..MaxLine, done: {0}]
    BY <1>2
  <2>2. n .. n + scenario.lines - 1 \subseteq 1..4
    BY <1>1
  <2>3. 0 \in 0..MaxLine
    BY SalesAssumption
  <2> QED
    BY <2>1, <2>2, <2>3 DEF OrderLine
<1> QED
  BY <1>2, <1>3

\* The scripts differ.
LEMMA Apart ==
  /\ Counting \notin Later /\ Signing \notin Later /\ Counting # Signing
  /\ Drafting \notin {Approving, Posting, Finishing} /\ Approving \notin {Posting, Finishing}
  /\ Posting # Finishing
  /\ Signing \notin {Counting, Approving, Posting, Finishing}
  /\ Counting \notin {Approving, Posting, Finishing}
  /\ <<"lines">> \notin Later \cup {Counting}
BY Scripts DEF Later, Acts

\* What a handler is about, from the next thing it does.
LEMMA Doings ==
  ASSUME IInv, NEW t \in Tasks, NEW act \in Acts, Doing(t, act)
  PROVE  /\ act = "status" =>
              \/ task[t].op \in QuoteSteps \cup OrderSteps \cup {"cancel delivery"}
                   /\ task[t].todo = <<"status">>
              \/ task[t].op = "approve return" /\ task[t].todo = Signing
         /\ act = "quote" => task[t].op \in {"quote", "clone"} /\ task[t].todo = <<"quote">>
         /\ act = "revise" => task[t].op = "revise" /\ task[t].todo = <<"revise">>
         /\ act = "order" => task[t].op \in {"order", "convert"} /\ task[t].todo = <<"order">>
         /\ act = "rewrite" => task[t].op = "update" /\ task[t].todo = <<"rewrite">>
         /\ act = "count" => task[t].op = "deliver" /\ task[t].todo = Counting
         /\ act = "lines" => task[t].op = "return" /\ task[t].todo = <<"lines">>
         /\ act = "draft" => task[t].op \in {"deliver", "approve return"} /\ task[t].todo = Drafting
         /\ act = "sign" => task[t].op \in {"deliver", "approve return"} /\ task[t].todo = Approving
         /\ act = "post" => task[t].op \in {"deliver", "approve return"} /\ task[t].todo = Posting
         /\ act = "finish" => task[t].op \in {"deliver", "approve return"} /\ task[t].todo = Finishing
<1> DEFINE me == task[t]
<1>1. me.op \in Ops /\ me.todo # << >> /\ Head(me.todo) = act /\ Knows(t)
  BY Doer, Working
<1>2. \A a \in Acts : Head(<<a>>) = a
  BY Scripts
<1>3. me.op \notin {"post", "edit"}
  <2>1. me.op \in {"post", "edit"} => me = Resting
    BY <1>1 DEF Knows, Ops, DocOps
  <2>2. Resting.op \notin {"post", "edit"}
    BY DEF Resting, Missing
  <2> QED
    BY <2>1, <2>2
<1>4. CASE me.op \in QuoteSteps \cup {"revise", "quote", "clone"}
  <2>1. me.todo = CASE me.op \in QuoteSteps -> <<"status">>
                    [] me.op = "revise" -> <<"revise">>
                    [] OTHER -> <<"quote">>
    BY <1>1, <1>4 DEF Knows
  <2>2. /\ me.op \in QuoteSteps => me.todo = <<"status">>
        /\ me.op = "revise" => me.todo = <<"revise">>
        /\ me.op \in {"quote", "clone"} => me.todo = <<"quote">>
    BY <2>1 DEF QuoteSteps
  <2> QED
    BY <1>1, <1>2, <1>4, <2>2 DEF Acts, QuoteSteps
<1>5. CASE me.op \in OrderSteps \cup {"update", "order", "convert"}
  <2>1. me.todo = CASE me.op \in OrderSteps -> <<"status">>
                    [] me.op = "update" -> <<"rewrite">>
                    [] OTHER -> <<"order">>
    BY <1>1, <1>5 DEF Knows
  <2>2. /\ me.op \in OrderSteps => me.todo = <<"status">>
        /\ me.op = "update" => me.todo = <<"rewrite">>
        /\ me.op \in {"order", "convert"} => me.todo = <<"order">>
    BY <2>1 DEF OrderSteps
  <2> QED
    BY <1>1, <1>2, <1>5, <2>2 DEF Acts, OrderSteps
<1>6. CASE me.op \in Carriers \cup {"cancel delivery"}
  <2>1. me.todo \in CASE me.op = "deliver" -> Later \cup {Counting}
                      [] me.op = "approve return" -> Later \cup {Signing}
                      [] me.op = "return" -> {<<"lines">>}
                      [] OTHER -> {<<"status">>}
    BY <1>1, <1>6 DEF Knows
  <2>2. /\ me.op = "deliver" => me.todo \in Later \cup {Counting}
        /\ me.op = "approve return" => me.todo \in Later \cup {Signing}
        /\ me.op = "return" => me.todo = <<"lines">>
        /\ me.op = "cancel delivery" => me.todo = <<"status">>
    BY <2>1
  <2>3. /\ me.todo = Drafting => act = "draft"
        /\ me.todo = Approving => act = "sign"
        /\ me.todo = Posting => act = "post"
        /\ me.todo = Finishing => act = "finish"
        /\ me.todo = Counting => act = "count"
        /\ me.todo = Signing => act = "status"
        /\ me.todo = <<"lines">> => act = "lines"
        /\ me.todo = <<"status">> => act = "status"
    BY <1>1, Scripts DEF Acts
  <2>4. me.todo \in Later =>
          me.todo = Drafting \/ me.todo = Approving \/ me.todo = Posting \/ me.todo = Finishing
    BY DEF Later
  <2>5. me.op = "deliver" \/ me.op = "approve return" \/ me.op = "return" \/ me.op = "cancel delivery"
    BY <1>6 DEF Carriers
  <2> HIDE DEF me
  <2>6. CASE me.op = "deliver"
    BY <2>2, <2>3, <2>4, <2>6 DEF me
  <2>7. CASE me.op = "approve return"
    BY <2>2, <2>3, <2>4, <2>7 DEF me
  <2>8. CASE me.op = "return"
    BY <2>2, <2>3, <2>8 DEF me
  <2>9. CASE me.op = "cancel delivery"
    BY <2>2, <2>3, <2>9 DEF me
  <2> QED
    BY <2>5, <2>6, <2>7, <2>8, <2>9
<1>7. CASE me.op = "expire"
  BY <1>1, <1>7 DEF Knows
<1> QED
  BY <1>1, <1>3, <1>4, <1>5, <1>6, <1>7
     DEF Ops, QuoteOps, OrderOps, DocOps, QuoteSteps, OrderSteps, Carriers

\* submit, approve, reject, cancel, close, reopen or update an order: loaded and
\* checked.
LEMMA BeginOrderStepKept ==
  ASSUME IInv, NEW t \in Tasks, BeginOrderStep(t)
  PROVE  IInv'
<1>1. PICK op \in scenario.ops, o \in Orders :
        /\ MayOrder(op, order[o])
        /\ \E new \in IF op = "update" THEN NewLines(3) ELSE {{}} :
             Start(t, [Resting EXCEPT !.op = op, !.o = o, !.order = order[o], !.new = new,
                         !.todo = <<IF op = "update" THEN "rewrite" ELSE "status">>])
  BY DEF BeginOrderStep
<1>2. op \in OrderSteps \cup {"update"} /\ op \in Ops
  BY <1>1 DEF MayOrder, OrderSteps, Ops, OrderOps
<1>3. PICK new \in IF op = "update" THEN NewLines(3) ELSE {{}} :
        Start(t, [Resting EXCEPT !.op = op, !.o = o, !.order = order[o], !.new = new,
                    !.todo = <<IF op = "update" THEN "rewrite" ELSE "status">>])
  BY <1>1
<1>4. new \in SUBSET OrderLine /\ \A l \in new : l.done = 0
  BY NewLinesAre
<1> DEFINE todo == <<IF op = "update" THEN "rewrite" ELSE "status">>
           me == [[Resting EXCEPT !.op = op, !.o = o, !.order = order[o], !.new = new, !.todo = todo]
                    EXCEPT !.pc = "work"]
<1>5. task' = [task EXCEPT ![t] = me]
  BY <1>3 DEF Start
<1>6. todo \in Seq(Acts) /\ todo = IF op = "update" THEN <<"rewrite">> ELSE <<"status">>
  BY Scripts DEF Acts
<1>7. me \in Task
  <2> HIDE DEF todo
  <2>1. order[o] \in Order
    BY Working
  <2>2. Resting \in Task
    BY RestingType
  <2> QED
    BY <1>2, <1>4, <1>6, <2>1, <2>2, ZenonT(60) DEF Task, Acts
<1>8. task'[t] = me
  BY <1>5, <1>7, Takes
<1>9. /\ me.pc = "work" /\ me.op = op /\ me.q = Missing /\ me.o = o /\ me.d = Missing
      /\ me.todo = (IF op = "update" THEN <<"rewrite">> ELSE <<"status">>) /\ me.new = new
  <2> HIDE DEF todo
  <2> QED
    BY <1>6 DEF Resting
<1> HIDE DEF me, todo
<1>10. Knows(t)'
  BY <1>2, <1>4, <1>8, <1>9 DEF Knows, QuoteSteps, OrderSteps, Carriers, Ops, QuoteOps, OrderOps, DocOps
<1>11. Carries(t)' /\ Loaded(t)'
  BY <1>2, <1>8, <1>9 DEF Carries, Loaded, OrderSteps, Carriers
<1> QED
  BY <1>5, <1>7, <1>10, <1>11, TaskStep, Working DEF BeginOrderStep

\* cancel_delivery or approve_return: the document is loaded and checked.
LEMMA BeginDocStepKept ==
  ASSUME IInv, NEW t \in Tasks, BeginDocStep(t)
  PROVE  IInv'
<1>1. PICK op \in scenario.ops, d \in Docs :
        /\ MayDoc(op, doc[d])
        /\ Start(t, [Resting EXCEPT !.op = op, !.d = d, !.doc = doc[d],
                       !.todo = IF op = "cancel delivery" THEN <<"status">>
                                ELSE <<"status", "draft", "sign", "post", "finish">>])
  BY DEF BeginDocStep
<1>2. /\ op \in {"cancel delivery", "approve return"} /\ op \in Ops
      /\ op = "approve return" => doc[d].kind = "return"
  BY <1>1 DEF MayDoc, Ops, DocOps
<1> DEFINE todo == IF op = "cancel delivery" THEN <<"status">> ELSE Signing
           me == [[Resting EXCEPT !.op = op, !.d = d, !.doc = doc[d], !.todo = todo]
                    EXCEPT !.pc = "work"]
<1>3. task' = [task EXCEPT ![t] = me]
  BY <1>1 DEF Start, Signing
<1>4. todo \in Seq(Acts) /\ doc[d] \in Document
  BY Scripts, Working DEF Acts
<1>5. me \in Task
  <2> HIDE DEF todo
  <2>1. Resting \in Task
    BY RestingType
  <2> QED
    BY <1>2, <1>4, <2>1 DEF Task, Acts
<1>6. task'[t] = me
  BY <1>3, <1>5, Takes
<1>7. /\ me.pc = "work" /\ me.op = op /\ me.q = Missing /\ me.o = Missing /\ me.d = d
      /\ me.todo = (IF op = "cancel delivery" THEN <<"status">> ELSE Signing) /\ me.doc = doc[d]
      /\ me.linked = FALSE
  BY DEF Resting
<1> HIDE DEF me, todo
<1>8. Knows(t)'
  BY <1>2, <1>6, <1>7 DEF Knows, QuoteSteps, OrderSteps, Carriers, Ops, QuoteOps, OrderOps, DocOps
<1>9. Carries(t)' /\ Loaded(t)'
  <2>1. doc' = doc /\ "return" # Missing
    BY DEF BeginDocStep, Missing
  <2>2. ~ Creating(t)' /\ Loaded(t)'
    BY <1>2, <1>6, <1>7 DEF Creating, Loaded
  <2>3. CASE op = "approve return"
    <3>1. /\ task'[t].op = "approve return" /\ task'[t].d = d /\ task'[t].doc = doc[d]
          /\ task'[t].todo = Signing /\ task'[t].linked = FALSE
      BY <1>6, <1>7, <2>3
    <3> QED
      BY <1>2, <2>1, <2>2, <2>3, <3>1, Apart DEF Carries
  <2>4. CASE op = "cancel delivery"
    BY <1>6, <1>7, <2>2, <2>4 DEF Carries, Carriers
  <2> QED
    BY <1>2, <2>2, <2>3, <2>4
<1> QED
  BY <1>3, <1>5, <1>8, <1>9, TaskStep, Working DEF BeginDocStep

\* create_quotation and clone_quotation commit the header of a new quotation.
LEMMA QuoteHeaderKept ==
  ASSUME IInv, NEW t \in Tasks, NEW op \in {"quote", "clone"}, NEW lines \in BOOLEAN, MayBegin(t),
         QuoteHeader(t, op, lines), UNCHANGED <<order, doc, stock, crashes, scenario>>
  PROVE  IInv'
<1>1. PICK q \in Quotes :
        /\ quote' = [quote EXCEPT ![q].status = "Draft"]
        /\ Start(t, [Resting EXCEPT !.op = op, !.q = q, !.quote.lines = lines, !.todo = <<"quote">>])
  BY DEF QuoteHeader
<1>2. quote' \in [Quotes -> Quote]
  BY <1>1, Working DEF Quote
<1> DEFINE todo == <<"quote">>
           me == [[Resting EXCEPT !.op = op, !.q = q, !.quote.lines = lines, !.todo = todo]
                    EXCEPT !.pc = "work"]
<1>3. task' = [task EXCEPT ![t] = me]
  BY <1>1 DEF Start
<1>4. todo \in Seq(Acts) /\ op \in Ops
  BY Scripts DEF Acts, Ops, QuoteOps
<1>5. me \in Task
  <2> HIDE DEF todo
  <2>1. Resting \in Task /\ [Resting.quote EXCEPT !.lines = lines] \in Quote
    BY RestingType, NoRows DEF Quote, Resting
  <2> QED
    BY <1>4, <2>1 DEF Task, Acts
<1>6. task'[t] = me
  BY <1>3, <1>5, Takes
<1>7. /\ me.pc = "work" /\ me.op = op /\ me.q = q /\ me.o = Missing /\ me.d = Missing
      /\ me.todo = <<"quote">>
  BY DEF Resting
<1> HIDE DEF me, todo
<1>8. Knows(t)'
  BY <1>4, <1>6, <1>7 DEF Knows, QuoteSteps, OrderSteps, Carriers, Ops, QuoteOps, OrderOps, DocOps
<1>9. Carries(t)' /\ Loaded(t)'
  BY <1>6, <1>7 DEF Carries, Loaded, Carriers
<1> QED
  BY <1>2, <1>3, <1>5, <1>8, <1>9, TaskStep, Working

\* create_quotation begins.
LEMMA CreateQuoteKept ==
  ASSUME IInv, NEW t \in Tasks, CreateQuote(t)
  PROVE  IInv'
BY QuoteHeaderKept DEF CreateQuote

\* clone_quotation begins.
LEMMA CloneQuoteKept ==
  ASSUME IInv, NEW t \in Tasks, CloneQuote(t)
  PROVE  IInv'
<1>1. PICK source \in Quotes : QuoteHeader(t, "clone", quote[source].lines)
  BY DEF CloneQuote
<1>2. quote[source].lines \in BOOLEAN
  BY Working DEF Quote
<1> QED
  BY <1>1, <1>2, QuoteHeaderKept DEF CloneQuote

\* The lines of a new quotation, with the last commit.
LEMMA WriteQuoteLinesKept ==
  ASSUME IInv, NEW t \in Tasks, WriteQuoteLines(t)
  PROVE  IInv'
<1>1. Doing(t, "quote") /\ "quote" \in Acts
  BY DEF WriteQuoteLines, Acts
<1>2. task[t].op \in {"quote", "clone"} /\ task[t].todo = <<"quote">>
  BY <1>1, Doings
<1>3. Stop(t)
  BY <1>1, <1>2, Scripts DEF WriteQuoteLines, Go
<1>4. quote' \in [Quotes -> Quote]
  <2>1. task[t].quote.lines \in BOOLEAN /\ quote \in [Quotes -> Quote]
    BY Working, TaskFields DEF Quote
  <2> DEFINE q == task[t].quote.lines
  <2>2. \A n \in Quotes : [quote[n] EXCEPT !.lines = @ \/ q] \in Quote
    BY <2>1 DEF Quote
  <2>3. quote' = [quote EXCEPT ![task[t].q] = [quote[task[t].q] EXCEPT !.lines = @ \/ q]]
    BY DEF WriteQuoteLines
  <2> HIDE DEF q
  <2> QED
    BY <2>1, <2>2, <2>3
<1> QED
  BY <1>1, <1>3, <1>4, StopStep, Doer, Working DEF WriteQuoteLines

\* update_quotation puts other lines in place.
LEMMA ReviseQuoteKept ==
  ASSUME IInv, NEW t \in Tasks, ReviseQuote(t)
  PROVE  IInv'
<1>1. Doing(t, "revise") /\ "revise" \in Acts
  BY DEF ReviseQuote, Acts
<1>2. task[t].op = "revise" /\ task[t].todo = <<"revise">>
  BY <1>1, Doings
<1>3. Stop(t)
  BY <1>1, <1>2, Scripts DEF ReviseQuote, Go
<1>4. quote' \in [Quotes -> Quote]
  BY Working DEF ReviseQuote, Quote
<1> QED
  BY <1>1, <1>3, <1>4, StopStep, Doer, Working DEF ReviseQuote

\* A line names an inactive product: the header remains.
LEMMA RefuseLinesKept ==
  ASSUME IInv, NEW t \in Tasks, RefuseLines(t)
  PROVE  IInv'
<1>1. task[t].pc # "idle"
  BY Doer DEF RefuseLines
<1> QED
  BY <1>1, StopStep, Working DEF RefuseLines

\* expire_quotations reads what is due.
LEMMA BeginExpiryKept ==
  ASSUME IInv, NEW t \in Tasks, BeginExpiry(t)
  PROVE  IInv'
<1>1. PICK due \in SUBSET Quotes : Start(t, [Resting EXCEPT !.op = "expire", !.due = due])
  BY DEF BeginExpiry
<1> DEFINE me == [[Resting EXCEPT !.op = "expire", !.due = due] EXCEPT !.pc = "work"]
<1>2. task' = [task EXCEPT ![t] = me]
  BY <1>1 DEF Start
<1>3. me \in Task
  BY RestingType DEF Task, Ops, QuoteOps
<1>4. task'[t] = me
  BY <1>2, <1>3, Takes
<1>5. me.pc = "work" /\ me.op = "expire" /\ me.todo = << >>
  BY DEF Resting
<1> HIDE DEF me
<1>6. Knows(t)'
  BY <1>4, <1>5 DEF Knows, QuoteSteps, OrderSteps, Carriers, Ops, QuoteOps, OrderOps, DocOps
<1>7. Carries(t)' /\ Loaded(t)'
  BY <1>4, <1>5 DEF Carries, Loaded, Carriers
<1> QED
  BY <1>2, <1>3, <1>6, <1>7, TaskStep, Working DEF BeginExpiry

\* expire_quotations writes Expired.
LEMMA ExpireKept ==
  ASSUME IInv, NEW t \in Tasks, Expire(t)
  PROVE  IInv'
<1>1. task[t].pc # "idle"
  <2>1. Resting.op # "expire"
    BY DEF Resting, Missing
  <2> QED
    BY <2>1, Working DEF Expire, Knows
<1>2. quote' \in [Quotes -> Quote]
  BY Working DEF Expire, Quote
<1> QED
  BY <1>1, <1>2, StopStep, Working DEF Expire

\* A lost handler leaves the rows it committed.
LEMMA CrashKept ==
  ASSUME IInv, NEW t \in Tasks, Crash(t)
  PROVE  IInv'
<1>1. task[t].pc # "idle" /\ scenario.crashes \in Nat
  BY Working DEF Crash, Scenario
<1>2. crashes' \in 0..scenario.crashes
  BY <1>1, Working DEF Crash
<1> QED
  BY <1>1, <1>2, StopStep, Working DEF Crash

\* A failure of the warehouse is swallowed: the document goes on, without its goods.
LEMMA SwallowFailureKept ==
  ASSUME IInv, NEW t \in Tasks, SwallowFailure(t)
  PROVE  IInv'
<1>1. /\ task[t].op \in {"deliver", "approve return"} /\ task[t].pc = "work"
      /\ task[t].todo \in {Drafting, Posting}
  BY Doings, Doer DEF SwallowFailure, GoodsRefused, Acts
<1> DEFINE me == [task[t] EXCEPT !.todo = Finishing]
<1>2. task' = [task EXCEPT ![t] = me]
  BY Working DEF SwallowFailure, Finishing
<1>3. me \in Task
  <2>1. Finishing \in Seq(Acts) /\ task[t] \in Task
    BY Working, Scripts
  <2> QED
    BY <2>1 DEF Task, Acts
<1>4. task'[t] = me
  BY <1>2, <1>3, Takes
<1>5. /\ me.pc = "work" /\ me.op = task[t].op /\ me.q = task[t].q /\ me.o = task[t].o
      /\ me.d = task[t].d /\ me.todo = Finishing /\ me.doc = task[t].doc
      /\ me.linked = task[t].linked
  BY <1>1, Working DEF Task
<1> HIDE DEF me
<1>6. Knows(t)'
  BY <1>1, <1>4, <1>5, Working
     DEF Knows, QuoteSteps, OrderSteps, Carriers, Ops, QuoteOps, OrderOps, DocOps, Later
<1>7. ~ Creating(t) /\ ~ Creating(t)' /\ Loaded(t)'
  BY <1>1, <1>4, <1>5, Apart DEF Creating, Loaded, Later
<1>8. Carries(t)'
  <2>1. Finishing \notin {Approving, Posting} /\ doc' = doc
    BY Apart DEF SwallowFailure
  <2>2. task[t].op \in Carriers
    BY <1>1 DEF Carriers
  <2>3. /\ task'[t].op = task[t].op /\ task'[t].d = task[t].d /\ task'[t].doc = task[t].doc
        /\ task'[t].linked = task[t].linked /\ task'[t].todo = Finishing
    BY <1>4, <1>5
  <2>4. Carries(t) /\ ~ Creating(t) /\ ~ Creating(t)'
    BY <1>7, Working
  <2> DEFINE row == doc[task[t].d]
  <2>5. /\ row.kind = task[t].doc.kind /\ row.kind # Missing
        /\ task[t].op = "deliver" => row.kind = "delivery" /\ row.order = task[t].o
        /\ task[t].op # "deliver" => row.kind = "return"
        /\ task[t].doc.lines = << >> \/ task[t].doc.lines = row.lines
        /\ task[t].linked => Booked(row)
    BY <2>2, <2>4 DEF Carries
  <2>6. doc'[task'[t].d] = row /\ task'[t].o = task[t].o
    BY <1>4, <1>5, <2>1, <2>3
  <2> HIDE DEF row
  <2> QED
    BY <2>1, <2>3, <2>4, <2>5, <2>6 DEF Carries
<1> QED
  BY <1>1, <1>2, <1>3, <1>6, <1>7, <1>8, TaskStep, Working DEF SwallowFailure

\* A delivery whose goods fail ends there.
LEMMA FailDeliveryKept ==
  ASSUME IInv, NEW t \in Tasks, FailDelivery(t)
  PROVE  IInv'
<1>1. task[t].pc # "idle"
  BY DEF FailDelivery, GoodsRefused, Doing
<1> QED
  BY <1>1, StopStep, Working DEF FailDelivery

\* What is left of a script after a commit.
LEMMA ScriptGoesOn ==
  ASSUME NEW todo \in {Counting, Signing} \cup Later, todo # Finishing
  PROVE  Len(todo) # 1 /\ Tail(todo) \in Later /\ Tail(todo) \in Seq(Acts)
<1>1. \/ todo = Counting \/ todo = Signing \/ todo = Drafting \/ todo = Approving
      \/ todo = Posting
  BY DEF Later
<1>2. Drafting \in Later /\ Approving \in Later /\ Posting \in Later /\ Finishing \in Later
  BY DEF Later
<1>3. /\ Len(Counting) = 5 /\ Len(Signing) = 5 /\ Len(Drafting) = 4 /\ Len(Approving) = 3
      /\ Len(Posting) = 2
  BY Scripts
<1>4. /\ Tail(Counting) = Drafting /\ Tail(Signing) = Drafting /\ Tail(Drafting) = Approving
      /\ Tail(Approving) = Posting /\ Tail(Posting) = Finishing
  BY Scripts
<1>5. /\ Drafting \in Seq(Acts) /\ Approving \in Seq(Acts) /\ Posting \in Seq(Acts)
      /\ Finishing \in Seq(Acts)
  BY Scripts
<1>6. Len(todo) # 1
  BY <1>1, <1>3
<1>7. Tail(todo) \in Later /\ Tail(todo) \in Seq(Acts)
  BY <1>1, <1>2, <1>4, <1>5
<1> QED
  BY <1>6, <1>7

\* A carrier goes on with its script.
LEMMA GoesOn ==
  ASSUME IInv, NEW t \in Tasks, NEW linked \in BOOLEAN, task[t].pc = "work",
         task[t].op \in {"deliver", "approve return"}, task[t].todo \in {Counting, Signing} \cup Later,
         task[t].todo # Finishing, NEW me, me = [task[t] EXCEPT !.linked = linked], Go(t, me)
  PROVE  /\ task'[t] \in Task /\ task' \in [Tasks -> Task] /\ task'[t].pc = "work"
         /\ \A u \in Tasks \ {t} : task'[u] = task[u]
         /\ task'[t].op = task[t].op /\ task'[t].o = task[t].o /\ task'[t].d = task[t].d
         /\ task'[t].doc = task[t].doc /\ task'[t].linked = linked
         /\ task'[t].todo = Tail(task[t].todo) /\ task'[t].todo \in Later
         /\ Knows(t)' /\ Loaded(t)' /\ ~ Creating(t)'
<1> DEFINE next == [me EXCEPT !.todo = Tail(@)]
<1>1. /\ Len(task[t].todo) # 1 /\ Tail(task[t].todo) \in Later
      /\ Tail(task[t].todo) \in Seq(Acts)
  BY ScriptGoesOn
<1>2. task[t] \in Task
  BY Working
<1>3. me \in Task /\ me.todo = task[t].todo
  BY <1>2 DEF Task
<1>4. task' = [task EXCEPT ![t] = next]
  BY <1>1, <1>3 DEF Go
<1>5. next \in Task
  BY <1>1, <1>3 DEF Task, Acts
<1>6. /\ next.pc = "work" /\ next.op = task[t].op /\ next.q = task[t].q /\ next.o = task[t].o
      /\ next.d = task[t].d /\ next.doc = task[t].doc /\ next.linked = linked
      /\ next.todo = Tail(task[t].todo)
  BY <1>2 DEF Task
<1> HIDE DEF next
<1>7. /\ task'[t] = next /\ task' \in [Tasks -> Task]
      /\ \A u \in Tasks \ {t} : task'[u] = task[u]
  BY <1>4, <1>5, Takes
<1>8. Knows(t)'
  BY <1>1, <1>6, <1>7, Working
     DEF Knows, QuoteSteps, OrderSteps, Carriers, Ops, QuoteOps, OrderOps, DocOps
<1>9. ~ Creating(t)' /\ Loaded(t)'
  BY <1>1, <1>6, <1>7, Apart DEF Creating, Loaded
<1> QED
  BY <1>1, <1>5, <1>6, <1>7, <1>8, <1>9

\* A step that changes one document and no order.
LEMMA DocStep ==
  ASSUME IInv, NEW t \in Tasks, task[t].pc # "idle" \/ MayBegin(t),
         UNCHANGED <<quote, order, crashes, scenario>>, stock' \in Nat,
         task' \in [Tasks -> Task], \A u \in Tasks \ {t} : task'[u] = task[u],
         NEW d \in Docs, NEW row \in Document, doc' = [doc EXCEPT ![d] = row],
         doc[d].kind # Missing => row.kind = doc[d].kind /\ row.order = doc[d].order,
         Grows(doc[d], row),
         row.lines = doc[d].lines \/ (Creating(t) /\ task[t].d = d /\ ~ Creating(t)'),
         row.linked => doc[d].linked \/ Booked(row),
         Knows(t)', Carries(t)', Loaded(t)'
  PROVE  IInv'
<1>1. doc' \in [Docs -> Document] /\ doc'[d] = row /\ \A e \in Docs \ {d} : doc'[e] = doc[e]
  BY Working
<1>2. TypeOK'
  BY <1>1, Working DEF TypeOK
<1>3. \A e \in Docs : Grows(doc[e], doc[e])
  BY Working, GoodsStay
<1>4. Rows(t)
  BY <1>1, <1>3 DEF Rows
<1>5. \A e \in Docs : doc'[e].linked =>
           \/ doc[e].linked
           \/ Booked(doc'[e])
  BY <1>1
<1> QED
  BY <1>2, <1>4, <1>5, StepKept

\* A step that changes one order and no document.
LEMMA OrderStep ==
  ASSUME IInv, NEW t \in Tasks, task[t].pc # "idle" \/ MayBegin(t),
         UNCHANGED <<doc, stock, crashes, scenario>>, quote' \in [Quotes -> Quote],
         task' \in [Tasks -> Task], \A u \in Tasks \ {t} : task'[u] = task[u],
         NEW o \in Orders, NEW row \in Order, order' = [order EXCEPT ![o] = row],
         \A l \in row.lines : l \in order[o].lines \/ l.done = 0,
         Knows(t)', Carries(t)', Loaded(t)'
  PROVE  IInv'
<1>1. /\ order' \in [Orders -> Order] /\ order'[o] = row
      /\ \A p \in Orders \ {o} : order'[p] = order[p]
  BY Working
<1>2. TypeOK'
  BY <1>1, Working DEF TypeOK
<1>3. \A e \in Docs : Grows(doc[e], doc[e])
  BY Working, GoodsStay
<1>4. Rows(t)
  BY <1>3 DEF Rows
<1>5. \A p \in Orders : \A l \in order'[p].lines :
           \/ l \in order[p].lines \/ l.done = 0
           \/ l.done <= l.qty /\ l.done <= DeliveredOn(p, l.no)'
  BY <1>1
<1>6. \A e \in Docs : doc'[e].linked => doc[e].linked
  OBVIOUS
<1> QED
  BY <1>2, <1>4, <1>5, <1>6, StepKept

\* update_order replaces the lines of an order, unless a document names one of them.
LEMMA RewriteOrderKept ==
  ASSUME IInv, NEW t \in Tasks, RewriteOrder(t)
  PROVE  IInv'
<1> DEFINE me == task[t]
           o == task[t].o
           row == [order[o] EXCEPT !.lines =
                     {l \in @ : \A k \in me.order.lines : k.no # l.no} \cup me.new]
<1>1. me.op = "update" /\ me.pc # "idle"
  BY Doings, Doer DEF RewriteOrder, Acts
<1>2. o \in Orders /\ \A l \in me.new : l.done = 0
  BY <1>1, Working DEF Knows
<1>3. order[o] \in Order /\ me.new \in SUBSET OrderLine /\ Resting \in Task
  BY <1>2, Working, TaskFields, RestingType
<1>4. row \in Order /\ row.lines \subseteq order[o].lines \cup me.new
  BY <1>3 DEF Order
<1>5. order' = order \/ order' = [order EXCEPT ![o] = row]
  BY <1>2, Working DEF RewriteOrder
<1>6. Stop(t) /\ UNCHANGED <<quote, doc, stock, crashes, scenario>>
  BY DEF RewriteOrder
<1>7. CASE order' = order
  BY <1>1, <1>6, <1>7, StopStep, Working
<1>8. CASE order' = [order EXCEPT ![o] = row]
  <2>1. task' = [task EXCEPT ![t] = Resting]
    BY <1>6 DEF Stop
  <2>2. /\ task'[t] = Resting /\ task' \in [Tasks -> Task]
        /\ \A u \in Tasks \ {t} : task'[u] = task[u]
    BY <1>3, <2>1, Takes
  <2>3. Knows(t)' /\ Carries(t)' /\ Loaded(t)'
    BY <2>2, RestingKnows
  <2>4. \A l \in row.lines : l \in order[o].lines \/ l.done = 0
    BY <1>2, <1>4
  <2> HIDE DEF row, o
  <2> QED
    BY <1>1, <1>2, <1>4, <1>6, <1>8, <2>2, <2>3, <2>4, OrderStep, Working
<1> QED
  BY <1>5, <1>7, <1>8

\* create_order, and a conversion, commit the lines of the order.
LEMMA WriteOrderLinesKept ==
  ASSUME IInv, NEW t \in Tasks, WriteOrderLines(t)
  PROVE  IInv'
<1> DEFINE me == task[t]
           o == task[t].o
           row == [order[o] EXCEPT !.lines = @ \cup me.new, !.whole = TRUE]
<1>1. me.op \in {"order", "convert"} /\ me.pc # "idle"
  BY Doings, Doer DEF WriteOrderLines, Acts
<1>2. o \in Orders /\ \A l \in me.new : l.done = 0
  BY <1>1, Working DEF Knows
<1>3. order[o] \in Order /\ me.new \in SUBSET OrderLine /\ Resting \in Task
  BY <1>2, Working, TaskFields, RestingType
<1>4. row \in Order /\ row.lines = order[o].lines \cup me.new
  BY <1>3 DEF Order
<1>5. order' = [order EXCEPT ![o] = row]
  BY <1>2, Working DEF WriteOrderLines, Order
<1>6. Stop(t) /\ UNCHANGED <<doc, stock, crashes, scenario>>
  BY DEF WriteOrderLines
<1>7. quote' \in [Quotes -> Quote]
  <2>1. quote' = quote \/ quote' = [quote EXCEPT ![order[o].quote].status = "Converted"]
    BY DEF WriteOrderLines
  <2> QED
    BY <2>1, Working DEF Quote
<1>8. task' = [task EXCEPT ![t] = Resting]
  BY <1>6 DEF Stop
<1>9. /\ task'[t] = Resting /\ task' \in [Tasks -> Task]
      /\ \A u \in Tasks \ {t} : task'[u] = task[u]
  BY <1>3, <1>8, Takes
<1>10. Knows(t)' /\ Carries(t)' /\ Loaded(t)'
  BY <1>9, RestingKnows
<1>11. \A l \in row.lines : l \in order[o].lines \/ l.done = 0
  BY <1>2, <1>4
<1> HIDE DEF row, o
<1> QED
  BY <1>1, <1>2, <1>4, <1>5, <1>6, <1>7, <1>9, <1>10, <1>11, OrderStep

\* create_order commits the header of an order.
LEMMA OrderHeaderKept ==
  ASSUME IInv, NEW t \in Tasks, MayBegin(t), NEW op \in {"order", "convert"}, NEW o \in Orders,
         NEW q \in Quotes \cup {Missing}, OrderHeader(t, op, o, q),
         UNCHANGED <<quote, doc, stock, crashes, scenario>>
  PROVE  IInv'
<1> DEFINE row == [NoOrder EXCEPT !.status = "Draft", !.quote = q]
<1>1. PICK new \in NewLines(1) :
        Start(t, [Resting EXCEPT !.op = op, !.o = o, !.new = new, !.todo = <<"order">>])
  BY DEF OrderHeader
<1>2. new \in SUBSET OrderLine /\ \A l \in new : l.done = 0
  BY NewLinesAre
<1>3. row \in Order /\ row.lines = {}
  BY NoRows DEF Order, NoOrder
<1>4. order' = [order EXCEPT ![o] = row]
  BY DEF OrderHeader
<1> HIDE DEF row
<1> DEFINE todo == <<"order">>
           me == [[Resting EXCEPT !.op = op, !.o = o, !.new = new, !.todo = todo]
                    EXCEPT !.pc = "work"]
<1>5. task' = [task EXCEPT ![t] = me]
  BY <1>1 DEF Start
<1>6. todo \in Seq(Acts) /\ op \in Ops
  BY Scripts DEF Acts, Ops, OrderOps, QuoteOps
<1>7. me \in Task
  <2> HIDE DEF todo
  <2> QED
    BY <1>2, <1>6, RestingType DEF Task, Acts
<1>8. /\ task'[t] = me /\ task' \in [Tasks -> Task]
      /\ \A u \in Tasks \ {t} : task'[u] = task[u]
  BY <1>5, <1>7, Takes
<1>9. /\ me.pc = "work" /\ me.op = op /\ me.q = Missing /\ me.o = o /\ me.d = Missing
      /\ me.todo = <<"order">> /\ me.new = new
  BY DEF Resting
<1> HIDE DEF me, todo
<1>10. Knows(t)'
  BY <1>2, <1>6, <1>8, <1>9 DEF Knows, QuoteSteps, OrderSteps, Carriers, Ops, QuoteOps, OrderOps, DocOps
<1>11. Carries(t)' /\ Loaded(t)'
  BY <1>8, <1>9 DEF Carries, Loaded, Carriers
<1> QED
  BY <1>3, <1>4, <1>8, <1>10, <1>11, OrderStep, Working

\* create_order begins.
LEMMA CreateOrderKept ==
  ASSUME IInv, NEW t \in Tasks, CreateOrder(t)
  PROVE  IInv'
BY OrderHeaderKept DEF CreateOrder

\* create_from_quotation begins.
LEMMA ConvertKept ==
  ASSUME IInv, NEW t \in Tasks, Convert(t)
  PROVE  IInv'
BY OrderHeaderKept DEF Convert

\* A carrier that keeps what it knows of its goods.
LEMMA SameTask == ASSUME NEW me \in Task PROVE me = [me EXCEPT !.linked = me.linked]
BY DEF Task

\* Missing is no row.
LEMMA NoSuchRow == Missing \notin Quotes /\ Missing \notin Orders /\ Missing \notin Docs
BY SalesAssumption

\* A handler comes to rest.
LEMMA Rests ==
  ASSUME IInv, NEW t \in Tasks, Stop(t)
  PROVE  /\ task'[t] = Resting /\ task' \in [Tasks -> Task]
         /\ \A u \in Tasks \ {t} : task'[u] = task[u]
         /\ Knows(t)' /\ Carries(t)' /\ Loaded(t)' /\ ~ Creating(t)'
<1>1. Resting \in Task /\ task' = [task EXCEPT ![t] = Resting]
  BY RestingType DEF Stop
<1>2. /\ task'[t] = Resting /\ task' \in [Tasks -> Task]
      /\ \A u \in Tasks \ {t} : task'[u] = task[u]
  BY <1>1, Takes
<1> QED
  BY <1>2, RestingKnows

\* The status a handler decided on is written.
LEMMA WriteStatusKept ==
  ASSUME IInv, NEW t \in Tasks, WriteStatus(t)
  PROVE  IInv'
<1> DEFINE me == task[t]
<1>1. /\ Doing(t, "status") /\ me.pc = "work" /\ me.pc # "idle"
      /\ UNCHANGED <<stock, crashes, scenario>> /\ Go(t, me)
      /\ quote' = IF me.q = Missing THEN quote ELSE [quote EXCEPT ![me.q].status = Target(me.op)]
      /\ order' = IF me.o = Missing THEN order
                  ELSE [order EXCEPT ![me.o].status = IF me.order.status = Target(me.op) THEN @
                                                      ELSE Target(me.op)]
      /\ doc' = IF me.d = Missing THEN doc ELSE [doc EXCEPT ![me.d].status = Target(me.op)]
  BY Doer DEF WriteStatus
<1>2. \/ me.op \in QuoteSteps \cup OrderSteps \cup {"cancel delivery"} /\ me.todo = <<"status">>
      \/ me.op = "approve return" /\ me.todo = Signing
  BY <1>1, Doings DEF Acts
<1>3. me.todo = <<"status">> => Stop(t)
  BY <1>1, Scripts DEF Go, Acts
<1>4. CASE me.op \in QuoteSteps
  <2>1. me.q \in Quotes /\ me.o = Missing /\ me.d = Missing
    BY <1>4, Working DEF Knows
  <2>2. Target(me.op) \in {"Submitted", "Approved", "Rejected", "Cancelled"}
    BY <1>4 DEF Target, QuoteSteps
  <2>3. quote' \in [Quotes -> Quote] /\ UNCHANGED <<order, doc>>
    BY <1>1, <2>1, <2>2, Working DEF Quote
  <2>4. Stop(t)
    BY <1>2, <1>3, <1>4 DEF QuoteSteps
  <2> HIDE DEF me
  <2> QED
    BY <1>1, <2>3, <2>4, StopStep, Working DEF me
<1>5. CASE me.op \in OrderSteps
  <2>1. me.o \in Orders /\ me.q = Missing /\ me.d = Missing /\ me.o # Missing
    BY <1>5, Working, NoSuchRow DEF Knows
  <2>2. Target(me.op) \in {"Submitted", "Approved", "Rejected", "Cancelled", "Closed"}
    BY <1>5 DEF Target, OrderSteps
  <2> DEFINE row == [order[me.o] EXCEPT !.status = IF me.order.status = Target(me.op) THEN @
                                                  ELSE Target(me.op)]
  <2>3. order[me.o] \in Order
    BY <2>1, Working
  <2>4. row \in Order /\ row.lines = order[me.o].lines
    BY <2>2, <2>3 DEF Order
  <2>5. order' = [order EXCEPT ![me.o] = row] /\ UNCHANGED <<quote, doc>>
    BY <1>1, <2>1
  <2>6. Stop(t)
    BY <1>2, <1>3, <1>5 DEF OrderSteps
  <2>7. /\ task' \in [Tasks -> Task] /\ \A u \in Tasks \ {t} : task'[u] = task[u]
        /\ Knows(t)' /\ Carries(t)' /\ Loaded(t)'
    BY <2>6, Rests
  <2> HIDE DEF row
  <2> QED
    BY <1>1, <2>1, <2>4, <2>5, <2>7, OrderStep, Working
<1>6. CASE me.op \in {"cancel delivery", "approve return"}
  <2> DEFINE d == me.d
             row == [doc[d] EXCEPT !.status = Target(me.op)]
  <2>1. d \in Docs /\ me.q = Missing /\ me.o = Missing /\ d # Missing
    BY <1>6, Working, NoSuchRow DEF Knows, Carriers
  <2>2. Target(me.op) \in {"Cancelled", "Approved"}
    BY <1>6 DEF Target
  <2>3. doc[d] \in Document
    BY <2>1, Working
  <2>4. /\ row \in Document /\ row.lines = doc[d].lines
        /\ row.kind = doc[d].kind /\ row.order = doc[d].order /\ (row.linked => doc[d].linked)
        /\ Grows(doc[d], row) /\ (Booked(doc[d]) => Booked(row))
    <3>1. /\ row \in Document /\ row.lines = doc[d].lines /\ row.moved = doc[d].moved
          /\ row.goods = doc[d].goods /\ row.named = doc[d].named
          /\ row.kind = doc[d].kind /\ row.order = doc[d].order /\ row.linked = doc[d].linked
      BY <2>2, <2>3 DEF Document
    <3> HIDE DEF row
    <3> QED
      BY <2>3, <3>1, GoodsStay, StaysBooked
  <2>5. doc' = [doc EXCEPT ![d] = row] /\ UNCHANGED <<quote, order>>
    BY <1>1, <2>1
  <2>6. /\ task' \in [Tasks -> Task] /\ \A u \in Tasks \ {t} : task'[u] = task[u]
        /\ Knows(t)' /\ Carries(t)' /\ Loaded(t)'
    <3>1. CASE me.op = "cancel delivery"
      BY <1>2, <1>3, <3>1, Rests
    <3>2. CASE me.op = "approve return"
      <4>1. me.todo = Signing
        BY <1>2, <3>2 DEF QuoteSteps, OrderSteps
      <4>2. /\ task' \in [Tasks -> Task] /\ \A u \in Tasks \ {t} : task'[u] = task[u]
            /\ Knows(t)' /\ Loaded(t)' /\ ~ Creating(t)' /\ task'[t].todo = Tail(Signing)
            /\ task'[t].op = me.op /\ task'[t].o = me.o /\ task'[t].d = me.d
            /\ task'[t].doc = me.doc /\ task'[t].linked = me.linked
        <5>1. me \in Task /\ me.linked \in BOOLEAN
          BY Working, TaskFields
        <5>2. me = [me EXCEPT !.linked = me.linked]
          BY <5>1, SameTask
        <5>3. me.todo # Finishing
          BY <4>1, Apart
        <5> HIDE DEF me
        <5> QED
          BY <1>1, <3>2, <4>1, <5>1, <5>2, <5>3, GoesOn DEF me
      <4>3. task'[t].todo = Drafting /\ Drafting \notin {Approving, Posting}
        BY <4>2, Scripts, Apart
      <4>4. ~ Creating(t)
        BY <3>2, <4>1, Apart DEF Creating
      <4>5. /\ doc[d].kind = me.doc.kind /\ doc[d].kind # Missing /\ doc[d].kind = "return"
            /\ me.doc.lines = << >> \/ me.doc.lines = doc[d].lines
            /\ me.linked => Booked(doc[d])
        BY <3>2, <4>4, Working DEF Carries, Carriers
      <4>6. doc'[d] = row
        BY <2>1, <2>4, <2>5, Working
      <4> HIDE DEF row
      <4>7. Carries(t)'
        BY <2>4, <3>2, <4>2, <4>3, <4>5, <4>6 DEF Carries
      <4> QED
        BY <4>2, <4>7
    <3> QED
      BY <1>6, <3>1, <3>2
  <2>7. /\ stock' \in Nat /\ UNCHANGED <<crashes, scenario>> /\ task[t].pc # "idle"
        /\ Grows(doc[d], row)
    BY <1>1, <2>4, Working
  <2> HIDE DEF row, d, me
  <2>8. UNCHANGED <<quote, order, crashes, scenario>>
    BY <2>5, <2>7
  <2>9. doc[d].kind # Missing => row.kind = doc[d].kind /\ row.order = doc[d].order
    BY <2>4
  <2>10. row.lines = doc[d].lines \/ (Creating(t) /\ task[t].d = d /\ ~ Creating(t)')
    BY <2>4
  <2>11. row.linked => doc[d].linked \/ Booked(row)
    BY <2>4
  <2>12. d \in Docs /\ row \in Document /\ doc' = [doc EXCEPT ![d] = row]
    BY <2>1, <2>4, <2>5
  <2> QED
    BY <2>6, <2>7, <2>8, <2>9, <2>10, <2>11, <2>12, DocStep
<1> QED
  BY <1>2, <1>4, <1>5, <1>6

\* A document that is free to begin has no row and nobody at work on it.
LEMMA FreeDocIs ==
  ASSUME IInv, NEW d \in Docs, FreeDoc(d)
  PROVE  /\ doc[d].kind = Missing /\ doc[d].lines = << >> /\ doc[d].moved = 0 /\ ~ doc[d].linked
         /\ doc[d].goods = Missing /\ doc[d].named = 0
         /\ \A u \in Tasks : task[u].op \in Carriers => task[u].d # d
<1>1. /\ doc[d].kind = Missing /\ doc[d].lines = << >> /\ doc[d].moved = 0 /\ ~ doc[d].linked
      /\ doc[d].goods = Missing /\ doc[d].named = 0
  BY DEF FreeDoc, NoDoc
<1> QED
  BY <1>1, Working DEF Carries

\* A document of the requested kind, without its lines.
Header(kind, o) == [NoDoc EXCEPT !.kind = kind, !.status = "Draft", !.order = o]

\* The row of a document whose lines are still to come.
LEMMA HeaderRow ==
  ASSUME NEW kind \in {"delivery", "return"}, NEW o \in Orders
  PROVE  LET row == Header(kind, o) IN
         /\ row \in Document /\ row.kind = kind /\ row.order = o /\ row.lines = << >>
         /\ row.moved = 0 /\ ~ row.linked /\ row.goods = Missing /\ row.named = 0
         /\ row.status = "Draft"
<1> DEFINE row == Header(kind, o)
<1>1. row \in Document
  BY NoRows DEF Document, Header
<1>2. /\ row.kind = kind /\ row.order = o /\ row.lines = << >> /\ row.moved = 0
      /\ ~ row.linked /\ row.goods = Missing /\ row.named = 0 /\ row.status = "Draft"
  BY DEF NoDoc, Header
<1> QED
  BY <1>1, <1>2

\* The lines a document is asked to have.
LEMMA WithLines ==
  ASSUME NEW row \in Document, NEW lines \in Seq(DocLine)
  PROVE  LET asked == [row EXCEPT !.lines = lines] IN
         /\ asked \in Document /\ asked.lines = lines /\ asked.moved = row.moved
         /\ asked.kind = row.kind /\ asked.order = row.order /\ asked.goods = row.goods
         /\ asked.named = row.named /\ asked.status = row.status
         /\ (asked.linked => row.linked) /\ Grows(row, asked)
<1> DEFINE asked == [row EXCEPT !.lines = lines]
<1>1. /\ asked \in Document /\ asked.lines = lines /\ asked.moved = row.moved
      /\ asked.kind = row.kind /\ asked.order = row.order /\ asked.goods = row.goods
      /\ asked.named = row.named /\ asked.status = row.status
      /\ (asked.linked => row.linked)
  BY DEF Document
<1> HIDE DEF asked
<1>2. Grows(row, asked)
  BY <1>1, GoodsStay
<1> QED
  BY <1>1, <1>2 DEF asked

\* When one document changes, so does what is delivered, by its share.
LEMMA DeliveredBy ==
  ASSUME doc \in [Docs -> Document], doc' \in [Docs -> Document], NEW d \in Docs,
         \A e \in Docs \ {d} : doc'[e] = doc[e]
  PROVE  \A o, no : /\ DeliveredOn(o, no) \in Nat /\ DeliveredOn(o, no)' \in Nat
                    /\ DeliveredOn(o, no)' =
                         DeliveredOn(o, no) - Share(doc[d], o, no) + Share(doc'[d], o, no)
                    /\ Share(doc[d], o, no) \in Nat /\ Share(doc'[d], o, no) \in Nat
<1>1. ASSUME NEW o, NEW no
      PROVE  /\ DeliveredOn(o, no) \in Nat /\ DeliveredOn(o, no)' \in Nat
             /\ DeliveredOn(o, no)' =
                  DeliveredOn(o, no) - Share(doc[d], o, no) + Share(doc'[d], o, no)
             /\ Share(doc[d], o, no) \in Nat /\ Share(doc'[d], o, no) \in Nat
  <2>1. Delivered(doc', o, no) = Delivered(doc, o, no) - Share(doc[d], o, no) + Share(doc'[d], o, no)
    <3>1. \A e \in Docs \ {d} : Share(doc[e], o, no) = Share(doc'[e], o, no)
      OBVIOUS
    <3> QED
      BY <3>1, DeliveredStep
  <2>2. (doc \in [Docs -> Document])'
    OBVIOUS
  <2>3. /\ DeliveredOn(o, no) = Delivered(doc, o, no) /\ DeliveredOn(o, no) \in Nat
        /\ DeliveredOn(o, no)' = Delivered(doc', o, no) /\ DeliveredOn(o, no)' \in Nat
    BY <2>2, DeliveredOnIs
  <2>4. Share(doc[d], o, no) \in Nat /\ Share(doc'[d], o, no) \in Nat
    BY ShareNat
  <2> QED
    BY <2>1, <2>3, <2>4
<1> QED
  BY <1>1

\* What is requested is lines.
LEMMA RequestsAre ==
  ASSUME IInv, NEW o \in Orders, NEW lines \in Requests(o)
  PROVE  lines \in Seq(DocLine)
<1>1. PICK n \in 1 .. scenario.lines :
        lines \in [1..n -> {l \in DocLine : \E k \in order[o].lines : k.no = l.no}]
  BY DEF Requests
<1>2. n \in Nat
  BY Working DEF Scenario
<1> QED
  BY <1>1, <1>2

\* A document that begins, with its creator.
LEMMA BeginsDoc ==
  ASSUME IInv, NEW t \in Tasks, MayBegin(t), NEW d \in Docs, FreeDoc(d), NEW o \in Orders,
         NEW kind \in {"delivery", "return"}, doc' = [doc EXCEPT ![d] = Header(kind, o)],
         UNCHANGED <<quote, order, stock, crashes, scenario>>,
         NEW me \in Task, task' = [task EXCEPT ![t] = me], me.pc = "work", me.q = Missing,
         me.o = o, me.d = d, me.doc.kind = kind, ~ me.linked,
         \/ kind = "delivery" /\ me.op = "deliver" /\ me.todo = Counting /\ me.order = order[o]
         \/ kind = "return" /\ me.op = "return" /\ me.todo = <<"lines">>
  PROVE  IInv'
<1> DEFINE row == Header(kind, o)
<1>1. /\ task'[t] = me /\ task' \in [Tasks -> Task] /\ \A u \in Tasks \ {t} : task'[u] = task[u]
  BY Takes
<1>2. /\ row \in Document /\ row.kind = kind /\ row.order = o /\ row.lines = << >>
      /\ row.moved = 0 /\ ~ row.linked /\ row.goods = Missing /\ row.named = 0
  BY HeaderRow
<1> HIDE DEF row
<1>3. /\ doc[d].kind = Missing /\ doc[d].lines = << >> /\ doc[d].moved = 0
      /\ doc[d].goods = Missing /\ doc[d].named = 0
      /\ \A u \in Tasks : task[u].op \in Carriers => task[u].d # d
  BY FreeDocIs
<1>4. doc'[d] = row /\ doc' \in [Docs -> Document] /\ \A e \in Docs \ {d} : doc'[e] = doc[e]
  BY <1>2, Working DEF row
<1>5. Knows(t)'
  BY <1>1 DEF Knows, QuoteSteps, OrderSteps, Carriers, Ops, QuoteOps, OrderOps, DocOps
<1>6. Carries(t)'
  <2>1. kind # Missing /\ me.todo \notin {Approving, Posting}
    <3>1. <<"lines">> \notin Later /\ {Approving, Posting} \subseteq Later
      BY Apart DEF Later
    <3> QED
      BY <3>1, Apart DEF Missing
  <2>2. Creating(t)' /\ (me.op # "deliver" => kind = "return") /\ (me.op = "deliver" => kind = "delivery")
    BY <1>1 DEF Creating
  <2>3. \A u \in Tasks \ {t} : Creating(u)' => task'[u].d # d
    BY <1>1, <1>3 DEF Creating, Carriers
  <2>4. /\ doc'[d].kind = kind /\ doc'[d].order = o /\ doc'[d].lines = << >>
        /\ task'[t].op = me.op /\ task'[t].d = d /\ task'[t].o = o /\ task'[t].doc.kind = kind
        /\ task'[t].todo = me.todo /\ ~ task'[t].linked
    BY <1>1, <1>2, <1>4
  <2> QED
    BY <2>1, <2>2, <2>3, <2>4 DEF Carries
<1>7. Loaded(t)'
  <2>1. SUFFICES ASSUME me.order = order[o], NEW l \in order[o].lines
                 PROVE  l.done <= DeliveredOn(o, l.no)'
    BY <1>1 DEF Loaded
  <2>2. l.done <= DeliveredOn(o, l.no)
    BY DEF IInv, Covered
  <2>3. DeliveredOn(o, l.no)' = DeliveredOn(o, l.no)
    <3>1. Share(doc[d], o, l.no) = 0 /\ Share(doc'[d], o, l.no) = 0
      BY <1>2, <1>3, <1>4, NothingNamed DEF Share
    <3>2. doc \in [Docs -> Document]
      BY Working
    <3>3. DeliveredOn(o, l.no) \in Nat /\ DeliveredOn(o, l.no)' =
            DeliveredOn(o, l.no) - Share(doc[d], o, l.no) + Share(doc'[d], o, l.no)
      BY <1>4, <3>2, DeliveredBy
    <3> QED
      BY <3>1, <3>3
  <2> QED
    BY <2>2, <2>3
<1>8. /\ stock' \in Nat /\ Grows(doc[d], row) /\ row.lines = doc[d].lines
      /\ doc' = [doc EXCEPT ![d] = row]
  BY <1>2, <1>3, GoodsStay, Working DEF row
<1> QED
  BY <1>1, <1>2, <1>3, <1>5, <1>6, <1>7, <1>8, DocStep, ZenonT(60)

\* create_delivery commits its header: it has a document to itself.
LEMMA BeginDeliveryKept ==
  ASSUME IInv, NEW t \in Tasks, BeginDelivery(t)
  PROVE  IInv'
<1>1. MayBegin(t) /\ UNCHANGED <<quote, order, stock, crashes, scenario>>
  BY DEF BeginDelivery
<1>2. PICK d \in Docs, o \in Orders :
        /\ FreeDoc(d)
        /\ doc' = [doc EXCEPT ![d] = [NoDoc EXCEPT !.kind = "delivery", !.status = "Draft",
                                                   !.order = o]]
        /\ \E lines \in Requests(o) :
             Start(t, [Resting EXCEPT !.op = "deliver", !.o = o, !.d = d, !.order = order[o],
                         !.doc = [doc'[d] EXCEPT !.lines = lines],
                         !.todo = <<"count", "draft", "sign", "post", "finish">>])
  BY DEF BeginDelivery
<1>3. PICK lines \in Requests(o) :
        Start(t, [Resting EXCEPT !.op = "deliver", !.o = o, !.d = d, !.order = order[o],
                    !.doc = [doc'[d] EXCEPT !.lines = lines],
                    !.todo = <<"count", "draft", "sign", "post", "finish">>])
  BY <1>2
<1> DEFINE row == Header("delivery", o)
           asked == [row EXCEPT !.lines = lines]
           me == [[Resting EXCEPT !.op = "deliver", !.o = o, !.d = d, !.order = order[o],
                     !.doc = asked, !.todo = Counting] EXCEPT !.pc = "work"]
<1>4. doc' = [doc EXCEPT ![d] = row] /\ doc'[d] = row
  BY <1>2, Working DEF Header
<1>5. task' = [task EXCEPT ![t] = me]
  BY <1>3, <1>4 DEF Start, Counting
<1>6. asked \in Document /\ asked.kind = "delivery"
  <2>1. lines \in Seq(DocLine)
    BY RequestsAre
  <2>2. row \in Document /\ row.kind = "delivery"
    BY HeaderRow
  <2> HIDE DEF row
  <2> QED
    BY <2>1, <2>2, WithLines
<1> HIDE DEF asked
<1>7. me \in Task
  <2>1. order[o] \in Order /\ Resting \in Task /\ Counting \in Seq(Acts) /\ "deliver" \in Ops
    BY Working, RestingType, Scripts DEF Ops, DocOps
  <2> QED
    BY <1>6, <2>1 DEF Task, Acts
<1>8. /\ me.pc = "work" /\ me.op = "deliver" /\ me.q = Missing /\ me.o = o /\ me.d = d
      /\ me.order = order[o] /\ me.doc = asked /\ me.todo = Counting /\ ~ me.linked
  BY DEF Resting
<1> HIDE DEF me, row
<1>9. row = Header("delivery", o)
  BY DEF row
<1> QED
  <2>1. FreeDoc(d) /\ doc' = [doc EXCEPT ![d] = Header("delivery", o)]
    BY <1>2, <1>4, <1>9
  <2>2. me.doc.kind = "delivery"
    BY <1>6, <1>8
  <2> QED
    BY <1>1, <1>5, <1>7, <1>8, <2>1, <2>2, BeginsDoc

\* create_return commits its header: it has a document to itself.
LEMMA BeginReturnKept ==
  ASSUME IInv, NEW t \in Tasks, BeginReturn(t)
  PROVE  IInv'
<1>1. MayBegin(t) /\ UNCHANGED <<quote, order, stock, crashes, scenario>>
  BY DEF BeginReturn
<1>2. PICK d \in Docs, o \in Orders :
        /\ FreeDoc(d)
        /\ \E lines \in Requests(o) :
             /\ doc' = [doc EXCEPT ![d] = [NoDoc EXCEPT !.kind = "return", !.status = "Draft",
                                                        !.order = o]]
             /\ Start(t, [Resting EXCEPT !.op = "return", !.o = o, !.d = d,
                            !.doc = [doc'[d] EXCEPT !.lines = lines], !.todo = <<"lines">>])
  BY DEF BeginReturn
<1>3. PICK lines \in Requests(o) :
        /\ doc' = [doc EXCEPT ![d] = [NoDoc EXCEPT !.kind = "return", !.status = "Draft",
                                                   !.order = o]]
        /\ Start(t, [Resting EXCEPT !.op = "return", !.o = o, !.d = d,
                       !.doc = [doc'[d] EXCEPT !.lines = lines], !.todo = <<"lines">>])
  BY <1>2
<1> DEFINE todo == <<"lines">>
           row == Header("return", o)
           asked == [row EXCEPT !.lines = lines]
           me == [[Resting EXCEPT !.op = "return", !.o = o, !.d = d, !.doc = asked, !.todo = todo]
                    EXCEPT !.pc = "work"]
<1>4. doc' = [doc EXCEPT ![d] = row] /\ doc'[d] = row
  BY <1>3, Working DEF Header
<1>5. task' = [task EXCEPT ![t] = me]
  BY <1>3, <1>4 DEF Start
<1>6. asked \in Document /\ asked.kind = "return"
  <2>1. lines \in Seq(DocLine)
    BY RequestsAre
  <2>2. row \in Document /\ row.kind = "return"
    BY HeaderRow
  <2> HIDE DEF row
  <2> QED
    BY <2>1, <2>2, WithLines
<1>7. todo \in Seq(Acts) /\ todo = <<"lines">>
  BY Scripts DEF Acts
<1> HIDE DEF asked, todo
<1>8. me \in Task
  <2>1. Resting \in Task /\ "return" \in Ops
    BY RestingType DEF Ops, DocOps
  <2> QED
    BY <1>6, <1>7, <2>1 DEF Task, Acts
<1>9. /\ me.pc = "work" /\ me.op = "return" /\ me.q = Missing /\ me.o = o /\ me.d = d
      /\ me.doc = asked /\ me.todo = todo /\ ~ me.linked
  BY DEF Resting
<1> HIDE DEF me, row
<1>10. row = Header("return", o)
  BY DEF row
<1> QED
  BY <1>1, <1>2, <1>4, <1>5, <1>6, <1>7, <1>8, <1>9, <1>10, BeginsDoc

\* A carrier past the creation of its document.
LEMMA CarrierIs ==
  ASSUME IInv, NEW t \in Tasks, NEW act \in {"draft", "sign", "post", "finish"}, Doing(t, act)
  PROVE  LET me == task[t]  d == task[t].d IN
         /\ me.op \in {"deliver", "approve return"} /\ me.op \in Carriers
         /\ me.todo = CASE act = "draft" -> Drafting [] act = "sign" -> Approving
                        [] act = "post" -> Posting [] OTHER -> Finishing
         /\ me.todo \in Later /\ me.pc = "work" /\ me.pc # "idle" /\ ~ Creating(t)
         /\ d \in Docs /\ doc[d] \in Document /\ me.doc \in Document /\ me \in Task
         /\ doc[d].kind = me.doc.kind /\ doc[d].kind # Missing
         /\ me.op = "deliver" => doc[d].kind = "delivery" /\ doc[d].order = me.o
         /\ me.op # "deliver" => doc[d].kind = "return"
         /\ me.doc.lines = << >> \/ me.doc.lines = doc[d].lines
         /\ me.todo \in {Approving, Posting} => me.doc.lines # << >> /\ doc[d].goods # Missing
         /\ me.linked => Booked(doc[d])
<1> DEFINE me == task[t]
           d == task[t].d
<1>1. me.op \in {"deliver", "approve return"} /\ me.op \in Carriers
  BY Doings DEF Acts, Carriers
<1>2. /\ act = "draft" => me.todo = Drafting
      /\ act = "sign" => me.todo = Approving
      /\ act = "post" => me.todo = Posting
      /\ act = "finish" => me.todo = Finishing
  BY Doings DEF Acts
<1>3. me.todo \in Later
  BY <1>2 DEF Later
<1>4. me.pc = "work" /\ me.pc # "idle"
  BY Doer
<1>5. ~ Creating(t)
  BY <1>1, <1>3, Apart DEF Creating
<1>6. d \in Docs /\ me \in Task
  BY <1>1, Working DEF Knows
<1>7. doc[d] \in Document /\ me.doc \in Document
  BY <1>6, Working, TaskFields
<1>8. /\ doc[d].kind = me.doc.kind /\ doc[d].kind # Missing
      /\ me.op = "deliver" => doc[d].kind = "delivery" /\ doc[d].order = me.o
      /\ me.op # "deliver" => doc[d].kind = "return"
      /\ me.doc.lines = << >> \/ me.doc.lines = doc[d].lines
      /\ me.todo \in {Approving, Posting} => me.doc.lines # << >> /\ doc[d].goods # Missing
      /\ me.linked => Booked(doc[d])
  BY <1>1, <1>5, Working DEF Carries
<1> HIDE DEF me, d
<1>9. me.todo = CASE act = "draft" -> Drafting [] act = "sign" -> Approving
                  [] act = "post" -> Posting [] OTHER -> Finishing
  BY <1>2
<1> QED
  BY <1>1, <1>3, <1>4, <1>5, <1>6, <1>7, <1>8, <1>9 DEF me, d

\* A carrier that goes on, while its document keeps its lines.
LEMMA CarrierGoes ==
  ASSUME IInv, NEW t \in Tasks, NEW act \in {"draft", "sign", "post"}, Doing(t, act),
         NEW linked \in BOOLEAN, NEW me, me = [task[t] EXCEPT !.linked = linked], Go(t, me),
         NEW row \in Document, doc' = [doc EXCEPT ![task[t].d] = row],
         UNCHANGED <<quote, order, crashes, scenario>>, stock' \in Nat,
         row.kind = doc[task[t].d].kind, row.order = doc[task[t].d].order,
         row.lines = doc[task[t].d].lines, Grows(doc[task[t].d], row), row.goods # Missing,
         row.linked => doc[task[t].d].linked, act = "draft" => task[t].doc.lines # << >>,
         linked => task[t].linked \/ Booked(row)
  PROVE  IInv'
<1> DEFINE d == task[t].d
<1>1. /\ task[t].op \in {"deliver", "approve return"} /\ task[t].todo \in Later
      /\ task[t].pc = "work" /\ task[t].pc # "idle" /\ d \in Docs /\ doc[d] \in Document
      /\ doc[d].kind = task[t].doc.kind /\ doc[d].kind # Missing
      /\ task[t].op = "deliver" => doc[d].kind = "delivery" /\ doc[d].order = task[t].o
      /\ task[t].op # "deliver" => doc[d].kind = "return"
      /\ task[t].doc.lines = << >> \/ task[t].doc.lines = doc[d].lines
      /\ task[t].todo \in {Approving, Posting} =>
           task[t].doc.lines # << >> /\ doc[d].goods # Missing
      /\ task[t].linked => Booked(doc[d])
  BY CarrierIs, Zenon
<1>2. task[t].todo = CASE act = "draft" -> Drafting [] act = "sign" -> Approving
                       [] act = "post" -> Posting [] OTHER -> Finishing
  BY CarrierIs
<1>3. /\ act = "draft" => task[t].todo = Drafting
      /\ act = "sign" => task[t].todo = Approving
      /\ act = "post" => task[t].todo = Posting
  BY <1>2
<1>4. task[t].todo # Finishing /\ task[t].doc.lines # << >>
  BY <1>1, <1>3, Apart
<1>5. /\ task' \in [Tasks -> Task] /\ \A u \in Tasks \ {t} : task'[u] = task[u]
      /\ task'[t].op = task[t].op /\ task'[t].o = task[t].o /\ task'[t].d = d
      /\ task'[t].doc = task[t].doc /\ task'[t].linked = linked
      /\ Knows(t)' /\ Loaded(t)' /\ ~ Creating(t)'
  BY <1>1, <1>4, GoesOn
<1>6. doc'[d] = row
  BY <1>1, Working
<1>7. linked => Booked(row)
  BY <1>1, StaysBooked
<1>8. Carries(t)'
  <2>1. /\ doc'[d].kind = doc[d].kind /\ doc'[d].order = doc[d].order
        /\ doc'[d].lines = doc[d].lines /\ doc'[d].goods # Missing
    BY <1>6
  <2>2. task'[t].linked => Booked(doc'[d])
    BY <1>5, <1>6, <1>7
  <2> HIDE DEF d
  <2> QED
    BY <1>1, <1>4, <1>5, <2>1, <2>2, ZenonT(60) DEF Carries
<1> HIDE DEF d
<1>9. doc' = [doc EXCEPT ![d] = row] /\ row.kind = doc[d].kind /\ row.order = doc[d].order
      /\ row.lines = doc[d].lines /\ Grows(doc[d], row) /\ (row.linked => doc[d].linked)
  BY DEF d
<1> QED
  BY <1>1, <1>5, <1>8, <1>9, DocStep, ZenonT(60)

\* The goods issue or receipt is created.
LEMMA DraftGoodsKept ==
  ASSUME IInv, NEW t \in Tasks, DraftGoods(t)
  PROVE  IInv'
<1> DEFINE me == task[t]
           d == task[t].d
           row == [doc[d] EXCEPT !.goods = "Draft", !.named = Total(me.doc.lines)]
<1>1. /\ Doing(t, "draft") /\ me.doc.lines # << >> /\ doc[d].goods = Missing
      /\ doc' = [doc EXCEPT ![d].goods = "Draft", ![d].named = Total(me.doc.lines)]
      /\ Go(t, me) /\ UNCHANGED <<quote, order, stock, crashes, scenario>>
  BY DEF DraftGoods
<1>2. doc[d] \in Document /\ me \in Task /\ me.doc \in Document /\ d \in Docs
  BY <1>1, CarrierIs
<1>3. /\ row \in Document /\ row.kind = doc[d].kind /\ row.order = doc[d].order
      /\ row.lines = doc[d].lines /\ Grows(doc[d], row) /\ row.goods # Missing
      /\ (row.linked => doc[d].linked)
  <2>1. Total(me.doc.lines) \in Nat /\ doc[d].moved \in Nat
    <3>1. me.doc.lines \in Seq(DocLine) /\ doc[d].moved \in Nat
      BY <1>2 DEF Document
    <3> QED
      BY <3>1, QuantityNat
  <2>2. /\ row \in Document /\ row.kind = doc[d].kind /\ row.order = doc[d].order
        /\ row.lines = doc[d].lines /\ row.moved = doc[d].moved /\ (row.linked => doc[d].linked)
        /\ row.goods = "Draft"
    BY <1>2, <2>1 DEF Document
  <2> HIDE DEF row
  <2> QED
    BY <1>1, <2>1, <2>2 DEF Grows, Missing
<1>6. doc' = [doc EXCEPT ![d] = row]
  BY <1>1, <1>2, Working DEF Document
<1>4. me.linked \in BOOLEAN /\ me = [me EXCEPT !.linked = me.linked]
  BY <1>2, SameTask, TaskFields
<1>5. stock' \in Nat /\ UNCHANGED <<quote, order, crashes, scenario>>
  BY <1>1, Working
<1> HIDE DEF row
<1> QED
  BY <1>1, <1>3, <1>4, <1>5, <1>6, CarrierGoes

\* The goods issue or receipt is approved.
LEMMA ApproveGoodsKept ==
  ASSUME IInv, NEW t \in Tasks, ApproveGoods(t)
  PROVE  IInv'
<1> DEFINE me == task[t]
           d == task[t].d
           row == [doc[d] EXCEPT !.goods = "Approved"]
<1>1. /\ Doing(t, "sign") /\ doc' = [doc EXCEPT ![d] = row]
      /\ Go(t, me) /\ UNCHANGED <<quote, order, stock, crashes, scenario>>
  BY DEF ApproveGoods
<1>2. doc[d] \in Document /\ me \in Task
  BY <1>1, CarrierIs
<1>3. /\ row \in Document /\ row.kind = doc[d].kind /\ row.order = doc[d].order
      /\ row.lines = doc[d].lines /\ Grows(doc[d], row) /\ row.goods # Missing
      /\ (row.linked => doc[d].linked)
  <2>1. /\ row \in Document /\ row.kind = doc[d].kind /\ row.order = doc[d].order
        /\ row.lines = doc[d].lines /\ row.moved = doc[d].moved /\ (row.linked => doc[d].linked)
        /\ row.goods = "Approved" /\ row.named = doc[d].named /\ doc[d].moved \in Nat
    BY <1>2 DEF Document
  <2> HIDE DEF row
  <2> QED
    BY <2>1 DEF Grows, Missing
<1>4. me.linked \in BOOLEAN /\ me = [me EXCEPT !.linked = me.linked]
  BY <1>2, SameTask, TaskFields
<1>5. stock' \in Nat /\ UNCHANGED <<quote, order, crashes, scenario>>
  BY <1>1, Working
<1> HIDE DEF row
<1> QED
  BY <1>1, <1>3, <1>4, <1>5, CarrierGoes

\* A document whose goods move.
LEMMA PostedRow ==
  ASSUME NEW old \in Document
  PROVE  LET row == [old EXCEPT !.goods = "Posted", !.moved = @ + old.named] IN
         /\ row \in Document /\ row.kind = old.kind /\ row.order = old.order
         /\ row.lines = old.lines /\ Grows(old, row) /\ row.goods = "Posted"
         /\ row.named = old.named /\ row.moved = old.moved + old.named /\ row.moved >= row.named
         /\ row.status = old.status /\ (row.linked => old.linked)
<1> DEFINE row == [old EXCEPT !.goods = "Posted", !.moved = @ + old.named]
<1>1. old.moved \in Nat /\ old.named \in Nat /\ old.moved + old.named \in Nat
  BY DEF Document
<1>2. /\ row \in Document /\ row.kind = old.kind /\ row.order = old.order
      /\ row.lines = old.lines /\ row.goods = "Posted" /\ row.named = old.named
      /\ row.moved = old.moved + old.named /\ row.status = old.status
      /\ (row.linked => old.linked)
  BY <1>1 DEF Document
<1> HIDE DEF row
<1>3. Grows(old, row) /\ row.moved >= row.named
  BY <1>1, <1>2 DEF Grows, Missing
<1> QED
  BY <1>2, <1>3 DEF row

\* The goods move: all the lines the document has.
LEMMA PostGoodsKept ==
  ASSUME IInv, NEW t \in Tasks, PostGoods(t)
  PROVE  IInv'
<1> DEFINE me == task[t]
           d == task[t].d
           row == [doc[d] EXCEPT !.goods = "Posted", !.moved = @ + doc[d].named]
           done == [me EXCEPT !.linked = TRUE]
<1>1. /\ Doing(t, "post") /\ StockAfter(doc[d]) >= 0 /\ Go(t, done)
      /\ stock' = StockAfter(doc[d])
      /\ doc' = [doc EXCEPT ![d].goods = "Posted", ![d].moved = @ + doc[d].named]
      /\ UNCHANGED <<quote, order, crashes, scenario>>
  BY DEF PostGoods, Post
<1>2. /\ d \in Docs /\ doc[d] \in Document /\ me.doc \in Document /\ doc[d].kind = me.doc.kind
      /\ me.doc.lines = << >> \/ me.doc.lines = doc[d].lines
      /\ me.todo \in {Approving, Posting} => me.doc.lines # << >>
  BY <1>1, CarrierIs, Zenon
<1>3. me.todo = Posting
  BY <1>1, Doings DEF Acts
<1>4. me.doc.lines # << >> /\ me.doc.lines = doc[d].lines
  BY <1>2, <1>3
<1>6. doc' = [doc EXCEPT ![d] = row]
  BY <1>1, <1>2, Working DEF Document
<1>7. /\ row \in Document /\ row.kind = doc[d].kind /\ row.order = doc[d].order
      /\ row.lines = doc[d].lines /\ Grows(doc[d], row) /\ row.goods = "Posted"
      /\ row.moved >= row.named /\ row.goods # Missing /\ (row.linked => doc[d].linked)
  BY <1>2, PostedRow DEF Missing
<1>8. Booked(row)
  BY <1>4, <1>7 DEF Booked, Missing
<1>9. stock' \in Nat
  <2>1. StockAfter(doc[d]) \in Int
    BY <1>2, Working DEF StockAfter, Document
  <2> QED
    BY <1>1, <2>1
<1> HIDE DEF row
<1>10. done = [me EXCEPT !.linked = TRUE] /\ Go(t, done)
  BY <1>1
<1> HIDE DEF done
<1>11. UNCHANGED <<quote, order, crashes, scenario>> /\ Doing(t, "post")
  BY <1>1
<1> QED
  BY <1>6, <1>7, <1>8, <1>9, <1>10, <1>11, CarrierGoes

\* What a linked document has moved.
LEMMA FinishDocumentKept ==
  ASSUME IInv, NEW t \in Tasks, FinishDocument(t)
  PROVE  IInv'
<1> DEFINE me == task[t]
           d == task[t].d
           row == [doc[d] EXCEPT !.status = IF me.op = "deliver" THEN "Delivered" ELSE "Completed",
                                 !.linked = @ \/ me.linked]
<1>1. /\ Doing(t, "finish") /\ Stop(t) /\ UNCHANGED <<quote, order, stock, crashes, scenario>>
      /\ doc' = [doc EXCEPT ![d].status = IF me.op = "deliver" THEN "Delivered" ELSE "Completed",
                            ![d].linked = doc[d].linked \/ me.linked]
  BY DEF FinishDocument
<1>2. /\ d \in Docs /\ doc[d] \in Document /\ me \in Task /\ me.pc # "idle"
      /\ me.linked => Booked(doc[d])
  BY <1>1, CarrierIs
<1>3. doc' = [doc EXCEPT ![d] = row]
  BY <1>1, <1>2, Working DEF Document
<1>4. /\ row \in Document /\ row.kind = doc[d].kind /\ row.order = doc[d].order
      /\ row.lines = doc[d].lines /\ row.moved = doc[d].moved
      /\ row.goods = doc[d].goods /\ row.named = doc[d].named
      /\ (row.linked => doc[d].linked \/ me.linked)
  <2>1. (doc[d].linked \/ me.linked) \in BOOLEAN
    OBVIOUS
  <2> QED
    BY <1>2, <2>1 DEF Document
<1>5. /\ task' \in [Tasks -> Task] /\ \A u \in Tasks \ {t} : task'[u] = task[u]
      /\ Knows(t)' /\ Carries(t)' /\ Loaded(t)'
  BY <1>1, Rests
<1> HIDE DEF row
<1>6. Grows(doc[d], row)
  BY <1>2, <1>4, GoodsStay
<1>7. row.linked => doc[d].linked \/ Booked(row)
  BY <1>2, <1>4, <1>6, StaysBooked
<1>8. stock' \in Nat /\ UNCHANGED <<quote, order, crashes, scenario>>
  BY <1>1, Working
<1> QED
  BY <1>2, <1>3, <1>4, <1>5, <1>6, <1>7, <1>8, DocStep

\* The warehouse posts what a handler left: more has moved, not less.
LEMMA WarehousePostsKept ==
  ASSUME IInv, NEW t \in Tasks, WarehousePosts(t)
  PROVE  IInv'
<1>1. /\ MayBegin(t) /\ UNCHANGED <<quote, order, crashes, scenario>> /\ task' = task
  BY DEF WarehousePosts
<1>2. PICK d \in Docs : doc[d].goods \in {"Draft", "Approved"} /\ Post(d)
  BY DEF WarehousePosts
<1> DEFINE row == [doc[d] EXCEPT !.goods = "Posted", !.moved = @ + doc[d].named]
<1>3. doc[d] \in Document
  BY Working
<1>5. doc' = [doc EXCEPT ![d] = row]
  BY <1>2, <1>3, Working DEF Document, Post
<1>6. /\ row \in Document /\ row.kind = doc[d].kind /\ row.order = doc[d].order
      /\ row.lines = doc[d].lines /\ Grows(doc[d], row) /\ (row.linked => doc[d].linked)
  BY <1>3, PostedRow
<1>8. stock' \in Nat
  <2>1. StockAfter(doc[d]) \in Int
    BY <1>3, Working DEF StockAfter, Document
  <2> QED
    BY <1>2, <2>1 DEF Post
<1>9. doc'[d] = row /\ doc' \in [Docs -> Document] /\ \A e \in Docs \ {d} : doc'[e] = doc[e]
  BY <1>5, <1>6, Working
<1> HIDE DEF row
<1>10. Knows(t)' /\ Carries(t)' /\ Loaded(t)'
  <2>1. task[t].pc = "idle" /\ task[t] = Resting
    BY <1>1, Working DEF MayBegin, Knows
  <2>2. task'[t] = Resting
    BY <1>1, <2>1
  <2> HIDE DEF Resting
  <2> QED
    BY <2>2, RestingKnows
<1>11. task' \in [Tasks -> Task] /\ \A u \in Tasks \ {t} : task'[u] = task[u]
  BY <1>1, Working
<1>12. /\ doc[d].kind # Missing => row.kind = doc[d].kind /\ row.order = doc[d].order
       /\ row.lines = doc[d].lines
       /\ row.linked => doc[d].linked
  BY <1>6
<1> QED
  BY <1>1, <1>5, <1>6, <1>8, <1>10, <1>11, <1>12, DocStep

\* The warehouse changes the lines of goods that are still a draft.
LEMMA WarehouseEditsKept ==
  ASSUME IInv, NEW t \in Tasks, WarehouseEdits(t)
  PROVE  IInv'
<1>1. /\ MayBegin(t) /\ UNCHANGED <<quote, order, stock, crashes, scenario>> /\ task' = task
  BY DEF WarehouseEdits
<1>2. PICK d \in Docs, n \in 0..MaxLine :
        doc[d].goods = "Draft" /\ doc' = [doc EXCEPT ![d].named = n]
  BY DEF WarehouseEdits
<1> DEFINE row == [doc[d] EXCEPT !.named = n]
<1>3. doc[d] \in Document /\ n \in Nat
  BY Working
<1>4. doc' = [doc EXCEPT ![d] = row]
  BY <1>2, <1>3, Working
<1>5. /\ row \in Document /\ row.kind = doc[d].kind /\ row.order = doc[d].order
      /\ row.lines = doc[d].lines /\ row.moved = doc[d].moved /\ doc[d].moved \in Nat
      /\ row.goods = doc[d].goods /\ (row.linked => doc[d].linked)
  BY <1>3 DEF Document
<1> HIDE DEF row
<1>6. Grows(doc[d], row)
  BY <1>2, <1>5 DEF Grows
<1>7. Knows(t)' /\ Carries(t)' /\ Loaded(t)'
  <2>1. task[t].pc = "idle" /\ task[t] = Resting
    BY <1>1, Working DEF MayBegin, Knows
  <2>2. task'[t] = Resting
    BY <1>1, <2>1
  <2> HIDE DEF Resting
  <2> QED
    BY <2>2, RestingKnows
<1>8. task' \in [Tasks -> Task] /\ (\A u \in Tasks \ {t} : task'[u] = task[u]) /\ stock' \in Nat
  BY <1>1, Working
<1> QED
  BY <1>1, <1>4, <1>5, <1>6, <1>7, <1>8, DocStep

\* create_return commits the lines.
LEMMA WriteReturnLinesKept ==
  ASSUME IInv, NEW t \in Tasks, WriteReturnLines(t)
  PROVE  IInv'
<1> DEFINE me == task[t]
           d == task[t].d
           row == [doc[d] EXCEPT !.lines = me.doc.lines]
<1>1. /\ Doing(t, "lines") /\ Stop(t) /\ UNCHANGED <<quote, order, stock, crashes, scenario>>
      /\ doc' = doc \/ doc' = [doc EXCEPT ![d].lines = me.doc.lines]
  BY DEF WriteReturnLines
<1>2. me.op = "return" /\ me.pc # "idle" /\ me.op \in Carriers
  BY <1>1, Doings, Doer DEF Acts, Carriers
<1>3. d \in Docs /\ Creating(t) /\ me.doc \in Document
  BY <1>2, Working, TaskFields DEF Knows, Creating
<1>4. doc[d].lines = << >> /\ doc[d] \in Document
  BY <1>2, <1>3, Working DEF Carries
<1>5. me.doc.lines \in Seq(DocLine) /\ doc[d].moved \in Nat
  BY <1>3, <1>4 DEF Document
<1>6. /\ task' \in [Tasks -> Task] /\ \A u \in Tasks \ {t} : task'[u] = task[u]
      /\ Knows(t)' /\ Carries(t)' /\ Loaded(t)' /\ ~ Creating(t)'
  BY <1>1, Rests
<1>7. CASE doc' = doc
  BY <1>1, <1>2, <1>7, StopStep, Working
<1>8. CASE doc' = [doc EXCEPT ![d].lines = me.doc.lines]
  <2>1. doc' = [doc EXCEPT ![d] = row]
    BY <1>3, <1>8, Working
  <2>2. /\ row \in Document /\ row.kind = doc[d].kind /\ row.order = doc[d].order
        /\ Grows(doc[d], row) /\ (row.linked => doc[d].linked)
    BY <1>4, <1>5, WithLines
  <2>3. stock' \in Nat /\ UNCHANGED <<quote, order, crashes, scenario>> /\ Grows(doc[d], row)
    BY <1>1, <1>5, <2>2, Working
  <2> HIDE DEF row
  <2> QED
    BY <1>2, <1>3, <1>6, <2>1, <2>2, <2>3, DocStep
<1> QED
  BY <1>1, <1>7, <1>8

\* A line after a delivery was counted.
LEMMA CountedLine ==
  ASSUME NEW lines \in SUBSET OrderLine, NEW request \in Seq(DocLine), NEW l \in Counted(lines, request)
  PROVE  /\ l.no \in 1..4 /\ l.qty \in 1..MaxLine /\ l.qty \in Nat /\ l.done \in Nat
         /\ l.done <= l.qty => l \in OrderLine
         /\ \E k \in lines : /\ l.no = k.no /\ l.qty = k.qty /\ l.done = k.done + On(request, l.no)
                             /\ k.done \in Nat
<1>1. PICK k \in lines : l = [k EXCEPT !.done = @ + On(request, k.no)]
  BY DEF Counted
<1>2. k \in OrderLine
  OBVIOUS
<1>3. /\ k.no \in 1..4 /\ k.qty \in 1..MaxLine /\ k.qty \in Nat /\ k.done \in Nat
      /\ k = [no |-> k.no, qty |-> k.qty, done |-> k.done] /\ MaxLine \in Nat
  BY <1>2, SalesAssumption DEF OrderLine
<1>4. On(request, k.no) \in Nat
  BY QuantityNat
<1>5. /\ l.no = k.no /\ l.qty = k.qty /\ l.done = k.done + On(request, k.no)
      /\ l = [no |-> l.no, qty |-> l.qty, done |-> l.done]
  BY <1>1, <1>2 DEF OrderLine
<1>6. ASSUME l.done <= l.qty PROVE l \in OrderLine
  <2>1. l.no \in 1..4 /\ l.qty \in 1..MaxLine /\ l.done \in 0..MaxLine
    BY <1>3, <1>4, <1>5, <1>6
  <2> HIDE <1>1
  <2> QED
    BY <1>5, <2>1 DEF OrderLine
<1> QED
  BY <1>3, <1>4, <1>5, <1>6

\* create_delivery commits its counters and its lines at once, so the counters stay
\* covered.
LEMMA CountDeliveryKept ==
  ASSUME IInv, NEW t \in Tasks, CountDelivery(t)
  PROVE  IInv'
<1> DEFINE me == task[t]
           o == task[t].o
           d == task[t].d
           request == me.doc.lines
           after == Counted(me.order.lines, request)
           written == {l \in after : On(request, l.no) > 0}
           counts == /\ Fits(me.order.lines, request)
                     /\ \A l \in written : \E k \in order[o].lines : k.no = l.no
           orow == [order[o] EXCEPT
                      !.lines = {l \in @ : \A k \in written : k.no # l.no} \cup written,
                      !.status = IF StatusAfter(after) = me.order.status THEN @
                                 ELSE StatusAfter(after)]
           drow == [doc[d] EXCEPT !.lines = request]
<1>1. /\ Doing(t, "count") /\ UNCHANGED <<quote, stock, crashes, scenario>>
      /\ counts \/ (Stop(t) /\ UNCHANGED <<order, doc>>)
      /\ counts => /\ order' = [order EXCEPT
                        ![o].lines = {l \in @ : \A k \in written : k.no # l.no} \cup written,
                        ![o].status = IF StatusAfter(after) = me.order.status THEN @
                                      ELSE StatusAfter(after)]
                   /\ doc' = [doc EXCEPT ![d].lines = request]
                   /\ Go(t, me)
  BY DEF CountDelivery
<1>2. me.op = "deliver" /\ me.todo = Counting /\ me.pc # "idle" /\ me.pc = "work"
  BY <1>1, Doings, Doer DEF Acts
<1>3. me.op \in Carriers /\ Creating(t)
  BY <1>2 DEF Carriers, Creating
<1>4. d \in Docs /\ o \in Orders /\ me \in Task
  BY <1>2, <1>3, Working DEF Knows
<1>5. /\ doc[d].kind = me.doc.kind /\ doc[d].kind = "delivery" /\ doc[d].order = o
      /\ doc[d].lines = << >>
      /\ me.linked => doc[d].lines # << >>
  BY <1>2, <1>3, Working DEF Carries, Booked
<1>6. /\ doc[d] \in Document /\ me.doc \in Document /\ me.order \in Order /\ order[o] \in Order
      /\ me.linked \in BOOLEAN
  BY <1>4, Working, TaskFields
<1>7. request \in Seq(DocLine) /\ me.order.lines \in SUBSET OrderLine
      /\ order[o].lines \in SUBSET OrderLine
  BY <1>6 DEF Document, Order
<1>8. CASE ~ counts
  BY <1>1, <1>2, <1>8, StopStep, Working
<1>9. CASE counts
  <2> HIDE DEF request
  <2>1. \A l \in written : l \in OrderLine /\ l.done <= l.qty
    <3>1. \A l \in after : l.done <= l.qty
      BY <1>9 DEF Fits
    <3> QED
      BY <1>7, <3>1, CountedLine
  <2>2. orow \in Order /\ orow.lines = {l \in order[o].lines : \A k \in written : k.no # l.no} \cup written
    <3> HIDE DEF after, written
    <3>1. StatusAfter(after) \in {"Fully Delivered", "Partially Delivered"}
      BY DEF StatusAfter
    <3> QED
      BY <1>6, <2>1, <3>1 DEF Order
  <2>3. order' = [order EXCEPT ![o] = orow]
    <3> HIDE DEF after, written
    <3> QED
      BY <1>1, <1>4, <1>9, Working DEF Order
  <2>4. doc' = [doc EXCEPT ![d] = drow]
    BY <1>1, <1>4, <1>9, Working
  <2>5. /\ drow \in Document /\ drow.kind = "delivery" /\ drow.order = o /\ drow.lines = request
        /\ Grows(doc[d], drow) /\ (drow.linked => doc[d].linked)
    BY <1>5, <1>6, <1>7, WithLines
  <2> HIDE DEF orow, drow
  <2>6. /\ order' \in [Orders -> Order] /\ order'[o] = orow
        /\ \A p \in Orders \ {o} : order'[p] = order[p]
        /\ doc' \in [Docs -> Document] /\ doc'[d] = drow
        /\ \A e \in Docs \ {d} : doc'[e] = doc[e] /\ doc[e] \in Document
    BY <1>4, <2>2, <2>3, <2>4, <2>5, Working
  <2>7. /\ task' \in [Tasks -> Task] /\ \A u \in Tasks \ {t} : task'[u] = task[u]
        /\ task'[t].op = me.op /\ task'[t].o = o /\ task'[t].d = d
        /\ task'[t].doc = me.doc /\ task'[t].linked = me.linked
        /\ task'[t].todo = Tail(Counting)
        /\ Knows(t)' /\ Loaded(t)' /\ ~ Creating(t)'
    <3>1. me = [me EXCEPT !.linked = me.linked] /\ me.todo # Finishing /\ Go(t, me)
      <4>1. me.todo # Finishing
        BY <1>2, Apart
      <4> QED
        BY <1>1, <1>4, <1>9, <4>1, SameTask
    <3> HIDE DEF me, o, d, after, written
    <3>2. /\ task' \in [Tasks -> Task] /\ \A u \in Tasks \ {t} : task'[u] = task[u]
          /\ task'[t].op = task[t].op /\ task'[t].o = task[t].o /\ task'[t].d = task[t].d
          /\ task'[t].doc = task[t].doc /\ task'[t].linked = me.linked
          /\ task'[t].todo = Tail(task[t].todo)
          /\ Knows(t)' /\ Loaded(t)' /\ ~ Creating(t)'
      BY <1>2, <1>6, <3>1, GoesOn DEF me
    <3> QED
      BY <1>2, <3>2 DEF me, o, d
  <2>8. Carries(t)'
    <3>1. task'[t].todo = Drafting /\ Drafting \notin {Approving, Posting}
      BY <2>7, Scripts, Apart
    <3>2. ~ task'[t].linked
      BY <1>5, <2>7
    <3>3. /\ doc'[d].kind = "delivery" /\ doc'[d].order = o /\ doc'[d].lines = request
          /\ task'[t].doc.kind = "delivery" /\ task'[t].doc.lines = request
          /\ task'[t].d = d /\ task'[t].o = o /\ task'[t].op = "deliver"
      BY <1>2, <1>5, <2>5, <2>6, <2>7 DEF request
    <3> HIDE DEF me, o, d, after, written
    <3> QED
      BY <2>7, <3>1, <3>2, <3>3 DEF Carries, Missing
  <2>9. Rows(t)
    <3>1. doc'[d].kind = doc[d].kind /\ doc'[d].order = doc[d].order /\ Grows(doc[d], doc'[d])
      BY <1>5, <2>5, <2>6
    <3>2. \A e \in Docs \ {d} : doc'[e] = doc[e] /\ Grows(doc[e], doc'[e])
      <4> HIDE DEF d
      <4> QED
        BY <2>6, GoodsStay
    <3> HIDE DEF me, o, after, written
    <3> QED
      BY <1>3, <2>7, <3>1, <3>2 DEF Rows, me
  <2>10. ASSUME NEW p \in Orders, p = o, NEW l \in written
         PROVE  l.done <= l.qty /\ l.done <= DeliveredOn(p, l.no)'
    <3>1. PICK k \in me.order.lines : l.no = k.no /\ l.done = k.done + On(request, l.no) /\ k.done \in Nat
      BY <1>7, CountedLine
    <3>2. k.done <= DeliveredOn(p, k.no)
      BY <1>2, <2>10, Working DEF Loaded
    <3>3. /\ DeliveredOn(p, l.no) \in Nat
          /\ DeliveredOn(p, l.no)' = DeliveredOn(p, l.no) - Share(doc[d], p, l.no)
                                       + Share(doc'[d], p, l.no)
      <4>1. doc \in [Docs -> Document] /\ doc' \in [Docs -> Document] /\ d \in Docs
        BY <1>4, <2>6, Working
      <4>2. \A e \in Docs \ {d} : doc'[e] = doc[e]
        BY <2>6
      <4> HIDE DEF o, d, me, after, written
      <4> QED
        BY <4>1, <4>2, DeliveredBy
    <3>4. Share(doc[d], p, l.no) = 0 /\ Share(doc'[d], p, l.no) = On(request, l.no)
      BY <1>5, <2>5, <2>6, <2>10, NothingNamed DEF Share
    <3>5. On(request, l.no) \in Nat
      BY <1>7, QuantityNat
    <3>6. DeliveredOn(p, l.no)' = DeliveredOn(p, l.no) + On(request, l.no)
      BY <3>3, <3>4, <3>5
    <3>7. k.done <= DeliveredOn(p, l.no)
      BY <3>1, <3>2
    <3>8. l.done <= l.qty
      BY <2>1
    <3> HIDE DEF o, d, me, after, written
    <3> QED
      BY <3>1, <3>3, <3>5, <3>6, <3>7, <3>8
  <2>11. \A p \in Orders : \A l \in order'[p].lines :
           \/ l \in order[p].lines \/ l.done = 0
           \/ l.done <= l.qty /\ l.done <= DeliveredOn(p, l.no)'
    <3>1. ASSUME NEW p \in Orders, NEW l \in order'[p].lines
          PROVE  \/ l \in order[p].lines
                 \/ l.done <= l.qty /\ l.done <= DeliveredOn(p, l.no)'
      <4>1. p # o => l \in order[p].lines
        BY <2>6
      <4>2. p = o => l \in order[p].lines \/ l \in written
        BY <2>2, <2>6
      <4> HIDE DEF o, written
      <4> QED
        BY <2>10, <4>1, <4>2
    <3> QED
      BY <3>1
  <2>12. \A e \in Docs : doc'[e].linked => doc[e].linked
    <3> HIDE DEF d
    <3> QED
      BY <2>5, <2>6
  <2>13. TypeOK'
    BY <1>1, <2>6, <2>7, Working DEF TypeOK
  <2>14. task[t].pc # "idle" /\ UNCHANGED scenario
    BY <1>1, <1>2
  <2> HIDE DEF me, o, d, after, written
  <2> QED
    BY <2>7, <2>8, <2>9, <2>11, <2>12, <2>13, <2>14, StepKept
<1> QED
  BY <1>8, <1>9

\* Nothing happens.
LEMMA StutterKept ==
  ASSUME IInv, UNCHANGED vars
  PROVE  IInv'
<1>1. TypeOK'
  BY DEF IInv, TypeOK, vars
<1>2. \A o, no : DeliveredOn(o, no)' = DeliveredOn(o, no)
  BY DEF vars, DeliveredOn
<1>3. ASSUME NEW t \in Tasks PROVE Knows(t)' /\ Carries(t)' /\ Loaded(t)'
  <2>1. \A u \in Tasks : Creating(u)' <=> Creating(u)
    BY DEF vars, Creating
  <2>2. Knows(t) /\ Carries(t) /\ Loaded(t) /\ task' = task /\ doc' = doc
    BY Working DEF vars
  <2>3. Knows(t)' /\ Loaded(t)'
    BY <1>2, <2>2 DEF Knows, Loaded
  <2>4. Carries(t)'
    BY <2>1, <2>2 DEF Carries
  <2> QED
    BY <2>3, <2>4
<1>4. Alone'
  BY DEF IInv, Alone, OneAtATime, vars
<1>5. (\A o \in Orders : Covered(o)') /\ (\A d \in Docs : Linked(d)')
  BY <1>2 DEF IInv, Covered, Linked, vars
<1> QED
  BY <1>1, <1>3, <1>4, <1>5 DEF IInv, Handling

\* Any step.
LEMMA NextKept ==
  ASSUME IInv, [Next]_vars
  PROVE  IInv'
<1>1. ASSUME NEW t \in Tasks, Step(t) PROVE IInv'
  BY <1>1, BeginQuoteStepKept, BeginOrderStepKept, BeginDocStepKept, WriteStatusKept,
     RewriteOrderKept, CreateQuoteKept, CloneQuoteKept, WriteQuoteLinesKept, ReviseQuoteKept,
     CreateOrderKept, ConvertKept, WriteOrderLinesKept, RefuseLinesKept, BeginExpiryKept,
     ExpireKept, BeginDeliveryKept, CountDeliveryKept, BeginReturnKept, WriteReturnLinesKept,
     DraftGoodsKept, ApproveGoodsKept, PostGoodsKept, SwallowFailureKept, FailDeliveryKept,
     FinishDocumentKept, WarehousePostsKept, WarehouseEditsKept, CrashKept
     DEF Step
<1> QED
  BY <1>1, StutterKept DEF Next

\* The lines that are there at the start.
LEMMA FirstLines ==
  ASSUME scenario \in Scenarios, NEW lines \in NewLines(1)
  PROVE  /\ lines \in SUBSET OrderLine /\ Numbered(lines)
         /\ \A l \in lines : l.done = 0 /\ l.no \in 1..4 /\ l.qty \in Nat
<1>1. scenario.lines \in {1, 2}
  BY SalesAssumption DEF Scenario
<1>2. lines \in SUBSET [no: 1 .. 1 + scenario.lines - 1, qty: 1..MaxLine, done: {0}]
      /\ Numbered(lines)
  BY DEF NewLines, Numbered
<1>3. ASSUME NEW l \in lines PROVE l.done = 0 /\ l \in OrderLine /\ l.no \in 1..4 /\ l.qty \in Nat
  <2>1. l \in [no: 1 .. 1 + scenario.lines - 1, qty: 1..MaxLine, done: {0}]
    BY <1>2
  <2>2. 1 .. 1 + scenario.lines - 1 \subseteq 1..4
    BY <1>1
  <2>3. 0 \in 0..MaxLine /\ MaxLine \in Nat
    BY SalesAssumption
  <2> QED
    BY <2>1, <2>2, <2>3 DEF OrderLine
<1> QED
  BY <1>2, <1>3

\* Nothing has been delivered at the start.
LEMMA NothingYet ==
  ASSUME doc = [d \in Docs |-> NoDoc]
  PROVE  \A o, no : DeliveredOn(o, no) = 0
<1>1. ASSUME NEW o, NEW no PROVE DeliveredOn(o, no) = 0
  <2>1. {d \in Docs : doc[d].kind = "delivery" /\ doc[d].order = o} = {}
    BY DEF NoDoc, Missing
  <2>2. DeliveredOn(o, no) = SumOver([d \in Docs |-> On(doc[d].lines, no)], {})
    BY <2>1, SumIs DEF DeliveredOn
  <2> QED
    BY <2>2, SumEmpty
<1> QED
  BY <1>1

\* At first nobody is at work, there are no documents and nothing is delivered.
LEMMA InitHolds == Init => IInv
<1> SUFFICES ASSUME Init PROVE IInv
  OBVIOUS
<1>1. scenario \in Scenarios /\ scenario \in Scenario /\ crashes = 0 /\ scenario.crashes \in Nat
  BY SalesAssumption DEF Init, Scenario
<1>2. PICK first \in Orders, lines \in NewLines(1) :
        order = [o \in Orders |->
          IF scenario.begin = "order" /\ o = first
          THEN [status |-> "Approved", quote |-> Missing, whole |-> TRUE, lines |-> lines]
          ELSE NoOrder]
  BY DEF Init
<1>3. /\ lines \in SUBSET OrderLine
      /\ \A l \in lines : l.done = 0 /\ l.no \in 1..4 /\ l.qty \in Nat
  BY <1>1, FirstLines
<1>4. \A o \in Orders : order[o] \in Order /\ (order[o].lines = lines \/ order[o].lines = {})
  <2>1. [status |-> "Approved", quote |-> Missing, whole |-> TRUE, lines |-> lines] \in Order
    BY <1>3 DEF Order
  <2> QED
    BY <1>2, <2>1, NoRows DEF NoOrder
<1>5. doc = [d \in Docs |-> NoDoc] /\ task = [t \in Tasks |-> Resting]
  BY DEF Init
<1>6. order \in [Orders -> Order] /\ 0 \in 0..scenario.crashes
  <2>1. order = [o \in Orders |-> order[o]]
    BY <1>2
  <2>2. 0 \in 0..scenario.crashes
    BY <1>1
  <2> QED
    BY <1>4, <2>1, <2>2
<1>7. TypeOK
  <2> HIDE DEF Resting
  <2>1. task \in [Tasks -> Task] /\ doc \in [Docs -> Document]
    BY <1>5, NoRows, RestingType
  <2>2. stock \in Nat /\ quote \in [Quotes -> Quote]
    BY NoRows, SalesAssumption DEF Init
  <2> QED
    BY <1>1, <1>6, <2>1, <2>2 DEF TypeOK
<1>8. ASSUME NEW t \in Tasks PROVE Knows(t) /\ Carries(t) /\ Loaded(t)
  <2>1. task[t] = Resting /\ task[t].op = Missing
    BY <1>5 DEF Resting
  <2> HIDE DEF Resting
  <2>2. /\ Missing \notin Ops /\ Missing \notin Carriers
        /\ Missing \notin QuoteSteps \cup {"revise", "quote", "clone"}
        /\ Missing \notin OrderSteps \cup {"update", "order", "convert"}
        /\ Missing # "expire" /\ Missing \notin Carriers \cup {"cancel delivery"}
        /\ Missing # "deliver" /\ task[t].pc # "work"
    BY <2>1 DEF Missing, Ops, QuoteOps, OrderOps, DocOps, Carriers, QuoteSteps, OrderSteps, Resting
  <2> QED
    BY <2>1, <2>2 DEF Knows, Carries, Loaded
<1>9. Alone
  <2>1. \A t \in Tasks : task[t].pc = "idle"
    BY <1>5 DEF Resting
  <2> QED
    BY <2>1 DEF Alone
<1>10. \A o \in Orders : Covered(o)
  <2>1. ASSUME NEW o \in Orders, NEW l \in order[o].lines
        PROVE  l.done <= l.qty /\ l.done <= DeliveredOn(o, l.no)
    <3>1. l.done = 0 /\ l.qty \in Nat
      BY <1>3, <1>4, <2>1
    <3>2. DeliveredOn(o, l.no) = 0
      BY <1>5, NothingYet
    <3> QED
      BY <3>1, <3>2
  <2> QED
    BY <2>1 DEF Covered
<1>11. \A d \in Docs : Linked(d)
  BY <1>5 DEF Linked, NoDoc
<1> QED
  BY <1>7, <1>8, <1>9, <1>10, <1>11 DEF IInv, Handling

----------------------------------------------------------------------------
(* Steps, one handler at a time *)

\* The others are at rest.
LEMMA OthersRest ==
  ASSUME IInv, OneAtATime, NEW t \in Tasks, task[t].pc # "idle" \/ MayBegin(t)
  PROVE  \A u \in Tasks \ {t} : task[u] = Resting
<1>1. \A u \in Tasks \ {t} : task[u].pc = "idle"
  BY NobodyElse DEF IInv, Alone
<1> HIDE DEF Resting
<1> QED
  BY <1>1, Working DEF Knows

\* A handler at rest relies on nothing.
LEMMA RestingCurrent ==
  ASSUME NEW u \in Tasks, task'[u] = Resting
  PROVE  Current(u)'
<1>1. task'[u].op = Missing
  BY DEF Resting
<1>2. /\ Missing \notin QuoteSteps /\ Missing # "expire" /\ Missing \notin OrderSteps \cup {"update"}
      /\ Missing \notin {"order", "convert"} /\ Missing # "deliver" /\ Missing \notin Carriers
  BY DEF Missing, QuoteSteps, OrderSteps, Carriers
<1> QED
  BY <1>1, <1>2 DEF Current

\* What is orderly now.
LEMMA OrderlyNow ==
  ASSUME Orderly, OneAtATime
  PROVE  /\ \A t \in Tasks : Current(t)
         /\ \A o \in Orders : Exact(o)
         /\ \A d \in Docs : Moved(d)
         /\ \A q \in Quotes : Converted(q)
BY DEF Orderly

\* What a step has to show.
LEMMA OrderlyStep ==
  ASSUME IInv, OneAtATime, NEW t \in Tasks, task[t].pc # "idle" \/ MayBegin(t),
         \A u \in Tasks \ {t} : task'[u] = task[u],
         Current(t)', \A o \in Orders : Exact(o)', \A d \in Docs : Moved(d)',
         \A q \in Quotes : Converted(q)'
  PROVE  Orderly'
<1>1. \A u \in Tasks \ {t} : task'[u] = Resting
  BY OthersRest
<1>2. \A u \in Tasks : Current(u)'
  BY <1>1, RestingCurrent
<1> QED
  BY <1>2 DEF Orderly

\* An order that stays, with what is delivered of it.
LEMMA ExactKept ==
  ASSUME NEW o \in Orders, Exact(o), order'[o] = order[o],
         \A no : DeliveredOn(o, no)' = DeliveredOn(o, no)
  PROVE  Exact(o)'
BY DEF Exact

\* A document whose goods stay.
LEMMA MovedKept ==
  ASSUME NEW d \in Docs, Moved(d), doc'[d].lines = doc[d].lines, doc'[d].goods = doc[d].goods,
         doc'[d].moved = doc[d].moved, doc'[d].named = doc[d].named, doc'[d].kind = doc[d].kind,
         doc'[d].status = "Draft" => doc[d].status = "Draft"
  PROVE  Moved(d)'
BY DEF Moved

\* A quotation that stays converted or unconverted, with the same orders.
LEMMA ConvertedKept ==
  ASSUME NEW q \in Quotes, Converted(q), Whole(q)' = Whole(q),
         quote'[q].status = "Converted" <=> quote[q].status = "Converted"
  PROVE  Converted(q)'
BY DEF Converted

\* Rows that nobody touches.
LEMMA DocsSame ==
  ASSUME UNCHANGED doc
  PROVE  /\ \A o, no : DeliveredOn(o, no)' = DeliveredOn(o, no)
         /\ \A d \in Docs : Moved(d) => Moved(d)'
BY DEF DeliveredOn, Moved

\* While no order changes, the orders that completed a conversion are the same.
LEMMA OrdersSame ==
  ASSUME UNCHANGED order
  PROVE  \A q : Whole(q)' = Whole(q)
BY DEF Whole

\* A step of a handler alone.
LEMMA TaskOrderly ==
  ASSUME IInv, OneAtATime, Orderly, NEW t \in Tasks, task[t].pc # "idle" \/ MayBegin(t),
         \A u \in Tasks \ {t} : task'[u] = task[u], UNCHANGED <<order, doc>>,
         \A q \in Quotes : quote'[q].status = "Converted" <=> quote[q].status = "Converted",
         Current(t)'
  PROVE  Orderly'
<1>1. /\ \A o \in Orders : Exact(o)
      /\ \A d \in Docs : Moved(d)
      /\ \A q \in Quotes : Converted(q)
  BY OrderlyNow
<1>2. \A o \in Orders : Exact(o)'
  <2>1. \A o, no : DeliveredOn(o, no)' = DeliveredOn(o, no)
    BY DocsSame
  <2> QED
    BY <1>1, <2>1, ExactKept
<1>3. \A d \in Docs : Moved(d)'
  BY <1>1, DocsSame
<1>4. \A q \in Quotes : Converted(q)'
  <2>1. \A q : Whole(q)' = Whole(q)
    BY OrdersSame
  <2> QED
    BY <1>1, <2>1, ConvertedKept
<1> QED
  BY <1>2, <1>3, <1>4, OrderlyStep

\* A handler that ends and changes no order and no document.
LEMMA StopOrderly ==
  ASSUME IInv, OneAtATime, Orderly, NEW t \in Tasks, task[t].pc # "idle", Stop(t),
         UNCHANGED <<order, doc>>,
         \A q \in Quotes : quote'[q].status = "Converted" <=> quote[q].status = "Converted"
  PROVE  Orderly'
<1>1. task'[t] = Resting /\ \A u \in Tasks \ {t} : task'[u] = task[u]
  BY Rests
<1>2. Current(t)'
  BY <1>1, RestingCurrent
<1> HIDE DEF Resting
<1> QED
  BY <1>1, <1>2, TaskOrderly

\* The documents deliver the same when those with lines stay what they are.
LEMMA DeliversSame ==
  ASSUME doc \in [Docs -> Document], doc' \in [Docs -> Document],
         \A d \in Docs : /\ doc'[d].lines = doc[d].lines
                         /\ doc[d].lines # << >> =>
                              doc'[d].kind = doc[d].kind /\ doc'[d].order = doc[d].order
  PROVE  \A o, no : DeliveredOn(o, no)' = DeliveredOn(o, no)
<1>1. ASSUME NEW o, NEW no PROVE DeliveredOn(o, no)' = DeliveredOn(o, no)
  <2>1. \A d \in Docs : Share(doc'[d], o, no) = Share(doc[d], o, no)
    BY NothingNamed DEF Share
  <2>2. Delivered(doc', o, no) = Delivered(doc, o, no)
    BY <2>1 DEF Delivered
  <2>3. (doc \in [Docs -> Document])'
    OBVIOUS
  <2> QED
    BY <2>2, <2>3, DeliveredOnIs
<1> QED
  BY <1>1

\* A handler that starts, and the others.
LEMMA Starts ==
  ASSUME IInv, NEW t \in Tasks, NEW me, task' = [task EXCEPT ![t] = me]
  PROVE  task'[t] = me /\ \A u \in Tasks \ {t} : task'[u] = task[u]
BY Working

\* BeginQuoteStep: a quotation was loaded before it could be Converted.
LEMMA BeginQuoteStepOrderly ==
  ASSUME IInv, OneAtATime, Orderly, NEW t \in Tasks, BeginQuoteStep(t)
  PROVE  Orderly'
<1>1. PICK op \in scenario.ops, q \in Quotes :
        /\ MayQuote(op, quote[q])
        /\ Start(t, [Resting EXCEPT !.op = op, !.q = q, !.quote = quote[q],
                                    !.todo = <<IF op = "revise" THEN "revise" ELSE "status">>])
  BY DEF BeginQuoteStep
<1>2. op \in QuoteSteps \cup {"revise"} /\ (op \in QuoteSteps => quote[q].status # "Converted")
  BY <1>1 DEF MayQuote, QuoteSteps
<1>3. /\ task'[t].op = op /\ task'[t].q = q
      /\ \A u \in Tasks \ {t} : task'[u] = task[u]
  <2> DEFINE todo == <<IF op = "revise" THEN "revise" ELSE "status">>
             me == [[Resting EXCEPT !.op = op, !.q = q, !.quote = quote[q], !.todo = todo]
                     EXCEPT !.pc = "work"]
  <2>1. task' = [task EXCEPT ![t] = me]
    BY <1>1 DEF Start
  <2> HIDE DEF todo
  <2>2. me.op = op /\ me.q = q /\ me.todo = todo
    BY DEF Resting
  <2> HIDE DEF me
  <2> QED
    BY <2>1, <2>2, Starts
<1>4. Current(t)'
  BY <1>2, <1>3 DEF Current, QuoteSteps, OrderSteps, Carriers, BeginQuoteStep
<1> QED
  BY <1>3, <1>4, TaskOrderly DEF BeginQuoteStep

\* BeginOrderStep: the order a handler loaded is the stored one.
LEMMA BeginOrderStepOrderly ==
  ASSUME IInv, OneAtATime, Orderly, NEW t \in Tasks, BeginOrderStep(t)
  PROVE  Orderly'
<1>1. PICK op \in scenario.ops, o \in Orders :
        /\ MayOrder(op, order[o])
        /\ \E new \in IF op = "update" THEN NewLines(3) ELSE {{}} :
             Start(t, [Resting EXCEPT !.op = op, !.o = o, !.order = order[o], !.new = new,
                         !.todo = <<IF op = "update" THEN "rewrite" ELSE "status">>])
  BY DEF BeginOrderStep
<1>2. op \in OrderSteps \cup {"update"}
  BY <1>1 DEF MayOrder, OrderSteps
<1>3. PICK new \in IF op = "update" THEN NewLines(3) ELSE {{}} :
        Start(t, [Resting EXCEPT !.op = op, !.o = o, !.order = order[o], !.new = new,
                    !.todo = <<IF op = "update" THEN "rewrite" ELSE "status">>])
  BY <1>1
<1>4. Numbered(new)
  <2>1. Numbered({})
    BY DEF Numbered
  <2> QED
    BY <2>1, NewLinesAre
<1>5. /\ task'[t].op = op /\ task'[t].o = o /\ task'[t].order = order[o] /\ task'[t].new = new
      /\ \A u \in Tasks \ {t} : task'[u] = task[u]
  <2> DEFINE todo == <<IF op = "update" THEN "rewrite" ELSE "status">>
             me == [[Resting EXCEPT !.op = op, !.o = o, !.order = order[o], !.new = new, !.todo = todo]
                     EXCEPT !.pc = "work"]
  <2>1. task' = [task EXCEPT ![t] = me]
    BY <1>3 DEF Start
  <2> HIDE DEF todo
  <2>2. me.op = op /\ me.o = o /\ me.order = order[o] /\ me.new = new /\ me.todo = todo
    BY DEF Resting
  <2> HIDE DEF me
  <2> QED
    BY <2>1, <2>2, Starts
<1>6. Current(t)'
  <2>1. order' = order
    BY DEF BeginOrderStep
  <2>2. MayOrder(op, order[o])
    BY <1>1
  <2> QED
    BY <1>2, <1>4, <1>5, <2>1, <2>2 DEF Current, QuoteSteps, OrderSteps, Carriers
<1> QED
  BY <1>5, <1>6, TaskOrderly DEF BeginOrderStep

\* BeginDocStep: a return that is approved was a draft, without goods.
LEMMA BeginDocStepOrderly ==
  ASSUME IInv, OneAtATime, Orderly, NEW t \in Tasks, BeginDocStep(t)
  PROVE  Orderly'
<1>1. PICK op \in scenario.ops, d \in Docs :
        /\ MayDoc(op, doc[d])
        /\ Start(t, [Resting EXCEPT !.op = op, !.d = d, !.doc = doc[d],
                       !.todo = IF op = "cancel delivery" THEN <<"status">>
                                ELSE <<"status", "draft", "sign", "post", "finish">>])
  BY DEF BeginDocStep
<1>2. /\ op \in {"cancel delivery", "approve return"}
      /\ op = "approve return" => doc[d].kind = "return" /\ doc[d].status = "Draft"
  BY <1>1 DEF MayDoc
<1>3. op = "approve return" => doc[d].goods = Missing
  BY <1>2, OrderlyNow DEF Moved
<1>4. /\ task'[t].op = op /\ task'[t].d = d
      /\ op = "approve return" => task'[t].todo = Signing
      /\ \A u \in Tasks \ {t} : task'[u] = task[u]
  <2> DEFINE todo == IF op = "cancel delivery" THEN <<"status">>
                     ELSE <<"status", "draft", "sign", "post", "finish">>
             me == [[Resting EXCEPT !.op = op, !.d = d, !.doc = doc[d], !.todo = todo]
                     EXCEPT !.pc = "work"]
  <2>0. op = "approve return" => todo = Signing
    BY DEF Signing
  <2>1. task' = [task EXCEPT ![t] = me]
    BY <1>1 DEF Start
  <2> HIDE DEF todo
  <2>2. me.op = op /\ me.d = d /\ me.todo = todo
    BY DEF Resting
  <2> HIDE DEF me
  <2> QED
    BY <2>0, <2>1, <2>2, Starts
<1>5. Current(t)'
  <2>1. doc' = doc
    BY DEF BeginDocStep
  <2> QED
    BY <1>2, <1>3, <1>4, <2>1, Apart DEF Current, QuoteSteps, OrderSteps, Carriers
<1> QED
  BY <1>4, <1>5, TaskOrderly DEF BeginDocStep

\* What is due is Submitted, so not Converted.
LEMMA BeginExpiryOrderly ==
  ASSUME IInv, OneAtATime, Orderly, NEW t \in Tasks, BeginExpiry(t)
  PROVE  Orderly'
<1>1. PICK due \in SUBSET {q \in Quotes : quote[q].status = "Submitted"} \ {{}} :
        Start(t, [Resting EXCEPT !.op = "expire", !.due = due])
  BY DEF BeginExpiry
<1>2. /\ task'[t].op = "expire" /\ task'[t].due = due
      /\ \A u \in Tasks \ {t} : task'[u] = task[u]
  <2> DEFINE me == [[Resting EXCEPT !.op = "expire", !.due = due] EXCEPT !.pc = "work"]
  <2>1. task' = [task EXCEPT ![t] = me]
    BY <1>1 DEF Start
  <2>2. me.op = "expire" /\ me.due = due
    BY DEF Resting
  <2> HIDE DEF me
  <2> QED
    BY <2>1, <2>2, Starts
<1>3. Current(t)'
  <2>1. quote' = quote /\ \A q \in due : quote[q].status = "Submitted"
    BY DEF BeginExpiry
  <2> QED
    BY <1>2, <2>1 DEF Current, QuoteSteps, OrderSteps, Carriers
<1> QED
  BY <1>2, <1>3, TaskOrderly DEF BeginExpiry

\* The header that remains converts nothing and counts nothing.
LEMMA RefuseLinesOrderly ==
  ASSUME IInv, OneAtATime, Orderly, NEW t \in Tasks, RefuseLines(t)
  PROVE  Orderly'
<1>1. task[t].pc # "idle"
  BY Doer DEF RefuseLines
<1> QED
  BY <1>1, StopOrderly DEF RefuseLines

\* A lost handler leaves rows that agree.
LEMMA CrashOrderly ==
  ASSUME IInv, OneAtATime, Orderly, NEW t \in Tasks, Crash(t)
  PROVE  Orderly'
<1>1. task[t].pc # "idle"
  BY DEF Crash
<1> QED
  BY <1>1, StopOrderly DEF Crash

\* Goods that were not posted have not moved.
LEMMA SwallowFailureOrderly ==
  ASSUME IInv, OneAtATime, Orderly, NEW t \in Tasks, SwallowFailure(t)
  PROVE  Orderly'
<1>1. /\ task[t].op = "approve return" /\ task[t].pc # "idle"
      /\ task[t].todo \in {Drafting, Posting}
  BY Doings, Doer DEF SwallowFailure, GoodsRefused, Acts
<1>2. /\ task'[t].op = task[t].op /\ task'[t].d = task[t].d /\ task'[t].todo = Finishing
      /\ \A u \in Tasks \ {t} : task'[u] = task[u]
  BY Working DEF SwallowFailure, Finishing, Task
<1>3. task[t].op = "approve return" => doc[task[t].d].status # "Draft"
  <2>1. task[t].todo \in Later /\ Current(t)
    BY <1>1, OrderlyNow DEF Later
  <2> QED
    BY <2>1 DEF Current, Carriers
<1>4. Current(t)'
  <2>1. doc' = doc /\ Finishing # Counting
    BY Apart DEF SwallowFailure
  <2> QED
    BY <1>1, <1>2, <1>3, <2>1, Apart DEF Current, QuoteSteps, OrderSteps, Carriers
<1> QED
  BY <1>1, <1>2, <1>4, TaskOrderly DEF SwallowFailure

\* A delivery that fails leaves what it counted.
LEMMA FailDeliveryOrderly ==
  ASSUME IInv, OneAtATime, Orderly, NEW t \in Tasks, FailDelivery(t)
  PROVE  Orderly'
<1>1. task[t].pc # "idle"
  BY Doer DEF FailDelivery, GoodsRefused
<1> QED
  BY <1>1, StopOrderly DEF FailDelivery

----------------------------------------------------------------------------
(* Quotations *)

\* A new quotation is a draft, and no order names it.
LEMMA QuoteHeaderOrderly ==
  ASSUME IInv, OneAtATime, Orderly, NEW t \in Tasks, NEW op \in {"quote", "clone"}, NEW lines,
         MayBegin(t), QuoteHeader(t, op, lines), UNCHANGED <<order, doc>>
  PROVE  Orderly'
<1>1. PICK q \in Quotes :
        /\ FreeQuote(q)
        /\ quote' = [quote EXCEPT ![q].status = "Draft"]
        /\ Start(t, [Resting EXCEPT !.op = op, !.q = q, !.quote.lines = lines, !.todo = <<"quote">>])
  BY DEF QuoteHeader
<1>2. quote[q].status # "Converted"
  BY <1>1 DEF FreeQuote, NoQuote, Missing
<1>3. \A p \in Quotes : quote'[p].status = "Converted" <=> quote[p].status = "Converted"
  BY <1>1, <1>2, Working DEF Quote
<1>4. task'[t].op = op /\ \A u \in Tasks \ {t} : task'[u] = task[u]
  <2> DEFINE todo == <<"quote">>
             me == [[Resting EXCEPT !.op = op, !.q = q, !.quote.lines = lines, !.todo = todo]
                     EXCEPT !.pc = "work"]
  <2>1. task' = [task EXCEPT ![t] = me]
    BY <1>1 DEF Start
  <2> HIDE DEF todo
  <2>2. me.op = op /\ me.q = q /\ me.todo = todo
    BY DEF Resting
  <2> HIDE DEF me
  <2> QED
    BY <2>1, <2>2, Starts
<1>5. Current(t)'
  BY <1>4 DEF Current, QuoteSteps, OrderSteps, Carriers
<1> QED
  BY <1>3, <1>4, <1>5, TaskOrderly

\* create_quotation: a draft.
LEMMA CreateQuoteOrderly ==
  ASSUME IInv, OneAtATime, Orderly, NEW t \in Tasks, CreateQuote(t)
  PROVE  Orderly'
BY QuoteHeaderOrderly DEF CreateQuote

\* clone_quotation: a draft.
LEMMA CloneQuoteOrderly ==
  ASSUME IInv, OneAtATime, Orderly, NEW t \in Tasks, CloneQuote(t)
  PROVE  Orderly'
BY QuoteHeaderOrderly DEF CloneQuote

\* The lines of a quotation leave its status as it was.
LEMMA WriteQuoteLinesOrderly ==
  ASSUME IInv, OneAtATime, Orderly, NEW t \in Tasks, WriteQuoteLines(t)
  PROVE  Orderly'
<1>1. Doing(t, "quote") /\ task[t].pc # "idle" /\ task[t].todo = <<"quote">>
  BY Doings, Doer DEF WriteQuoteLines, Acts
<1>2. Stop(t)
  BY <1>1, Scripts DEF WriteQuoteLines, Go, Acts
<1>3. \A q \in Quotes : quote'[q].status = "Converted" <=> quote[q].status = "Converted"
  BY Working DEF WriteQuoteLines, Quote
<1> QED
  BY <1>1, <1>2, <1>3, StopOrderly DEF WriteQuoteLines

\* The lines of a quotation do not change its status.
LEMMA ReviseQuoteOrderly ==
  ASSUME IInv, OneAtATime, Orderly, NEW t \in Tasks, ReviseQuote(t)
  PROVE  Orderly'
<1>1. Doing(t, "revise") /\ task[t].pc # "idle" /\ task[t].todo = <<"revise">>
  BY Doings, Doer DEF ReviseQuote, Acts
<1>2. Stop(t)
  BY <1>1, Scripts DEF ReviseQuote, Go, Acts
<1>3. \A q \in Quotes : quote'[q].status = "Converted" <=> quote[q].status = "Converted"
  BY Working DEF ReviseQuote, Quote
<1> QED
  BY <1>1, <1>2, <1>3, StopOrderly DEF ReviseQuote

\* Alone, what is due is still not Converted when Expired is written.
LEMMA ExpireOrderly ==
  ASSUME IInv, OneAtATime, Orderly, NEW t \in Tasks, Expire(t)
  PROVE  Orderly'
<1>1. task[t].pc # "idle"
  <2>1. Resting.op # "expire"
    BY DEF Resting, Missing
  <2> QED
    BY <2>1, Working DEF Expire, Knows
<1>2. \A q \in task[t].due : quote[q].status # "Converted"
  BY OrderlyNow DEF Current, Expire
<1>3. \A q \in Quotes : quote'[q].status = "Converted" <=> quote[q].status = "Converted"
  BY <1>2, Working DEF Expire, Quote
<1> QED
  BY <1>1, <1>3, StopOrderly DEF Expire

----------------------------------------------------------------------------
(* Orders *)

\* A step that changes one order and no document.
LEMMA OrderOrderly ==
  ASSUME IInv, OneAtATime, Orderly, NEW t \in Tasks, task[t].pc # "idle" \/ MayBegin(t),
         \A u \in Tasks \ {t} : task'[u] = task[u], UNCHANGED doc,
         NEW o \in Orders, \A p \in Orders \ {o} : order'[p] = order[p], Exact(o)',
         \A q \in Quotes : Converted(q)', Current(t)'
  PROVE  Orderly'
<1>1. (\A p \in Orders : Exact(p)) /\ (\A d \in Docs : Moved(d))
  BY OrderlyNow
<1>2. (\A p, no : DeliveredOn(p, no)' = DeliveredOn(p, no)) /\ (\A d \in Docs : Moved(d)')
  BY <1>1, DocsSame
<1>3. \A p \in Orders : Exact(p)'
  BY <1>1, <1>2, ExactKept
<1> QED
  BY <1>2, <1>3, OrderlyStep

\* Conversions stay as they are when no order changes hands or is completed.
LEMMA WholeKept ==
  ASSUME Orderly, OneAtATime, UNCHANGED quote,
         \A p \in Orders : order'[p].whole = order[p].whole
                           /\ (order[p].whole => order'[p].quote = order[p].quote)
  PROVE  \A q \in Quotes : Converted(q)'
<1>1. \A q : Whole(q)' = Whole(q)
  BY DEF Whole
<1> QED
  BY <1>1, OrderlyNow, ConvertedKept

\* A new order has no lines and is not whole.
LEMMA OrderHeaderOrderly ==
  ASSUME IInv, OneAtATime, Orderly, NEW t \in Tasks, MayBegin(t), NEW op \in {"order", "convert"},
         NEW o \in Orders, NEW q \in Quotes \cup {Missing},
         q # Missing => quote[q].status = "Approved", OrderHeader(t, op, o, q),
         UNCHANGED <<quote, doc>>
  PROVE  Orderly'
<1> DEFINE row == [NoOrder EXCEPT !.status = "Draft", !.quote = q]
<1>1. PICK new \in NewLines(1) :
        Start(t, [Resting EXCEPT !.op = op, !.o = o, !.new = new, !.todo = <<"order">>])
  BY DEF OrderHeader
<1>2. Numbered(new)
  BY NewLinesAre
<1>3. /\ row.status = "Draft" /\ row.quote = q /\ row.lines = {} /\ ~ row.whole
      /\ order' = [order EXCEPT ![o] = row] /\ order[o] = NoOrder
  BY DEF NoOrder, OrderHeader, FreeOrder
<1> HIDE DEF row
<1>4. order'[o] = row /\ \A p \in Orders \ {o} : order'[p] = order[p]
  BY <1>3, Working
<1>5. /\ task'[t].op = op /\ task'[t].o = o /\ task'[t].new = new
      /\ \A u \in Tasks \ {t} : task'[u] = task[u]
  <2> DEFINE todo == <<"order">>
             me == [[Resting EXCEPT !.op = op, !.o = o, !.new = new, !.todo = todo]
                      EXCEPT !.pc = "work"]
  <2>1. task' = [task EXCEPT ![t] = me]
    BY <1>1 DEF Start
  <2> HIDE DEF todo
  <2>2. me.op = op /\ me.o = o /\ me.new = new
    BY DEF Resting
  <2> HIDE DEF me
  <2> QED
    BY <2>1, <2>2, Starts
<1>6. Current(t)'
  BY <1>2, <1>3, <1>4, <1>5 DEF Current, QuoteSteps, OrderSteps, Carriers
<1>7. Exact(o)'
  <2>1. \A no \in 1..4 : DeliveredOn(o, no)' = 0
    <3>1. Exact(o) /\ order[o].status = Missing
      BY <1>3, OrderlyNow DEF NoOrder
    <3>2. \A no \in 1..4 : DeliveredOn(o, no) = 0
      BY <3>1 DEF Exact
    <3> QED
      BY <3>2, DocsSame
  <2> QED
    BY <1>3, <1>4, <2>1 DEF Exact, Numbered
<1>8. \A p \in Orders : order'[p].whole = order[p].whole
                        /\ (order[p].whole => order'[p].quote = order[p].quote)
  <2>1. NoOrder.whole = FALSE /\ row.whole = FALSE
    BY DEF NoOrder, row
  <2>2. order[o].whole = FALSE /\ order'[o].whole = FALSE
    BY <1>3, <1>4, <2>1
  <2> QED
    BY <1>4, <2>2
<1>9. \A p \in Quotes : Converted(p)'
  BY <1>8, WholeKept
<1> QED
  BY <1>4, <1>5, <1>6, <1>7, <1>9, OrderOrderly

\* create_order without a quotation.
LEMMA CreateOrderOrderly ==
  ASSUME IInv, OneAtATime, Orderly, NEW t \in Tasks, CreateOrder(t)
  PROVE  Orderly'
BY OrderHeaderOrderly DEF CreateOrder

\* create_from_quotation: the quotation is Approved, so no order is whole for it.
LEMMA ConvertOrderly ==
  ASSUME IInv, OneAtATime, Orderly, NEW t \in Tasks, Convert(t)
  PROVE  Orderly'
BY OrderHeaderOrderly DEF Convert, Convertible

\* update_order: an order of which nothing is delivered.
LEMMA RewriteOrderOrderly ==
  ASSUME IInv, OneAtATime, Orderly, NEW t \in Tasks, RewriteOrder(t)
  PROVE  Orderly'
<1> DEFINE me == task[t]
           o == task[t].o
<1>1. me.op = "update" /\ me.pc # "idle" /\ Stop(t) /\ UNCHANGED <<quote, doc>>
  BY Doings, Doer DEF RewriteOrder, Acts
<1>2. o \in Orders /\ (\A l \in me.new : l.done = 0) /\ me.new \in SUBSET OrderLine
  BY <1>1, Working, TaskFields DEF Knows
<1>3. me.order = order[o] /\ order[o].status = "Draft" /\ Numbered(me.new)
  BY <1>1, OrderlyNow DEF Current, MayOrder
<1>4. \/ order' = order
      \/ order' = [order EXCEPT ![o].lines = {l \in @ : \A k \in me.order.lines : k.no # l.no}
                                               \cup me.new]
  BY DEF RewriteOrder
<1>5. CASE order' = order
  BY <1>1, <1>5, StopOrderly
<1>6. CASE order' = [order EXCEPT ![o].lines = {l \in @ : \A k \in me.order.lines : k.no # l.no}
                                                 \cup me.new]
  <2>1. /\ order'[o].lines = me.new /\ order'[o].status = "Draft"
        /\ order'[o].whole = order[o].whole /\ order'[o].quote = order[o].quote
        /\ \A p \in Orders \ {o} : order'[p] = order[p]
    <3>1. order[o] \in Order
      BY <1>2, Working
    <3>2. {l \in order[o].lines : \A k \in me.order.lines : k.no # l.no} \cup me.new = me.new
      BY <1>3
    <3>3. order' = [order EXCEPT ![o].lines = me.new]
      BY <1>6, <3>2
    <3> HIDE DEF me, o
    <3> QED
      BY <1>2, <1>3, <3>1, <3>3, Working DEF Order
  <2>2. task'[t] = Resting /\ \A u \in Tasks \ {t} : task'[u] = task[u]
    BY <1>1, Rests
  <2>3. Current(t)'
    BY <2>2, RestingCurrent
  <2>4. ASSUME NEW p \in Orders, p = o PROVE Exact(p)'
    <3>1. \A no \in 1..4 : DeliveredOn(p, no) = 0
      BY <1>3, <2>4, OrderlyNow DEF Exact
    <3>2. \A no \in 1..4 : DeliveredOn(p, no)' = 0
      BY <1>1, <3>1, DocsSame
    <3>3. \A l \in me.new : l.no \in 1..4
      BY <1>2 DEF OrderLine
    <3>4. order'[p].lines = me.new /\ order'[p].status = "Draft"
      BY <2>1, <2>4
    <3> HIDE DEF o, me
    <3> QED
      BY <1>2, <1>3, <3>2, <3>3, <3>4 DEF Exact
  <2>5. \A q \in Quotes : Converted(q)'
    BY <1>1, <2>1, WholeKept
  <2>6. PICK p \in Orders : p = o
    BY <1>2
  <2> HIDE DEF Resting
  <2> QED
    BY <1>1, <2>1, <2>2, <2>3, <2>4, <2>5, <2>6, OrderOrderly
<1> QED
  BY <1>4, <1>5, <1>6

\* The order is whole, and with it its quotation Converted: by this order only.
LEMMA WriteOrderLinesOrderly ==
  ASSUME IInv, OneAtATime, Orderly, NEW t \in Tasks, WriteOrderLines(t)
  PROVE  Orderly'
<1> DEFINE me == task[t]
           q == order[task[t].o].quote
<1>1. /\ me.op \in {"order", "convert"} /\ me.pc # "idle" /\ Stop(t) /\ UNCHANGED doc
      /\ order' = [order EXCEPT ![me.o].lines = @ \cup me.new, ![me.o].whole = TRUE]
      /\ quote' = IF q = Missing THEN quote ELSE [quote EXCEPT ![q].status = "Converted"]
  BY Doings, Doer DEF WriteOrderLines, Acts
<1>2. PICK o \in Orders : o = me.o
  BY <1>1, Working DEF Knows
<1>3. (\A l \in me.new : l.done = 0) /\ me.new \in SUBSET OrderLine
  BY <1>1, Working, TaskFields DEF Knows
<1>4. /\ order[o].status = "Draft" /\ order[o].lines = {} /\ ~ order[o].whole
      /\ q # Missing => quote[q].status = "Approved"
      /\ Numbered(me.new)
  BY <1>1, <1>2, OrderlyNow DEF Current
<1>5. /\ order'[o].lines = me.new /\ order'[o].status = "Draft"
      /\ order'[o].whole /\ order'[o].quote = order[o].quote
      /\ \A p \in Orders \ {o} : order'[p] = order[p]
  <2>1. order[o] \in Order
    BY Working
  <2> HIDE DEF me
  <2> QED
    BY <1>1, <1>2, <1>4, <2>1, Working DEF Order
<1>6. task'[t] = Resting /\ \A u \in Tasks \ {t} : task'[u] = task[u]
  BY <1>1, Rests
<1>7. Current(t)'
  BY <1>6, RestingCurrent
<1>8. Exact(o)'
  <2>1. \A no \in 1..4 : DeliveredOn(o, no) = 0
    BY <1>4, OrderlyNow DEF Exact
  <2>2. \A no \in 1..4 : DeliveredOn(o, no)' = 0
    BY <1>1, <2>1, DocsSame
  <2>3. \A l \in me.new : l.no \in 1..4
    BY <1>3 DEF OrderLine
  <2> HIDE DEF me
  <2> QED
    BY <1>3, <1>4, <1>5, <2>2, <2>3 DEF Exact
<1>9. ASSUME NEW p \in Quotes PROVE Converted(p)'
  <2>1. Converted(p) /\ order[o].quote = q
    BY <1>2, OrderlyNow
  <2>2. CASE p = q
    <3>1. q # Missing
      BY <2>2, NoSuchRow
    <3>2. quote'[p].status = "Converted"
      BY <1>1, <2>2, <3>1, Working DEF Quote
    <3>3. Whole(p) = {}
      BY <1>4, <2>1, <2>2, <3>1 DEF Converted
    <3>4. Whole(p)' = {o}
      <4>1. \A r \in Orders \ {o} : ~ (order'[r].quote = p /\ order'[r].whole)
        BY <1>5, <3>3 DEF Whole
      <4>2. order'[o].quote = p /\ order'[o].whole
        BY <1>5, <2>1, <2>2
      <4> HIDE DEF q
      <4> QED
        BY <4>1, <4>2 DEF Whole
    <3> HIDE DEF q
    <3> QED
      BY <3>2, <3>4 DEF Converted
  <2>3. CASE p # q
    <3>1. quote'[p] = quote[p]
      BY <1>1, <2>3, Working
    <3>2. Whole(p)' = Whole(p)
      <4>1. ~ (order'[o].quote = p /\ order'[o].whole) /\ ~ (order[o].quote = p /\ order[o].whole)
        BY <1>5, <2>1, <2>3
      <4>2. \A r \in Orders \ {o} : order'[r] = order[r]
        BY <1>5
      <4> HIDE DEF q
      <4> QED
        BY <4>1, <4>2 DEF Whole
    <3> HIDE DEF q
    <3> QED
      BY <2>1, <3>1, <3>2, ConvertedKept
  <2> QED
    BY <2>2, <2>3
<1> HIDE DEF q, Resting
<1> QED
  BY <1>1, <1>5, <1>6, <1>7, <1>8, <1>9, OrderOrderly

----------------------------------------------------------------------------
(* Deliveries and returns *)

\* A step that changes one document, no order, and nothing that is delivered.
LEMMA DocOrderly ==
  ASSUME IInv, OneAtATime, Orderly, NEW t \in Tasks, task[t].pc # "idle" \/ MayBegin(t),
         \A u \in Tasks \ {t} : task'[u] = task[u], UNCHANGED <<quote, order>>,
         NEW d \in Docs, \A e \in Docs \ {d} : doc'[e] = doc[e],
         \A o, no : DeliveredOn(o, no)' = DeliveredOn(o, no), Moved(d)', Current(t)'
  PROVE  Orderly'
<1>1. /\ \A o \in Orders : Exact(o)
      /\ \A e \in Docs : Moved(e)
      /\ \A q \in Quotes : Converted(q)
  BY OrderlyNow
<1>2. \A o \in Orders : Exact(o)'
  BY <1>1, ExactKept
<1>3. \A e \in Docs : Moved(e)'
  <2>1. \A e \in Docs \ {d} : Moved(e)'
    BY <1>1 DEF Moved
  <2> QED
    BY <2>1
<1>4. \A q \in Quotes : Converted(q)'
  <2>1. \A q : Whole(q)' = Whole(q)
    BY OrdersSame
  <2> QED
    BY <1>1, <2>1, ConvertedKept
<1> QED
  BY <1>2, <1>3, <1>4, OrderlyStep

\* A document that keeps its lines delivers the same.
LEMMA RowDelivers ==
  ASSUME IInv, IInv', NEW d \in Docs, \A e \in Docs \ {d} : doc'[e] = doc[e],
         doc'[d].lines = doc[d].lines, doc'[d].kind = doc[d].kind, doc'[d].order = doc[d].order
  PROVE  \A o, no : DeliveredOn(o, no)' = DeliveredOn(o, no)
<1>1. doc \in [Docs -> Document] /\ doc' \in [Docs -> Document]
  BY DEF IInv, TypeOK
<1>2. \A e \in Docs : /\ doc'[e].lines = doc[e].lines
                      /\ doc'[e].kind = doc[e].kind /\ doc'[e].order = doc[e].order
  OBVIOUS
<1> QED
  BY <1>1, <1>2, DeliversSame

\* What a carrier alone relies on.
LEMMA CarrierCurrent ==
  ASSUME NEW t \in Tasks, task'[t].op \in {"deliver", "approve return"}, task'[t].todo \in Later,
         task'[t].todo = Drafting => doc'[task'[t].d].goods = Missing,
         task'[t].todo \in {Approving, Posting} => doc'[task'[t].d].goods \in {"Draft", "Approved"},
         task'[t].op = "approve return" => doc'[task'[t].d].status # "Draft"
  PROVE  Current(t)'
<1>1. task'[t].todo # Counting /\ (task'[t].todo \notin {Approving, Posting, Finishing} => task'[t].todo = Drafting)
  BY Apart DEF Later
<1> QED
  BY <1>1 DEF Current, QuoteSteps, OrderSteps, Carriers

\* Alone, the status written fits what is delivered: nothing, where it is Submitted,
\* Rejected or Cancelled.
LEMMA WriteStatusOrderly ==
  ASSUME IInv, IInv', OneAtATime, Orderly, NEW t \in Tasks, WriteStatus(t)
  PROVE  Orderly'
<1> DEFINE me == task[t]
<1>1. /\ Doing(t, "status") /\ me.pc = "work" /\ me.pc # "idle" /\ Go(t, me)
      /\ quote' = IF me.q = Missing THEN quote ELSE [quote EXCEPT ![me.q].status = Target(me.op)]
      /\ order' = IF me.o = Missing THEN order
                  ELSE [order EXCEPT ![me.o].status = IF me.order.status = Target(me.op) THEN @
                                                      ELSE Target(me.op)]
      /\ doc' = IF me.d = Missing THEN doc ELSE [doc EXCEPT ![me.d].status = Target(me.op)]
  BY Doer DEF WriteStatus
<1>2. \/ me.op \in QuoteSteps \cup OrderSteps \cup {"cancel delivery"} /\ me.todo = <<"status">>
      \/ me.op = "approve return" /\ me.todo = Signing
  BY <1>1, Doings DEF Acts
<1>3. me.todo = <<"status">> => Stop(t)
  BY <1>1, Scripts DEF Go, Acts
<1>4. CASE me.op \in QuoteSteps
  <2>1. me.q \in Quotes /\ me.o = Missing /\ me.d = Missing /\ me.q # Missing
    BY <1>4, Working, NoSuchRow DEF Knows
  <2>2. Target(me.op) # "Converted"
    BY <1>4 DEF Target, QuoteSteps
  <2>3. quote[me.q].status # "Converted"
    BY <1>4, OrderlyNow DEF Current
  <2>4. \A q \in Quotes : quote'[q].status = "Converted" <=> quote[q].status = "Converted"
    BY <1>1, <2>1, <2>2, <2>3, Working DEF Quote
  <2>5. Stop(t)
    BY <1>2, <1>3, <1>4 DEF QuoteSteps
  <2>6. UNCHANGED <<order, doc>>
    BY <1>1, <2>1
  <2> HIDE DEF me
  <2> QED
    BY <1>1, <2>4, <2>5, <2>6, StopOrderly DEF me
<1>5. CASE me.op \in OrderSteps
  <2>1. PICK o \in Orders : o = me.o
    BY <1>5, Working DEF Knows
  <2>2. me.q = Missing /\ me.d = Missing /\ me.o # Missing
    BY <1>5, <2>1, Working, NoSuchRow DEF Knows
  <2>3. me.order = order[o] /\ MayOrder(me.op, order[o]) /\ Exact(o) /\ order[o] \in Order
    BY <1>5, <2>1, OrderlyNow, Working DEF Current
  <2>4. /\ order'[o].lines = order[o].lines /\ order'[o].whole = order[o].whole
        /\ order'[o].quote = order[o].quote /\ order'[o].status = Target(me.op)
        /\ \A p \in Orders \ {o} : order'[p] = order[p]
        /\ UNCHANGED <<quote, doc>>
    <3>1. order' = [order EXCEPT ![o].status = Target(me.op)]
      BY <1>1, <2>1, <2>2, <2>3, Working DEF Order
    <3>2. UNCHANGED <<quote, doc>>
      BY <1>1, <2>2
    <3> HIDE DEF me
    <3>3. order'[o] = [order[o] EXCEPT !.status = Target(me.op)]
          /\ \A p \in Orders \ {o} : order'[p] = order[p]
      BY <3>1, Working
    <3> QED
      BY <2>3, <3>2, <3>3 DEF Order
  <2>5. /\ Target(me.op) \in {"Submitted", "Rejected", "Cancelled"} => \A l \in order[o].lines : l.done = 0
        /\ Target(me.op) \in {"Submitted", "Approved", "Rejected", "Cancelled", "Closed"}
    <3>1. CASE me.op \in {"submit", "reject"}
      <4>1. order[o].status \in {"Draft", "Submitted"} /\ Target(me.op) \in {"Submitted", "Rejected"}
        BY <2>3, <3>1 DEF MayOrder, Target
      <4> QED
        BY <2>3, <4>1 DEF Exact
    <3>2. CASE me.op = "cancel"
      BY <2>3, <3>2 DEF MayOrder, Target
    <3>3. CASE me.op \in {"approve", "reopen"}
      <4>1. Target(me.op) = "Approved"
        BY <3>3 DEF Target
      <4> QED
        BY <4>1
    <3>4. CASE me.op = "close"
      <4>1. Target(me.op) = "Closed"
        BY <3>4 DEF Target
      <4> QED
        BY <4>1
    <3> QED
      BY <1>5, <3>1, <3>2, <3>3, <3>4 DEF OrderSteps
  <2>6. Stop(t)
    BY <1>2, <1>3, <1>5 DEF OrderSteps
  <2> HIDE DEF me
  <2>7. Exact(o)'
    <3>1. \A no : DeliveredOn(o, no)' = DeliveredOn(o, no)
      BY <2>4, DocsSame
    <3>2. /\ order'[o].status # Missing /\ order'[o].status # "Draft"
          /\ order'[o].status # "Fully Delivered" /\ order'[o].status # "Partially Delivered"
      BY <2>4, <2>5 DEF Missing
    <3>3. order'[o].status \in {"Draft", "Submitted", "Rejected", "Cancelled"} =>
            \A l \in order'[o].lines : l.done = 0
      BY <2>4, <2>5
    <3>4. /\ Numbered(order'[o].lines)
          /\ \A l \in order'[o].lines : l.done = DeliveredOn(o, l.no)'
      <4>1. Numbered(order[o].lines) /\ \A l \in order[o].lines : l.done = DeliveredOn(o, l.no)
        BY <2>3 DEF Exact
      <4> QED
        BY <2>4, <3>1, <4>1
    <3> QED
      BY <3>2, <3>3, <3>4 DEF Exact
  <2>8. task'[t] = Resting /\ \A u \in Tasks \ {t} : task'[u] = task[u]
    BY <2>6, Rests
  <2>9. Current(t)'
    BY <2>8, RestingCurrent
  <2>10. \A q \in Quotes : Converted(q)'
    <3>1. \A p \in Orders : order'[p].whole = order[p].whole
                           /\ (order[p].whole => order'[p].quote = order[p].quote)
      BY <2>4
    <3> QED
      BY <2>4, <3>1, WholeKept
  <2>11. task[t].pc # "idle"
    BY <1>1 DEF me
  <2> HIDE DEF Resting
  <2> QED
    BY <2>4, <2>7, <2>8, <2>9, <2>10, <2>11, OrderOrderly
<1>6. CASE me.op \in {"cancel delivery", "approve return"}
  <2>1. PICK d \in Docs : d = me.d
    BY <1>6, Working DEF Knows, Carriers
  <2>2. me.q = Missing /\ me.o = Missing /\ me.d # Missing
    BY <1>6, <2>1, Working, NoSuchRow DEF Knows, Carriers
  <2>3. Target(me.op) \in {"Cancelled", "Approved"}
    BY <1>6 DEF Target
  <2>4. /\ doc'[d].lines = doc[d].lines /\ doc'[d].kind = doc[d].kind /\ doc'[d].order = doc[d].order
        /\ doc'[d].goods = doc[d].goods /\ doc'[d].moved = doc[d].moved
        /\ doc'[d].named = doc[d].named /\ doc'[d].status # "Draft"
        /\ \A e \in Docs \ {d} : doc'[e] = doc[e]
        /\ UNCHANGED <<quote, order>>
    <3>1. doc' = [doc EXCEPT ![d].status = Target(me.op)] /\ doc[d] \in Document
      BY <1>1, <2>1, <2>2, Working
    <3> HIDE DEF me
    <3> QED
      BY <1>1, <2>2, <2>3, <3>1, Working DEF Document
  <2>5. Moved(d)'
    BY <2>4, OrderlyNow, MovedKept
  <2>6. \A o, no : DeliveredOn(o, no)' = DeliveredOn(o, no)
    BY <2>4, RowDelivers
  <2>7. Current(t)' /\ \A u \in Tasks \ {t} : task'[u] = task[u]
    <3>1. CASE me.op = "cancel delivery"
      <4>1. task'[t] = Resting /\ \A u \in Tasks \ {t} : task'[u] = task[u]
        BY <1>2, <1>3, <3>1, Rests
      <4> QED
        BY <4>1, RestingCurrent
    <3>2. CASE me.op = "approve return"
      <4>1. me.todo = Signing /\ me.todo # Finishing
        BY <1>2, <3>2, Apart DEF QuoteSteps, OrderSteps
      <4>2. me \in Task /\ me.linked \in BOOLEAN
        BY Working, TaskFields
      <4>3. me = [me EXCEPT !.linked = me.linked]
        BY <4>2, SameTask
      <4>4. /\ task'[t].op = "approve return" /\ task'[t].d = d /\ task'[t].todo = Tail(Signing)
            /\ \A u \in Tasks \ {t} : task'[u] = task[u]
        <5> HIDE DEF me
        <5> QED
          BY <1>1, <2>1, <3>2, <4>1, <4>2, <4>3, GoesOn DEF me
      <4>5. task'[t].todo = Drafting /\ Drafting \in Later /\ Drafting \notin {Approving, Posting}
        BY <4>4, Scripts, Apart DEF Later
      <4>6. doc[d].goods = Missing
        BY <2>1, <3>2, <4>1, OrderlyNow, Apart DEF Current, Carriers
      <4> HIDE DEF me
      <4> QED
        BY <2>4, <4>4, <4>5, <4>6, CarrierCurrent
    <3> QED
      BY <1>6, <3>1, <3>2
  <2> HIDE DEF me
  <2>8. task[t].pc # "idle"
    BY <1>1 DEF me
  <2> QED
    BY <2>4, <2>5, <2>6, <2>7, <2>8, DocOrderly
<1> QED
  BY <1>2, <1>4, <1>5, <1>6

\* The fields of a document that begins.
LEMMA BeginsRow ==
  ASSUME IInv, IInv', NEW d \in Docs, FreeDoc(d), NEW kind \in {"delivery", "return"},
         NEW o \in Orders, doc' = [doc EXCEPT ![d] = Header(kind, o)]
  PROVE  /\ Moved(d)' /\ doc'[d].goods = Missing /\ \A e \in Docs \ {d} : doc'[e] = doc[e]
         /\ \A p, no : DeliveredOn(p, no)' = DeliveredOn(p, no)
<1>1. /\ doc'[d] = Header(kind, o) /\ \A e \in Docs \ {d} : doc'[e] = doc[e]
  BY DEF IInv, TypeOK
<1>2. /\ doc'[d].lines = << >> /\ doc'[d].moved = 0 /\ doc'[d].goods = Missing
  BY <1>1, HeaderRow
<1>3. Moved(d)'
  BY <1>2 DEF Moved, Missing
<1>4. doc[d].lines = << >>
  BY FreeDocIs
<1>5. doc \in [Docs -> Document] /\ doc' \in [Docs -> Document]
  BY DEF IInv, TypeOK
<1>6. \A e \in Docs : /\ doc'[e].lines = doc[e].lines
                      /\ doc[e].lines # << >> =>
                           doc'[e].kind = doc[e].kind /\ doc'[e].order = doc[e].order
  BY <1>1, <1>2, <1>4
<1>7. \A p, no : DeliveredOn(p, no)' = DeliveredOn(p, no)
  BY <1>5, <1>6, DeliversSame
<1> QED
  BY <1>1, <1>2, <1>3, <1>7

\* create_delivery: the order it loaded is open and is the stored one.
LEMMA BeginDeliveryOrderly ==
  ASSUME IInv, IInv', OneAtATime, Orderly, NEW t \in Tasks, BeginDelivery(t)
  PROVE  Orderly'
<1>1. MayBegin(t) /\ UNCHANGED <<quote, order>>
  BY DEF BeginDelivery
<1>2. PICK d \in Docs, o \in Orders :
        /\ FreeDoc(d) /\ OpenForDelivery(order[o])
        /\ doc' = [doc EXCEPT ![d] = [NoDoc EXCEPT !.kind = "delivery", !.status = "Draft",
                                                   !.order = o]]
        /\ \E lines \in Requests(o) :
             Start(t, [Resting EXCEPT !.op = "deliver", !.o = o, !.d = d, !.order = order[o],
                         !.doc = [doc'[d] EXCEPT !.lines = lines],
                         !.todo = <<"count", "draft", "sign", "post", "finish">>])
  BY DEF BeginDelivery
<1>3. PICK lines \in Requests(o) :
        Start(t, [Resting EXCEPT !.op = "deliver", !.o = o, !.d = d, !.order = order[o],
                    !.doc = [doc'[d] EXCEPT !.lines = lines],
                    !.todo = <<"count", "draft", "sign", "post", "finish">>])
  BY <1>2
<1>4. doc' = [doc EXCEPT ![d] = Header("delivery", o)]
  BY <1>2 DEF Header
<1>5. /\ Moved(d)' /\ doc'[d].goods = Missing /\ \A e \in Docs \ {d} : doc'[e] = doc[e]
      /\ \A p, no : DeliveredOn(p, no)' = DeliveredOn(p, no)
  <2>1. FreeDoc(d)
    BY <1>2
  <2> QED
    BY <1>4, <2>1, BeginsRow
<1>6. /\ task'[t].op = "deliver" /\ task'[t].o = o /\ task'[t].d = d
      /\ task'[t].order = order[o] /\ task'[t].todo = Counting
      /\ \A u \in Tasks \ {t} : task'[u] = task[u]
  <2> DEFINE asked == [doc'[d] EXCEPT !.lines = lines]
             me == [[Resting EXCEPT !.op = "deliver", !.o = o, !.d = d, !.order = order[o],
                       !.doc = asked, !.todo = Counting] EXCEPT !.pc = "work"]
  <2>1. task' = [task EXCEPT ![t] = me]
    BY <1>3 DEF Start, Counting
  <2> HIDE DEF asked
  <2>2. /\ me.op = "deliver" /\ me.o = o /\ me.d = d /\ me.order = order[o] /\ me.todo = Counting
    BY DEF Resting
  <2> HIDE DEF me
  <2> QED
    BY <2>1, <2>2, Starts
<1>7. Current(t)'
  <2>1. OpenForDelivery(order[o]) /\ order' = order
    BY <1>1, <1>2
  <2> QED
    BY <1>5, <1>6, <2>1, Apart DEF Current, QuoteSteps, OrderSteps, Carriers
<1> QED
  BY <1>1, <1>5, <1>6, <1>7, DocOrderly

\* create_return: a draft, without goods.
LEMMA BeginReturnOrderly ==
  ASSUME IInv, IInv', OneAtATime, Orderly, NEW t \in Tasks, BeginReturn(t)
  PROVE  Orderly'
<1>1. MayBegin(t) /\ UNCHANGED <<quote, order>>
  BY DEF BeginReturn
<1>2. PICK d \in Docs, o \in Orders :
        /\ FreeDoc(d)
        /\ \E lines \in Requests(o) :
             /\ doc' = [doc EXCEPT ![d] = [NoDoc EXCEPT !.kind = "return", !.status = "Draft",
                                                        !.order = o]]
             /\ Start(t, [Resting EXCEPT !.op = "return", !.o = o, !.d = d,
                            !.doc = [doc'[d] EXCEPT !.lines = lines], !.todo = <<"lines">>])
  BY DEF BeginReturn
<1>3. PICK lines \in Requests(o) :
        /\ doc' = [doc EXCEPT ![d] = [NoDoc EXCEPT !.kind = "return", !.status = "Draft",
                                                   !.order = o]]
        /\ Start(t, [Resting EXCEPT !.op = "return", !.o = o, !.d = d,
                       !.doc = [doc'[d] EXCEPT !.lines = lines], !.todo = <<"lines">>])
  BY <1>2
<1>4. doc' = [doc EXCEPT ![d] = Header("return", o)]
  BY <1>3 DEF Header
<1>5. /\ Moved(d)' /\ doc'[d].goods = Missing /\ \A e \in Docs \ {d} : doc'[e] = doc[e]
      /\ \A p, no : DeliveredOn(p, no)' = DeliveredOn(p, no)
  <2>1. FreeDoc(d)
    BY <1>2
  <2> QED
    BY <1>4, <2>1, BeginsRow
<1>6. /\ task'[t].op = "return" /\ task'[t].d = d /\ task'[t].todo = <<"lines">>
      /\ \A u \in Tasks \ {t} : task'[u] = task[u]
  <2> DEFINE asked == [doc'[d] EXCEPT !.lines = lines]
             todo == <<"lines">>
             me == [[Resting EXCEPT !.op = "return", !.o = o, !.d = d, !.doc = asked, !.todo = todo]
                      EXCEPT !.pc = "work"]
  <2>1. task' = [task EXCEPT ![t] = me] /\ todo = <<"lines">>
    BY <1>3 DEF Start
  <2> HIDE DEF asked, todo
  <2>2. me.op = "return" /\ me.d = d /\ me.todo = todo
    BY DEF Resting
  <2> HIDE DEF me
  <2> QED
    BY <2>1, <2>2, Starts
<1>7. Current(t)'
  <2>1. <<"lines">> \notin Later /\ {Approving, Posting} \subseteq Later
    BY Apart DEF Later
  <2> QED
    BY <1>5, <1>6, <2>1 DEF Current, QuoteSteps, OrderSteps, Carriers
<1> QED
  BY <1>1, <1>5, <1>6, <1>7, DocOrderly

\* The lines of a return move nothing and count nowhere.
LEMMA WriteReturnLinesOrderly ==
  ASSUME IInv, IInv', OneAtATime, Orderly, NEW t \in Tasks, WriteReturnLines(t)
  PROVE  Orderly'
<1> DEFINE me == task[t]
<1>1. /\ me.op = "return" /\ me.pc # "idle" /\ me.todo = <<"lines">> /\ Stop(t)
      /\ UNCHANGED <<quote, order>>
      /\ doc' = doc \/ doc' = [doc EXCEPT ![me.d].lines = me.doc.lines]
  BY Doings, Doer DEF WriteReturnLines, Acts
<1>2. PICK d \in Docs : d = me.d
  BY <1>1, Working DEF Knows, Carriers
<1>3. doc[d].kind = "return" /\ doc[d].goods = Missing
  <2>1. me.op \in Carriers /\ <<"lines">> \notin Later /\ {Approving, Posting, Finishing} \subseteq Later
    BY <1>1, Apart DEF Later, Carriers
  <2>2. doc[d].kind = "return"
    BY <1>1, <1>2, <2>1, Working DEF Carries
  <2>3. doc[d].goods = Missing
    <3>1. Current(t)
      BY OrderlyNow
    <3> QED
      BY <1>1, <1>2, <2>1, <3>1 DEF Current
  <2> QED
    BY <2>2, <2>3
<1>4. task'[t] = Resting /\ \A u \in Tasks \ {t} : task'[u] = task[u]
  BY <1>1, Rests
<1>5. Current(t)'
  BY <1>4, RestingCurrent
<1>6. CASE doc' = doc
  BY <1>1, <1>6, StopOrderly
<1>7. CASE doc' = [doc EXCEPT ![me.d].lines = me.doc.lines]
  <2>1. /\ doc'[d].kind = doc[d].kind /\ doc'[d].order = doc[d].order /\ doc'[d].goods = doc[d].goods
        /\ doc'[d].moved = doc[d].moved /\ doc'[d].status = doc[d].status
        /\ \A e \in Docs \ {d} : doc'[e] = doc[e]
    <3>1. doc[d] \in Document
      BY Working
    <3> HIDE DEF me
    <3> QED
      BY <1>2, <1>7, <3>1, Working DEF Document
  <2>2. Moved(d)'
    <3>1. doc[d].moved = 0
      BY <1>3, OrderlyNow DEF Moved, Missing
    <3> QED
      BY <1>3, <2>1, <3>1 DEF Moved, Missing
  <2>3. ASSUME NEW o, NEW no PROVE DeliveredOn(o, no)' = DeliveredOn(o, no)
    <3>1. doc \in [Docs -> Document] /\ doc' \in [Docs -> Document]
      BY DEF IInv, TypeOK
    <3>2. /\ DeliveredOn(o, no) \in Nat
          /\ DeliveredOn(o, no)' = DeliveredOn(o, no) - Share(doc[d], o, no) + Share(doc'[d], o, no)
      BY <2>1, <3>1, DeliveredBy
    <3>3. Share(doc[d], o, no) = 0 /\ Share(doc'[d], o, no) = 0
      BY <1>3, <2>1 DEF Share
    <3> QED
      BY <3>2, <3>3
  <2>4. task[t].pc # "idle"
    BY <1>1
  <2> HIDE DEF me, Resting
  <2> QED
    BY <1>1, <1>4, <1>5, <2>1, <2>2, <2>3, <2>4, DocOrderly
<1> QED
  BY <1>1, <1>6, <1>7

\* A carrier alone goes on with the same lines.
LEMMA GoodsOrderly ==
  ASSUME IInv, IInv', OneAtATime, Orderly, NEW t \in Tasks, NEW act \in {"draft", "sign", "post"},
         Doing(t, act), NEW linked \in BOOLEAN, NEW me, me = [task[t] EXCEPT !.linked = linked],
         Go(t, me), UNCHANGED <<quote, order>>, NEW d \in Docs, d = task[t].d,
         \A e \in Docs \ {d} : doc'[e] = doc[e],
         doc'[d].lines = doc[d].lines, doc'[d].kind = doc[d].kind, doc'[d].order = doc[d].order,
         doc'[d].status = doc[d].status,
         doc'[d].goods = "Posted" => doc'[d].moved = doc'[d].named,
         doc'[d].goods # "Posted" => doc'[d].moved = 0,
         act \in {"draft", "sign"} => doc'[d].goods \in {"Draft", "Approved"}
  PROVE  Orderly'
<1>1. /\ task[t].op \in {"deliver", "approve return"} /\ task[t].todo \in Later
      /\ task[t].pc = "work" /\ task[t].pc # "idle"
      /\ task[t].op = "deliver" => doc[d].kind = "delivery"
  BY CarrierIs, Zenon
<1>2. /\ act = "draft" => task[t].todo = Drafting
      /\ act = "sign" => task[t].todo = Approving
      /\ act = "post" => task[t].todo = Posting
  BY Doings DEF Acts
<1>3. task[t].todo # Finishing
  BY <1>2, Apart
<1>4. /\ \A u \in Tasks \ {t} : task'[u] = task[u]
      /\ task'[t].op = task[t].op /\ task'[t].d = d
      /\ task'[t].todo = Tail(task[t].todo) /\ task'[t].todo \in Later
  BY <1>1, <1>3, GoesOn
<1>5. /\ act = "draft" => task'[t].todo = Approving
      /\ act = "sign" => task'[t].todo = Posting
      /\ act = "post" => task'[t].todo = Finishing
  BY <1>2, <1>4, Scripts
<1>6. task[t].op = "approve return" => doc[d].status # "Draft"
  BY <1>1, OrderlyNow DEF Current, Carriers
<1>7. Current(t)'
  <2>1. act = "post" => task'[t].todo \notin {Drafting, Approving, Posting}
    BY <1>5, Apart
  <2>2. act # "post" => task'[t].todo # Drafting /\ doc'[d].goods \in {"Draft", "Approved"}
    BY <1>5, Apart
  <2> QED
    BY <1>1, <1>4, <1>6, <2>1, <2>2, CarrierCurrent
<1>8. Moved(d)'
  <2>1. ~ (doc'[d].kind = "return" /\ doc'[d].status = "Draft")
    BY <1>1, <1>6
  <2> QED
    BY <2>1 DEF Moved
<1>9. \A o, no : DeliveredOn(o, no)' = DeliveredOn(o, no)
  BY RowDelivers
<1> QED
  BY <1>1, <1>4, <1>7, <1>8, <1>9, DocOrderly

\* What a carrier alone finds its goods to be.
LEMMA GoodsAre ==
  ASSUME IInv, OneAtATime, Orderly, NEW t \in Tasks, NEW act \in {"draft", "sign", "post"},
         Doing(t, act)
  PROVE  LET d == task[t].d IN
         /\ d \in Docs /\ doc[d] \in Document /\ doc[d].moved = 0
         /\ doc[d].goods \in {Missing, "Draft", "Approved"}
         /\ act = "post" => task[t].doc.lines = doc[d].lines
<1> DEFINE d == task[t].d
<1>1. /\ task[t].op \in Carriers /\ d \in Docs /\ doc[d] \in Document
      /\ task[t].doc.lines = << >> \/ task[t].doc.lines = doc[d].lines
      /\ task[t].todo \in {Approving, Posting} => task[t].doc.lines # << >>
  BY CarrierIs
<1>2. /\ act = "draft" => task[t].todo = Drafting
      /\ act = "sign" => task[t].todo = Approving
      /\ act = "post" => task[t].todo = Posting
  BY Doings DEF Acts
<1>3. doc[d].goods \in {Missing, "Draft", "Approved"}
  <2>1. Current(t)
    BY OrderlyNow
  <2> QED
    BY <1>1, <1>2, <2>1, Apart DEF Current
<1>4. doc[d].moved = 0
  BY <1>1, <1>3, OrderlyNow DEF Moved, Missing
<1>5. act = "post" => task[t].doc.lines = doc[d].lines
  BY <1>1, <1>2
<1> QED
  BY <1>1, <1>3, <1>4, <1>5

\* A document without goods gets them.
LEMMA DraftGoodsOrderly ==
  ASSUME IInv, IInv', OneAtATime, Orderly, NEW t \in Tasks, DraftGoods(t)
  PROVE  Orderly'
<1> DEFINE me == task[t]
<1>1. /\ Doing(t, "draft") /\ Go(t, me) /\ UNCHANGED <<quote, order>>
      /\ doc' = [doc EXCEPT ![me.d].goods = "Draft", ![me.d].named = Total(me.doc.lines)]
  BY DEF DraftGoods
<1>2. PICK d \in Docs : d = me.d /\ doc[d] \in Document /\ doc[d].moved = 0
  BY <1>1, GoodsAre
<1>3. /\ doc'[d].lines = doc[d].lines /\ doc'[d].kind = doc[d].kind /\ doc'[d].order = doc[d].order
      /\ doc'[d].status = doc[d].status /\ doc'[d].moved = 0 /\ doc'[d].goods = "Draft"
      /\ \A e \in Docs \ {d} : doc'[e] = doc[e]
  <2> HIDE DEF me
  <2> QED
    BY <1>1, <1>2, Working DEF Document
<1>4. me.linked \in BOOLEAN /\ me = [me EXCEPT !.linked = me.linked]
  BY SameTask, TaskFields, Working
<1>5. /\ Doing(t, "draft") /\ Go(t, me) /\ UNCHANGED <<quote, order>> /\ d = task[t].d
      /\ doc'[d].goods \in {"Draft", "Approved"} /\ doc'[d].goods # "Posted"
  BY <1>1, <1>2, <1>3
<1>6. me = [task[t] EXCEPT !.linked = me.linked]
  BY <1>4
<1> HIDE DEF me
<1> QED
  BY <1>3, <1>4, <1>5, <1>6, GoodsOrderly

\* Goods that are approved have not moved.
LEMMA ApproveGoodsOrderly ==
  ASSUME IInv, IInv', OneAtATime, Orderly, NEW t \in Tasks, ApproveGoods(t)
  PROVE  Orderly'
<1> DEFINE me == task[t]
<1>1. /\ Doing(t, "sign") /\ Go(t, me) /\ UNCHANGED <<quote, order>>
      /\ doc' = [doc EXCEPT ![me.d].goods = "Approved"]
  BY DEF ApproveGoods
<1>2. PICK d \in Docs : d = me.d /\ doc[d] \in Document /\ doc[d].moved = 0
  BY <1>1, GoodsAre
<1>3. /\ doc'[d].lines = doc[d].lines /\ doc'[d].kind = doc[d].kind /\ doc'[d].order = doc[d].order
      /\ doc'[d].status = doc[d].status /\ doc'[d].moved = 0 /\ doc'[d].goods = "Approved"
      /\ \A e \in Docs \ {d} : doc'[e] = doc[e]
  <2> HIDE DEF me
  <2> QED
    BY <1>1, <1>2, Working DEF Document
<1>4. me.linked \in BOOLEAN /\ me = [me EXCEPT !.linked = me.linked]
  BY SameTask, TaskFields, Working
<1>5. /\ Doing(t, "sign") /\ Go(t, me) /\ UNCHANGED <<quote, order>> /\ d = task[t].d
      /\ doc'[d].goods \in {"Draft", "Approved"} /\ doc'[d].goods # "Posted"
  BY <1>1, <1>2, <1>3
<1>6. me = [task[t] EXCEPT !.linked = me.linked]
  BY <1>4
<1> HIDE DEF me
<1> QED
  BY <1>3, <1>4, <1>5, <1>6, GoodsOrderly

\* Alone, goods are posted that were not: they move once.
LEMMA PostGoodsOrderly ==
  ASSUME IInv, IInv', OneAtATime, Orderly, NEW t \in Tasks, PostGoods(t)
  PROVE  Orderly'
<1> DEFINE me == task[t]
           done == [me EXCEPT !.linked = TRUE]
<1>1. /\ Doing(t, "post") /\ Go(t, done) /\ UNCHANGED <<quote, order>>
      /\ doc' = [doc EXCEPT ![me.d].goods = "Posted", ![me.d].moved = @ + doc[me.d].named]
  BY DEF PostGoods, Post
<1>2. PICK d \in Docs : d = me.d /\ doc[d] \in Document /\ doc[d].moved = 0
  BY <1>1, GoodsAre
<1>3. /\ doc'[d].lines = doc[d].lines /\ doc'[d].kind = doc[d].kind /\ doc'[d].order = doc[d].order
      /\ doc'[d].status = doc[d].status /\ doc'[d].moved = doc[d].moved + doc[d].named
      /\ doc'[d].goods = "Posted" /\ doc'[d].named = doc[d].named
      /\ \A e \in Docs \ {d} : doc'[e] = doc[e]
  <2> HIDE DEF me
  <2> QED
    BY <1>1, <1>2, Working DEF Document
<1>4. doc'[d].moved = doc'[d].named
  <2>1. doc[d].named \in Nat
    BY <1>2 DEF Document
  <2> QED
    BY <1>2, <1>3, <2>1
<1>5. done = [me EXCEPT !.linked = TRUE]
  OBVIOUS
<1>6. Doing(t, "post") /\ Go(t, done) /\ UNCHANGED <<quote, order>> /\ d = task[t].d
  BY <1>1, <1>2
<1>7. /\ doc'[d].goods = "Posted" => doc'[d].moved = doc'[d].named
      /\ doc'[d].goods # "Posted" => doc'[d].moved = 0
  BY <1>3, <1>4
<1>8. done = [task[t] EXCEPT !.linked = TRUE]
  BY <1>5
<1> HIDE DEF done, me
<1> QED
  BY <1>3, <1>6, <1>7, <1>8, GoodsOrderly

\* The status of a document moves nothing.
LEMMA FinishDocumentOrderly ==
  ASSUME IInv, IInv', OneAtATime, Orderly, NEW t \in Tasks, FinishDocument(t)
  PROVE  Orderly'
<1> DEFINE me == task[t]
<1>1. /\ Doing(t, "finish") /\ Stop(t) /\ UNCHANGED <<quote, order>>
      /\ doc' = [doc EXCEPT ![me.d].status = IF me.op = "deliver" THEN "Delivered" ELSE "Completed",
                            ![me.d].linked = @ \/ me.linked]
  BY DEF FinishDocument
<1>2. PICK d \in Docs : d = me.d /\ doc[d] \in Document /\ me.pc # "idle"
  BY <1>1, CarrierIs
<1>3. /\ doc'[d].lines = doc[d].lines /\ doc'[d].kind = doc[d].kind /\ doc'[d].order = doc[d].order
      /\ doc'[d].goods = doc[d].goods /\ doc'[d].moved = doc[d].moved
      /\ doc'[d].named = doc[d].named /\ doc'[d].status # "Draft"
      /\ \A e \in Docs \ {d} : doc'[e] = doc[e]
  <2> HIDE DEF me
  <2> QED
    BY <1>1, <1>2, Working DEF Document
<1>4. Moved(d)'
  BY <1>3, OrderlyNow, MovedKept
<1>5. task'[t] = Resting /\ \A u \in Tasks \ {t} : task'[u] = task[u]
  BY <1>1, Rests
<1>6. Current(t)'
  BY <1>5, RestingCurrent
<1>7. \A o, no : DeliveredOn(o, no)' = DeliveredOn(o, no)
  BY <1>3, RowDelivers
<1> HIDE DEF Resting
<1> QED
  BY <1>1, <1>2, <1>3, <1>4, <1>5, <1>6, <1>7, DocOrderly

\* The warehouse posts goods that were not posted.
LEMMA WarehousePostsOrderly ==
  ASSUME IInv, IInv', OneAtATime, Orderly, NEW t \in Tasks, WarehousePosts(t)
  PROVE  Orderly'
<1>1. MayBegin(t) /\ UNCHANGED <<quote, order>> /\ task' = task /\ task[t] = Resting
  BY Working DEF WarehousePosts, MayBegin, Knows
<1>2. PICK d \in Docs : /\ doc[d].goods \in {"Draft", "Approved"}
                        /\ doc' = [doc EXCEPT ![d].goods = "Posted", ![d].moved = @ + doc[d].named]
  BY DEF WarehousePosts, Post
<1>3. doc[d].moved = 0 /\ ~ (doc[d].kind = "return" /\ doc[d].status = "Draft")
      /\ doc[d] \in Document
  BY <1>2, OrderlyNow, Working DEF Moved, Missing
<1>4. doc[d].named \in Nat
  BY <1>3 DEF Document
<1>5. /\ doc'[d].lines = doc[d].lines /\ doc'[d].kind = doc[d].kind /\ doc'[d].order = doc[d].order
      /\ doc'[d].status = doc[d].status /\ doc'[d].moved = doc[d].moved + doc[d].named
      /\ doc'[d].goods = "Posted" /\ doc'[d].named = doc[d].named
      /\ \A e \in Docs \ {d} : doc'[e] = doc[e]
  BY <1>2, <1>3, Working DEF Document
<1>6. Moved(d)'
  BY <1>3, <1>4, <1>5 DEF Moved
<1>7. task'[t] = Resting /\ \A u \in Tasks \ {t} : task'[u] = task[u]
  BY <1>1
<1>8. Current(t)'
  BY <1>7, RestingCurrent
<1>9. \A o, no : DeliveredOn(o, no)' = DeliveredOn(o, no)
  BY <1>5, RowDelivers
<1> HIDE DEF Resting
<1> QED
  BY <1>1, <1>5, <1>6, <1>7, <1>8, <1>9, DocOrderly

\* Goods the warehouse may change have not moved.
LEMMA WarehouseEditsOrderly ==
  ASSUME IInv, IInv', OneAtATime, Orderly, NEW t \in Tasks, WarehouseEdits(t)
  PROVE  Orderly'
<1>1. MayBegin(t) /\ UNCHANGED <<quote, order>> /\ task' = task /\ task[t] = Resting
  BY Working DEF WarehouseEdits, MayBegin, Knows
<1>2. PICK d \in Docs, n \in 0..MaxLine : /\ doc[d].goods = "Draft"
                                          /\ doc' = [doc EXCEPT ![d].named = n]
  BY DEF WarehouseEdits
<1>3. doc[d].moved = 0 /\ ~ (doc[d].kind = "return" /\ doc[d].status = "Draft")
      /\ doc[d] \in Document
  BY <1>2, OrderlyNow, Working DEF Moved, Missing
<1>4. /\ doc'[d].lines = doc[d].lines /\ doc'[d].kind = doc[d].kind /\ doc'[d].order = doc[d].order
      /\ doc'[d].status = doc[d].status /\ doc'[d].moved = 0 /\ doc'[d].goods = "Draft"
      /\ \A e \in Docs \ {d} : doc'[e] = doc[e]
  BY <1>2, <1>3, Working DEF Document
<1>5. Moved(d)'
  BY <1>3, <1>4 DEF Moved
<1>6. task'[t] = Resting /\ \A u \in Tasks \ {t} : task'[u] = task[u]
  BY <1>1
<1>7. Current(t)'
  BY <1>6, RestingCurrent
<1>8. \A o, no : DeliveredOn(o, no)' = DeliveredOn(o, no)
  BY <1>4, RowDelivers
<1> HIDE DEF Resting
<1> QED
  BY <1>1, <1>4, <1>5, <1>6, <1>7, <1>8, DocOrderly

\* The lines of an order after a delivery, written over the lines it loaded.
LEMMA CountedLines ==
  ASSUME NEW lines \in SUBSET OrderLine, Numbered(lines), NEW request \in Seq(DocLine),
         NEW after, after = Counted(lines, request),
         NEW written, written = {l \in after : On(request, l.no) > 0}
  PROVE  /\ {l \in lines : \A k \in written : k.no # l.no} \cup written = after
         /\ Numbered(after)
<1> DEFINE count(l) == [l EXCEPT !.done = @ + On(request, l.no)]
<1>1. ASSUME NEW l \in lines
      PROVE  /\ count(l) \in after /\ count(l).no = l.no
             /\ On(request, l.no) = 0 => count(l) = l
             /\ On(request, l.no) = 0 \/ On(request, l.no) > 0
  <2>1. l \in OrderLine /\ l.done \in Nat
    BY SalesAssumption DEF OrderLine
  <2>2. On(request, l.no) \in Nat
    BY QuantityNat
  <2>3. count(l) \in after
    BY DEF Counted
  <2>4. count(l).no = l.no
    BY <2>1 DEF OrderLine
  <2>5. ASSUME On(request, l.no) = 0 PROVE count(l) = l
    <3>1. l.done + On(request, l.no) = l.done
      BY <2>1, <2>5
    <3>2. [l EXCEPT !.done = l.done] = l
      BY <2>1 DEF OrderLine
    <3> QED
      BY <3>1, <3>2
  <2> HIDE DEF count
  <2> QED
    BY <2>2, <2>3, <2>4, <2>5
<1>2. \A a \in after : \E l \in lines : a = count(l)
  BY DEF Counted
<1> HIDE DEF count
<1>3. Numbered(after)
  BY <1>1, <1>2 DEF Numbered
<1>4. ASSUME NEW l \in lines, \A k \in written : k.no # l.no PROVE l \in after
  <2>1. ~ (On(request, l.no) > 0)
    <3>1. On(request, l.no) > 0 => count(l) \in written
      BY <1>1
    <3> QED
      BY <1>1, <1>4, <3>1
  <2> QED
    BY <1>1, <2>1
<1>5. ASSUME NEW a \in after, a \notin written
      PROVE  a \in lines /\ \A k \in written : k.no # a.no
  <2>1. PICK l \in lines : a = count(l)
    BY <1>2
  <2>2. a.no = l.no /\ ~ (On(request, a.no) > 0)
    BY <1>1, <1>5, <2>1
  <2>3. a = l
    BY <1>1, <2>1, <2>2
  <2>4. \A k \in written : On(request, k.no) > 0
    OBVIOUS
  <2> QED
    BY <2>2, <2>3, <2>4
<1>6. written \subseteq after
  OBVIOUS
<1> QED
  BY <1>3, <1>4, <1>5, <1>6

\* Alone, the counters loaded are the stored ones: they stay exact, and the status
\* says whether all is delivered.
LEMMA CountDeliveryOrderly ==
  ASSUME IInv, IInv', OneAtATime, Orderly, NEW t \in Tasks, CountDelivery(t)
  PROVE  Orderly'
<1> DEFINE me == task[t]
           request == task[t].doc.lines
           after == Counted(task[t].order.lines, task[t].doc.lines)
           written == {l \in after : On(request, l.no) > 0}
<1>1. me.op = "deliver" /\ me.todo = Counting /\ me.pc # "idle" /\ me.pc = "work"
  BY Doings, Doer DEF Acts, CountDelivery
<1>2. me.op \in Carriers /\ Creating(t)
  BY <1>1 DEF Carriers, Creating
<1>3. PICK o \in Orders : o = me.o
  BY <1>1, Working DEF Knows, Carriers
<1>4. PICK d \in Docs : d = me.d
  BY <1>1, Working DEF Knows, Carriers
<1>5. /\ doc[d].kind = "delivery" /\ doc[d].order = o /\ doc[d].lines = << >>
      /\ doc[d] \in Document
  BY <1>1, <1>2, <1>3, <1>4, Working DEF Carries
<1>6. me.order = order[o] /\ OpenForDelivery(order[o]) /\ doc[d].goods = Missing
  BY <1>1, <1>2, <1>3, <1>4, OrderlyNow, Apart DEF Current
<1>7. /\ request \in Seq(DocLine) /\ order[o] \in Order /\ order[o].lines \in SUBSET OrderLine
      /\ Exact(o) /\ Numbered(order[o].lines)
  <2>1. me.doc \in Document /\ order[o] \in Order
    BY Working, TaskFields
  <2>2. Exact(o)
    BY OrderlyNow
  <2> QED
    BY <2>1, <2>2 DEF Document, Order, Exact
<1>8. \/ Stop(t) /\ UNCHANGED <<quote, order, doc>>
      \/ /\ Fits(me.order.lines, request) /\ Go(t, me) /\ quote' = quote
         /\ order' = [order EXCEPT
              ![me.o].lines = {l \in @ : \A k \in written : k.no # l.no} \cup written,
              ![me.o].status = IF StatusAfter(after) = me.order.status THEN @
                               ELSE StatusAfter(after)]
         /\ doc' = [doc EXCEPT ![me.d].lines = request]
  BY DEF CountDelivery
<1>9. CASE Stop(t) /\ UNCHANGED <<quote, order, doc>>
  BY <1>1, <1>9, StopOrderly
<1>10. CASE /\ Fits(me.order.lines, request) /\ Go(t, me) /\ quote' = quote
            /\ order' = [order EXCEPT
                 ![me.o].lines = {l \in @ : \A k \in written : k.no # l.no} \cup written,
                 ![me.o].status = IF StatusAfter(after) = me.order.status THEN @
                                  ELSE StatusAfter(after)]
            /\ doc' = [doc EXCEPT ![me.d].lines = request]
  <2>1. {l \in order[o].lines : \A k \in written : k.no # l.no} \cup written = after
        /\ Numbered(after)
    <3>1. after = Counted(order[o].lines, request)
      BY <1>6
    <3>2. written = {l \in after : On(request, l.no) > 0}
      OBVIOUS
    <3> HIDE DEF after, written, request
    <3> QED
      BY <1>7, <3>1, <3>2, CountedLines
  <2>2. /\ order'[o].lines = after /\ order'[o].status = StatusAfter(after)
        /\ order'[o].whole = order[o].whole /\ order'[o].quote = order[o].quote
        /\ \A p \in Orders \ {o} : order'[p] = order[p]
    <3>1. order' = [order EXCEPT
            ![o].lines = {l \in order[o].lines : \A k \in written : k.no # l.no} \cup written,
            ![o].status = IF StatusAfter(after) = order[o].status THEN order[o].status
                          ELSE StatusAfter(after)]
      BY <1>3, <1>6, <1>10
    <3>2. order' = [order EXCEPT ![o].lines = after, ![o].status = StatusAfter(after)]
      <4> HIDE DEF after, written
      <4> QED
        BY <2>1, <3>1
    <3> HIDE DEF me, after, written
    <3> QED
      BY <1>7, <3>2, Working DEF Order
  <2>3. /\ doc'[d].lines = request /\ doc'[d].kind = "delivery" /\ doc'[d].order = o
        /\ doc'[d].goods = Missing /\ doc'[d].moved = doc[d].moved
        /\ \A e \in Docs \ {d} : doc'[e] = doc[e]
    <3>1. doc' = [doc EXCEPT ![d].lines = request]
      BY <1>4, <1>10
    <3> HIDE DEF me, request, after, written
    <3> QED
      BY <1>5, <1>6, <3>1, Working DEF Document
  <2>4. /\ \A u \in Tasks \ {t} : task'[u] = task[u]
        /\ task'[t].op = "deliver" /\ task'[t].d = d /\ task'[t].todo = Tail(Counting)
    <3>1. me \in Task /\ me.linked \in BOOLEAN /\ me.todo # Finishing
      BY <1>1, Working, TaskFields, Apart
    <3>2. me = [me EXCEPT !.linked = me.linked] /\ Go(t, me)
      BY <1>10, <3>1, SameTask
    <3> HIDE DEF me, request, after, written
    <3>3. /\ \A u \in Tasks \ {t} : task'[u] = task[u]
          /\ task'[t].op = task[t].op /\ task'[t].d = task[t].d
          /\ task'[t].todo = Tail(task[t].todo)
      BY <1>1, <3>1, <3>2, GoesOn DEF me
    <3> QED
      BY <1>1, <1>4, <3>3 DEF me
  <2>5. Current(t)'
    <3>1. task'[t].todo = Drafting /\ Drafting \in Later /\ Drafting \notin {Approving, Posting}
      BY <2>4, Scripts, Apart DEF Later
    <3> QED
      BY <2>3, <2>4, <3>1, CarrierCurrent
  <2>6. doc \in [Docs -> Document] /\ doc' \in [Docs -> Document]
    BY DEF IInv, TypeOK
  <2>7. ASSUME NEW p, NEW no
        PROVE  DeliveredOn(p, no)' = DeliveredOn(p, no) + (IF p = o THEN On(request, no) ELSE 0)
    <3>1. /\ DeliveredOn(p, no) \in Nat
          /\ DeliveredOn(p, no)' = DeliveredOn(p, no) - Share(doc[d], p, no) + Share(doc'[d], p, no)
      BY <2>3, <2>6, DeliveredBy
    <3>2. Share(doc[d], p, no) = 0
      BY <1>5, NothingNamed DEF Share
    <3>3. Share(doc'[d], p, no) = IF p = o THEN On(request, no) ELSE 0
      BY <2>3 DEF Share
    <3>4. On(request, no) \in Nat
      BY <1>7, QuantityNat
    <3> HIDE DEF request, after, written, me
    <3> QED
      BY <3>1, <3>2, <3>3, <3>4
  <2>8. ASSUME NEW l \in after
        PROVE  /\ l.done = DeliveredOn(o, l.no)' /\ l.done <= l.qty
               /\ l.done \in Nat /\ l.qty \in Nat
    <3>1. after = Counted(order[o].lines, request)
      BY <1>6
    <3>2. /\ l.done \in Nat /\ l.qty \in Nat
          /\ \E k \in order[o].lines : l.no = k.no /\ l.done = k.done + On(request, l.no)
      BY <1>7, <3>1, CountedLine
    <3>3. l.done <= l.qty
      BY <1>10 DEF Fits
    <3>4. \A k \in order[o].lines : k.done = DeliveredOn(o, k.no)
      BY <1>7 DEF Exact
    <3>5. l.done = DeliveredOn(o, l.no) + On(request, l.no)
      BY <3>2, <3>4
    <3>6. DeliveredOn(o, l.no)' = DeliveredOn(o, l.no) + On(request, l.no)
      BY <2>7
    <3> QED
      BY <3>2, <3>3, <3>5, <3>6
  <2>9. Exact(o)'
    <3>1. /\ order'[o].status = "Fully Delivered" => \A l \in after : l.done = l.qty
          /\ order'[o].status = "Partially Delivered" => \E l \in after : l.done < l.qty
          /\ order'[o].status \in {"Fully Delivered", "Partially Delivered"}
      <4> HIDE DEF after, written, request
      <4>1. CASE \A l \in after : l.done >= l.qty
        <5>1. order'[o].status = "Fully Delivered"
          BY <2>2, <4>1 DEF StatusAfter
        <5>2. \A l \in after : l.done = l.qty
          <6>1. ASSUME NEW l \in after PROVE l.done = l.qty
            <7>1. l.done <= l.qty /\ l.done \in Nat /\ l.qty \in Nat
              BY <2>8
            <7> QED
              BY <4>1, <7>1
          <6> QED
            BY <6>1
        <5> QED
          BY <5>1, <5>2
      <4>2. CASE ~ \A l \in after : l.done >= l.qty
        <5>1. order'[o].status = "Partially Delivered"
          BY <2>2, <4>2 DEF StatusAfter
        <5>2. \E l \in after : l.done < l.qty
          BY <2>8, <4>2
        <5> QED
          BY <5>1, <5>2
      <4> QED
        BY <4>1, <4>2
    <3>2. /\ order'[o].status \notin {"Draft", "Submitted", "Rejected", "Cancelled"}
          /\ order'[o].status \notin {Missing, "Draft"}
      BY <3>1 DEF Missing
    <3>3. \A l \in after : l.done = DeliveredOn(o, l.no)'
      BY <2>8
    <3> HIDE DEF after, written, request, me
    <3> QED
      BY <2>1, <2>2, <3>1, <3>2, <3>3 DEF Exact
  <2>10. ASSUME NEW p \in Orders \ {o} PROVE Exact(p)'
    <3>1. \A no : DeliveredOn(p, no)' = DeliveredOn(p, no)
      <4>1. ASSUME NEW no PROVE DeliveredOn(p, no)' = DeliveredOn(p, no)
        <5>1. DeliveredOn(p, no) \in Nat
          BY <2>6, DeliveredOnIs
        <5>2. DeliveredOn(p, no)' = DeliveredOn(p, no) + (IF p = o THEN On(request, no) ELSE 0)
          BY <2>7
        <5> HIDE DEF after, written, request, me
        <5> QED
          BY <5>1, <5>2
      <4> QED
        BY <4>1
    <3>2. Exact(p) /\ order'[p] = order[p]
      BY <2>2, OrderlyNow
    <3> QED
      BY <3>1, <3>2, ExactKept
  <2>11. \A e \in Docs : Moved(e)'
    <3>1. Moved(d)'
      <4>1. doc[d].moved = 0
        BY <1>6, OrderlyNow DEF Moved, Missing
      <4> QED
        BY <2>3, <4>1 DEF Moved, Missing
    <3>2. \A e \in Docs \ {d} : Moved(e)'
      BY <2>3, OrderlyNow DEF Moved
    <3> QED
      BY <3>1, <3>2
  <2>12. \A q \in Quotes : Converted(q)'
    <3>1. \A p \in Orders : order'[p].whole = order[p].whole
                           /\ (order[p].whole => order'[p].quote = order[p].quote)
      BY <2>2
    <3>2. quote' = quote
      BY <1>10
    <3> QED
      BY <3>1, <3>2, WholeKept
  <2>13. \A p \in Orders : Exact(p)'
    BY <2>9, <2>10
  <2>14. task[t].pc # "idle"
    BY <1>1
  <2> HIDE DEF me, after, written, request
  <2> QED
    BY <2>4, <2>5, <2>11, <2>12, <2>13, <2>14, OrderlyStep
<1> QED
  BY <1>8, <1>9, <1>10

----------------------------------------------------------------------------
(* What the goods of a document name *)

\* Goods are of a document with lines and, unless the warehouse may have
\* changed them, name what the lines name; so do, one handler at a time, the
\* goods that a document names.
NamesLines(d) ==
  /\ doc[d].goods # Missing =>
       doc[d].lines # << >> /\ (~ Asked("edit") => doc[d].named = Total(doc[d].lines))
  /\ OneAtATime /\ doc[d].linked => doc[d].named = Total(doc[d].lines)

\* A handler that drafted the goods, or has them posted.
Owns(t) == task[t].op \in Carriers /\ (task[t].linked \/ task[t].todo \in {Approving, Posting})

\* Alone, it has the goods as it drafted them.
Owned(t) == Owns(t) => doc[task[t].d].named = Total(doc[task[t].d].lines)

Agreed == /\ \A d \in Docs : NamesLines(d)
          /\ OneAtATime => \A t \in Tasks : Owned(t)

\* A handler at rest owns nothing.
LEMMA RestingOwns ==
  ASSUME NEW u \in Tasks, task'[u] = Resting
  PROVE  Owned(u)'
<1>1. task'[u].op = Missing /\ Missing \notin Carriers
  BY DEF Resting, Missing, Carriers
<1> QED
  BY <1>1 DEF Owned, Owns

\* What a step has to show.
LEMMA AgreedStep ==
  ASSUME IInv, Agreed, NEW t \in Tasks, task[t].pc # "idle" \/ MayBegin(t),
         \A u \in Tasks \ {t} : task'[u] = task[u], UNCHANGED scenario,
         \A d \in Docs : NamesLines(d)', OneAtATime => Owned(t)'
  PROVE  Agreed'
<1>1. OneAtATime' <=> OneAtATime
  BY DEF OneAtATime
<1>2. ASSUME OneAtATime PROVE \A u \in Tasks : Owned(u)'
  <2>1. \A u \in Tasks \ {t} : task'[u] = Resting
    BY <1>2, OthersRest
  <2> QED
    BY <1>2, <2>1, RestingOwns
<1> QED
  BY <1>1, <1>2 DEF Agreed

\* A step that changes no document.
LEMMA TaskAgreed ==
  ASSUME IInv, Agreed, NEW t \in Tasks, task[t].pc # "idle" \/ MayBegin(t),
         \A u \in Tasks \ {t} : task'[u] = task[u], UNCHANGED <<doc, scenario>>,
         Owned(t)'
  PROVE  Agreed'
<1>1. \A d \in Docs : NamesLines(d)'
  BY DEF Agreed, NamesLines, OneAtATime, Asked
<1> QED
  BY <1>1, AgreedStep

\* A handler that ends without a change to a document.
LEMMA StopAgreed ==
  ASSUME IInv, Agreed, NEW t \in Tasks, task[t].pc # "idle", Stop(t), UNCHANGED <<doc, scenario>>
  PROVE  Agreed'
<1>1. task'[t] = Resting /\ \A u \in Tasks \ {t} : task'[u] = task[u]
  BY Rests
<1>2. Owned(t)'
  BY <1>1, RestingOwns
<1> HIDE DEF Resting
<1> QED
  BY <1>1, <1>2, TaskAgreed

\* A handler that begins has drafted nothing.
LEMMA BeginsAgreed ==
  ASSUME IInv, Agreed, NEW t \in Tasks, MayBegin(t), NEW me, task' = [task EXCEPT ![t] = me],
         UNCHANGED <<doc, scenario>>,
         me.op \notin Carriers \/ (~ me.linked /\ me.todo \notin {Approving, Posting})
  PROVE  Agreed'
<1>1. task'[t] = me /\ \A u \in Tasks \ {t} : task'[u] = task[u]
  BY Starts
<1>2. Owned(t)'
  BY <1>1 DEF Owned, Owns
<1> QED
  BY <1>1, <1>2, TaskAgreed

\* A step that changes one document.
LEMMA DocAgreed ==
  ASSUME IInv, Agreed, NEW t \in Tasks, task[t].pc # "idle" \/ MayBegin(t),
         \A u \in Tasks \ {t} : task'[u] = task[u], UNCHANGED scenario,
         NEW d \in Docs, \A e \in Docs \ {d} : doc'[e] = doc[e],
         NamesLines(d)', OneAtATime => Owned(t)'
  PROVE  Agreed'
<1>1. \A e \in Docs \ {d} : NamesLines(e)'
  BY DEF Agreed, NamesLines, OneAtATime, Asked
<1>2. \A e \in Docs : NamesLines(e)'
  BY <1>1
<1> QED
  BY <1>2, AgreedStep

\* A document that stays what it is, but for its status.
LEMMA NamesKept ==
  ASSUME NEW d \in Docs, NamesLines(d), UNCHANGED scenario, doc'[d].lines = doc[d].lines,
         doc'[d].goods = doc[d].goods, doc'[d].named = doc[d].named,
         OneAtATime /\ doc'[d].linked => doc'[d].named = Total(doc'[d].lines)
  PROVE  NamesLines(d)'
BY DEF NamesLines, OneAtATime, Asked

\* A quotation is loaded.
LEMMA BeginQuoteStepAgreed ==
  ASSUME IInv, Agreed, NEW t \in Tasks, BeginQuoteStep(t)
  PROVE  Agreed'
<1>1. PICK op \in scenario.ops, q \in Quotes :
        /\ MayQuote(op, quote[q])
        /\ Start(t, [Resting EXCEPT !.op = op, !.q = q, !.quote = quote[q],
                                    !.todo = <<IF op = "revise" THEN "revise" ELSE "status">>])
  BY DEF BeginQuoteStep
<1>2. op \notin Carriers
  BY <1>1 DEF MayQuote, Carriers
<1> DEFINE todo == <<IF op = "revise" THEN "revise" ELSE "status">>
           me == [[Resting EXCEPT !.op = op, !.q = q, !.quote = quote[q], !.todo = todo]
                   EXCEPT !.pc = "work"]
<1>3. task' = [task EXCEPT ![t] = me]
  BY <1>1 DEF Start
<1> HIDE DEF todo
<1>4. me.op = op
  BY DEF Resting
<1> HIDE DEF me
<1> QED
  BY <1>2, <1>3, <1>4, BeginsAgreed DEF BeginQuoteStep

\* An order is loaded.
LEMMA BeginOrderStepAgreed ==
  ASSUME IInv, Agreed, NEW t \in Tasks, BeginOrderStep(t)
  PROVE  Agreed'
<1>1. PICK op \in scenario.ops, o \in Orders :
        /\ MayOrder(op, order[o])
        /\ \E new \in IF op = "update" THEN NewLines(3) ELSE {{}} :
             Start(t, [Resting EXCEPT !.op = op, !.o = o, !.order = order[o], !.new = new,
                         !.todo = <<IF op = "update" THEN "rewrite" ELSE "status">>])
  BY DEF BeginOrderStep
<1>2. op \notin Carriers
  BY <1>1 DEF MayOrder, Carriers
<1>3. PICK new \in IF op = "update" THEN NewLines(3) ELSE {{}} :
        Start(t, [Resting EXCEPT !.op = op, !.o = o, !.order = order[o], !.new = new,
                    !.todo = <<IF op = "update" THEN "rewrite" ELSE "status">>])
  BY <1>1
<1> DEFINE todo == <<IF op = "update" THEN "rewrite" ELSE "status">>
           me == [[Resting EXCEPT !.op = op, !.o = o, !.order = order[o], !.new = new, !.todo = todo]
                   EXCEPT !.pc = "work"]
<1>4. task' = [task EXCEPT ![t] = me]
  BY <1>3 DEF Start
<1> HIDE DEF todo
<1>5. me.op = op
  BY DEF Resting
<1> HIDE DEF me
<1> QED
  BY <1>2, <1>4, <1>5, BeginsAgreed DEF BeginOrderStep

\* A document is loaded, before its goods are drafted.
LEMMA BeginDocStepAgreed ==
  ASSUME IInv, Agreed, NEW t \in Tasks, BeginDocStep(t)
  PROVE  Agreed'
<1>1. PICK op \in scenario.ops, d \in Docs :
        /\ MayDoc(op, doc[d])
        /\ Start(t, [Resting EXCEPT !.op = op, !.d = d, !.doc = doc[d],
                       !.todo = IF op = "cancel delivery" THEN <<"status">>
                                ELSE <<"status", "draft", "sign", "post", "finish">>])
  BY DEF BeginDocStep
<1>2. op \in {"cancel delivery", "approve return"}
  BY <1>1 DEF MayDoc
<1> DEFINE todo == IF op = "cancel delivery" THEN <<"status">>
                   ELSE <<"status", "draft", "sign", "post", "finish">>
           me == [[Resting EXCEPT !.op = op, !.d = d, !.doc = doc[d], !.todo = todo]
                   EXCEPT !.pc = "work"]
<1>3. task' = [task EXCEPT ![t] = me]
  BY <1>1 DEF Start
<1>4. op = "approve return" => todo = Signing
  BY DEF Signing
<1> HIDE DEF todo
<1>5. me.op = op /\ me.todo = todo /\ me.linked = FALSE
  BY DEF Resting
<1> HIDE DEF me
<1>6. op = "cancel delivery" => op \notin Carriers
  BY DEF Carriers
<1> QED
  BY <1>2, <1>3, <1>4, <1>5, <1>6, Apart, BeginsAgreed DEF BeginDocStep

\* A new or cloned quotation.
LEMMA QuoteHeaderAgreed ==
  ASSUME IInv, Agreed, NEW t \in Tasks, NEW op \in {"quote", "clone"}, NEW lines,
         MayBegin(t), QuoteHeader(t, op, lines), UNCHANGED <<doc, scenario>>
  PROVE  Agreed'
<1>1. PICK q \in Quotes :
        Start(t, [Resting EXCEPT !.op = op, !.q = q, !.quote.lines = lines, !.todo = <<"quote">>])
  BY DEF QuoteHeader
<1> DEFINE todo == <<"quote">>
           me == [[Resting EXCEPT !.op = op, !.q = q, !.quote.lines = lines, !.todo = todo]
                   EXCEPT !.pc = "work"]
<1>2. task' = [task EXCEPT ![t] = me]
  BY <1>1 DEF Start
<1> HIDE DEF todo
<1>3. me.op = op
  BY DEF Resting
<1> HIDE DEF me
<1>4. op \notin Carriers
  BY DEF Carriers
<1> QED
  BY <1>2, <1>3, <1>4, BeginsAgreed

\* create_quotation and clone_quotation.
LEMMA NewQuoteAgreed ==
  ASSUME IInv, Agreed, NEW t \in Tasks, CreateQuote(t) \/ CloneQuote(t)
  PROVE  Agreed'
BY QuoteHeaderAgreed DEF CreateQuote, CloneQuote

\* A new order.
LEMMA OrderHeaderAgreed ==
  ASSUME IInv, Agreed, NEW t \in Tasks, NEW op \in {"order", "convert"}, NEW o, NEW q,
         MayBegin(t), OrderHeader(t, op, o, q), UNCHANGED <<doc, scenario>>
  PROVE  Agreed'
<1>1. PICK new \in NewLines(1) :
        Start(t, [Resting EXCEPT !.op = op, !.o = o, !.new = new, !.todo = <<"order">>])
  BY DEF OrderHeader
<1> DEFINE todo == <<"order">>
           me == [[Resting EXCEPT !.op = op, !.o = o, !.new = new, !.todo = todo]
                   EXCEPT !.pc = "work"]
<1>2. task' = [task EXCEPT ![t] = me]
  BY <1>1 DEF Start
<1> HIDE DEF todo
<1>3. me.op = op
  BY DEF Resting
<1> HIDE DEF me
<1>4. op \notin Carriers
  BY DEF Carriers
<1> QED
  BY <1>2, <1>3, <1>4, BeginsAgreed

\* create_order and create_from_quotation.
LEMMA NewOrderAgreed ==
  ASSUME IInv, Agreed, NEW t \in Tasks, CreateOrder(t) \/ Convert(t)
  PROVE  Agreed'
BY OrderHeaderAgreed DEF CreateOrder, Convert

\* expire_quotations.
LEMMA BeginExpiryAgreed ==
  ASSUME IInv, Agreed, NEW t \in Tasks, BeginExpiry(t)
  PROVE  Agreed'
<1>1. PICK due \in SUBSET {q \in Quotes : quote[q].status = "Submitted"} \ {{}} :
        Start(t, [Resting EXCEPT !.op = "expire", !.due = due])
  BY DEF BeginExpiry
<1> DEFINE me == [[Resting EXCEPT !.op = "expire", !.due = due] EXCEPT !.pc = "work"]
<1>2. task' = [task EXCEPT ![t] = me]
  BY <1>1 DEF Start
<1>3. me.op = "expire" /\ "expire" \notin Carriers
  BY DEF Resting, Carriers
<1> HIDE DEF me
<1> QED
  BY <1>2, <1>3, BeginsAgreed DEF BeginExpiry

\* Handlers of quotations and orders that end.
LEMMA EndsAgreed ==
  ASSUME IInv, Agreed, NEW t \in Tasks,
         \/ WriteQuoteLines(t) \/ ReviseQuote(t) \/ RewriteOrder(t) \/ WriteOrderLines(t)
         \/ RefuseLines(t) \/ FailDelivery(t)
  PROVE  Agreed'
<1>1. CASE WriteQuoteLines(t)
  <2>1. Doing(t, "quote") /\ task[t].todo = <<"quote">>
    BY <1>1, Doings DEF WriteQuoteLines, Acts
  <2>2. Stop(t)
    BY <1>1, <2>1, Scripts DEF WriteQuoteLines, Go, Acts
  <2> QED
    BY <1>1, <2>1, <2>2, Doer, StopAgreed DEF WriteQuoteLines
<1>2. CASE ReviseQuote(t)
  <2>1. Doing(t, "revise") /\ task[t].todo = <<"revise">>
    BY <1>2, Doings DEF ReviseQuote, Acts
  <2>2. Stop(t)
    BY <1>2, <2>1, Scripts DEF ReviseQuote, Go, Acts
  <2> QED
    BY <1>2, <2>1, <2>2, Doer, StopAgreed DEF ReviseQuote
<1>3. CASE RewriteOrder(t)
  BY <1>3, Doer, StopAgreed DEF RewriteOrder
<1>4. CASE WriteOrderLines(t)
  BY <1>4, Doer, StopAgreed DEF WriteOrderLines
<1>5. CASE RefuseLines(t)
  BY <1>5, Doer, StopAgreed DEF RefuseLines
<1>6. CASE FailDelivery(t)
  BY <1>6, Doer, StopAgreed DEF FailDelivery, GoodsRefused
<1> QED
  BY <1>1, <1>2, <1>3, <1>4, <1>5, <1>6

\* The quotations that expire.
LEMMA ExpireAgreed ==
  ASSUME IInv, Agreed, NEW t \in Tasks, Expire(t)
  PROVE  Agreed'
<1>1. task[t].pc # "idle"
  <2>1. Resting.op # "expire"
    BY DEF Resting, Missing
  <2> QED
    BY <2>1, Working DEF Expire, Knows
<1> QED
  BY <1>1, StopAgreed DEF Expire

\* A lost handler.
LEMMA CrashAgreed ==
  ASSUME IInv, Agreed, NEW t \in Tasks, Crash(t)
  PROVE  Agreed'
<1>1. task[t].pc # "idle"
  BY DEF Crash
<1> QED
  BY <1>1, StopAgreed DEF Crash

\* A carrier that goes on with the goods of its document.
LEMMA GoodsAgreed ==
  ASSUME IInv, Agreed, NEW t \in Tasks, NEW act \in {"draft", "sign", "post"}, Doing(t, act),
         NEW linked \in BOOLEAN, NEW me, me = [task[t] EXCEPT !.linked = linked], Go(t, me),
         UNCHANGED scenario, NEW d \in Docs, d = task[t].d, \A e \in Docs \ {d} : doc'[e] = doc[e],
         doc'[d].lines = doc[d].lines, doc'[d].lines # << >>,
         ~ Asked("edit") \/ OneAtATime => doc'[d].named = Total(doc'[d].lines)
  PROVE  Agreed'
<1>1. /\ task[t].op \in {"deliver", "approve return"} /\ task[t].todo \in Later
      /\ task[t].pc = "work" /\ task[t].pc # "idle" /\ task[t].todo # Finishing
  <2>1. /\ task[t].op \in {"deliver", "approve return"} /\ task[t].todo \in Later
        /\ task[t].pc = "work" /\ task[t].pc # "idle"
    BY CarrierIs, Zenon
  <2>2. /\ act = "draft" => task[t].todo = Drafting
        /\ act = "sign" => task[t].todo = Approving
        /\ act = "post" => task[t].todo = Posting
    BY Doings DEF Acts
  <2> QED
    BY <2>1, <2>2, Apart
<1>2. task'[t].d = d /\ \A u \in Tasks \ {t} : task'[u] = task[u]
  BY <1>1, GoesOn
<1>3. OneAtATime => Owned(t)'
  BY <1>2 DEF Owned
<1>4. NamesLines(d)'
  BY DEF NamesLines, OneAtATime, Asked
<1> QED
  BY <1>1, <1>2, <1>3, <1>4, DocAgreed

\* A drafted issue or receipt names what the lines name.
LEMMA DraftGoodsAgreed ==
  ASSUME IInv, Agreed, NEW t \in Tasks, DraftGoods(t)
  PROVE  Agreed'
<1> DEFINE me == task[t]
<1>1. /\ Doing(t, "draft") /\ Go(t, me) /\ UNCHANGED scenario /\ me.doc.lines # << >>
      /\ doc' = [doc EXCEPT ![me.d].goods = "Draft", ![me.d].named = Total(me.doc.lines)]
  BY DEF DraftGoods
<1>2. PICK d \in Docs : d = me.d /\ doc[d] \in Document /\ me.doc.lines = doc[d].lines
  BY <1>1, CarrierIs, Zenon
<1>3. /\ doc'[d].lines = doc[d].lines /\ doc'[d].named = Total(doc[d].lines)
      /\ \A e \in Docs \ {d} : doc'[e] = doc[e]
  <2>1. doc' = [doc EXCEPT ![d].goods = "Draft", ![d].named = Total(doc[d].lines)]
    BY <1>1, <1>2
  <2> HIDE DEF me
  <2> QED
    BY <1>2, <2>1, Working DEF Document
<1>4. me.linked \in BOOLEAN /\ me = [task[t] EXCEPT !.linked = me.linked]
  BY SameTask, TaskFields, Working
<1>5. doc'[d].lines # << >> /\ doc'[d].named = Total(doc'[d].lines) /\ d = task[t].d
  BY <1>1, <1>2, <1>3
<1>6. Doing(t, "draft") /\ Go(t, me) /\ UNCHANGED scenario
  BY <1>1
<1> HIDE DEF me
<1> QED
  BY <1>3, <1>4, <1>5, <1>6, GoodsAgreed

\* What a carrier that goes on finds.
LEMMA FoundAgreed ==
  ASSUME IInv, Agreed, NEW t \in Tasks, NEW act \in {"sign", "post"}, Doing(t, act)
  PROVE  LET d == task[t].d IN
         /\ d \in Docs /\ doc[d] \in Document /\ doc[d].lines # << >>
         /\ ~ Asked("edit") \/ OneAtATime => doc[d].named = Total(doc[d].lines)
<1> DEFINE d == task[t].d
<1>1. task[t].op \in Carriers /\ d \in Docs /\ doc[d] \in Document
  BY CarrierIs, Zenon
<1>2. task[t].todo \in {Approving, Posting}
  BY Doings DEF Acts
<1>3. doc[d].goods # Missing
  BY <1>1, <1>2, Working DEF Carries
<1>4. doc[d].lines # << >> /\ (~ Asked("edit") => doc[d].named = Total(doc[d].lines))
  BY <1>1, <1>3 DEF Agreed, NamesLines
<1>5. OneAtATime => doc[d].named = Total(doc[d].lines)
  BY <1>1, <1>2 DEF Agreed, Owned, Owns
<1> QED
  BY <1>1, <1>4, <1>5

\* Approval changes no lines.
LEMMA ApproveGoodsAgreed ==
  ASSUME IInv, Agreed, NEW t \in Tasks, ApproveGoods(t)
  PROVE  Agreed'
<1> DEFINE me == task[t]
<1>1. /\ Doing(t, "sign") /\ Go(t, me) /\ UNCHANGED scenario
      /\ doc' = [doc EXCEPT ![me.d].goods = "Approved"]
  BY DEF ApproveGoods
<1>2. PICK d \in Docs : /\ d = me.d /\ doc[d] \in Document /\ doc[d].lines # << >>
                        /\ ~ Asked("edit") \/ OneAtATime => doc[d].named = Total(doc[d].lines)
  BY <1>1, FoundAgreed
<1>3. /\ doc'[d].lines = doc[d].lines /\ doc'[d].named = doc[d].named
      /\ \A e \in Docs \ {d} : doc'[e] = doc[e]
  <2> HIDE DEF me
  <2> QED
    BY <1>1, <1>2, Working DEF Document
<1>4. me.linked \in BOOLEAN /\ me = [task[t] EXCEPT !.linked = me.linked]
  BY SameTask, TaskFields, Working
<1>5. /\ doc'[d].lines # << >> /\ d = task[t].d
      /\ ~ Asked("edit") \/ OneAtATime => doc'[d].named = Total(doc'[d].lines)
  BY <1>2, <1>3
<1>6. Doing(t, "sign") /\ Go(t, me) /\ UNCHANGED scenario
  BY <1>1
<1> HIDE DEF me
<1> QED
  BY <1>3, <1>4, <1>5, <1>6, GoodsAgreed

\* Nor does the posting.
LEMMA PostGoodsAgreed ==
  ASSUME IInv, Agreed, NEW t \in Tasks, PostGoods(t)
  PROVE  Agreed'
<1> DEFINE me == task[t]
           done == [me EXCEPT !.linked = TRUE]
<1>1. /\ Doing(t, "post") /\ Go(t, done) /\ UNCHANGED scenario
      /\ doc' = [doc EXCEPT ![me.d].goods = "Posted", ![me.d].moved = @ + doc[me.d].named]
  BY DEF PostGoods, Post
<1>2. PICK d \in Docs : /\ d = me.d /\ doc[d] \in Document /\ doc[d].lines # << >>
                        /\ ~ Asked("edit") \/ OneAtATime => doc[d].named = Total(doc[d].lines)
  BY <1>1, FoundAgreed
<1>3. /\ doc'[d].lines = doc[d].lines /\ doc'[d].named = doc[d].named
      /\ \A e \in Docs \ {d} : doc'[e] = doc[e]
  <2> HIDE DEF me
  <2> QED
    BY <1>1, <1>2, Working DEF Document
<1>4. done = [task[t] EXCEPT !.linked = TRUE]
  OBVIOUS
<1>5. /\ doc'[d].lines # << >> /\ d = task[t].d
      /\ ~ Asked("edit") \/ OneAtATime => doc'[d].named = Total(doc'[d].lines)
  BY <1>2, <1>3
<1>6. Doing(t, "post") /\ Go(t, done) /\ UNCHANGED scenario
  BY <1>1
<1> HIDE DEF done, me
<1> QED
  BY <1>3, <1>4, <1>5, <1>6, GoodsAgreed

\* A return that goes on without its goods.
LEMMA SwallowFailureAgreed ==
  ASSUME IInv, Agreed, NEW t \in Tasks, SwallowFailure(t)
  PROVE  Agreed'
<1>1. task[t].op = "approve return" /\ task[t].pc # "idle"
  BY Doer DEF SwallowFailure, GoodsRefused
<1>2. /\ task'[t].op = task[t].op /\ task'[t].d = task[t].d /\ task'[t].todo = Finishing
      /\ task'[t].linked = task[t].linked /\ \A u \in Tasks \ {t} : task'[u] = task[u]
  BY Working DEF SwallowFailure, Finishing, Task
<1>3. UNCHANGED <<doc, scenario>>
  BY DEF SwallowFailure
<1>4. OneAtATime => Owned(t)'
  BY <1>1, <1>2, <1>3, Apart DEF Agreed, Owned, Owns
<1>5. \A d \in Docs : NamesLines(d)'
  BY <1>3 DEF Agreed, NamesLines, OneAtATime, Asked
<1> QED
  BY <1>1, <1>2, <1>3, <1>4, <1>5, AgreedStep

\* A document comes to name the goods its handler has posted.
LEMMA FinishDocumentAgreed ==
  ASSUME IInv, Agreed, NEW t \in Tasks, FinishDocument(t)
  PROVE  Agreed'
<1> DEFINE me == task[t]
<1>1. /\ Doing(t, "finish") /\ Stop(t) /\ UNCHANGED scenario
      /\ doc' = [doc EXCEPT ![me.d].status = IF me.op = "deliver" THEN "Delivered" ELSE "Completed",
                            ![me.d].linked = @ \/ me.linked]
  BY DEF FinishDocument
<1>2. PICK d \in Docs : d = me.d /\ doc[d] \in Document /\ me.pc # "idle" /\ me.op \in Carriers
  BY <1>1, CarrierIs, Zenon
<1>3. /\ doc'[d].lines = doc[d].lines /\ doc'[d].goods = doc[d].goods
      /\ doc'[d].named = doc[d].named /\ doc'[d].linked = (doc[d].linked \/ me.linked)
      /\ \A e \in Docs \ {d} : doc'[e] = doc[e]
  <2> HIDE DEF me
  <2> QED
    BY <1>1, <1>2, Working DEF Document
<1>4. OneAtATime /\ (doc[d].linked \/ me.linked) => doc[d].named = Total(doc[d].lines)
  BY <1>2 DEF Agreed, NamesLines, Owned, Owns
<1>5. NamesLines(d)'
  <2>1. NamesLines(d)
    BY DEF Agreed
  <2> HIDE DEF me
  <2> QED
    BY <1>1, <1>3, <1>4, <2>1, NamesKept
<1>6. task'[t] = Resting /\ \A u \in Tasks \ {t} : task'[u] = task[u]
  BY <1>1, Rests
<1>7. Owned(t)'
  BY <1>6, RestingOwns
<1> HIDE DEF Resting
<1> QED
  BY <1>1, <1>2, <1>3, <1>5, <1>6, <1>7, DocAgreed

\* The warehouse posts goods as they are.
LEMMA WarehousePostsAgreed ==
  ASSUME IInv, Agreed, NEW t \in Tasks, WarehousePosts(t)
  PROVE  Agreed'
<1>1. MayBegin(t) /\ UNCHANGED scenario /\ task' = task /\ task[t] = Resting
  BY Working DEF WarehousePosts, MayBegin, Knows
<1>2. PICK d \in Docs : /\ doc[d].goods \in {"Draft", "Approved"}
                        /\ doc' = [doc EXCEPT ![d].goods = "Posted", ![d].moved = @ + doc[d].named]
  BY DEF WarehousePosts, Post
<1>3. /\ doc'[d].lines = doc[d].lines /\ doc'[d].named = doc[d].named
      /\ doc'[d].linked = doc[d].linked /\ doc[d].goods # Missing
      /\ \A e \in Docs \ {d} : doc'[e] = doc[e]
  BY <1>2, Working DEF Document, Missing
<1>4. NamesLines(d)'
  BY <1>1, <1>3 DEF Agreed, NamesLines, OneAtATime, Asked
<1>5. task'[t] = Resting /\ \A u \in Tasks \ {t} : task'[u] = task[u]
  BY <1>1
<1>6. Owned(t)'
  BY <1>5, RestingOwns
<1> HIDE DEF Resting
<1> QED
  BY <1>1, <1>3, <1>4, <1>5, <1>6, DocAgreed

\* A draft that the warehouse changes is named by no document yet.
LEMMA WarehouseEditsAgreed ==
  ASSUME IInv, Agreed, NEW t \in Tasks, WarehouseEdits(t)
  PROVE  Agreed'
<1>1. /\ MayBegin(t) /\ UNCHANGED scenario /\ task' = task /\ task[t] = Resting
      /\ Asked("edit")
  BY Working DEF WarehouseEdits, MayBegin, Knows
<1>2. PICK d \in Docs, n \in 0..MaxLine : /\ doc[d].goods = "Draft"
                                          /\ doc' = [doc EXCEPT ![d].named = n]
  BY DEF WarehouseEdits
<1>3. ~ doc[d].linked
  BY <1>2 DEF IInv, Linked, Booked
<1>4. /\ doc'[d].lines = doc[d].lines /\ doc'[d].linked = doc[d].linked
      /\ doc[d].goods # Missing /\ \A e \in Docs \ {d} : doc'[e] = doc[e]
  BY <1>2, Working DEF Document, Missing
<1>5. NamesLines(d)'
  BY <1>1, <1>3, <1>4 DEF Agreed, NamesLines, OneAtATime, Asked
<1>6. task'[t] = Resting /\ \A u \in Tasks \ {t} : task'[u] = task[u]
  BY <1>1
<1>7. Owned(t)'
  BY <1>6, RestingOwns
<1> HIDE DEF Resting
<1> QED
  BY <1>1, <1>4, <1>5, <1>6, <1>7, DocAgreed

\* The status of a document is not about its goods.
LEMMA WriteStatusAgreed ==
  ASSUME IInv, Agreed, NEW t \in Tasks, WriteStatus(t)
  PROVE  Agreed'
<1> DEFINE me == task[t]
<1>1. /\ Doing(t, "status") /\ me.pc = "work" /\ me.pc # "idle" /\ Go(t, me) /\ UNCHANGED scenario
      /\ doc' = IF me.d = Missing THEN doc ELSE [doc EXCEPT ![me.d].status = Target(me.op)]
  BY Doer DEF WriteStatus
<1>2. \/ me.op \in QuoteSteps \cup OrderSteps \cup {"cancel delivery"} /\ me.todo = <<"status">>
      \/ me.op = "approve return" /\ me.todo = Signing
  BY <1>1, Doings DEF Acts
<1>3. me.todo = <<"status">> => Stop(t)
  BY <1>1, Scripts DEF Go, Acts
<1>4. CASE me.op \in QuoteSteps \cup OrderSteps
  <2>1. me.d = Missing
    BY <1>4, Working DEF Knows
  <2>2. me.todo = <<"status">>
    BY <1>2, <1>4 DEF QuoteSteps, OrderSteps
  <2>3. Stop(t) /\ UNCHANGED <<doc, scenario>>
    BY <1>1, <1>3, <2>1, <2>2
  <2> QED
    BY <1>1, <2>3, StopAgreed
<1>5. CASE me.op \in {"cancel delivery", "approve return"}
  <2>1. PICK d \in Docs : d = me.d
    BY <1>5, Working DEF Knows, Carriers
  <2>2. /\ doc'[d].lines = doc[d].lines /\ doc'[d].goods = doc[d].goods
        /\ doc'[d].named = doc[d].named /\ doc'[d].linked = doc[d].linked
        /\ \A e \in Docs \ {d} : doc'[e] = doc[e]
    <3>1. doc' = [doc EXCEPT ![d].status = Target(me.op)] /\ doc[d] \in Document
      BY <1>1, <2>1, NoSuchRow, Working
    <3> HIDE DEF me
    <3> QED
      BY <3>1, Working DEF Document
  <2>3. NamesLines(d)'
    <3>1. NamesLines(d)
      BY DEF Agreed
    <3>2. OneAtATime /\ doc'[d].linked => doc'[d].named = Total(doc'[d].lines)
      BY <2>2, <3>1 DEF NamesLines
    <3> QED
      BY <1>1, <2>2, <3>1, <3>2, NamesKept
  <2>4. CASE me.op = "cancel delivery"
    <3>1. Stop(t)
      BY <1>2, <1>3, <2>4
    <3>2. task'[t] = Resting /\ \A u \in Tasks \ {t} : task'[u] = task[u]
      BY <3>1, Rests
    <3>3. Owned(t)'
      BY <3>2, RestingOwns
    <3> HIDE DEF Resting
    <3> QED
      BY <1>1, <2>2, <2>3, <3>2, <3>3, DocAgreed
  <2>5. CASE me.op = "approve return"
    <3>1. me.todo = Signing /\ me.todo # Finishing /\ me.op \in Carriers
      BY <1>2, <2>5, Apart DEF QuoteSteps, OrderSteps, Carriers
    <3>2. me \in Task /\ me.linked \in BOOLEAN
      BY Working, TaskFields
    <3>3. me = [me EXCEPT !.linked = me.linked]
      BY <3>2, SameTask
    <3>4. /\ task'[t].d = d /\ task'[t].todo = Tail(Signing) /\ task'[t].linked = me.linked
          /\ \A u \in Tasks \ {t} : task'[u] = task[u]
      <4> HIDE DEF me
      <4> QED
        BY <1>1, <2>1, <2>5, <3>1, <3>2, <3>3, GoesOn DEF me
    <3>5. task'[t].todo \notin {Approving, Posting}
      BY <3>4, Scripts, Apart
    <3>6. OneAtATime /\ me.linked => doc[d].named = Total(doc[d].lines)
      BY <2>1, <3>1 DEF Agreed, Owned, Owns
    <3>7. OneAtATime => Owned(t)'
      BY <2>2, <3>4, <3>5, <3>6 DEF Owned, Owns
    <3> HIDE DEF me
    <3>8. task[t].pc # "idle"
      BY <1>1 DEF me
    <3> QED
      BY <1>1, <2>2, <2>3, <3>4, <3>7, <3>8, DocAgreed
  <2> QED
    BY <1>5, <2>4, <2>5
<1> QED
  BY <1>2, <1>4, <1>5

\* A document that begins has no goods.
LEMMA HeaderNames ==
  ASSUME IInv, NEW d \in Docs, NEW kind \in {"delivery", "return"}, NEW o \in Orders,
         doc' = [doc EXCEPT ![d] = Header(kind, o)]
  PROVE  NamesLines(d)' /\ \A e \in Docs \ {d} : doc'[e] = doc[e]
<1>1. doc'[d] = Header(kind, o) /\ \A e \in Docs \ {d} : doc'[e] = doc[e]
  BY DEF IInv, TypeOK
<1>2. doc'[d].goods = Missing /\ ~ doc'[d].linked
  BY <1>1, HeaderRow
<1> QED
  BY <1>1, <1>2 DEF NamesLines

\* create_delivery.
LEMMA BeginDeliveryAgreed ==
  ASSUME IInv, Agreed, NEW t \in Tasks, BeginDelivery(t)
  PROVE  Agreed'
<1>1. MayBegin(t) /\ UNCHANGED scenario
  BY DEF BeginDelivery
<1>2. PICK d \in Docs, o \in Orders :
        /\ FreeDoc(d) /\ OpenForDelivery(order[o])
        /\ doc' = [doc EXCEPT ![d] = [NoDoc EXCEPT !.kind = "delivery", !.status = "Draft",
                                                   !.order = o]]
        /\ \E lines \in Requests(o) :
             Start(t, [Resting EXCEPT !.op = "deliver", !.o = o, !.d = d, !.order = order[o],
                         !.doc = [doc'[d] EXCEPT !.lines = lines],
                         !.todo = <<"count", "draft", "sign", "post", "finish">>])
  BY DEF BeginDelivery
<1>3. PICK lines \in Requests(o) :
        Start(t, [Resting EXCEPT !.op = "deliver", !.o = o, !.d = d, !.order = order[o],
                    !.doc = [doc'[d] EXCEPT !.lines = lines],
                    !.todo = <<"count", "draft", "sign", "post", "finish">>])
  BY <1>2
<1>4. doc' = [doc EXCEPT ![d] = Header("delivery", o)]
  BY <1>2 DEF Header
<1>5. NamesLines(d)' /\ \A e \in Docs \ {d} : doc'[e] = doc[e]
  BY <1>4, HeaderNames
<1>6. /\ task'[t].linked = FALSE /\ task'[t].todo = Counting
      /\ \A u \in Tasks \ {t} : task'[u] = task[u]
  <2> DEFINE asked == [doc'[d] EXCEPT !.lines = lines]
             me == [[Resting EXCEPT !.op = "deliver", !.o = o, !.d = d, !.order = order[o],
                       !.doc = asked, !.todo = Counting] EXCEPT !.pc = "work"]
  <2>1. task' = [task EXCEPT ![t] = me]
    BY <1>3 DEF Start, Counting
  <2> HIDE DEF asked
  <2>2. me.linked = FALSE /\ me.todo = Counting
    BY DEF Resting
  <2> HIDE DEF me
  <2> QED
    BY <2>1, <2>2, Starts
<1>7. Owned(t)'
  BY <1>6, Apart DEF Owned, Owns
<1> QED
  BY <1>1, <1>5, <1>6, <1>7, DocAgreed

\* create_return.
LEMMA BeginReturnAgreed ==
  ASSUME IInv, Agreed, NEW t \in Tasks, BeginReturn(t)
  PROVE  Agreed'
<1>1. MayBegin(t) /\ UNCHANGED scenario
  BY DEF BeginReturn
<1>2. PICK d \in Docs, o \in Orders :
        /\ FreeDoc(d)
        /\ \E lines \in Requests(o) :
             /\ doc' = [doc EXCEPT ![d] = [NoDoc EXCEPT !.kind = "return", !.status = "Draft",
                                                        !.order = o]]
             /\ Start(t, [Resting EXCEPT !.op = "return", !.o = o, !.d = d,
                            !.doc = [doc'[d] EXCEPT !.lines = lines], !.todo = <<"lines">>])
  BY DEF BeginReturn
<1>3. PICK lines \in Requests(o) :
        /\ doc' = [doc EXCEPT ![d] = [NoDoc EXCEPT !.kind = "return", !.status = "Draft",
                                                   !.order = o]]
        /\ Start(t, [Resting EXCEPT !.op = "return", !.o = o, !.d = d,
                       !.doc = [doc'[d] EXCEPT !.lines = lines], !.todo = <<"lines">>])
  BY <1>2
<1>4. doc' = [doc EXCEPT ![d] = Header("return", o)]
  BY <1>3 DEF Header
<1>5. NamesLines(d)' /\ \A e \in Docs \ {d} : doc'[e] = doc[e]
  BY <1>4, HeaderNames
<1>6. /\ task'[t].linked = FALSE /\ task'[t].todo = <<"lines">>
      /\ \A u \in Tasks \ {t} : task'[u] = task[u]
  <2> DEFINE asked == [doc'[d] EXCEPT !.lines = lines]
             todo == <<"lines">>
             me == [[Resting EXCEPT !.op = "return", !.o = o, !.d = d, !.doc = asked, !.todo = todo]
                      EXCEPT !.pc = "work"]
  <2>1. task' = [task EXCEPT ![t] = me] /\ todo = <<"lines">>
    BY <1>3 DEF Start
  <2> HIDE DEF asked, todo
  <2>2. me.linked = FALSE /\ me.todo = todo
    BY DEF Resting
  <2> HIDE DEF me
  <2> QED
    BY <2>1, <2>2, Starts
<1>7. Owned(t)'
  <2>1. <<"lines">> \notin Later /\ {Approving, Posting} \subseteq Later
    BY Apart DEF Later
  <2> QED
    BY <1>6, <2>1 DEF Owned, Owns
<1> QED
  BY <1>1, <1>5, <1>6, <1>7, DocAgreed

\* A document that gets its lines has no goods.
LEMMA LinesAgreed ==
  ASSUME IInv, Agreed, NEW d \in Docs, doc[d].lines = << >>, NEW lines,
         doc' = [doc EXCEPT ![d].lines = lines]
  PROVE  /\ NamesLines(d)' /\ \A e \in Docs \ {d} : doc'[e] = doc[e]
<1>1. doc[d].goods = Missing /\ ~ doc[d].linked
  BY DEF Agreed, NamesLines, IInv, Linked, Booked
<1>2. /\ doc'[d].goods = doc[d].goods /\ doc'[d].linked = doc[d].linked
      /\ \A e \in Docs \ {d} : doc'[e] = doc[e]
  BY Working DEF Document
<1> QED
  BY <1>1, <1>2 DEF NamesLines

\* The lines of a return.
LEMMA WriteReturnLinesAgreed ==
  ASSUME IInv, Agreed, NEW t \in Tasks, WriteReturnLines(t)
  PROVE  Agreed'
<1> DEFINE me == task[t]
<1>1. /\ me.op = "return" /\ me.pc # "idle" /\ Stop(t) /\ UNCHANGED scenario
      /\ doc' = doc \/ doc' = [doc EXCEPT ![me.d].lines = me.doc.lines]
  BY Doings, Doer DEF WriteReturnLines, Acts
<1>2. PICK d \in Docs : d = me.d /\ doc[d].lines = << >>
  BY <1>1, Working DEF Knows, Carriers, Carries, Creating
<1>3. CASE doc' = doc
  BY <1>1, <1>3, StopAgreed
<1>4. CASE doc' = [doc EXCEPT ![me.d].lines = me.doc.lines]
  <2>1. NamesLines(d)' /\ \A e \in Docs \ {d} : doc'[e] = doc[e]
    BY <1>2, <1>4, LinesAgreed
  <2>2. task'[t] = Resting /\ \A u \in Tasks \ {t} : task'[u] = task[u]
    BY <1>1, Rests
  <2>3. Owned(t)'
    BY <2>2, RestingOwns
  <2> HIDE DEF Resting
  <2> QED
    BY <1>1, <2>1, <2>2, <2>3, DocAgreed
<1> QED
  BY <1>1, <1>3, <1>4

\* The lines of a delivery.
LEMMA CountDeliveryAgreed ==
  ASSUME IInv, Agreed, NEW t \in Tasks, CountDelivery(t)
  PROVE  Agreed'
<1> DEFINE me == task[t]
<1>1. /\ me.op = "deliver" /\ me.todo = Counting /\ me.pc # "idle" /\ me.pc = "work"
      /\ UNCHANGED scenario
  BY Doings, Doer DEF Acts, CountDelivery
<1>2. /\ me.op \in Carriers /\ me.todo # Finishing /\ me \in Task /\ me.linked \in BOOLEAN
  BY <1>1, Working, TaskFields, Apart DEF Carriers
<1>3. PICK d \in Docs : d = me.d /\ doc[d].lines = << >> /\ ~ me.linked
  BY <1>1, <1>2, Working DEF Knows, Carries, Creating, Booked
<1>4. \/ Stop(t) /\ UNCHANGED <<doc, scenario>>
      \/ Go(t, me) /\ doc' = [doc EXCEPT ![me.d].lines = me.doc.lines]
  BY DEF CountDelivery
<1>5. CASE Stop(t) /\ UNCHANGED <<doc, scenario>>
  BY <1>1, <1>5, StopAgreed
<1>6. CASE Go(t, me) /\ doc' = [doc EXCEPT ![me.d].lines = me.doc.lines]
  <2>1. NamesLines(d)' /\ \A e \in Docs \ {d} : doc'[e] = doc[e]
    BY <1>3, <1>6, LinesAgreed
  <2>2. /\ task'[t].todo = Tail(Counting) /\ task'[t].linked = me.linked
        /\ \A u \in Tasks \ {t} : task'[u] = task[u]
    <3>1. me = [me EXCEPT !.linked = me.linked] /\ Go(t, me)
      BY <1>2, <1>6, SameTask
    <3> HIDE DEF me
    <3> QED
      BY <1>1, <1>2, <3>1, GoesOn DEF me
  <2>3. Owned(t)'
    BY <1>3, <2>2, Scripts, Apart DEF Owned, Owns
  <2> HIDE DEF me
  <2>4. task[t].pc # "idle"
    BY <1>1 DEF me
  <2> QED
    BY <1>1, <2>1, <2>2, <2>3, <2>4, DocAgreed
<1> QED
  BY <1>4, <1>5, <1>6

\* Every step keeps what the goods name.
LEMMA AgreedNext ==
  ASSUME IInv, Agreed, [Next]_vars
  PROVE  Agreed'
<1>1. CASE UNCHANGED vars
  <2>1. UNCHANGED <<doc, task, scenario>>
    BY <1>1 DEF vars
  <2> QED
    BY <2>1 DEF Agreed, NamesLines, Owned, Owns, OneAtATime, Asked
<1>2. ASSUME NEW t \in Tasks, Step(t) PROVE Agreed'
  BY <1>2, BeginQuoteStepAgreed, BeginOrderStepAgreed, BeginDocStepAgreed, WriteStatusAgreed,
     NewQuoteAgreed, NewOrderAgreed, EndsAgreed, BeginExpiryAgreed, ExpireAgreed,
     BeginDeliveryAgreed, CountDeliveryAgreed, BeginReturnAgreed, WriteReturnLinesAgreed,
     DraftGoodsAgreed, ApproveGoodsAgreed, PostGoodsAgreed, SwallowFailureAgreed,
     FinishDocumentAgreed, WarehousePostsAgreed, WarehouseEditsAgreed, CrashAgreed
     DEF Step
<1> QED
  BY <1>1, <1>2 DEF Next

\* At first there are no goods.
LEMMA InitAgreed == Init => Agreed
<1> SUFFICES ASSUME Init PROVE Agreed
  OBVIOUS
<1>1. \A d \in Docs : NamesLines(d)
  <2>1. NoDoc.goods = Missing /\ ~ NoDoc.linked
    BY DEF NoDoc
  <2>2. \A d \in Docs : doc[d] = NoDoc
    BY DEF Init
  <2> QED
    BY <2>1, <2>2 DEF NamesLines
<1>2. \A t \in Tasks : Owned(t)
  <2>1. Resting.op \notin Carriers
    BY DEF Resting, Missing, Carriers
  <2>2. \A t \in Tasks : task[t] = Resting
    BY DEF Init
  <2> HIDE DEF Resting
  <2> QED
    BY <2>1, <2>2 DEF Owned, Owns
<1> QED
  BY <1>1, <1>2 DEF Agreed

----------------------------------------------------------------------------
(* Every behaviour *)

\* A stuttering step leaves everything as it was.
LEMMA OrderlyStutter ==
  ASSUME Orderly, UNCHANGED vars
  PROVE  Orderly'
<1> USE DEF vars
<1>1. ASSUME NEW t \in Tasks PROVE Current(t) <=> Current(t)'
  <2>1. task' = task /\ quote' = quote /\ order' = order /\ doc' = doc
    OBVIOUS
  <2> QED
    BY <2>1, ZenonT(60) DEF Current
<1>2. (\A o, no : DeliveredOn(o, no)' = DeliveredOn(o, no)) /\ \A d \in Docs : Moved(d) => Moved(d)'
  BY DocsSame
<1>3. \A o \in Orders : Exact(o) => Exact(o)'
  BY <1>2, ExactKept
<1>4. \A q \in Quotes : Converted(q) => Converted(q)'
  <2>1. \A q : Whole(q)' = Whole(q)
    BY OrdersSame
  <2> QED
    BY <2>1, ConvertedKept
<1>5. OneAtATime' <=> OneAtATime
  BY DEF OneAtATime
<1> QED
  BY <1>1, <1>2, <1>3, <1>4, <1>5 DEF Orderly

\* Every step keeps one handler at a time orderly.
LEMMA OrderlyNext ==
  ASSUME IInv, Orderly, [Next]_vars
  PROVE  Orderly'
<1>1. IInv'
  BY NextKept
<1>2. CASE UNCHANGED vars
  BY <1>2, OrderlyStutter
<1>3. ASSUME NEW t \in Tasks, Step(t) PROVE Orderly'
  <2>1. OneAtATime' <=> OneAtATime
    BY <1>3
       DEF OneAtATime, Step, BeginQuoteStep, BeginOrderStep, BeginDocStep, WriteStatus, RewriteOrder,
           CreateQuote, CloneQuote, WriteQuoteLines, ReviseQuote, CreateOrder, Convert, WriteOrderLines,
           RefuseLines, BeginExpiry, Expire, BeginDelivery, CountDelivery, BeginReturn,
           WriteReturnLines, DraftGoods, ApproveGoods, PostGoods, SwallowFailure, FailDelivery,
           FinishDocument, WarehousePosts, WarehouseEdits, Crash
  <2>2. CASE OneAtATime
    BY <1>1, <1>3, <2>2, BeginQuoteStepOrderly, BeginOrderStepOrderly, BeginDocStepOrderly,
       WriteStatusOrderly, RewriteOrderOrderly, CreateQuoteOrderly, CloneQuoteOrderly,
       WriteQuoteLinesOrderly, ReviseQuoteOrderly, CreateOrderOrderly, ConvertOrderly,
       WriteOrderLinesOrderly, RefuseLinesOrderly, BeginExpiryOrderly, ExpireOrderly,
       BeginDeliveryOrderly, CountDeliveryOrderly, BeginReturnOrderly, WriteReturnLinesOrderly,
       DraftGoodsOrderly, ApproveGoodsOrderly, PostGoodsOrderly, SwallowFailureOrderly,
       FailDeliveryOrderly, FinishDocumentOrderly, WarehousePostsOrderly, WarehouseEditsOrderly,
       CrashOrderly
       DEF Step
  <2> QED
    BY <2>1, <2>2 DEF Orderly
<1> QED
  BY <1>2, <1>3 DEF Next

\* At first an order has its lines, nothing is delivered and nothing converted.
LEMMA InitOrderly == Init => Orderly
<1> SUFFICES ASSUME Init PROVE Orderly
  OBVIOUS
<1>1. PICK first \in Orders, lines \in NewLines(1) :
        order = [o \in Orders |->
          IF scenario.begin = "order" /\ o = first
          THEN [status |-> "Approved", quote |-> Missing, whole |-> TRUE, lines |-> lines]
          ELSE NoOrder]
  BY DEF Init
<1>2. Numbered(lines) /\ \A l \in lines : l.done = 0 /\ l.no \in 1..4 /\ l.qty \in Nat
  BY FirstLines DEF Init
<1>3. /\ doc = [d \in Docs |-> NoDoc] /\ task = [t \in Tasks |-> Resting]
      /\ quote = [q \in Quotes |-> NoQuote]
  BY DEF Init
<1>4. \A o, no : DeliveredOn(o, no) = 0
  BY <1>3, NothingYet
<1>5. \A o \in Orders : /\ order[o].quote = Missing /\ Numbered(order[o].lines)
                        /\ \A l \in order[o].lines : l.done = 0
                        /\ order[o].status \in {Missing, "Approved"}
  <2>1. NoOrder.quote = Missing /\ NoOrder.lines = {} /\ NoOrder.status = Missing
    BY DEF NoOrder
  <2>2. Numbered({})
    BY DEF Numbered
  <2> QED
    BY <1>1, <1>2, <2>1, <2>2
<1>6. \A t \in Tasks : Current(t)
  <2>1. \A t \in Tasks : task[t].op = Missing
    BY <1>3 DEF Resting
  <2>2. /\ Missing \notin QuoteSteps /\ Missing # "expire" /\ Missing \notin OrderSteps \cup {"update"}
        /\ Missing \notin {"order", "convert"} /\ Missing # "deliver" /\ Missing \notin Carriers
    BY DEF Missing, QuoteSteps, OrderSteps, Carriers
  <2> QED
    BY <2>1, <2>2 DEF Current
<1>7. \A o \in Orders : Exact(o)
  BY <1>4, <1>5 DEF Exact, Missing
<1>8. \A d \in Docs : Moved(d)
  BY <1>3 DEF Moved, NoDoc, Missing
<1>9. \A q \in Quotes : Converted(q)
  <2>1. \A q \in Quotes : Whole(q) = {}
    BY <1>5, NoSuchRow DEF Whole
  <2>2. \A q \in Quotes : quote[q].status # "Converted"
    BY <1>3 DEF NoQuote, Missing
  <2> QED
    BY <2>1, <2>2 DEF Converted
<1> QED
  BY <1>6, <1>7, <1>8, <1>9 DEF Orderly

\* The three invariants hold of every behaviour.
THEOREM Invariance == Spec => [](IInv /\ Orderly /\ Agreed)
<1>1. Init => IInv /\ Orderly /\ Agreed
  BY InitHolds, InitOrderly, InitAgreed
<1>2. IInv /\ Orderly /\ Agreed /\ [Next]_vars => (IInv /\ Orderly /\ Agreed)'
  BY NextKept, OrderlyNext, AgreedNext
<1> QED
  BY <1>1, <1>2, PTL DEF Spec

\* Every row, every handler and the stock are of their types.
THEOREM TypeCorrect == Spec => []TypeOK
<1>1. IInv => TypeOK
  BY DEF IInv
<1> QED
  BY <1>1, Invariance, PTL

\* However many handlers overlap, no order line has more delivered than was
\* ordered, nor more than its deliveries name (create_delivery); one at a time
\* the counters are exact, and the status of the order agrees with them
\* (cancel_order, reopen_order).
THEOREM DeliveredCorrect == Spec => []DeliveredIsCounted
<1>1. IInv /\ Orderly => DeliveredIsCounted
  <2>1. SUFFICES ASSUME IInv, Orderly, NEW o \in Orders
                 PROVE  LET lines == order[o].lines  status == order[o].status IN
                        /\ \A l \in lines :
                             /\ l.done <= l.qty /\ l.done <= DeliveredOn(o, l.no)
                             /\ OneAtATime => l.done = DeliveredOn(o, l.no)
                        /\ OneAtATime =>
                             /\ status = "Fully Delivered" => \A l \in lines : l.done = l.qty
                             /\ status = "Partially Delivered" => \E l \in lines : l.done < l.qty
                             /\ status \in {"Draft", "Submitted", "Rejected", "Cancelled"} =>
                                  \A l \in lines : l.done = 0
    BY DEF DeliveredIsCounted
  <2>2. Covered(o)
    BY <2>1 DEF IInv
  <2>3. OneAtATime => Exact(o)
    BY <2>1 DEF Orderly
  <2> QED
    BY <2>2, <2>3 DEF Covered, Exact
<1> QED
  BY <1>1, Invariance, PTL

\* However many handlers overlap, a delivery or return that names its goods
\* issue or receipt has moved all its goods, unless the warehouse changed the
\* draft; one at a time goods move once and whole, whatever failed, was lost
\* or was made up for by the warehouse, and a document that names its goods
\* has moved its own lines, whatever the warehouse changed (create_delivery,
\* approve_return, update_issue, update_receipt).
THEOREM MovedOnce == Spec => []GoodsMovedOnce
<1>1. IInv /\ Orderly /\ Agreed => GoodsMovedOnce
  <2>1. SUFFICES ASSUME IInv, Orderly, Agreed, NEW d \in Docs
                 PROVE  /\ doc[d].linked => doc[d].moved >= Due(doc[d])
                        /\ OneAtATime =>
                             doc[d].moved = IF doc[d].goods = "Posted" THEN Due(doc[d]) ELSE 0
    BY DEF GoodsMovedOnce
  <2>2. NamesLines(d) /\ Linked(d) /\ (OneAtATime => Moved(d))
    BY <2>1 DEF IInv, Orderly, Agreed
  <2>3. doc[d].linked => doc[d].moved >= Due(doc[d])
    <3>1. SUFFICES ASSUME doc[d].linked PROVE doc[d].moved >= Due(doc[d])
      OBVIOUS
    <3>2. doc[d].moved >= doc[d].named /\ doc[d].goods # Missing
      BY <2>2, <3>1 DEF Linked, Booked
    <3> QED
      BY <2>2, <3>1, <3>2 DEF NamesLines, Due
  <2>4. ASSUME OneAtATime
        PROVE  doc[d].moved = IF doc[d].goods = "Posted" THEN Due(doc[d]) ELSE 0
    BY <2>2, <2>4 DEF NamesLines, Moved, Due, Missing
  <2> QED
    BY <2>3, <2>4
<1> QED
  BY <1>1, Invariance, PTL

\* One handler at a time, a quotation is Converted exactly when one order, and
\* no other, completed its conversion (create_from_quotation, create_order).
THEOREM OneConversion == Spec => []ConvertedOnce
<1>1. IInv /\ Orderly => ConvertedOnce
  <2>1. SUFFICES ASSUME Orderly, OneAtATime, NEW q \in Quotes
                 PROVE  Cardinality(Whole(q)) = IF quote[q].status = "Converted" THEN 1 ELSE 0
    BY DEF ConvertedOnce, Whole
  <2>2. Converted(q)
    BY <2>1, OrderlyNow
  <2>3. CASE quote[q].status = "Converted"
    <3>1. PICK o \in Orders : Whole(q) = {o}
      BY <2>2, <2>3 DEF Converted
    <3> QED
      BY <2>3, <3>1, FS_Singleton
  <2>4. CASE quote[q].status # "Converted"
    BY <2>2, <2>4, FS_EmptySet DEF Converted
  <2> QED
    BY <2>3, <2>4
<1> QED
  BY <1>1, Invariance, PTL

----------------------------------------------------------------------------
(* Leads and what becomes of them: LeadConversion, for any leads, customers, *)
(* opportunities, contacts and wishes.                                       *)

LeadRow == [status: Crm!Stages \cup {"none"}, converted: BOOLEAN,
            contact: Contacts \cup {"none"}, deleted: BOOLEAN,
            customer: Customers \cup {"none"}, opp: Opportunities \cup {"none"}]
CustomerRow == [state: {"absent", "live", "deleted"},
                contact: Contacts \cup {"none"}, for: Leads \cup {"none"}]
Desk == [pc: {"idle", "save", "resolve", "deal", "mark"},
         lead: Leads \cup {"none"}, status: Crm!Stages \cup {"none"},
         contact: Contacts \cup {"none"}, target: Crm!Stages \cup {"none"},
         customer: Customers \cup {"none"}, opp: Opportunities \cup {"none"}, deal: BOOLEAN]

\* No two live customers were made for one contact.
CustomersApart ==
  \A c, d \in Crm!Known :
    customer[c].for # "none" /\ customer[d].for # "none" /\ customer[c].contact # "none"
      /\ customer[c].contact = customer[d].contact => c = d

\* What is known of a lead, and of a handler that is at work, whoever else is.
LeadKnown ==
  /\ \A t \in Tasks :
       /\ desk[t].pc # "idle" => desk[t].lead \in Leads
       /\ desk[t].pc = "save" => desk[t].target # "none"
  /\ \A l \in Leads : lead[l].converted => lead[l].status # "none"

\* A conversion that creates nothing has the lock until it marks the lead.
LockKept ==
  /\ \A t \in Tasks :
       /\ desk[t].pc # "mark"
       /\ desk[t].pc \in {"resolve", "deal"} =>
            holds[desk[t].lead] = t /\ ~ lead[desk[t].lead].converted /\ ~ desk[t].deal
  /\ \A l \in Leads : finished[l] <= 1 /\ (finished[l] = 1 => lead[l].converted)

\* A lead with an opportunity that no mark and no loss has accounted for yet.
Raising(l) == \E t \in Tasks : desk[t].lead = l /\ desk[t].opp # "none"

\* What one handler at a time has done and read of a lead.
OneLead ==
  /\ \A t, u \in Tasks : desk[t].pc # "idle" /\ desk[u].pc # "idle" => t = u
  /\ \A t \in Tasks :
       /\ desk[t].pc = "idle" => desk[t] = Crm!Idle
       /\ desk[t].pc # "idle" => ~ lead[desk[t].lead].converted
       /\ desk[t].pc \in {"deal", "mark"} => desk[t].customer # "none"
       /\ desk[t].pc # "mark" => desk[t].opp = "none"
  /\ \A l \in Leads :
       /\ finished[l] \in {0, 1} /\ (finished[l] = 1 <=> lead[l].converted)
       /\ lead[l].converted => lead[l].status = "CONVERTED" /\ lead[l].customer # "none"
       /\ IsFiniteSet(Crm!Raised(l))
       /\ Cardinality(Crm!Raised(l)) <= finished[l] + losses + IF Raising(l) THEN 1 ELSE 0

LeadInv ==
  /\ Crm!TypeOK /\ CustomersApart /\ LeadKnown
  /\ ~ wanted.early => LockKept
  /\ Crm!OneAtATime => OneLead

\* The mark of nothing is no row.
LEMMA LeadNone ==
  ASSUME Crm!LeadAssumption
  PROVE  /\ "none" \notin Leads /\ "none" \notin Customers /\ "none" \notin Opportunities
         /\ "none" \notin Tasks /\ "none" \notin Crm!Stages
BY DEF Crm!LeadAssumption, Crm!Rows, Crm!Missing, Crm!Stages

\* The types of the rows, and of a handler at rest.
LEMMA LeadTypes ==
  /\ Crm!TypeOK <=>
       /\ lead \in [Leads -> LeadRow] /\ customer \in [Customers -> CustomerRow]
       /\ opp \in [Opportunities -> Leads \cup {"none"}]
       /\ holds \in [Leads -> Tasks \cup {"none"}] /\ desk \in [Tasks -> Desk]
       /\ finished \in [Leads -> Nat] /\ losses \in 0 .. wanted.losses /\ wanted \in Wishes
  /\ Crm!NoLead \in LeadRow /\ Crm!NoLead.status = "none" /\ ~ Crm!NoLead.converted
  /\ Crm!NoCustomer \in CustomerRow /\ Crm!NoCustomer.for = "none"
  /\ Crm!Idle \in Desk /\ Crm!Idle.pc = "idle" /\ Crm!Idle.opp = "none" /\ Crm!Idle.lead = "none"
BY DEF Crm!TypeOK, LeadRow, CustomerRow, Desk, Crm!NoLead, Crm!NoCustomer, Crm!Idle, Crm!Missing

\* A step of one handler.
LeadActs(t) ==
  \/ \E l \in Leads : \/ Crm!CreateLead(t, l) \/ Crm!OpenLead(t, l)
                      \/ Crm!DeleteLead(t, l) \/ Crm!BeginConversion(t, l)
  \/ \E c \in Customers : Crm!AddCustomer(t, c) \/ Crm!DropCustomer(t, c)
  \/ Crm!SaveLead(t) \/ Crm!FindCustomer(t) \/ Crm!MakeCustomer(t)
  \/ Crm!MakeOpportunity(t) \/ Crm!Mark(t) \/ Crm!Lose(t)

\* What each step does to the handler that takes it, and to no other.
LEMMA LeadDesk ==
  ASSUME Crm!LeadAssumption, LeadInv, NEW t \in Tasks, LeadActs(t)
  PROVE  /\ wanted' = wanted /\ \A u \in Tasks \ {t} : desk'[u] = desk[u]
         /\ \/ desk'[t] = desk[t] /\ desk[t] = Crm!Idle
            \/ desk[t] # Crm!Idle /\ desk'[t] = Crm!Idle
            \/ /\ desk[t] = Crm!Idle /\ desk'[t].pc = "save" /\ desk'[t].target # "none"
               /\ desk'[t].lead \in Leads /\ desk'[t].opp = "none"
            \/ /\ desk[t] = Crm!Idle /\ desk'[t].pc \in {"resolve", "deal"}
               /\ desk'[t].lead \in Leads /\ desk'[t].opp = "none"
               /\ desk'[t].pc = "deal" => desk'[t].customer # "none"
            \/ /\ desk[t].pc = "resolve" /\ desk'[t].pc = "deal" /\ desk'[t].customer # "none"
               /\ desk'[t].lead = desk[t].lead /\ desk'[t].opp = desk[t].opp
               /\ desk'[t].deal = desk[t].deal
            \/ /\ desk[t].pc = "deal" /\ desk'[t].pc = "mark" /\ desk[t].deal
               /\ desk'[t].customer = desk[t].customer /\ desk'[t].lead = desk[t].lead
               /\ desk'[t].opp # "none"
<1>1. /\ desk \in [Tasks -> Desk] /\ lead \in [Leads -> LeadRow]
      /\ "none" \notin Crm!Stages /\ "none" \notin Customers /\ "none" \notin Opportunities
      /\ Crm!Idle.pc = "idle"
  BY LeadTypes, LeadNone DEF LeadInv
<1>2. ASSUME NEW l \in Leads, Crm!OpenLead(t, l)
      PROVE  /\ wanted' = wanted /\ \A u \in Tasks \ {t} : desk'[u] = desk[u]
             /\ desk[t] = Crm!Idle /\ desk'[t].pc = "save" /\ desk'[t].target # "none"
             /\ desk'[t].lead \in Leads /\ desk'[t].opp = "none"
  <2>1. lead[l].status \in Crm!Stages /\ Crm!After(lead[l].status) \subseteq Crm!Stages
    BY <1>1, <1>2 DEF Crm!OpenLead, Crm!Live, Crm!Exists, Crm!Missing, LeadRow, Crm!After, Crm!Stages
  <2>2. PICK target \in Crm!Stages, k \in Contacts \cup {"none"} :
          desk' = [desk EXCEPT ![t] = [Crm!Idle EXCEPT !.pc = "save", !.lead = l, !.target = target,
                                         !.status = lead[l].status, !.contact = k]]
    BY <1>2, <2>1 DEF Crm!OpenLead, Crm!Missing
  <2>3. desk[t] = Crm!Idle /\ wanted' = wanted
    BY <1>2 DEF Crm!OpenLead, Crm!Asked
  <2> QED
    BY <1>1, <2>2, <2>3 DEF Crm!Idle, Crm!Missing
<1>3. ASSUME NEW l \in Leads, Crm!BeginConversion(t, l)
      PROVE  /\ wanted' = wanted /\ \A u \in Tasks \ {t} : desk'[u] = desk[u]
             /\ desk[t] = Crm!Idle /\ desk'[t].pc \in {"resolve", "deal"}
             /\ desk'[t].lead \in Leads /\ desk'[t].opp = "none"
             /\ desk'[t].pc = "deal" => desk'[t].customer # "none"
  <2>1. PICK deal \in BOOLEAN, c \in Customers \cup {"none"} :
          desk' = [desk EXCEPT ![t] = [Crm!Idle EXCEPT
            !.pc = IF c = "none" THEN "resolve" ELSE "deal", !.lead = l, !.status = lead[l].status,
            !.contact = lead[l].contact, !.deal = deal, !.customer = c]]
    BY <1>3 DEF Crm!BeginConversion, Crm!Known, Crm!Missing
  <2>2. desk[t] = Crm!Idle /\ wanted' = wanted
    BY <1>3 DEF Crm!BeginConversion, Crm!Asked
  <2> QED
    BY <1>1, <2>1, <2>2 DEF Crm!Idle, Crm!Missing
<1>4. ASSUME Crm!FindCustomer(t) \/ Crm!MakeCustomer(t)
      PROVE  /\ wanted' = wanted /\ \A u \in Tasks \ {t} : desk'[u] = desk[u]
             /\ desk[t].pc = "resolve" /\ desk'[t].pc = "deal" /\ desk'[t].customer # "none"
             /\ desk'[t].lead = desk[t].lead /\ desk'[t].opp = desk[t].opp
             /\ desk'[t].deal = desk[t].deal
  <2>1. PICK c \in Customers : desk' = [desk EXCEPT ![t].customer = c, ![t].pc = "deal"]
    BY <1>4 DEF Crm!FindCustomer, Crm!MakeCustomer, Crm!Matches, Crm!Known
  <2>2. desk[t].pc = "resolve" /\ wanted' = wanted
    BY <1>4 DEF Crm!FindCustomer, Crm!MakeCustomer
  <2>3. desk'[t] = [desk[t] EXCEPT !.customer = c, !.pc = "deal"] /\ desk[t] \in Desk
    BY <1>1, <2>1
  <2> QED
    BY <1>1, <2>1, <2>2, <2>3 DEF Desk
<1>5. ASSUME Crm!MakeOpportunity(t), desk[t].customer \in Crm!Known
      PROVE  /\ wanted' = wanted /\ \A u \in Tasks \ {t} : desk'[u] = desk[u]
             /\ desk[t].pc = "deal" /\ desk'[t].pc = "mark" /\ desk[t].deal
             /\ desk'[t].customer = desk[t].customer /\ desk'[t].lead = desk[t].lead
             /\ desk'[t].opp # "none"
  <2>1. PICK o \in Opportunities : desk' = [desk EXCEPT ![t].opp = o, ![t].pc = "mark"]
    BY <1>5 DEF Crm!MakeOpportunity
  <2>2. desk[t].pc = "deal" /\ desk[t].deal /\ wanted' = wanted
    BY <1>5 DEF Crm!MakeOpportunity
  <2>3. desk'[t] = [desk[t] EXCEPT !.opp = o, !.pc = "mark"] /\ desk[t] \in Desk
    BY <1>1, <2>1
  <2> QED
    BY <1>1, <2>1, <2>2, <2>3 DEF Desk
<1>6. ASSUME \/ Crm!SaveLead(t) \/ Crm!Mark(t) \/ Crm!Lose(t)
             \/ Crm!MakeOpportunity(t) /\ desk[t].customer \notin Crm!Known
      PROVE  /\ wanted' = wanted /\ \A u \in Tasks \ {t} : desk'[u] = desk[u]
             /\ desk[t] # Crm!Idle /\ desk'[t] = Crm!Idle
  BY <1>1, <1>6 DEF Crm!SaveLead, Crm!Mark, Crm!Lose, Crm!MakeOpportunity
<1>7. ASSUME \/ \E l \in Leads : Crm!CreateLead(t, l) \/ Crm!DeleteLead(t, l)
             \/ \E c \in Customers : Crm!AddCustomer(t, c) \/ Crm!DropCustomer(t, c)
      PROVE  wanted' = wanted /\ desk' = desk /\ desk[t] = Crm!Idle
  BY <1>7 DEF Crm!CreateLead, Crm!DeleteLead, Crm!AddCustomer, Crm!DropCustomer, Crm!Asked
<1> QED
  BY <1>2, <1>3, <1>4, <1>5, <1>6, <1>7 DEF LeadActs

\* The rows keep their types.
LEMMA LeadTypeStep ==
  ASSUME Crm!LeadAssumption, LeadInv, Crm!Next
  PROVE  Crm!TypeOK'
<1> DEFINE Typed ==
      /\ lead \in [Leads -> LeadRow] /\ customer \in [Customers -> CustomerRow]
      /\ opp \in [Opportunities -> Leads \cup {"none"}]
      /\ holds \in [Leads -> Tasks \cup {"none"}] /\ desk \in [Tasks -> Desk]
      /\ finished \in [Leads -> Nat] /\ losses \in 0 .. wanted.losses /\ wanted \in Wishes
<1>1. Typed /\ Crm!TypeOK
  BY LeadTypes DEF LeadInv
<1>2. wanted.losses \in Nat
  BY <1>1 DEF Crm!LeadAssumption, Crm!Scenario
<1> SUFFICES Typed'
  BY DEF Crm!TypeOK, LeadRow, CustomerRow, Desk, Crm!Missing
<1>3. PICK t \in Tasks : LeadActs(t)
  BY DEF Crm!Next, LeadActs
<1>4. ASSUME NEW l \in Leads, Crm!CreateLead(t, l) PROVE Typed'
  <2>1. PICK status \in Crm!Stages, k \in Contacts \cup {"none"} :
          lead' = [lead EXCEPT ![l] = [Crm!NoLead EXCEPT !.status = status, !.contact = k]]
    BY <1>4 DEF Crm!CreateLead, Crm!Missing
  <2>2. [Crm!NoLead EXCEPT !.status = status, !.contact = k] \in LeadRow
    BY LeadTypes DEF LeadRow
  <2> QED
    BY <1>1, <1>4, <2>1, <2>2 DEF Crm!CreateLead
<1>5. ASSUME NEW l \in Leads, Crm!OpenLead(t, l) PROVE Typed'
  <2>1. PICK target \in Crm!Stages, k \in Contacts \cup {"none"} :
          desk' = [desk EXCEPT ![t] = [Crm!Idle EXCEPT !.pc = "save", !.lead = l, !.target = target,
                                         !.status = lead[l].status, !.contact = k]]
    <3>1. lead[l].status \in Crm!Stages /\ Crm!After(lead[l].status) \subseteq Crm!Stages
      BY <1>1, <1>5, LeadNone
      DEF Crm!OpenLead, Crm!Live, Crm!Exists, Crm!Missing, LeadRow, Crm!After, Crm!Stages
    <3> QED
      BY <1>5, <3>1 DEF Crm!OpenLead, Crm!Missing
  <2>2. lead[l].status \in Crm!Stages \cup {"none"}
    BY <1>1 DEF LeadRow
  <2>3. [Crm!Idle EXCEPT !.pc = "save", !.lead = l, !.target = target,
                         !.status = lead[l].status, !.contact = k] \in Desk
    BY <2>2 DEF Crm!Idle, Desk, Crm!Missing
  <2> QED
    BY <1>1, <1>5, <2>1, <2>3 DEF Crm!OpenLead
<1>6. ASSUME NEW l \in Leads, Crm!DeleteLead(t, l) PROVE Typed'
  <2>1. [lead[l] EXCEPT !.deleted = TRUE] \in LeadRow
    <3>1. lead[l] \in LeadRow
      BY <1>1
    <3> QED
      BY <3>1 DEF LeadRow
  <2> QED
    BY <1>1, <1>6, <2>1 DEF Crm!DeleteLead
<1>7. ASSUME NEW l \in Leads, Crm!BeginConversion(t, l) PROVE Typed'
  <2>1. PICK deal \in BOOLEAN, c \in Customers \cup {"none"} :
          desk' = [desk EXCEPT ![t] = [Crm!Idle EXCEPT
            !.pc = IF c = "none" THEN "resolve" ELSE "deal", !.lead = l, !.status = lead[l].status,
            !.contact = lead[l].contact, !.deal = deal, !.customer = c]]
    BY <1>7 DEF Crm!BeginConversion, Crm!Known, Crm!Missing
  <2>2. lead[l].status \in Crm!Stages \cup {"none"} /\ lead[l].contact \in Contacts \cup {"none"}
    BY <1>1 DEF LeadRow
  <2>3. [Crm!Idle EXCEPT !.pc = IF c = "none" THEN "resolve" ELSE "deal", !.lead = l,
           !.status = lead[l].status, !.contact = lead[l].contact, !.deal = deal,
           !.customer = c] \in Desk
    BY <2>2 DEF Crm!Idle, Desk, Crm!Missing
  <2> QED
    BY <1>1, <1>7, <2>1, <2>3 DEF Crm!BeginConversion
<1>8. ASSUME NEW c \in Customers, Crm!AddCustomer(t, c) PROVE Typed'
  BY <1>1, <1>8 DEF Crm!AddCustomer, CustomerRow, Crm!Missing
<1>9. ASSUME NEW c \in Customers, Crm!DropCustomer(t, c) PROVE Typed'
  <2>1. [customer[c] EXCEPT !.state = "deleted"] \in CustomerRow
    BY <1>1 DEF CustomerRow
  <2> QED
    BY <1>1, <1>9, <2>1 DEF Crm!DropCustomer
<1> DEFINE l == desk[t].lead
<1>10. desk[t] \in Desk /\ (desk[t].pc # "idle" => l \in Leads)
  BY <1>1 DEF LeadInv, LeadKnown
<1>11. ASSUME l \in Leads,
              NEW to \in Crm!Stages \cup {"none"}, NEW b \in BOOLEAN, NEW k \in Contacts \cup {"none"},
              NEW c \in Customers \cup {"none"}, NEW o \in Opportunities \cup {"none"}
       PROVE  /\ [lead[l] EXCEPT !.status = to, !.contact = k] \in LeadRow
              /\ [lead[l] EXCEPT !.converted = b, !.status = to, !.customer = c, !.opp = o] \in LeadRow
  <2> DEFINE r == lead[l]
  <2>1. r \in LeadRow
    BY <1>1, <1>11
  <2> HIDE DEF r
  <2>2. /\ [r EXCEPT !.status = to, !.contact = k] \in LeadRow
        /\ [r EXCEPT !.converted = b, !.status = to, !.customer = c, !.opp = o] \in LeadRow
    BY <2>1 DEF LeadRow
  <2> QED
    BY <2>2 DEF r
<1>12. CASE Crm!SaveLead(t)
  <2>1. [lead[l] EXCEPT !.status = IF desk[t].target = desk[t].status THEN @ ELSE desk[t].target,
                        !.contact = desk[t].contact] \in LeadRow
    <3>1. PICK to \in Crm!Stages \cup {"none"}, k \in Contacts \cup {"none"} :
            /\ to = (IF desk[t].target = desk[t].status THEN lead[l].status ELSE desk[t].target)
            /\ k = desk[t].contact
      BY <1>1, <1>10, <1>12 DEF Crm!SaveLead, LeadRow, Desk
    <3>2. [lead[l] EXCEPT !.status = to, !.contact = k] \in LeadRow
      BY <1>10, <1>11, <1>12 DEF Crm!SaveLead
    <3> QED
      BY <3>1, <3>2
  <2> QED
    BY <1>1, <1>10, <1>12, <2>1, LeadTypes DEF Crm!SaveLead
<1>13. CASE Crm!FindCustomer(t)
  <2>1. PICK c \in Customers : desk' = [desk EXCEPT ![t].customer = c, ![t].pc = "deal"]
    BY <1>13 DEF Crm!FindCustomer, Crm!Matches, Crm!Known
  <2>2. [desk[t] EXCEPT !.customer = c, !.pc = "deal"] \in Desk
    BY <1>10 DEF Desk
  <2> QED
    BY <1>1, <1>13, <2>1, <2>2 DEF Crm!FindCustomer
<1>14. CASE Crm!MakeCustomer(t)
  <2>1. PICK c \in Customers :
          /\ customer' = [customer EXCEPT ![c] =
               [state |-> "live", contact |-> desk[t].contact, for |-> l]]
          /\ desk' = [desk EXCEPT ![t].customer = c, ![t].pc = "deal"]
    BY <1>14 DEF Crm!MakeCustomer
  <2>2. /\ [desk[t] EXCEPT !.customer = c, !.pc = "deal"] \in Desk
        /\ desk[t].contact \in Contacts \cup {"none"} /\ l \in Leads
    BY <1>10, <1>14 DEF Desk, Crm!MakeCustomer
  <2>3. [state |-> "live", contact |-> desk[t].contact, for |-> l] \in CustomerRow
    BY <2>2 DEF CustomerRow
  <2> QED
    BY <1>1, <1>14, <2>1, <2>2, <2>3 DEF Crm!MakeCustomer, Crm!Missing
<1>15. CASE Crm!MakeOpportunity(t)
  <2>1. l \in Leads /\ holds' = [holds EXCEPT ![l] = IF @ = t THEN "none" ELSE @]
    BY <1>10, <1>15 DEF Crm!MakeOpportunity, Crm!Missing
  <2>2. CASE desk[t].customer \in Crm!Known
    <3>1. PICK o \in Opportunities :
            opp' = [opp EXCEPT ![o] = l] /\ desk' = [desk EXCEPT ![t].opp = o, ![t].pc = "mark"]
      BY <1>15, <2>2 DEF Crm!MakeOpportunity
    <3>2. [desk[t] EXCEPT !.opp = o, !.pc = "mark"] \in Desk
      BY <1>10 DEF Desk
    <3>3. opp' \in [Opportunities -> Leads \cup {"none"}]
      BY <1>1, <2>1, <3>1
    <3>4. holds' \in [Leads -> Tasks \cup {"none"}]
      BY <1>1, <2>1
    <3>5. desk' \in [Tasks -> Desk]
      BY <1>1, <3>1, <3>2
    <3>6. UNCHANGED <<lead, customer, finished, losses, wanted>>
      BY <1>15 DEF Crm!MakeOpportunity
    <3> QED
      BY <1>1, <3>3, <3>4, <3>5, <3>6
  <2>3. CASE desk[t].customer \notin Crm!Known
    BY <1>1, <1>15, <2>1, <2>3, LeadTypes DEF Crm!MakeOpportunity
  <2> QED
    BY <2>2, <2>3
<1>16. CASE Crm!Mark(t)
  <2>1. [lead[l] EXCEPT !.converted = TRUE, !.status = "CONVERTED", !.customer = desk[t].customer,
                        !.opp = desk[t].opp] \in LeadRow
    <3>1. PICK c \in Customers \cup {"none"}, o \in Opportunities \cup {"none"} :
            c = desk[t].customer /\ o = desk[t].opp
      BY <1>10 DEF Desk
    <3>2. [lead[l] EXCEPT !.converted = TRUE, !.status = "CONVERTED", !.customer = c, !.opp = o]
            \in LeadRow
      BY <1>10, <1>11, <1>16 DEF Crm!Mark, Crm!Stages
    <3> QED
      BY <3>1, <3>2
  <2>2. lead' \in [Leads -> LeadRow] /\ desk' \in [Tasks -> Desk]
    BY <1>1, <2>1, <1>16, LeadTypes DEF Crm!Mark
  <2>3. l \in Leads /\ finished[l] + 1 \in Nat
    BY <1>1, <1>10, <1>16 DEF Crm!Mark
  <2>4. finished' \in [Leads -> Nat]
    BY <1>1, <1>16, <2>3 DEF Crm!Mark
  <2>5. holds' \in [Leads -> Tasks \cup {"none"}]
    BY <1>1, <1>16 DEF Crm!Mark, Crm!Missing
  <2> QED
    BY <1>1, <1>16, <2>2, <2>4, <2>5 DEF Crm!Mark
<1>17. CASE Crm!Lose(t)
  BY <1>1, <1>2, <1>17, LeadTypes DEF Crm!Lose, Crm!Missing
<1> QED
  BY <1>3, <1>4, <1>5, <1>6, <1>7, <1>8, <1>9, <1>12, <1>13, <1>14, <1>15, <1>16, <1>17 DEF LeadActs

\* No conversion makes a second customer for one contact.
LEMMA LeadApart ==
  ASSUME Crm!LeadAssumption, LeadInv, NEW t \in Tasks, LeadActs(t)
  PROVE  CustomersApart'
<1>1. CustomersApart /\ customer \in [Customers -> CustomerRow]
  BY LeadTypes DEF LeadInv
<1>2. CASE customer' = customer
  BY <1>1, <1>2 DEF CustomersApart, Crm!Known
<1>3. ASSUME NEW c \in Customers, Crm!AddCustomer(t, c) PROVE CustomersApart'
  <2>1. PICK k \in Contacts \cup {"none"} :
          customer' = [customer EXCEPT ![c] = [state |-> "live", contact |-> k, for |-> "none"]]
    BY <1>3 DEF Crm!AddCustomer, Crm!Missing
  <2>2. customer'[c].for = "none" /\ \A d \in Customers \ {c} : customer'[d] = customer[d]
    BY <1>1, <2>1
  <2> QED
    BY <1>1, <2>2 DEF CustomersApart, Crm!Known
<1>4. ASSUME NEW c \in Customers, Crm!DropCustomer(t, c) PROVE CustomersApart'
  <2>1. customer' = [customer EXCEPT ![c].state = "deleted"]
    BY <1>4 DEF Crm!DropCustomer
  <2>2. c \notin Crm!Known' /\ \A d \in Customers \ {c} : customer'[d] = customer[d]
    BY <1>1, <2>1 DEF Crm!Known, CustomerRow
  <2> QED
    BY <1>1, <2>2 DEF CustomersApart, Crm!Known
<1>5. ASSUME Crm!MakeCustomer(t) PROVE CustomersApart'
  <2>1. PICK c \in Customers :
          /\ customer[c].state = "absent"
          /\ customer' = [customer EXCEPT ![c] =
               [state |-> "live", contact |-> desk[t].contact, for |-> desk[t].lead]]
    BY <1>5 DEF Crm!MakeCustomer
  <2>2. /\ customer'[c].contact = desk[t].contact
        /\ \A d \in Customers \ {c} : customer'[d] = customer[d]
    BY <1>1, <2>1
  <2>3. ASSUME NEW d \in Crm!Known, desk[t].contact # "none" PROVE customer[d].contact # desk[t].contact
    BY <1>5, <2>3 DEF Crm!MakeCustomer, Crm!Matches, Crm!Missing
  <2> QED
    BY <1>1, <2>2, <2>3 DEF CustomersApart, Crm!Known
<1> QED
  BY <1>2, <1>3, <1>4, <1>5
  DEF LeadActs, Crm!CreateLead, Crm!OpenLead, Crm!DeleteLead, Crm!BeginConversion, Crm!SaveLead,
      Crm!FindCustomer, Crm!MakeOpportunity, Crm!Mark, Crm!Lose

\* What a step does to a lead.
LEMMA LeadRowStep ==
  ASSUME Crm!LeadAssumption, LeadInv, NEW t \in Tasks, LeadActs(t), NEW l \in Leads
  PROVE  \/ lead'[l] = lead[l] /\ finished'[l] = finished[l]
         \/ /\ lead[l].status = "none" /\ ~ lead'[l].converted /\ finished'[l] = finished[l]
            /\ desk[t] = Crm!Idle
         \/ /\ lead'[l].converted = lead[l].converted /\ lead'[l].status = lead[l].status
            /\ lead'[l].customer = lead[l].customer /\ finished'[l] = finished[l]
            /\ desk[t] = Crm!Idle
         \/ /\ desk[t].pc = "save" /\ desk[t].lead = l /\ lead'[l].converted = lead[l].converted
            /\ lead'[l].status \in {lead[l].status, desk[t].target} /\ finished'[l] = finished[l]
            /\ lead'[l].customer = lead[l].customer
         \/ /\ desk[t].pc = "mark" \/ (desk[t].pc = "deal" /\ ~ desk[t].deal)
            /\ desk[t].lead = l /\ finished'[l] = finished[l] + 1 /\ desk'[t] = Crm!Idle
            /\ lead'[l].converted /\ lead'[l].status = "CONVERTED"
            /\ lead'[l].customer = desk[t].customer
<1>1. lead \in [Leads -> LeadRow] /\ desk \in [Tasks -> Desk] /\ finished \in [Leads -> Nat]
  BY LeadTypes DEF LeadInv
<1>2. ASSUME NEW r, r \in LeadRow,
             NEW to \in Crm!Stages \cup {"none"}, NEW k \in Contacts \cup {"none"},
             NEW c \in Customers \cup {"none"}, NEW o \in Opportunities \cup {"none"}
      PROVE  /\ LET s == [r EXCEPT !.status = to, !.contact = k]
                IN  s.status = to /\ s.converted = r.converted /\ s.customer = r.customer
             /\ LET s == [r EXCEPT !.converted = TRUE, !.status = to, !.customer = c, !.opp = o]
                IN  s.converted /\ s.status = to /\ s.customer = c
             /\ LET s == [r EXCEPT !.deleted = TRUE]
                IN  s.converted = r.converted /\ s.status = r.status /\ s.customer = r.customer
  BY <1>2 DEF LeadRow
<1>3. ASSUME NEW k \in Leads, Crm!CreateLead(t, k), k = l
      PROVE  /\ lead[l].status = "none" /\ ~ lead'[l].converted /\ finished'[l] = finished[l]
             /\ desk[t] = Crm!Idle
  <2>1. PICK status \in Crm!Stages, c \in Contacts \cup {"none"} :
          lead' = [lead EXCEPT ![l] = [Crm!NoLead EXCEPT !.status = status, !.contact = c]]
    BY <1>3 DEF Crm!CreateLead, Crm!Missing
  <2>2. ~ lead'[l].converted
    BY <1>1, <2>1 DEF Crm!NoLead
  <2> QED
    BY <1>3, <2>2 DEF Crm!CreateLead, Crm!Exists, Crm!Missing, Crm!Asked
<1>4. ASSUME NEW k \in Leads, Crm!DeleteLead(t, k), k = l
      PROVE  /\ lead'[l].converted = lead[l].converted /\ lead'[l].status = lead[l].status
             /\ lead'[l].customer = lead[l].customer /\ finished'[l] = finished[l]
             /\ desk[t] = Crm!Idle
  <2>1. lead'[l] = [lead[l] EXCEPT !.deleted = TRUE] /\ lead[l] \in LeadRow
    BY <1>1, <1>4 DEF Crm!DeleteLead
  <2> QED
    BY <1>4, <2>1 DEF Crm!DeleteLead, Crm!Asked, LeadRow
<1>5. ASSUME Crm!SaveLead(t), desk[t].lead = l
      PROVE  /\ desk[t].pc = "save" /\ lead'[l].converted = lead[l].converted
             /\ lead'[l].status \in {lead[l].status, desk[t].target} /\ finished'[l] = finished[l]
             /\ lead'[l].customer = lead[l].customer
  <2>1. PICK r \in LeadRow : r = lead[l]
    BY <1>1
  <2>2. PICK to \in Crm!Stages \cup {"none"} :
          to = (IF desk[t].target = desk[t].status THEN r.status ELSE desk[t].target)
    BY <1>1, <2>1 DEF LeadRow, Desk
  <2>3. PICK k \in Contacts \cup {"none"} : k = desk[t].contact
    BY <1>1 DEF Desk
  <2>4. lead'[l] = [r EXCEPT !.status = to, !.contact = k]
    BY <1>1, <1>5, <2>1, <2>2, <2>3 DEF Crm!SaveLead
  <2>5. lead'[l].status = to /\ lead'[l].converted = r.converted /\ lead'[l].customer = r.customer
    BY <2>4 DEF LeadRow
  <2> QED
    BY <1>5, <2>1, <2>2, <2>5 DEF Crm!SaveLead
<1>6. ASSUME Crm!Mark(t), desk[t].lead = l
      PROVE  /\ desk[t].pc = "mark" \/ (desk[t].pc = "deal" /\ ~ desk[t].deal)
             /\ finished'[l] = finished[l] + 1 /\ desk'[t] = Crm!Idle
             /\ lead'[l].converted /\ lead'[l].status = "CONVERTED"
             /\ lead'[l].customer = desk[t].customer
  <2>1. PICK r \in LeadRow : r = lead[l]
    BY <1>1
  <2>2. lead'[l] = [r EXCEPT !.converted = TRUE, !.status = "CONVERTED",
                             !.customer = desk[t].customer, !.opp = desk[t].opp]
    BY <1>1, <1>6, <2>1 DEF Crm!Mark
  <2>3. lead'[l].converted /\ lead'[l].status = "CONVERTED" /\ lead'[l].customer = desk[t].customer
    BY <2>2 DEF LeadRow
  <2> QED
    BY <1>1, <1>6, <2>3 DEF Crm!Mark
<1>7. ASSUME \/ \E k \in Leads \ {l} : Crm!CreateLead(t, k) \/ Crm!DeleteLead(t, k)
             \/ \E k \in Leads : Crm!OpenLead(t, k) \/ Crm!BeginConversion(t, k)
             \/ \E c \in Customers : Crm!AddCustomer(t, c) \/ Crm!DropCustomer(t, c)
             \/ (Crm!SaveLead(t) \/ Crm!Mark(t)) /\ desk[t].lead # l
             \/ Crm!FindCustomer(t) \/ Crm!MakeCustomer(t)
             \/ Crm!MakeOpportunity(t) \/ Crm!Lose(t)
      PROVE  lead'[l] = lead[l] /\ finished'[l] = finished[l]
  BY <1>1, <1>7
  DEF Crm!CreateLead, Crm!DeleteLead, Crm!OpenLead, Crm!BeginConversion, Crm!AddCustomer,
      Crm!DropCustomer, Crm!SaveLead, Crm!Mark, Crm!FindCustomer, Crm!MakeCustomer,
      Crm!MakeOpportunity, Crm!Lose
<1> QED
  BY <1>3, <1>4, <1>5, <1>6, <1>7 DEF LeadActs

\* A handler at work has a lead, and a converted lead exists.
LEMMA LeadKnownStep ==
  ASSUME Crm!LeadAssumption, LeadInv, NEW t \in Tasks, LeadActs(t)
  PROVE  LeadKnown'
<1>1. LeadKnown /\ Crm!Idle.pc = "idle"
  BY LeadTypes DEF LeadInv
<1>2. ASSUME NEW u \in Tasks
      PROVE  /\ desk'[u].pc # "idle" => desk'[u].lead \in Leads
             /\ desk'[u].pc = "save" => desk'[u].target # "none"
  <2>1. CASE u # t
    BY <1>1, <2>1, LeadDesk DEF LeadKnown
  <2>2. CASE u = t
    BY <1>1, <2>2, LeadDesk DEF LeadKnown
  <2> QED
    BY <2>1, <2>2
<1>3. ASSUME NEW l \in Leads, lead'[l].converted PROVE lead'[l].status # "none"
  BY <1>1, <1>3, LeadRowStep DEF LeadKnown
<1> QED
  BY <1>2, <1>3 DEF LeadKnown

\* The lock on a lead is taken when nobody has it, and given back by who has it.
LEMMA LeadLock ==
  ASSUME Crm!LeadAssumption, LeadInv, NEW t \in Tasks, LeadActs(t), NEW l \in Leads
  PROVE  holds'[l] = holds[l] \/ holds[l] = t \/ (holds[l] = "none" /\ holds'[l] = t)
<1>1. holds \in [Leads -> Tasks \cup {"none"}]
  BY LeadTypes DEF LeadInv
<1> QED
  BY <1>1, Zenon
  DEF LeadActs, Crm!CreateLead, Crm!DeleteLead, Crm!OpenLead, Crm!BeginConversion, Crm!AddCustomer,
      Crm!DropCustomer, Crm!SaveLead, Crm!Mark, Crm!FindCustomer, Crm!MakeCustomer,
      Crm!MakeOpportunity, Crm!Lose, Crm!Missing

\* A conversion that creates nothing keeps its lock.
LEMMA LockKeptStep ==
  ASSUME Crm!LeadAssumption, LeadInv, NEW t \in Tasks, LeadActs(t), ~ wanted.early
  PROVE  LockKept'
<1>1. /\ LockKept /\ LeadKnown /\ desk \in [Tasks -> Desk] /\ "none" \notin Tasks
      /\ holds \in [Leads -> Tasks \cup {"none"}] /\ finished \in [Leads -> Nat]
      /\ Crm!Idle.pc = "idle"
  BY LeadTypes, LeadNone DEF LeadInv
<1>2. \A u \in Tasks \ {t} : desk'[u] = desk[u]
  BY LeadDesk
<1>3. desk'[t].pc # "mark"
  BY <1>1, LeadDesk DEF LockKept
<1> DEFINE Held(u) == /\ holds[desk[u].lead] = u /\ ~ lead[desk[u].lead].converted
                      /\ ~ desk[u].deal
<1>4. ASSUME NEW u \in Tasks \ {t}, desk'[u].pc \in {"resolve", "deal"} PROVE Held(u)'
  <2>1. desk'[u] = desk[u] /\ desk[u].lead \in Leads /\ Held(u)
    BY <1>1, <1>2, <1>4 DEF LockKept, LeadKnown
  <2>2. PICK l \in Leads : l = desk[u].lead
    BY <2>1
  <2>3. holds[l] = u /\ ~ lead[l].converted
    BY <2>1, <2>2
  <2>4. holds'[l] = u
    BY <1>1, <2>3, LeadLock
  <2>5. ~ (desk[t].lead = l /\ desk[t].pc \in {"mark", "deal"})
    BY <1>1, <2>3 DEF LockKept
  <2>6. ~ lead'[l].converted
    BY <2>3, <2>5, LeadRowStep
  <2> QED
    BY <2>1, <2>2, <2>4, <2>6
<1>5. ASSUME desk'[t].pc \in {"resolve", "deal"} PROVE Held(t)'
  <2>1. CASE Crm!FindCustomer(t)
    <3>1. /\ desk[t].pc = "resolve" /\ desk'[t].lead = desk[t].lead /\ desk'[t].deal = desk[t].deal
          /\ holds' = holds /\ lead' = lead
      BY <1>1, <1>5, <2>1, LeadDesk DEF Crm!FindCustomer
    <3> QED
      BY <1>1, <3>1 DEF LockKept
  <2>2. ASSUME NEW l \in Leads, Crm!BeginConversion(t, l) PROVE Held(t)'
    <3>1. PICK deal \in BOOLEAN, c \in Customers \cup {"none"} :
            /\ deal => wanted.early
            /\ desk' = [desk EXCEPT ![t] = [Crm!Idle EXCEPT
                 !.pc = IF c = "none" THEN "resolve" ELSE "deal", !.lead = l,
                 !.status = lead[l].status, !.contact = lead[l].contact, !.deal = deal,
                 !.customer = c]]
      BY <2>2 DEF Crm!BeginConversion, Crm!Known, Crm!Missing
    <3>2. desk'[t].lead = l /\ ~ desk'[t].deal
      BY <1>1, <3>1 DEF Crm!Idle
    <3>3. holds'[l] = t /\ lead' = lead /\ ~ lead[l].converted
      BY <1>1, <2>2 DEF Crm!BeginConversion, Crm!Convertible
    <3> QED
      BY <3>2, <3>3
  <2>3. ASSUME NEW l \in Leads, Crm!OpenLead(t, l) PROVE FALSE
    <3>1. PICK target, k :
            desk' = [desk EXCEPT ![t] = [Crm!Idle EXCEPT !.pc = "save", !.lead = l,
                       !.target = target, !.status = lead[l].status, !.contact = k]]
      BY <2>3 DEF Crm!OpenLead
    <3>2. desk'[t].pc = "save"
      BY <1>1, <3>1 DEF Crm!Idle
    <3> QED
      BY <1>5, <3>2
  <2>4. ASSUME \/ \E l \in Leads : Crm!CreateLead(t, l) \/ Crm!DeleteLead(t, l)
               \/ \E c \in Customers : Crm!AddCustomer(t, c) \/ Crm!DropCustomer(t, c)
        PROVE  FALSE
    BY <1>1, <1>5, <2>4
    DEF Crm!CreateLead, Crm!DeleteLead, Crm!AddCustomer, Crm!DropCustomer, Crm!Asked
  <2>5. ~ Crm!MakeCustomer(t) /\ ~ Crm!MakeOpportunity(t)
    BY <1>1 DEF Crm!MakeCustomer, Crm!MakeOpportunity, LockKept
  <2>6. ASSUME Crm!SaveLead(t) \/ Crm!Mark(t) \/ Crm!Lose(t) PROVE FALSE
    BY <1>1, <1>5, <2>6 DEF Crm!SaveLead, Crm!Mark, Crm!Lose
  <2> QED
    BY <2>1, <2>2, <2>3, <2>4, <2>5, <2>6 DEF LeadActs
<1>6. ASSUME NEW l \in Leads PROVE finished'[l] <= 1 /\ (finished'[l] = 1 => lead'[l].converted)
  <2>1. finished[l] \in Nat /\ finished[l] <= 1 /\ (finished[l] = 1 => lead[l].converted)
    BY <1>1 DEF LockKept
  <2>2. CASE lead[l].status = "none"
    <3>1. ~ lead[l].converted /\ finished[l] = 0
      BY <1>1, <2>1, <2>2 DEF LeadKnown
    <3> QED
      BY <3>1, LeadRowStep
  <2>3. CASE /\ desk[t].pc \in {"mark", "deal"} /\ desk[t].lead = l
             /\ finished'[l] = finished[l] + 1 /\ lead'[l].converted
    <3>1. ~ lead[l].converted
      BY <1>1, <2>3 DEF LockKept
    <3> QED
      BY <2>1, <2>3, <3>1
  <2> QED
    BY <2>1, <2>2, <2>3, LeadRowStep
<1> QED
  <2>1. \A u \in Tasks : desk'[u].pc # "mark"
    BY <1>1, <1>2, <1>3 DEF LockKept
  <2> QED
    BY <1>4, <1>5, <1>6, <2>1 DEF LockKept

\* With one handler at a time, the others rest when one takes a step.
LEMMA LeadAlone ==
  ASSUME Crm!LeadAssumption, LeadInv, Crm!OneAtATime, NEW t \in Tasks, LeadActs(t)
  PROVE  \A u \in Tasks \ {t} : desk[u] = Crm!Idle
<1>1. OneLead /\ Crm!Idle.pc = "idle"
  BY LeadTypes DEF LeadInv
<1>2. CASE desk[t] # Crm!Idle
  BY <1>1, <1>2 DEF OneLead
<1>3. CASE desk[t] = Crm!Idle
  <2> DEFINE B == {u \in Tasks : desk[u] # Crm!Idle}
  <2>1. Crm!Cardinality(B) < 1
    BY <1>1, <1>3
    DEF LeadActs, Crm!CreateLead, Crm!DeleteLead, Crm!OpenLead, Crm!BeginConversion,
        Crm!AddCustomer, Crm!DropCustomer, Crm!SaveLead, Crm!Mark, Crm!FindCustomer,
        Crm!MakeCustomer, Crm!MakeOpportunity, Crm!Lose, Crm!Asked, Crm!OneAtATime
  <2>2. ASSUME NEW u \in Tasks, desk[u] # Crm!Idle PROVE FALSE
    <3>1. B = {u}
      BY <1>1, <2>2 DEF OneLead
    <3> HIDE DEF B
    <3>2. Crm!Cardinality({u}) = Cardinality({u})
      BY DEF Crm!Cardinality, Cardinality
    <3> QED
      BY <2>1, <3>1, <3>2, FS_Singleton
  <2> QED
    BY <2>2
<1> QED
  BY <1>2, <1>3

\* A request that begins is about a lead that is not converted.
LEMMA LeadBegins ==
  ASSUME Crm!LeadAssumption, LeadInv, OneLead, NEW t \in Tasks, LeadActs(t),
         desk[t] = Crm!Idle, desk'[t] # Crm!Idle
  PROVE  lead' = lead /\ desk'[t].lead \in Leads /\ ~ lead[desk'[t].lead].converted
<1>1. desk \in [Tasks -> Desk]
  BY LeadTypes DEF LeadInv
<1>2. ASSUME NEW l \in Leads, Crm!OpenLead(t, l)
      PROVE  lead' = lead /\ desk'[t].lead = l /\ ~ lead[l].converted
  <2>1. desk'[t].lead = l
    <3>1. PICK target, k :
            desk' = [desk EXCEPT ![t] = [Crm!Idle EXCEPT !.pc = "save", !.lead = l,
                       !.target = target, !.status = lead[l].status, !.contact = k]]
      BY <1>2 DEF Crm!OpenLead
    <3> QED
      BY <1>1, <3>1 DEF Crm!Idle
  <2> QED
    BY <1>2, <2>1 DEF Crm!OpenLead, OneLead
<1>3. ASSUME NEW l \in Leads, Crm!BeginConversion(t, l)
      PROVE  lead' = lead /\ desk'[t].lead = l /\ ~ lead[l].converted
  <2>1. desk'[t].lead = l
    <3>1. PICK deal, c :
            desk' = [desk EXCEPT ![t] = [Crm!Idle EXCEPT
              !.pc = IF c = "none" THEN "resolve" ELSE "deal", !.lead = l,
              !.status = lead[l].status, !.contact = lead[l].contact, !.deal = deal,
              !.customer = c]]
      BY <1>3 DEF Crm!BeginConversion, Crm!Missing
    <3> QED
      BY <1>1, <3>1 DEF Crm!Idle
  <2> QED
    BY <1>3, <2>1 DEF Crm!BeginConversion, Crm!Convertible
<1>4. ASSUME \/ \E l \in Leads : Crm!CreateLead(t, l) \/ Crm!DeleteLead(t, l)
             \/ \E c \in Customers : Crm!AddCustomer(t, c) \/ Crm!DropCustomer(t, c)
      PROVE  FALSE
  BY <1>4 DEF Crm!CreateLead, Crm!DeleteLead, Crm!AddCustomer, Crm!DropCustomer
<1>5. ~ (\/ Crm!SaveLead(t) \/ Crm!FindCustomer(t) \/ Crm!MakeCustomer(t)
         \/ Crm!MakeOpportunity(t) \/ Crm!Mark(t) \/ Crm!Lose(t))
  BY LeadTypes
  DEF Crm!SaveLead, Crm!FindCustomer, Crm!MakeCustomer, Crm!MakeOpportunity, Crm!Mark, Crm!Lose
<1> QED
  BY <1>2, <1>3, <1>4, <1>5 DEF LeadActs

\* Every opportunity has a completed conversion, a lost handler, or the one at
\* work to answer for it.
LEMMA RaisedStep ==
  ASSUME Crm!LeadAssumption, LeadInv, OneLead, NEW t \in Tasks, LeadActs(t),
         \A u \in Tasks \ {t} : desk[u] = Crm!Idle, NEW l \in Leads
  PROVE  /\ IsFiniteSet(Crm!Raised(l)')
         /\ Cardinality(Crm!Raised(l)') <= finished'[l] + losses' + IF Raising(l)' THEN 1 ELSE 0
<1>1. /\ desk \in [Tasks -> Desk] /\ opp \in [Opportunities -> Leads \cup {"none"}]
      /\ finished \in [Leads -> Nat] /\ losses \in Int /\ finished' \in [Leads -> Nat]
      /\ Crm!Idle.opp = "none" /\ Crm!Idle.pc = "idle" /\ "none" \notin Opportunities
      /\ "none" \notin Leads
  <2>1. finished' \in [Leads -> Nat]
    BY LeadTypeStep DEF LeadActs, Crm!Next, Crm!TypeOK
  <2> QED
    BY <2>1, LeadTypes, LeadNone DEF LeadInv
<1>2. /\ IsFiniteSet(Crm!Raised(l))
      /\ Cardinality(Crm!Raised(l)) <= finished[l] + losses + IF Raising(l) THEN 1 ELSE 0
      /\ Cardinality(Crm!Raised(l)) \in Nat
  BY FS_CardinalityType DEF OneLead
<1>3. Raising(l) => desk[t].pc = "mark" /\ desk[t].lead = l
  BY <1>1 DEF Raising, OneLead
<1>4. ASSUME Crm!MakeOpportunity(t), desk[t].customer \in Crm!Known, desk[t].lead = l
      PROVE  /\ IsFiniteSet(Crm!Raised(l)')
             /\ Cardinality(Crm!Raised(l)') <= finished'[l] + losses' + IF Raising(l)' THEN 1 ELSE 0
  <2>1. PICK o \in Opportunities :
          /\ opp[o] = "none" /\ opp' = [opp EXCEPT ![o] = l]
          /\ desk' = [desk EXCEPT ![t].opp = o, ![t].pc = "mark"]
    BY <1>4 DEF Crm!MakeOpportunity, Crm!Missing
  <2>2. Crm!Raised(l)' = Crm!Raised(l) \cup {o} /\ o \notin Crm!Raised(l)
    BY <1>1, <2>1 DEF Crm!Raised
  <2>3. Cardinality(Crm!Raised(l)') = Cardinality(Crm!Raised(l)) + 1 /\ IsFiniteSet(Crm!Raised(l)')
    BY <1>2, <2>2, FS_AddElement
  <2>4. ~ Raising(l)
    BY <1>3, <1>4 DEF Crm!MakeOpportunity
  <2>5. Raising(l)'
    <3>1. desk'[t].lead = desk[t].lead /\ desk'[t].opp # "none"
      <4>1. desk'[t] = [desk[t] EXCEPT !.opp = o, !.pc = "mark"] /\ desk[t] \in Desk
        BY <1>1, <2>1
      <4> QED
        BY <1>1, <2>1, <4>1 DEF Desk
    <3> QED
      BY <1>4, <3>1 DEF Raising
  <2>6. finished' = finished /\ losses' = losses
    BY <1>4 DEF Crm!MakeOpportunity
  <2> QED
    BY <1>1, <1>2, <2>3, <2>4, <2>5, <2>6
<1>5. ASSUME ~ (Crm!MakeOpportunity(t) /\ desk[t].customer \in Crm!Known /\ desk[t].lead = l)
      PROVE  Crm!Raised(l)' = Crm!Raised(l)
  <2>1. CASE Crm!MakeOpportunity(t)
    <3>1. CASE desk[t].customer \in Crm!Known
      <4>1. PICK o \in Opportunities :
              opp[o] = "none" /\ opp' = [opp EXCEPT ![o] = desk[t].lead]
        BY <2>1, <3>1 DEF Crm!MakeOpportunity, Crm!Missing
      <4> QED
        BY <1>1, <1>5, <2>1, <3>1, <4>1 DEF Crm!Raised
    <3>2. CASE desk[t].customer \notin Crm!Known
      BY <2>1, <3>2 DEF Crm!MakeOpportunity, Crm!Raised
    <3> QED
      BY <3>1, <3>2
  <2>2. CASE ~ Crm!MakeOpportunity(t)
    <3>1. opp' = opp
      BY <2>2
      DEF LeadActs, Crm!CreateLead, Crm!DeleteLead, Crm!OpenLead, Crm!BeginConversion,
          Crm!AddCustomer, Crm!DropCustomer, Crm!SaveLead, Crm!Mark, Crm!FindCustomer,
          Crm!MakeCustomer, Crm!Lose
    <3> QED
      BY <3>1 DEF Crm!Raised
  <2> QED
    BY <2>1, <2>2
<1>6. finished'[l] >= finished[l] /\ losses' >= losses
  <2>1. finished'[l] \in {finished[l], finished[l] + 1}
    BY LeadRowStep
  <2>2. losses' \in {losses, losses + 1}
    BY DEF LeadActs, Crm!CreateLead, Crm!DeleteLead, Crm!OpenLead, Crm!BeginConversion,
        Crm!AddCustomer, Crm!DropCustomer, Crm!SaveLead, Crm!Mark, Crm!FindCustomer,
        Crm!MakeCustomer, Crm!MakeOpportunity, Crm!Lose
  <2> QED
    BY <1>1, <2>1, <2>2
<1>7. ASSUME Raising(l) PROVE finished'[l] = finished[l] + 1 \/ losses' = losses + 1
  <2>1. desk[t].pc = "mark" /\ desk[t].lead = l /\ desk[t] # Crm!Idle
    BY <1>1, <1>3, <1>7
  <2>2. Crm!Mark(t) \/ Crm!Lose(t)
    BY <2>1
    DEF LeadActs, Crm!CreateLead, Crm!DeleteLead, Crm!OpenLead, Crm!BeginConversion,
        Crm!AddCustomer, Crm!DropCustomer, Crm!SaveLead, Crm!FindCustomer,
        Crm!MakeCustomer, Crm!MakeOpportunity, Crm!Asked
  <2> QED
    BY <1>1, <2>1, <2>2 DEF Crm!Mark, Crm!Lose
<1>8. losses' \in Int /\ finished'[l] \in Nat
  <2>1. losses' \in {losses, losses + 1}
    BY DEF LeadActs, Crm!CreateLead, Crm!DeleteLead, Crm!OpenLead, Crm!BeginConversion,
        Crm!AddCustomer, Crm!DropCustomer, Crm!SaveLead, Crm!Mark, Crm!FindCustomer,
        Crm!MakeCustomer, Crm!MakeOpportunity, Crm!Lose
  <2> QED
    BY <1>1, <2>1
<1>9. CASE ~ (Crm!MakeOpportunity(t) /\ desk[t].customer \in Crm!Known /\ desk[t].lead = l)
  <2>1. Cardinality(Crm!Raised(l)) <= finished'[l] + losses'
    <3>1. CASE Raising(l)
      BY <1>1, <1>2, <1>6, <1>7, <1>8, <3>1
    <3>2. CASE ~ Raising(l)
      BY <1>1, <1>2, <1>6, <1>8, <3>2
    <3> QED
      BY <3>1, <3>2
  <2> QED
    BY <1>2, <1>5, <1>8, <1>9, <2>1
<1> QED
  BY <1>4, <1>9

\* One handler at a time, what it has found stays so until it acts on it.
LEMMA OneLeadStep ==
  ASSUME Crm!LeadAssumption, LeadInv, Crm!OneAtATime, NEW t \in Tasks, LeadActs(t)
  PROVE  OneLead'
<1>1. /\ OneLead /\ LeadKnown /\ desk \in [Tasks -> Desk] /\ finished \in [Leads -> Nat]
      /\ Crm!Idle.pc = "idle" /\ Crm!Idle.opp = "none"
  BY LeadTypes DEF LeadInv
<1>2. /\ \A u \in Tasks \ {t} : desk[u] = Crm!Idle
      /\ \A u \in Tasks \ {t} : desk'[u] = Crm!Idle
  BY LeadAlone, LeadDesk
<1>3. \A t1, t2 \in Tasks : desk'[t1].pc # "idle" /\ desk'[t2].pc # "idle" => t1 = t2
  BY <1>1, <1>2
<1>4. /\ desk'[t].pc = "idle" => desk'[t] = Crm!Idle
      /\ desk'[t].pc \in {"deal", "mark"} => desk'[t].customer # "none"
      /\ desk'[t].pc # "mark" => desk'[t].opp = "none"
  BY <1>1, LeadDesk DEF OneLead
<1>5. ASSUME desk'[t].pc # "idle" PROVE ~ lead'[desk'[t].lead].converted
  <2>1. CASE desk[t] = Crm!Idle
    BY <1>1, <1>5, <2>1, LeadBegins
  <2>2. CASE desk[t] # Crm!Idle
    <3>1. /\ desk'[t] # Crm!Idle /\ desk'[t].lead = desk[t].lead
          /\ desk[t].pc \in {"resolve", "deal"} /\ (desk[t].pc = "deal" => desk[t].deal)
      BY <1>1, <1>5, <2>2, LeadDesk
    <3>2. PICK l \in Leads : l = desk[t].lead
      BY <1>1, <3>1 DEF LeadKnown
    <3>3. ~ lead[l].converted
      BY <1>1, <3>1, <3>2 DEF OneLead
    <3> QED
      BY <3>1, <3>2, <3>3, LeadRowStep
  <2> QED
    BY <2>1, <2>2
<1>6. ASSUME NEW l \in Leads
      PROVE  /\ finished'[l] \in {0, 1} /\ (finished'[l] = 1 <=> lead'[l].converted)
             /\ lead'[l].converted => lead'[l].status = "CONVERTED" /\ lead'[l].customer # "none"
  <2>1. /\ finished[l] \in {0, 1} /\ (finished[l] = 1 <=> lead[l].converted)
        /\ lead[l].converted => lead[l].status = "CONVERTED" /\ lead[l].customer # "none"
        /\ desk[t].pc # "idle" => ~ lead[desk[t].lead].converted
        /\ desk[t].pc \in {"deal", "mark"} => desk[t].customer # "none"
    BY <1>1 DEF OneLead
  <2>2. lead[l].status = "none" => ~ lead[l].converted
    BY <1>1 DEF LeadKnown
  <2> QED
    BY <2>1, <2>2, LeadRowStep
<1>7. ASSUME NEW l \in Leads
      PROVE  /\ IsFiniteSet(Crm!Raised(l)')
             /\ Cardinality(Crm!Raised(l)') <= finished'[l] + losses' + IF Raising(l)' THEN 1 ELSE 0
  BY <1>1, <1>2, RaisedStep
<1>8. ASSUME NEW u \in Tasks
      PROVE  /\ desk'[u].pc = "idle" => desk'[u] = Crm!Idle
             /\ desk'[u].pc # "idle" => ~ lead'[desk'[u].lead].converted
             /\ desk'[u].pc \in {"deal", "mark"} => desk'[u].customer # "none"
             /\ desk'[u].pc # "mark" => desk'[u].opp = "none"
  BY <1>1, <1>2, <1>4, <1>5
<1> QED
  BY <1>3, <1>6, <1>7, <1>8 DEF OneLead

\* Before anything is asked nothing is there.
LEMMA LeadInit ==
  ASSUME Crm!LeadAssumption, Crm!Init
  PROVE  LeadInv
<1>1. /\ lead = [l \in Leads |-> Crm!NoLead] /\ customer = [c \in Customers |-> Crm!NoCustomer]
      /\ opp = [o \in Opportunities |-> "none"] /\ holds = [l \in Leads |-> "none"]
      /\ desk = [t \in Tasks |-> Crm!Idle] /\ finished = [l \in Leads |-> 0]
      /\ losses = 0 /\ wanted \in Wishes
  BY DEF Crm!Init, Crm!Missing
<1>2. Crm!TypeOK
  <2>1. 0 \in 0 .. wanted.losses
    BY <1>1 DEF Crm!LeadAssumption, Crm!Scenario
  <2> QED
    BY <1>1, <2>1, LeadTypes
<1>3. CustomersApart /\ LeadKnown /\ LockKept
  BY <1>1, LeadTypes DEF CustomersApart, Crm!Known, LeadKnown, LockKept
<1>4. OneLead
  <2>1. \A l \in Leads : Crm!Raised(l) = {} /\ ~ Raising(l)
    BY <1>1, LeadNone, LeadTypes DEF Crm!Raised, Raising
  <2>2. IsFiniteSet({}) /\ Cardinality({}) = 0
    BY FS_EmptySet
  <2>3. \A l \in Leads :
          /\ IsFiniteSet(Crm!Raised(l))
          /\ Cardinality(Crm!Raised(l)) <= finished[l] + losses + IF Raising(l) THEN 1 ELSE 0
    BY <1>1, <2>1, <2>2
  <2>4. \A l \in Leads : finished[l] = 0 /\ ~ lead[l].converted
    BY <1>1, LeadTypes
  <2> QED
    BY <1>1, <2>3, <2>4, LeadTypes DEF OneLead
<1> QED
  BY <1>2, <1>3, <1>4 DEF LeadInv

LEMMA LeadNext ==
  ASSUME Crm!LeadAssumption, LeadInv, [Crm!Next]_(Crm!vars)
  PROVE  LeadInv'
<1>1. CASE Crm!Next
  <2>1. PICK t \in Tasks : LeadActs(t)
    BY <1>1 DEF Crm!Next, LeadActs
  <2>2. wanted' = wanted
    BY <2>1, LeadDesk
  <2>3. Crm!TypeOK' /\ CustomersApart' /\ LeadKnown'
    BY <1>1, <2>1, LeadTypeStep, LeadApart, LeadKnownStep
  <2>4. ~ wanted'.early => LockKept'
    BY <2>1, <2>2, LockKeptStep
  <2>5. Crm!OneAtATime' => OneLead'
    BY <2>1, <2>2, OneLeadStep DEF Crm!OneAtATime
  <2> QED
    BY <2>3, <2>4, <2>5 DEF LeadInv
<1>2. CASE UNCHANGED Crm!vars
  <2>1. /\ lead' = lead /\ customer' = customer /\ opp' = opp /\ holds' = holds /\ desk' = desk
        /\ finished' = finished /\ losses' = losses /\ wanted' = wanted
    BY <1>2 DEF Crm!vars
  <2>2. Crm!TypeOK'
    BY <2>1 DEF LeadInv, Crm!TypeOK
  <2>3. CustomersApart' /\ LeadKnown'
    BY <2>1 DEF LeadInv, CustomersApart, Crm!Known, LeadKnown
  <2>4. ~ wanted'.early => LockKept'
    BY <2>1 DEF LeadInv, LockKept
  <2>5. ASSUME Crm!OneAtATime' PROVE OneLead'
    <3>1. OneLead
      BY <2>1, <2>5 DEF LeadInv, Crm!OneAtATime
    <3>2. \A l \in Leads : Crm!Raised(l)' = Crm!Raised(l) /\ Raising(l)' = Raising(l)
      BY <2>1 DEF Crm!Raised, Raising
    <3> QED
      BY <2>1, <3>1, <3>2 DEF OneLead
  <2> QED
    BY <2>2, <2>3, <2>4, <2>5 DEF LeadInv
<1> QED
  BY <1>1, <1>2

LEMMA LeadInvariance ==
  ASSUME Crm!LeadAssumption
  PROVE  Crm!Spec => []LeadInv
<1>1. Crm!Init => LeadInv
  BY LeadInit
<1>2. LeadInv /\ [Crm!Next]_(Crm!vars) => LeadInv'
  BY LeadNext
<1> QED
  BY <1>1, <1>2, PTL DEF Crm!Spec

\* A lead is converted once: with any number of handlers where conversions find
\* their customer and make no opportunity, for the row stays locked; and one
\* handler at a time always, with an opportunity left over at most for each
\* handler lost, and one customer made for a contact (convert_lead,
\* create_customer, create_opportunity).
LEMMA LeadOnce ==
  ASSUME Crm!LeadAssumption
  PROVE  Crm!Spec => []Crm!LeadConvertedOnce
<1>1. LeadInv => Crm!LeadConvertedOnce
  <2> SUFFICES ASSUME LeadInv PROVE Crm!LeadConvertedOnce
    OBVIOUS
  <2>1. /\ desk \in [Tasks -> Desk] /\ finished \in [Leads -> Nat] /\ losses \in Int
    BY LeadTypes DEF LeadInv
  <2>2. ASSUME NEW l \in Leads, Crm!OneAtATime
        PROVE  /\ finished[l] <= 1 /\ (finished[l] = 1 <=> lead[l].converted)
               /\ lead[l].converted => lead[l].status = "CONVERTED" /\ lead[l].customer # "none"
               /\ Crm!Cardinality(Crm!Raised(l)) <= finished[l] + losses
                    + Crm!Cardinality({t \in Tasks : desk[t].lead = l /\ desk[t].opp # "none"})
    <3>1. OneLead
      BY <2>2 DEF LeadInv
    <3> DEFINE S == {t \in Tasks : desk[t].lead = l /\ desk[t].opp # "none"}
    <3>2. Cardinality(S) = IF Raising(l) THEN 1 ELSE 0
      <4>1. CASE Raising(l)
        <5>1. PICK t \in Tasks : desk[t].lead = l /\ desk[t].opp # "none"
          BY <4>1 DEF Raising
        <5>2. \A u \in Tasks : desk[u].opp # "none" => desk[u].pc # "idle"
          BY <3>1 DEF OneLead
        <5>3. S = {t}
          BY <3>1, <5>1, <5>2 DEF OneLead
        <5> QED
          BY <4>1, <5>3, FS_Singleton
      <4>2. CASE ~ Raising(l)
        <5>1. S = {}
          BY <4>2 DEF Raising
        <5> QED
          BY <4>2, <5>1, FS_EmptySet
      <4> QED
        BY <4>1, <4>2
    <3>3. Cardinality(Crm!Raised(l)) <= finished[l] + losses + Cardinality(S)
      BY <3>1, <3>2 DEF OneLead
    <3>4. Crm!Cardinality(S) = Cardinality(S)
          /\ Crm!Cardinality(Crm!Raised(l)) = Cardinality(Crm!Raised(l))
      BY DEF Crm!Cardinality, Cardinality
    <3>5. /\ finished[l] <= 1 /\ (finished[l] = 1 <=> lead[l].converted)
          /\ lead[l].converted => lead[l].status = "CONVERTED" /\ lead[l].customer # "none"
      BY <2>1, <3>1 DEF OneLead
    <3> QED
      BY <3>3, <3>4, <3>5
  <2>3. ASSUME NEW l \in Leads, ~ wanted.early PROVE finished[l] <= 1
    BY <2>3 DEF LeadInv, LockKept
  <2>4. CustomersApart
    BY DEF LeadInv
  <2> QED
    BY <2>2, <2>3, <2>4 DEF Crm!LeadConvertedOnce, CustomersApart, Crm!Missing
<1> QED
  BY <1>1, LeadInvariance, PTL

\* Each side of a step is a step of that side alone.
LEMMA BothSides == BothSpec => Spec /\ Crm!Spec
<1>1. BothInit => Init /\ Crm!Init
  BY DEF BothInit
<1>2. [BothNext]_<<vars, records>> => [Next]_vars /\ [Crm!Next]_(Crm!vars)
  BY DEF BothNext, records, Crm!vars
<1> QED
  BY <1>1, <1>2, PTL DEF BothSpec, Spec, Crm!Spec

\* A quotation becomes one order and a lead one customer's opportunity
\* (create_from_quotation, convert_lead).
THEOREM ConvertedOnlyOnce ==
  ASSUME Crm!LeadAssumption
  PROVE  BothSpec => []NothingConvertedTwice
<1>1. ConvertedOnce /\ Crm!LeadConvertedOnce => NothingConvertedTwice
  BY DEF NothingConvertedTwice
<1> QED
  BY <1>1, BothSides, OneConversion, LeadOnce, PTL

=============================================================================
