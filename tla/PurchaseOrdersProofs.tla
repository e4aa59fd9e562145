----------------------- MODULE PurchaseOrdersProofs -----------------------
(***************************************************************************)
(* The counters of an order's lines agree with the stock ledger, with any  *)
(* number of handlers overlapping, and a fully received order is complete. *)
(*                                                                         *)
(* IInv is about any number of handlers: what each one knows and has       *)
(* booked, and how every line's counters are covered by the movements      *)
(* committed so far.  Orderly is about one handler at a time, when what a  *)
(* handler loaded is still so; Complete is about the status a receipt      *)
(* writes.  Each part is kept step by step, and StepKept, RowsKept and     *)
(* OrderlyStep say what a step has to show.                                *)
(*                                                                         *)
(* The last section is about Sourcing, which says how a supplier comes to  *)
(* an order: no quotation is ordered twice, no request decided twice, and  *)
(* a supplier has one primary contact.                                     *)
(***************************************************************************)
EXTENDS PurchasingAndSourcing, Sums

Qty(doc) == [k \in DOMAIN doc |-> doc[k].qty]

\* What the lines of a document before the n-th name of an order line.
Before(doc, n, i) == SumOver(Qty(doc), {k \in DOMAIN doc : k < n /\ doc[k].item = i})

----------------------------------------------------------------------------
(* Documents *)

\* A document has one line or two, each naming an order line and a quantity.
LEMMA DocumentLines ==
  ASSUME NEW doc \in Documents
  PROVE  /\ Len(doc) \in {1, 2} /\ DOMAIN doc = 1 .. Len(doc) /\ IsFiniteSet(DOMAIN doc)
         /\ \A k \in DOMAIN doc : doc[k] \in Entry
<1>0. \A n \in Nat : IsFiniteSet(1 .. n)
  BY FS_Interval
<1>1. CASE \E e \in Entry : doc = <<e>>
  <2>1. PICK e \in Entry : doc = <<e>>
    BY <1>1
  <2>2. Len(doc) = 1 /\ DOMAIN doc = 1 .. 1 /\ doc[1] = e
    BY <2>1
  <2>3. IsFiniteSet(1 .. 1)
    BY <1>0
  <2>4. \A k \in 1 .. 1 : k = 1
    OBVIOUS
  <2>5. \A k \in DOMAIN doc : doc[k] \in Entry
    BY <2>2, <2>4
  <2> QED
    BY <2>2, <2>3, <2>5
<1>2. CASE \E e, f \in Entry : doc = <<e, f>>
  <2>1. PICK e, f \in Entry : doc = <<e, f>>
    BY <1>2
  <2>2. Len(doc) = 2 /\ DOMAIN doc = 1 .. 2 /\ doc[1] = e /\ doc[2] = f
    BY <2>1
  <2>3. \A k \in 1 .. 2 : k = 1 \/ k = 2
    OBVIOUS
  <2>4. IsFiniteSet(1 .. 2)
    BY <1>0
  <2>5. \A k \in DOMAIN doc : doc[k] \in Entry
    BY <2>2, <2>3
  <2> QED
    BY <2>2, <2>4, <2>5
<1> QED
  BY <1>1, <1>2 DEF Documents

\* What a document names of an order line is a number, none if it is not named.
LEMMA TotalNat ==
  ASSUME NEW doc \in Documents, NEW i
  PROVE  Total(doc, i) \in Nat /\ (i \notin Named(doc) => Total(doc, i) = 0)
<1> DEFINE S == {k \in DOMAIN doc : doc[k].item = i}
<1>1. IsFiniteSet(S) /\ \A k \in S : Qty(doc)[k] \in Nat
  BY DocumentLines, FS_Subset DEF Qty, Entry
<1>2. Total(doc, i) = SumOver(Qty(doc), S)
  BY DEF Total, Sum, SumOver, Qty
<1>3. i \notin Named(doc) => S = {}
  BY DEF Named
<1> HIDE DEF S
<1>4. SumOver(Qty(doc), S) \in Nat
  BY <1>1, SumNat
<1> QED
  BY <1>2, <1>3, <1>4, SumEmpty

\* Line by line: nothing before the first, all before the end, and each line adds itself.
LEMMA BeforeSteps ==
  ASSUME NEW doc \in Documents, NEW i
  PROVE  /\ Before(doc, 1, i) = 0
         /\ Before(doc, Len(doc) + 1, i) = Total(doc, i)
         /\ \A n \in DOMAIN doc :
              /\ Before(doc, n, i) \in Nat
              /\ Before(doc, n + 1, i) =
                   Before(doc, n, i) + IF doc[n].item = i THEN doc[n].qty ELSE 0
<1> DEFINE S(n) == {k \in DOMAIN doc : k < n /\ doc[k].item = i}
<1>1. /\ Len(doc) \in Nat /\ DOMAIN doc = 1 .. Len(doc) /\ IsFiniteSet(DOMAIN doc)
      /\ \A k \in DOMAIN doc : Qty(doc)[k] = doc[k].qty /\ doc[k].qty \in Nat
  BY DocumentLines DEF Qty, Entry
<1>2. \A n : IsFiniteSet(S(n)) /\ S(n) \subseteq DOMAIN doc
  BY <1>1, FS_Subset
<1>3. \A n : Before(doc, n, i) = SumOver(Qty(doc), S(n))
  BY DEF Before
<1>4. S(1) = {}
  BY <1>1
<1>5. Before(doc, Len(doc) + 1, i) = Total(doc, i)
  <2>1. S(Len(doc) + 1) = {k \in DOMAIN doc : doc[k].item = i}
    BY <1>1
  <2>2. Total(doc, i) = SumOver(Qty(doc), {k \in DOMAIN doc : doc[k].item = i})
    BY DEF Total, Sum, SumOver, Qty
  <2> QED
    BY <1>3, <2>1, <2>2
<1>6. ASSUME NEW n \in DOMAIN doc
      PROVE  /\ Before(doc, n, i) \in Nat
             /\ Before(doc, n + 1, i) =
                  Before(doc, n, i) + IF doc[n].item = i THEN doc[n].qty ELSE 0
  <2>1. S(n + 1) = IF doc[n].item = i THEN S(n) \cup {n} ELSE S(n)
    BY <1>1
  <2>2. n \notin S(n) /\ S(n) = (S(n) \cup {n}) \ {n}
    BY <1>1
  <2>3. n \in Nat
    BY <1>1
  <2> HIDE DEF S
  <2>4. SumOver(Qty(doc), S(n)) \in Nat
    BY <1>1, <1>2, SumNat
  <2>5. CASE doc[n].item = i
    <3>1. IsFiniteSet(S(n + 1)) /\ n \in S(n + 1) /\ S(n + 1) \ {n} = S(n)
          /\ \A k \in S(n + 1) : Qty(doc)[k] \in Int
      BY <1>1, <1>2, <2>1, <2>2, <2>5
    <3>2. SumOver(Qty(doc), S(n + 1)) = Qty(doc)[n] + SumOver(Qty(doc), S(n))
      BY <3>1, SumTake
    <3> QED
      BY <1>1, <1>3, <2>4, <2>5, <3>2
  <2>6. CASE doc[n].item # i
    BY <1>3, <2>1, <2>4, <2>6
  <2> QED
    BY <2>5, <2>6
<1> HIDE DEF S
<1> QED
  BY <1>3, <1>4, <1>5, <1>6, SumEmpty

\* No two lines name the same order line.
Distinct(doc) == \A j, k \in DOMAIN doc : doc[j].item = doc[k].item => j = k

\* The lines of a document without repetition (duplicate order lines in a request).
LEMMA WrittenDistinct ==
  ASSUME NEW doc \in Documents, Cardinality(Named(doc)) = Len(doc)
  PROVE  Distinct(doc)
<1>1. CASE \E e \in Entry : doc = <<e>>
  <2>1. PICK e \in Entry : doc = <<e>>
    BY <1>1
  <2>2. DOMAIN doc = {1}
    BY <2>1
  <2> QED
    BY <2>2 DEF Distinct
<1>2. CASE \E e, f \in Entry : doc = <<e, f>>
  <2>1. PICK e, f \in Entry : doc = <<e, f>>
    BY <1>2
  <2>2. DOMAIN doc = {1, 2} /\ doc[1] = e /\ doc[2] = f /\ Len(doc) = 2
    BY <2>1
  <2>3. Named(doc) = {e.item, f.item}
    BY <2>2 DEF Named
  <2>4. e.item # f.item
    <3>1. Cardinality({e.item}) = 1
      BY FS_Singleton
    <3> QED
      BY <2>2, <2>3, <3>1
  <2> QED
    BY <2>2, <2>4 DEF Distinct
<1> QED
  BY <1>1, <1>2 DEF Documents

\* A document that names an order line once names of it what that line says.
LEMMA TotalOfOne ==
  ASSUME NEW doc \in Documents, Distinct(doc), NEW k \in DOMAIN doc
  PROVE  Total(doc, doc[k].item) = doc[k].qty
<1> DEFINE S == {j \in DOMAIN doc : doc[j].item = doc[k].item}
<1>1. S = {k}
  BY DEF Distinct
<1>2. Total(doc, doc[k].item) = SumOver(Qty(doc), S)
  BY DEF Total, Sum, SumOver, Qty
<1>3. Qty(doc)[k] = doc[k].qty /\ doc[k].qty \in Nat
  BY DocumentLines DEF Qty, Entry
<1> HIDE DEF S
<1> QED
  BY <1>1, <1>2, <1>3, SumOne

----------------------------------------------------------------------------
(* The invariant of any number of handlers *)

\* A document names an order line once, unless the scenario repeats lines.
Repeating(me) == scenario.repeats \/ Distinct(me.doc)

\* The operations that carry a document.
Owing == {"receive", "process"} \cup ReturnOps

\* What every handler knows: a line it inserts is in nobody else's hands.
Knows(t) ==
  LET me == task[t] IN
    /\ me.pc = "idle" => me = Resting
    /\ me.pc # "idle" => me.op \in Ops
    /\ me.op \in OrderOps \cup ReturnOps => me.pc = "write"
    /\ me.op = "process" => me.pc \in {"lock", "write"}
    /\ me.pc = "book" => me.op = "receive"
    /\ me.pc = "lock" => me.moved = Nothing
    /\ me.op \notin OrderOps => me.new = Nothing
    /\ me.op \in Owing => me.doc \in Documents /\ Repeating(me)
    /\ me.op \in {"process"} \cup ReturnOps => me.r \in Returns
    /\ \A i \in Items : me.new[i] > 0 =>
         line[i].quantity = 0 /\ \A u \in Tasks \ {t} : task[u].new[i] = 0

\* What a receipt has loaded and booked: its counters are covered by the
\* movements committed so far, and while it keeps the lock nobody else writes.
Receiving(t) ==
  LET me == task[t] IN
  me.op = "receive" /\ me.pc \in {"book", "write"} =>
    /\ IF me.pc = "book" THEN me.n \in DOMAIN me.doc ELSE me.n = Len(me.doc) + 1
    /\ \A i \in Named(me.doc) : line[i].quantity > 0
    /\ \A i \in Items :
         /\ me.moved[i] <= Before(me.doc, me.n, i)
         /\ me.seen[i].received + Before(me.doc, me.n, i) - me.moved[i] <= booked[i].in
    /\ WholeDocuments =>
         /\ lock = t /\ me.seen = line /\ me.status = order
         /\ \A i \in Items : me.moved[i] = Before(me.doc, me.n, i)
         /\ ~ scenario.repeats =>
              \A i \in Named(me.doc) : Total(me.doc, i) <= Remaining(line[i])

\* A return is counted on counters that the movements committed so far cover.
Returning(t) ==
  task[t].op = "process" => \A i \in Items : task[t].seen[i].returned <= booked[i].out

\* A line that was never inserted is untouched, and the counters of a line are
\* covered by the stock ledger.
Covered(i) ==
  /\ line[i].quantity = 0 => line[i] = NoLine /\ booked[i].in = 0 /\ booked[i].out = 0
  /\ line[i].received <= booked[i].in /\ line[i].returned <= booked[i].out
  /\ WholeDocuments => line[i].received = booked[i].in
  /\ WholeDocuments /\ ~ scenario.repeats =>
       booked[i].in - booked[i].out <= line[i].quantity

Handling == \A t \in Tasks : Knows(t) /\ Receiving(t) /\ Returning(t)
Counting == \A i \in Items : Covered(i)
Alone    == OneAtATime => \A t, u \in Tasks : task[t].pc # "idle" /\ task[u].pc # "idle" => t = u

IInv == TypeOK /\ Handling /\ Counting /\ Alone

\* Handled one at a time, a handler's view of the order and of its return is current.
Early == {Missing, "Draft", "Submitted", "Rejected", "Cancelled"}
Current(t) ==
  LET me == task[t] IN
    /\ me.op \in OrderOps =>
         /\ Permitted(me.op) /\ me.seen = line
         /\ me.op \in {"create", "update", "amend"} \/ me.new = Nothing
    /\ me.op = "receive" /\ me.pc \in {"book", "write"} =>
         me.seen = line /\ order \in OpenForReceipt
    /\ me.op = "process" =>
         /\ me.seen = line /\ ret[me.r].doc = me.doc
         /\ ret[me.r].status \in {"Draft", "Approved"}
         /\ me.pc = "write" => SendsBack(me.seen, me.doc)
    /\ me.op \in ReturnOps => ret[me.r].status # "Processed"

\* Goods go back once, and no more than came in; none come in before approval.
Settled(i) ==
  /\ booked[i].out = SentBack(i) /\ line[i].returned = SentBack(i)
  /\ ~ scenario.repeats => line[i].returned <= line[i].received
  /\ WholeDocuments /\ booked[i].in > 0 => line[i].live /\ order \notin Early

Orderly == OneAtATime => (\A t \in Tasks : Current(t)) /\ (\A i \in Items : Settled(i))

\* Handlers do what the scenario asks.
Asked == \A t \in Tasks : task[t].op \in scenario.ops \cup {Missing}

Complete == WholeDocuments /\ UpdatesAlone /\ order = "Fully Received" => Short = {}

----------------------------------------------------------------------------
(* Steps, with any number of handlers *)

\* Nobody else is under way when a handler begins and they do not overlap.
LEMMA NobodyElse ==
  ASSUME OneAtATime, NEW t \in Tasks, MayBegin(t)
  PROVE  \A u \in Tasks : task[u].pc = "idle"
<1> DEFINE busy == {u \in Tasks : task[u].pc # "idle"}
<1>1. IsFiniteSet(busy) /\ Cardinality(busy) < 1
  BY PurchaseAssumption, FS_Subset DEF OneAtATime, MayBegin
<1>2. Cardinality(busy) = 0
  BY <1>1, FS_CardinalityType
<1>3. busy = {}
  BY <1>1, <1>2, FS_EmptySet
<1> QED
  BY <1>3

\* A handler at rest is a typed one.
LEMMA RestingType == Resting \in Task
<1>1. Nothing \in [Items -> Quantities \cup {0}] /\ Nothing \in [Items -> Nat]
  BY DEF Nothing
<1>2. [i \in Items |-> NoLine] \in [Items -> Line]
  BY DEF NoLine, Line
<1> QED
  BY <1>1, <1>2 DEF Resting, Task

\* What a handler at rest knows.
LEMMA RestingKnows ==
  ASSUME NEW t \in Tasks, task'[t] = Resting
  PROVE  Knows(t)' /\ Receiving(t)' /\ Returning(t)'
<1>1. /\ Resting.pc = "idle" /\ Resting.op = Missing /\ Resting.new = Nothing
      /\ \A i \in Items : Nothing[i] = 0
  BY DEF Resting, Nothing
<1>2. Missing \notin Ops /\ Missing \notin Owing
  BY DEF Missing, Ops, OrderOps, ReturnOps, Owing
<1> HIDE DEF Resting, Nothing
<1>3. Knows(t)'
  BY <1>1, <1>2 DEF Knows, Ops, Owing
<1>4. Missing # "receive" /\ Missing # "process"
  BY DEF Missing
<1>5. Receiving(t)' /\ Returning(t)'
  <2>1. task'[t].op = Missing
    BY <1>1
  <2> QED
    BY <1>4, <2>1 DEF Receiving, Returning
<1> QED
  BY <1>3, <1>5

\* A step keeps what the other handlers know when it only adds movements, sets
\* quantities of its own new lines, and leaves the order alone while it is locked.
LEMMA OthersKept ==
  ASSUME IInv, TypeOK', NEW t \in Tasks, UNCHANGED scenario,
         \A u \in Tasks \ {t} : task'[u] = task[u],
         \A i \in Items :
           /\ line'[i].quantity = line[i].quantity \/ (line[i].quantity = 0 /\ task[t].new[i] > 0)
           /\ booked[i].in <= booked'[i].in /\ booked[i].out <= booked'[i].out
           /\ task'[t].new[i] = 0
                \/ (line[i].quantity = 0 /\ \A u \in Tasks : task[u].new[i] = 0),
         WholeDocuments /\ lock \in Tasks \ {t} => UNCHANGED <<line, order, lock>>
  PROVE  \A u \in Tasks \ {t} : Knows(u)' /\ Receiving(u)' /\ Returning(u)'
<1> SUFFICES ASSUME NEW u \in Tasks \ {t}
             PROVE  Knows(u)' /\ Receiving(u)' /\ Returning(u)'
  OBVIOUS
<1>1. /\ task'[u] = task[u] /\ Knows(u) /\ Receiving(u) /\ Returning(u) /\ Knows(t)
      /\ task[u] \in Task /\ task[t] \in Task /\ task'[t] \in Task
  BY DEF IInv, Handling, TypeOK
<1>2. \A i \in Items : /\ line[i] \in Line /\ line'[i] \in Line
                       /\ booked[i] \in [in: Nat, out: Nat] /\ booked'[i] \in [in: Nat, out: Nat]
  BY DEF IInv, TypeOK
<1>3. ASSUME NEW i \in Items, task[u].new[i] > 0
      PROVE  line'[i].quantity = 0 /\ \A v \in Tasks \ {u} : task'[v].new[i] = 0
  <2>1. line[i].quantity = 0 /\ \A v \in Tasks \ {u} : task[v].new[i] = 0
    BY <1>1, <1>3 DEF Knows
  <2>2. task[t].new[i] = 0 /\ ~ (task[u].new[i] = 0)
    BY <1>3, <2>1
  <2>3. line'[i].quantity = 0 /\ task'[t].new[i] = 0
    BY <2>1, <2>2
  <2> QED
    BY <2>1, <2>3
<1>4. Knows(u)'
  BY <1>1, <1>3 DEF Knows, Repeating
<1>5. Returning(u)'
  <2> SUFFICES ASSUME task[u].op = "process", NEW i \in Items
               PROVE  task[u].seen[i].returned <= booked'[i].out
    BY <1>1 DEF Returning
  <2>1. task[u].seen[i].returned <= booked[i].out /\ booked[i].out <= booked'[i].out
    BY <1>1 DEF Returning
  <2>2. task[u].seen[i].returned \in Nat /\ booked[i].out \in Nat /\ booked'[i].out \in Nat
    BY <1>1, <1>2 DEF Task, Line
  <2> QED
    BY <2>1, <2>2
<1>6. Receiving(u)'
  <2> SUFFICES ASSUME task[u].op = "receive" /\ task[u].pc \in {"book", "write"}
               PROVE  Receiving(u)'
    BY <1>1 DEF Receiving
  <2> DEFINE me == task[u]
  <2>1. /\ IF me.pc = "book" THEN me.n \in DOMAIN me.doc ELSE me.n = Len(me.doc) + 1
        /\ \A i \in Named(me.doc) : line[i].quantity > 0
        /\ \A i \in Items :
             /\ me.moved[i] <= Before(me.doc, me.n, i)
             /\ me.seen[i].received + Before(me.doc, me.n, i) - me.moved[i] <= booked[i].in
        /\ WholeDocuments =>
             /\ lock = u /\ me.seen = line /\ me.status = order
             /\ \A i \in Items : me.moved[i] = Before(me.doc, me.n, i)
             /\ ~ scenario.repeats =>
                  \A i \in Named(me.doc) : Total(me.doc, i) <= Remaining(line[i])
    BY <1>1 DEF Receiving
  <2>2. me.doc \in Documents /\ Named(me.doc) \subseteq Items
    <3>1. me.doc \in Documents
      BY <1>1 DEF Knows, Owing
    <3> QED
      BY <3>1, DocumentLines DEF Named, Entry
  <2>3. \A i \in Items : Before(me.doc, me.n, i) \in Nat /\ me.seen[i].received \in Nat
                         /\ me.moved[i] \in Nat
    <3>1. \A i \in Items : me.seen[i].received \in Nat /\ me.moved[i] \in Nat
      BY <1>1 DEF Task, Line
    <3>2. \A i \in Items : Total(me.doc, i) \in Nat
      BY <2>2, TotalNat
    <3>3. CASE me.pc = "book"
      <4>1. me.n \in DOMAIN me.doc
        BY <2>1, <3>3
      <4> HIDE DEF me
      <4> QED
        BY <2>2, <3>1, <4>1, BeforeSteps
    <3>4. CASE me.pc # "book"
      <4>1. me.n = Len(me.doc) + 1
        BY <2>1, <3>4
      <4> HIDE DEF me
      <4> QED
        BY <2>2, <3>1, <3>2, <4>1, BeforeSteps
    <3> QED
      BY <3>3, <3>4
  <2> HIDE DEF me
  <2>4. \A i \in Items :
             me.seen[i].received + Before(me.doc, me.n, i) - me.moved[i] <= booked'[i].in
    BY <1>2, <2>1, <2>3
  <2>5. \A i \in Named(me.doc) : line'[i].quantity > 0
    BY <1>2, <2>1, <2>2
  <2>6. WholeDocuments => UNCHANGED <<line, order, lock>>
    BY <2>1
  <2>7. task'[u] = me
    BY <1>1 DEF me
  <2>8. WholeDocuments' <=> WholeDocuments
    BY DEF WholeDocuments
  <2>9. WholeDocuments' =>
             /\ lock' = u /\ me.seen = line' /\ me.status = order'
             /\ \A i \in Items : me.moved[i] = Before(me.doc, me.n, i)
             /\ ~ scenario'.repeats =>
                  \A i \in Named(me.doc) : Total(me.doc, i) <= Remaining(line'[i])
    BY <2>1, <2>6, <2>8
  <2> QED
    BY <2>1, <2>4, <2>5, <2>7, <2>9 DEF Receiving
<1> QED
  BY <1>4, <1>5, <1>6

\* The counters of a line that no step touches stay covered.
LEMMA CoveredKept ==
  ASSUME UNCHANGED scenario, NEW i \in Items, line'[i] = line[i], booked'[i] = booked[i], Covered(i)
  PROVE  Covered(i)'
BY DEF Covered, WholeDocuments

\* A step of one handler, put together.
LEMMA StepKept ==
  ASSUME IInv, TypeOK', NEW t \in Tasks, UNCHANGED scenario,
         task[t].pc # "idle" \/ MayBegin(t),
         \A u \in Tasks \ {t} : task'[u] = task[u],
         \A i \in Items :
           /\ line'[i].quantity = line[i].quantity \/ (line[i].quantity = 0 /\ task[t].new[i] > 0)
           /\ booked[i].in <= booked'[i].in /\ booked[i].out <= booked'[i].out
           /\ task'[t].new[i] = 0
                \/ (line[i].quantity = 0 /\ \A u \in Tasks : task[u].new[i] = 0),
         WholeDocuments /\ lock \in Tasks \ {t} => UNCHANGED <<line, order, lock>>,
         Knows(t)', Receiving(t)', Returning(t)', Counting'
  PROVE  IInv'
<1>1. \A u \in Tasks \ {t} : Knows(u)' /\ Receiving(u)' /\ Returning(u)'
  BY OthersKept
<1>2. Handling'
  BY <1>1 DEF Handling
<1>3. Alone'
  <2> SUFFICES ASSUME OneAtATime PROVE \A u \in Tasks : task'[u].pc # "idle" => u = t
    BY DEF Alone, OneAtATime
  <2>1. \A u \in Tasks \ {t} : task[u].pc = "idle"
    BY NobodyElse DEF IInv, Alone
  <2> QED
    BY <2>1
<1> QED
  BY <1>2, <1>3 DEF IInv

\* The type of the state and what each handler is, from the invariant.
LEMMA Typed ==
  ASSUME IInv, NEW t \in Tasks
  PROVE  /\ order \in Statuses \cup {Missing} /\ line \in [Items -> Line]
         /\ ret \in [Returns -> Return] /\ booked \in [Items -> [in: Nat, out: Nat]]
         /\ lock \in Tasks \cup {Missing} /\ task \in [Tasks -> Task] /\ task[t] \in Task
         /\ scenario \in Scenarios
         /\ Knows(t) /\ Receiving(t) /\ Returning(t) /\ \A i \in Items : Covered(i)
BY DEF IInv, TypeOK, Handling, Counting

\* A handler that ends, done or rolled back, is at rest and knows nothing.
LEMMA Finished ==
  ASSUME IInv, NEW t \in Tasks, Finish(t)
  PROVE  /\ task' \in [Tasks -> Task] /\ \A u \in Tasks \ {t} : task'[u] = task[u]
         /\ \A i \in Items : task'[t].new[i] = 0
         /\ task'[t] = Resting /\ Knows(t)' /\ Receiving(t)' /\ Returning(t)'
<1>1. task \in [Tasks -> Task]
  BY Typed
<1> HIDE DEF Resting
<1>2. task' \in [Tasks -> Task] /\ task'[t] = Resting /\ \A u \in Tasks \ {t} : task'[u] = task[u]
  BY <1>1, RestingType DEF Finish
<1>3. \A i \in Items : task'[t].new[i] = 0
  BY <1>2 DEF Resting, Nothing
<1> QED
  BY <1>2, <1>3, RestingKnows

\* A lock that may be taken is nobody else's; giving one back leaves others' alone.
LEMMA Locks ==
  ASSUME IInv, NEW t \in Tasks
  PROVE  /\ MayLock(t) => lock \notin Tasks \ {t}
         /\ Release(t) => lock' \in Tasks \cup {Missing} /\ (lock \in Tasks \ {t} => lock' = lock)
BY Typed, PurchaseAssumption DEF MayLock, Release

\* A document that does not name an order line books nothing of it.
LEMMA BeforeUnnamed ==
  ASSUME NEW doc, NEW n, NEW i, i \notin Named(doc)
  PROVE  Before(doc, n, i) = 0
<1>1. {k \in DOMAIN doc : k < n /\ doc[k].item = i} = {}
  BY DEF Named
<1> QED
  BY <1>1, SumEmpty DEF Before

\* The documents clients write, as handlers keep them.
LEMMA WrittenRepeats ==
  ASSUME NEW doc \in Documents, Written(doc)
  PROVE  scenario.repeats \/ Distinct(doc)
BY WrittenDistinct DEF Written

\* A line that was inserted has a quantity.
LEMMA LiveInserted ==
  ASSUME IInv, NEW i \in Items, line[i].live
  PROVE  line[i].quantity > 0
BY DEF IInv, TypeOK, Line, Counting, Covered, NoLine

\* What a line orders is a number.
LEMMA QuantitiesNat == Quantities \cup {0} \subseteq Nat
BY PurchaseAssumption

\* Deleting a line that was never inserted changes nothing.
LEMMA NoLineDropped == [NoLine EXCEPT !.live = FALSE] = NoLine
<1>1. NoLine \in Line /\ NoLine.live = FALSE
  BY DEF NoLine, Line
<1> HIDE DEF NoLine
<1> QED
  BY <1>1 DEF Line

\* create_order, update_order and the rest read the order and decide.
LEMMA BeginOrderOpKeeps ==
  ASSUME IInv, NEW t \in Tasks, BeginOrderOp(t)
  PROVE  IInv'
<1>0. PICK op \in OrderOps : \E new \in NewLines(op) :
        task' = [task EXCEPT ![t] = [Resting EXCEPT
            !.pc = "write", !.op = op, !.status = order, !.seen = line, !.new = new]]
  BY DEF BeginOrderOp
<1>1. PICK new \in NewLines(op) :
        task' = [task EXCEPT ![t] = [Resting EXCEPT
            !.pc = "write", !.op = op, !.status = order, !.seen = line, !.new = new]]
  BY <1>0
<1> DEFINE row == [Resting EXCEPT
            !.pc = "write", !.op = op, !.status = order, !.seen = line, !.new = new]
<1>2. /\ new \in [Items -> Quantities \cup {0}] /\ \A i \in Items \ Fresh : new[i] = 0
      /\ op \in Ops /\ op \notin Owing /\ op # "process" /\ op # "receive"
  BY DEF NewLines, Ops, OrderOps, ReturnOps, Owing
<1>3. /\ row \in Task /\ row.pc = "write" /\ row.op = op /\ row.new = new
  BY <1>2, RestingType, Typed DEF Task, Resting
<1> HIDE DEF row
<1>4. /\ task' \in [Tasks -> Task] /\ task'[t] = row /\ \A u \in Tasks \ {t} : task'[u] = task[u]
  BY <1>1, <1>3, Typed DEF row
<1>5. UNCHANGED <<order, line, ret, booked, lock, scenario>> /\ MayBegin(t)
  BY DEF BeginOrderOp
<1>6. TypeOK'
  BY <1>4, <1>5, Typed DEF TypeOK
<1>7. \A i \in Items : task'[t].new[i] = 0
                \/ (line[i].quantity = 0 /\ \A u \in Tasks : task[u].new[i] = 0)
  BY <1>2, <1>3, <1>4 DEF Fresh
<1>8. Knows(t)'
  <2>1. \A i \in Items : new[i] \in Nat
    BY <1>2, QuantitiesNat
  <2>2. ASSUME NEW i \in Items, new[i] > 0
        PROVE  line'[i].quantity = 0 /\ \A u \in Tasks \ {t} : task'[u].new[i] = 0
    BY <1>3, <1>4, <1>5, <1>7, <2>1, <2>2
  <2>3. op \in OrderOps /\ op \notin {"process"} \cup ReturnOps
    BY <1>2 DEF Owing
  <2>4. task'[t].pc = "write" /\ task'[t].op = op /\ task'[t].new = new
    BY <1>3, <1>4
  <2> QED
    BY <1>2, <2>2, <2>3, <2>4 DEF Knows
<1>9. Receiving(t)' /\ Returning(t)'
  BY <1>2, <1>3, <1>4 DEF Receiving, Returning
<1>10. Counting'
  BY <1>5, Typed, CoveredKept DEF Counting
<1>11. \A i \in Items : booked[i].in <= booked[i].in /\ booked[i].out <= booked[i].out
  BY Typed
<1> QED
  BY <1>4, <1>5, <1>6, <1>7, <1>8, <1>9, <1>10, <1>11, StepKept

\* A step that leaves every row as it was.
LEMMA RowsKept ==
  ASSUME IInv, NEW t \in Tasks, UNCHANGED <<order, line, booked, scenario>>,
         ret' \in [Returns -> Return],
         task[t].pc # "idle" \/ MayBegin(t),
         task' \in [Tasks -> Task], \A u \in Tasks \ {t} : task'[u] = task[u],
         \A i \in Items : task'[t].new[i] = 0,
         lock' \in Tasks \cup {Missing}, lock \in Tasks \ {t} => lock' = lock,
         Knows(t)', Receiving(t)', Returning(t)'
  PROVE  IInv'
<1>1. TypeOK'
  BY Typed DEF TypeOK
<1>2. Counting'
  BY Typed, CoveredKept DEF Counting
<1>3. \A i \in Items : booked[i].in <= booked[i].in /\ booked[i].out <= booked[i].out
  BY Typed
<1> QED
  BY <1>1, <1>2, <1>3, StepKept

\* update, submit, approve, reject, amend, dispatch, cancel, close and reopen
\* commit.
LEMMA WriteOrderOpKeeps ==
  ASSUME IInv, NEW t \in Tasks, WriteOrderOp(t)
  PROVE  IInv'
<1> DEFINE me == task[t]
<1>0. /\ me \in Task /\ Knows(t) /\ me.op \in OrderOps /\ me.pc = "write" /\ MayLock(t)
      /\ Finish(t) /\ UNCHANGED <<ret, booked, lock, scenario>>
      /\ lock \notin Tasks \ {t} /\ \A i \in Items : Covered(i)
  BY Typed, Locks DEF WriteOrderOp, At
<1>1. CASE Refused(me)
  <2>1. UNCHANGED <<order, line>>
    BY <1>1 DEF WriteOrderOp
  <2>2. me.pc # "idle"
    BY <1>0
  <2> HIDE DEF me
  <2> QED
    BY <1>0, <2>1, <2>2, Typed, Finished, RowsKept DEF me
<1>2. CASE ~ Refused(me)
  <2>1. /\ order' = Target(me.op)
        /\ line' = [i \in Items |->
               IF me.new[i] > 0 THEN Ordered(me.new[i])
               ELSE IF i \in Dropped(me) THEN [line[i] EXCEPT !.live = FALSE] ELSE line[i]]
    BY <1>2 DEF WriteOrderOp
  <2>2. order' \in Statuses \cup {Missing}
    <3>1. me.op \in OrderOps /\ order \in Statuses \cup {Missing} /\ order' = Target(me.op)
      BY <1>0, <2>1, Typed
    <3> HIDE DEF me
    <3> QED
      BY <3>1 DEF Target, OrderOps, Statuses
  <2>3. ASSUME NEW i \in Items
        PROVE  /\ line'[i] \in Line /\ Covered(i)'
               /\ line'[i].quantity = line[i].quantity \/ (line[i].quantity = 0 /\ me.new[i] > 0)
    <3>1. line[i] \in Line /\ booked[i] \in [in: Nat, out: Nat] /\ me.new[i] \in Nat
      BY <1>0, Typed, QuantitiesNat DEF Task
    <3>2. CASE me.new[i] > 0
      <4>1. line'[i] = Ordered(me.new[i])
        BY <2>1, <3>2
      <4>2. line[i].quantity = 0 /\ booked[i].in = 0 /\ booked[i].out = 0
        BY <1>0, <3>2 DEF Knows, Covered
      <4>3. /\ line'[i] \in Line /\ line'[i].quantity = me.new[i]
            /\ line'[i].received = 0 /\ line'[i].returned = 0 /\ me.new[i] # 0
        BY <3>1, <3>2, <4>1 DEF Ordered, Line
      <4>4. Covered(i)'
        BY <1>0, <3>1, <3>2, <4>2, <4>3 DEF Covered
      <4> QED
        BY <3>2, <4>2, <4>3, <4>4
    <3>3. CASE ~ (me.new[i] > 0) /\ i \in Dropped(me)
      <4>1. line'[i] = [line[i] EXCEPT !.live = FALSE]
        BY <2>1, <3>3
      <4>2. /\ line'[i] \in Line /\ line'[i].quantity = line[i].quantity
            /\ line'[i].received = line[i].received /\ line'[i].returned = line[i].returned
        BY <3>1, <4>1 DEF Line
      <4>4. line[i] = NoLine => line'[i] = NoLine
        BY <4>1, NoLineDropped
      <4>3. Covered(i)'
        BY <1>0, <4>2, <4>4 DEF Covered, WholeDocuments
      <4> QED
        BY <4>2, <4>3
    <3>4. CASE ~ (me.new[i] > 0) /\ i \notin Dropped(me)
      <4>1. line'[i] = line[i] /\ booked'[i] = booked[i]
        BY <1>0, <2>1, <3>4
      <4> QED
        BY <1>0, <3>1, <4>1, CoveredKept
    <3> QED
      BY <3>2, <3>3, <3>4
  <2>4. line' \in [Items -> Line]
    <3>1. line' = [i \in Items |-> line'[i]]
      BY <2>1
    <3> QED
      BY <2>3, <3>1
  <2>5. TypeOK'
    BY <1>0, <2>2, <2>4, Typed, Finished DEF TypeOK
  <2>6. Counting'
    BY <2>3 DEF Counting
  <2>7. \A i \in Items : booked[i].in <= booked[i].in /\ booked[i].out <= booked[i].out
    BY Typed
  <2>8. me.pc # "idle"
    BY <1>0
  <2> QED
    BY <1>0, <2>3, <2>5, <2>6, <2>7, <2>8, Finished, StepKept
<1> QED
  BY <1>1, <1>2

\* A row put in place of a handler's own.
LEMMA Replaced ==
  ASSUME IInv, NEW t \in Tasks, NEW row \in Task, task' = [task EXCEPT ![t] = row]
  PROVE  /\ task' \in [Tasks -> Task] /\ task'[t] = row
         /\ \A u \in Tasks \ {t} : task'[u] = task[u]
BY Typed

\* Adding a line of a document to what was booked.
LEMMA PlusAdds ==
  ASSUME NEW f \in [Items -> Nat], NEW e \in Entry
  PROVE  /\ Plus(f, e) \in [Items -> Nat]
         /\ \A i \in Items : Plus(f, e)[i] = f[i] + IF e.item = i THEN e.qty ELSE 0
<1>1. e.item \in Items /\ e.qty \in Nat
  BY PurchaseAssumption DEF Entry
<1> QED
  BY <1>1 DEF Plus

\* receive_goods is called.
LEMMA BeginReceiptKeeps ==
  ASSUME IInv, NEW t \in Tasks, BeginReceipt(t)
  PROVE  IInv'
<1>1. PICK doc \in Documents : Written(doc) /\
        task' = [task EXCEPT ![t] = [Resting EXCEPT !.pc = "lock", !.op = "receive", !.doc = doc]]
  BY DEF BeginReceipt
<1> DEFINE row == [Resting EXCEPT !.pc = "lock", !.op = "receive", !.doc = doc]
<1>2. /\ row \in Task /\ row.pc = "lock" /\ row.op = "receive" /\ row.doc = doc
      /\ row.new = Nothing /\ row.moved = Nothing
  BY RestingType DEF Task, Resting, Ops
<1> HIDE DEF row
<1>3. /\ task' \in [Tasks -> Task] /\ task'[t] = row /\ \A u \in Tasks \ {t} : task'[u] = task[u]
  <2>1. task' = [task EXCEPT ![t] = row]
    BY <1>1 DEF row
  <2> QED
    BY <1>2, <2>1, Replaced
<1>4. UNCHANGED <<order, line, ret, booked, lock, scenario>> /\ MayBegin(t)
  BY DEF BeginReceipt
<1>5. \A i \in Items : Nothing[i] = 0
  BY DEF Nothing
<1>6. "receive" \in Ops /\ "receive" \notin OrderOps \cup ReturnOps
  BY DEF Ops, OrderOps, ReturnOps
<1>7. Repeating(row)'
  BY <1>1, <1>2, <1>4, WrittenRepeats DEF Repeating
<1>8. Knows(t)'
  BY <1>2, <1>3, <1>5, <1>6, <1>7 DEF Knows, Repeating
<1>9. Receiving(t)' /\ Returning(t)'
  BY <1>2, <1>3 DEF Receiving, Returning
<1> QED
  BY <1>2, <1>3, <1>4, <1>5, <1>8, <1>9, Typed, RowsKept

\* receive_goods locks the order and checks every line of the request.
LEMMA LockForReceiptKeeps ==
  ASSUME IInv, NEW t \in Tasks, LockForReceipt(t)
  PROVE  IInv'
<1> DEFINE me == task[t]
<1>0. /\ me \in Task /\ Knows(t) /\ me.op = "receive" /\ me.pc = "lock" /\ MayLock(t)
      /\ UNCHANGED <<order, line, ret, booked, scenario>>
      /\ lock \notin Tasks \ {t} /\ \A i \in Items : Covered(i)
  BY Typed, Locks DEF LockForReceipt, At
<1>1. CASE ~ (order \in OpenForReceipt /\ Receivable(line, me.doc))
  <2>1. Finish(t) /\ UNCHANGED lock
    BY <1>1 DEF LockForReceipt
  <2>2. me.pc # "idle"
    BY <1>0
  <2> HIDE DEF me
  <2> QED
    BY <1>0, <2>1, <2>2, Typed, Finished, RowsKept DEF me
<1>2. CASE order \in OpenForReceipt /\ Receivable(line, me.doc)
  <2> DEFINE row == [me EXCEPT !.pc = "book", !.n = 1, !.seen = line, !.status = order]
  <2>1. lock' = t /\ task' = [task EXCEPT ![t] = row]
    <3>1. /\ lock' = t
          /\ task' = [task EXCEPT ![t].pc = "book", ![t].n = 1,
                                  ![t].seen = line, ![t].status = order]
      BY <1>2 DEF LockForReceipt
    <3> QED
      BY <3>1, Typed
  <2>2. /\ row \in Task /\ row.pc = "book" /\ row.n = 1 /\ row.seen = line /\ row.status = order
        /\ row.op = "receive" /\ row.doc = me.doc /\ row.new = me.new /\ row.moved = me.moved
    BY <1>0, Typed DEF Task
  <2> HIDE DEF row
  <2>3. /\ task' \in [Tasks -> Task] /\ task'[t] = row /\ \A u \in Tasks \ {t} : task'[u] = task[u]
    BY <2>1, <2>2, Replaced
  <2>4. /\ me.doc \in Documents /\ Repeating(me) /\ me.new = Nothing /\ me.moved = Nothing
        /\ "receive" \in Ops /\ "receive" \notin OrderOps \cup ReturnOps
    BY <1>0 DEF Knows, Owing, Ops, OrderOps, ReturnOps
  <2>5. \A i \in Items : Nothing[i] = 0
    BY DEF Nothing
  <2>6. Knows(t)'
    BY <1>0, <2>2, <2>3, <2>4, <2>5 DEF Knows, Repeating
  <2>7. Returning(t)'
    BY <2>2, <2>3 DEF Returning
  <2>8. /\ 1 \in DOMAIN me.doc /\ \A i \in Items : Before(me.doc, 1, i) = 0
        /\ \A k \in DOMAIN me.doc : me.doc[k] \in Entry
    BY <2>4, DocumentLines, BeforeSteps
  <2>9. ASSUME NEW i \in Named(me.doc)
        PROVE  /\ line[i].quantity > 0
               /\ ~ scenario.repeats => Total(me.doc, i) <= Remaining(line[i])
    <3>1. PICK k \in DOMAIN me.doc : me.doc[k].item = i
      BY DEF Named
    <3>2. i \in Items /\ line[i].live /\ me.doc[k].qty <= Remaining(line[i])
      BY <1>2, <3>1 DEF Receivable, Live
    <3>3. ~ scenario.repeats => Total(me.doc, i) = me.doc[k].qty
      <4> HIDE DEF me
      <4> QED
        BY <2>4, <3>1, TotalOfOne DEF Repeating
    <3> QED
      BY <3>2, <3>3, LiveInserted
  <2>10. Receiving(t)'
    <3>1. \A i \in Items :
         /\ row.moved[i] <= Before(row.doc, row.n, i)
         /\ row.seen[i].received + Before(row.doc, row.n, i) - row.moved[i] <= booked[i].in
         /\ row.moved[i] = Before(row.doc, row.n, i)
      BY <1>0, <2>2, <2>4, <2>5, <2>8, Typed DEF Covered, Line
    <3> HIDE DEF me
    <3> QED
      BY <1>0, <2>1, <2>2, <2>3, <2>8, <2>9, <3>1 DEF Receiving
  <2>11. \A i \in Items : task'[t].new[i] = 0
    BY <2>2, <2>3, <2>4, <2>5
  <2>12. me.pc # "idle" /\ lock' \in Tasks \cup {Missing}
    BY <1>0, <2>1
  <2> HIDE DEF me
  <2> QED
    BY <1>0, <2>3, <2>6, <2>7, <2>10, <2>11, <2>12, Typed, RowsKept DEF me
<1> QED
  BY <1>1, <1>2

\* The handler that books the n-th line of its document.
LEMMA Booking ==
  ASSUME IInv, NEW t \in Tasks, task[t].pc = "book"
  PROVE  LET me == task[t] IN
         /\ me.op = "receive" /\ me.doc \in Documents /\ Repeating(me) /\ me.new = Nothing
         /\ me.n \in DOMAIN me.doc /\ me.doc[me.n] \in Entry /\ me.n \in Nat
         /\ NextPc(me) \in {"book", "write"}
         /\ IF NextPc(me) = "book" THEN me.n + 1 \in DOMAIN me.doc ELSE me.n + 1 = Len(me.doc) + 1
         /\ \A i \in Items :
              /\ Before(me.doc, me.n, i) \in Nat
              /\ Before(me.doc, me.n + 1, i) = Before(me.doc, me.n, i)
                   + IF me.doc[me.n].item = i THEN me.doc[me.n].qty ELSE 0
<1> DEFINE me == task[t]
<1>1. /\ me.op = "receive" /\ me.doc \in Documents /\ Repeating(me) /\ me.new = Nothing
      /\ me.n \in DOMAIN me.doc
  BY Typed DEF Knows, Receiving, Owing, OrderOps
<1> HIDE DEF me
<1>2. /\ Len(me.doc) \in Nat /\ DOMAIN me.doc = 1 .. Len(me.doc) /\ me.doc[me.n] \in Entry
  BY <1>1, DocumentLines
<1>3. /\ NextPc(me) \in {"book", "write"}
      /\ IF NextPc(me) = "book" THEN me.n + 1 \in DOMAIN me.doc ELSE me.n + 1 = Len(me.doc) + 1
  BY <1>1, <1>2 DEF NextPc
<1>4. \A i \in Items :
              /\ Before(me.doc, me.n, i) \in Nat
              /\ Before(me.doc, me.n + 1, i) = Before(me.doc, me.n, i)
                   + IF me.doc[me.n].item = i THEN me.doc[me.n].qty ELSE 0
  BY <1>1, BeforeSteps
<1> QED
  BY <1>1, <1>2, <1>3, <1>4 DEF me

\* The handler once a line is booked.
WithLine(me, pc, n, moved) == [me EXCEPT !.pc = pc, !.n = n, !.moved = moved]

\* It goes on to the next line, or to the counters, with what it has booked.
LEMMA WithLineType ==
  ASSUME NEW me \in Task, NEW pc \in {"book", "write"}, NEW n \in Nat, NEW moved \in [Items -> Nat]
  PROVE  LET row == WithLine(me, pc, n, moved) IN
         /\ row \in Task /\ row.pc = pc /\ row.n = n /\ row.moved = moved
         /\ row.seen = me.seen /\ row.status = me.status /\ row.op = me.op
         /\ row.doc = me.doc /\ row.new = me.new
BY DEF Task, WithLine

\* A line of the receipt is booked with the open transaction.
LEMMA BookLineKeeps ==
  ASSUME IInv, NEW t \in Tasks, BookLine(t)
  PROVE  IInv'
<1> DEFINE me == task[t]
           row == WithLine(me, NextPc(me), me.n + 1, Plus(me.moved, me.doc[me.n]))
<1>0. /\ me \in Task /\ Knows(t) /\ Receiving(t) /\ me.pc = "book"
      /\ UNCHANGED <<order, line, ret, booked, lock, scenario>>
  BY Typed DEF BookLine, At
<1>1. /\ me.op = "receive" /\ me.doc \in Documents /\ Repeating(me) /\ me.new = Nothing
      /\ me.n \in DOMAIN me.doc /\ me.doc[me.n] \in Entry /\ me.n \in Nat
      /\ NextPc(me) \in {"book", "write"}
      /\ IF NextPc(me) = "book" THEN me.n + 1 \in DOMAIN me.doc ELSE me.n + 1 = Len(me.doc) + 1
      /\ \A i \in Items :
              /\ Before(me.doc, me.n, i) \in Nat
              /\ Before(me.doc, me.n + 1, i) = Before(me.doc, me.n, i)
                   + IF me.doc[me.n].item = i THEN me.doc[me.n].qty ELSE 0
  BY <1>0, Booking
<1>2. task' = [task EXCEPT ![t] = row]
  BY Typed DEF BookLine, WithLine
<1>3. me.moved \in [Items -> Nat] /\ \A i \in Items : me.seen[i].received \in Nat /\ me.moved[i] \in Nat
  BY <1>0 DEF Task, Line
<1>4. /\ Plus(me.moved, me.doc[me.n]) \in [Items -> Nat]
      /\ \A i \in Items : Plus(me.moved, me.doc[me.n])[i] = me.moved[i]
                   + IF me.doc[me.n].item = i THEN me.doc[me.n].qty ELSE 0
  <2> HIDE DEF me
  <2> QED
    BY <1>1, <1>3, PlusAdds
<1>5. /\ row \in Task /\ row.pc = NextPc(me) /\ row.n = me.n + 1 /\ row.seen = me.seen
      /\ row.status = me.status /\ row.op = "receive" /\ row.doc = me.doc /\ row.new = Nothing
      /\ row.moved = Plus(me.moved, me.doc[me.n])
  <2> HIDE DEF me
  <2>2. me.n + 1 \in Nat
    BY <1>1
  <2>3. /\ me \in Task /\ NextPc(me) \in {"book", "write"}
        /\ Plus(me.moved, me.doc[me.n]) \in [Items -> Nat]
    BY <1>0, <1>1, <1>4 DEF me
  <2>4. me.op = "receive" /\ me.new = Nothing
    BY <1>1
  <2>5. /\ row \in Task /\ row.pc = NextPc(me) /\ row.n = me.n + 1 /\ row.seen = me.seen
        /\ row.status = me.status /\ row.op = me.op /\ row.doc = me.doc /\ row.new = me.new
        /\ row.moved = Plus(me.moved, me.doc[me.n])
    BY <2>2, <2>3, WithLineType
  <2> QED
    BY <2>4, <2>5
<1> HIDE DEF row
<1>6. /\ task' \in [Tasks -> Task] /\ task'[t] = row /\ \A u \in Tasks \ {t} : task'[u] = task[u]
  BY <1>2, <1>5, Replaced
<1>7. /\ "receive" \in Ops /\ "receive" \notin OrderOps \cup ReturnOps /\ \A i \in Items : Nothing[i] = 0
  BY DEF Ops, OrderOps, ReturnOps, Nothing
<1>8. Knows(t)'
  <2> HIDE DEF me
  <2> QED
    BY <1>0, <1>1, <1>5, <1>6, <1>7 DEF Knows, Repeating
<1>9. Returning(t)'
  BY <1>5, <1>6 DEF Returning
<1>10. Receiving(t)'
  <2>1. /\ \A i \in Named(me.doc) : line[i].quantity > 0
        /\ \A i \in Items :
             /\ me.moved[i] <= Before(me.doc, me.n, i)
             /\ me.seen[i].received + Before(me.doc, me.n, i) - me.moved[i] <= booked[i].in
        /\ WholeDocuments =>
             /\ lock = t /\ me.seen = line /\ me.status = order
             /\ \A i \in Items : me.moved[i] = Before(me.doc, me.n, i)
             /\ ~ scenario.repeats =>
                  \A i \in Named(me.doc) : Total(me.doc, i) <= Remaining(line[i])
    BY <1>0, <1>1 DEF Receiving
  <2> HIDE DEF me
  <2>2. \A i \in Items :
         /\ row.moved[i] <= Before(row.doc, row.n, i)
         /\ row.seen[i].received + Before(row.doc, row.n, i) - row.moved[i] <= booked[i].in
    <3> SUFFICES ASSUME NEW i \in Items
                 PROVE  /\ row.moved[i] <= Before(me.doc, me.n + 1, i)
                        /\ me.seen[i].received + Before(me.doc, me.n + 1, i) - row.moved[i] <= booked[i].in
      BY <1>5
    <3> DEFINE more == IF me.doc[me.n].item = i THEN me.doc[me.n].qty ELSE 0
    <3>1. more \in Nat
      BY <1>1, PurchaseAssumption DEF Entry
    <3>2. row.moved[i] = me.moved[i] + more /\ Before(me.doc, me.n + 1, i) = Before(me.doc, me.n, i) + more
          /\ Before(me.doc, me.n, i) \in Nat
      BY <1>1, <1>4, <1>5
    <3>3. booked[i].in \in Nat
      BY Typed
    <3> HIDE DEF more
    <3> QED
      BY <1>3, <2>1, <3>1, <3>2, <3>3
  <2>3. WholeDocuments => \A i \in Items : row.moved[i] = Before(row.doc, row.n, i)
    BY <1>1, <1>4, <1>5, <2>1
  <2>4. /\ WholeDocuments' <=> WholeDocuments
        /\ IF row.pc = "book" THEN row.n \in DOMAIN row.doc ELSE row.n = Len(row.doc) + 1
    BY <1>0, <1>1, <1>5 DEF WholeDocuments
  <2> QED
    BY <1>0, <1>5, <1>6, <2>1, <2>2, <2>3, <2>4 DEF Receiving
<1>11. \A i \in Items : task'[t].new[i] = 0
  BY <1>5, <1>6, <1>7
<1>12. me.pc # "idle"
  BY <1>0
<1> HIDE DEF me
<1> QED
  BY <1>0, <1>6, <1>8, <1>9, <1>10, <1>11, <1>12, Typed, RowsKept DEF me

\* What came in for a line with more of it.
MoreIn(row, n) == [row EXCEPT !.in = @ + n]

\* Committing movements adds them to what came in.
LEMMA Committed ==
  ASSUME IInv, NEW moved \in [Items -> Nat]
  PROVE  /\ CommitIn(moved) \in [Items -> [in: Nat, out: Nat]]
         /\ \A i \in Items : /\ CommitIn(moved)[i].in = booked[i].in + moved[i]
                             /\ CommitIn(moved)[i].out = booked[i].out
<1>1. ASSUME NEW i \in Items
      PROVE  booked[i] \in [in: Nat, out: Nat] /\ moved[i] \in Nat
  BY DEF IInv, TypeOK
<1>2. \A i \in Items : CommitIn(moved)[i] = MoreIn(booked[i], moved[i])
  BY DEF CommitIn, MoreIn
<1>3. ASSUME NEW i \in Items
      PROVE  /\ CommitIn(moved)[i] \in [in: Nat, out: Nat]
             /\ CommitIn(moved)[i].in = booked[i].in + moved[i]
             /\ CommitIn(moved)[i].out = booked[i].out
  <2>1. \A row \in [in: Nat, out: Nat], n \in Nat :
          /\ MoreIn(row, n) \in [in: Nat, out: Nat]
          /\ MoreIn(row, n).in = row.in + n /\ MoreIn(row, n).out = row.out
    BY DEF MoreIn
  <2>2. booked[i] \in [in: Nat, out: Nat] /\ moved[i] \in Nat
    BY <1>1
  <2>3. CommitIn(moved)[i] = MoreIn(booked[i], moved[i])
    BY <1>2
  <2>4. /\ MoreIn(booked[i], moved[i]) \in [in: Nat, out: Nat]
        /\ MoreIn(booked[i], moved[i]).in = booked[i].in + moved[i]
        /\ MoreIn(booked[i], moved[i]).out = booked[i].out
    BY <2>1, <2>2
  <2> QED
    BY <2>3, <2>4
<1>4. CommitIn(moved) = [i \in Items |-> CommitIn(moved)[i]]
  BY DEF CommitIn
<1> QED
  BY <1>3, <1>4

\* What a receipt has booked is covered, and its lines exist.
LEMMA Booked ==
  ASSUME IInv, NEW t \in Tasks, task[t].op = "receive", task[t].pc \in {"book", "write"}
  PROVE  LET me == task[t] IN
         /\ me.doc \in Documents /\ \A i \in Items : Total(me.doc, i) \in Nat
         /\ \A i \in Named(me.doc) : line[i].quantity > 0
         /\ me.moved \in [Items -> Nat] /\ me.seen \in [Items -> Line]
         /\ \A i \in Items :
              /\ me.moved[i] <= Before(me.doc, me.n, i)
              /\ me.seen[i].received + Before(me.doc, me.n, i) - me.moved[i] <= booked[i].in
              /\ line[i].quantity = 0 => me.moved[i] = 0
         /\ me.pc = "write" => \A i \in Items : Before(me.doc, me.n, i) = Total(me.doc, i)
<1> DEFINE me == task[t]
<1>1. /\ me.doc \in Documents /\ \A i \in Named(me.doc) : line[i].quantity > 0
      /\ me.moved \in [Items -> Nat] /\ me.seen \in [Items -> Line]
      /\ \A i \in Items :
              /\ me.moved[i] <= Before(me.doc, me.n, i)
              /\ me.seen[i].received + Before(me.doc, me.n, i) - me.moved[i] <= booked[i].in
      /\ me.pc = "write" => me.n = Len(me.doc) + 1
  BY Typed DEF Knows, Receiving, Owing, Task
<1> HIDE DEF me
<1>2. \A i \in Items : Total(me.doc, i) \in Nat
  BY <1>1, TotalNat
<1>3. me.pc = "write" => \A i \in Items : Before(me.doc, me.n, i) = Total(me.doc, i)
  BY <1>1, BeforeSteps
<1>4. ASSUME NEW i \in Items, line[i].quantity = 0 PROVE me.moved[i] = 0
  <2>1. i \notin Named(me.doc)
    BY <1>1, <1>4
  <2>2. Before(me.doc, me.n, i) = 0
    BY <2>1, BeforeUnnamed
  <2>3. me.moved[i] <= 0 /\ me.moved[i] \in Nat
    BY <1>1, <2>2
  <2> QED
    BY <2>3
<1> QED
  BY <1>1, <1>2, <1>3, <1>4 DEF me

\* A line of a new batch commits the lines before it and gives the lock away.
LEMMA BookLineOfNewBatchKeeps ==
  ASSUME IInv, NEW t \in Tasks, BookLineOfNewBatch(t)
  PROVE  IInv'
<1> DEFINE me == task[t]
           row == WithLine(me, NextPc(me), me.n + 1, Plus(Nothing, me.doc[me.n]))
<1>0. /\ me \in Task /\ Knows(t) /\ me.pc = "book" /\ me.op = "receive" /\ me.doc \in Documents
      /\ booked' = CommitIn(me.moved) /\ Release(t) /\ scenario.batches
      /\ UNCHANGED <<order, line, ret, scenario>> /\ \A i \in Items : Covered(i)
  BY Typed, Booking DEF BookLineOfNewBatch, At
<1>1. /\ Repeating(me) /\ me.new = Nothing
      /\ me.n \in DOMAIN me.doc /\ me.doc[me.n] \in Entry /\ me.n \in Nat
      /\ NextPc(me) \in {"book", "write"}
      /\ IF NextPc(me) = "book" THEN me.n + 1 \in DOMAIN me.doc ELSE me.n + 1 = Len(me.doc) + 1
      /\ \A i \in Items :
              /\ Before(me.doc, me.n, i) \in Nat
              /\ Before(me.doc, me.n + 1, i) = Before(me.doc, me.n, i)
                   + IF me.doc[me.n].item = i THEN me.doc[me.n].qty ELSE 0
  BY <1>0, Booking
<1>2. /\ \A i \in Named(me.doc) : line[i].quantity > 0
      /\ me.moved \in [Items -> Nat] /\ me.seen \in [Items -> Line]
      /\ \A i \in Items :
              /\ me.moved[i] <= Before(me.doc, me.n, i)
              /\ me.seen[i].received + Before(me.doc, me.n, i) - me.moved[i] <= booked[i].in
              /\ line[i].quantity = 0 => me.moved[i] = 0
  BY <1>0, Booked
<1>3. task' = [task EXCEPT ![t] = row]
  BY Typed DEF BookLineOfNewBatch, WithLine
<1> HIDE DEF me
<1>4. /\ Plus(Nothing, me.doc[me.n]) \in [Items -> Nat]
      /\ \A i \in Items : Plus(Nothing, me.doc[me.n])[i] =
                   IF me.doc[me.n].item = i THEN me.doc[me.n].qty ELSE 0
  <2>1. Nothing \in [Items -> Nat] /\ \A i \in Items : Nothing[i] = 0
    BY DEF Nothing
  <2>2. me.doc[me.n].qty \in Nat
    BY <1>1, PurchaseAssumption DEF Entry
  <2> HIDE DEF Nothing
  <2> QED
    BY <1>1, <2>1, <2>2, PlusAdds
<1>5. /\ row \in Task /\ row.pc = NextPc(me) /\ row.n = me.n + 1 /\ row.seen = me.seen
      /\ row.status = me.status /\ row.op = "receive" /\ row.doc = me.doc /\ row.new = Nothing
      /\ row.moved = Plus(Nothing, me.doc[me.n])
  <2>1. me.n + 1 \in Nat
    BY <1>1
  <2>2. /\ me \in Task /\ NextPc(me) \in {"book", "write"}
        /\ Plus(Nothing, me.doc[me.n]) \in [Items -> Nat]
    BY <1>0, <1>1, <1>4
  <2>3. /\ row \in Task /\ row.pc = NextPc(me) /\ row.n = me.n + 1 /\ row.seen = me.seen
        /\ row.status = me.status /\ row.op = me.op /\ row.doc = me.doc /\ row.new = me.new
        /\ row.moved = Plus(Nothing, me.doc[me.n])
    BY <2>1, <2>2, WithLineType
  <2> HIDE DEF row
  <2> QED
    BY <1>0, <1>1, <2>3
<1> HIDE DEF row
<1>6. /\ task' \in [Tasks -> Task] /\ task'[t] = row /\ \A u \in Tasks \ {t} : task'[u] = task[u]
  BY <1>3, <1>5, Replaced
<1>7. /\ "receive" \in Ops /\ "receive" \notin OrderOps \cup ReturnOps /\ \A i \in Items : Nothing[i] = 0
  BY DEF Ops, OrderOps, ReturnOps, Nothing
<1>8. Knows(t)'
  BY <1>0, <1>1, <1>5, <1>6, <1>7 DEF Knows, Repeating
<1>9. Returning(t)'
  BY <1>5, <1>6 DEF Returning
<1>10. /\ booked' \in [Items -> [in: Nat, out: Nat]]
       /\ \A i \in Items : booked'[i].in = booked[i].in + me.moved[i] /\ booked'[i].out = booked[i].out
  BY <1>0, <1>2, Committed
<1>11. Receiving(t)'
  <2>1. \A i \in Items :
         /\ row.moved[i] <= Before(row.doc, row.n, i)
         /\ row.seen[i].received + Before(row.doc, row.n, i) - row.moved[i] <= booked'[i].in
    <3> SUFFICES ASSUME NEW i \in Items
                 PROVE  /\ row.moved[i] <= Before(me.doc, me.n + 1, i)
                        /\ me.seen[i].received + Before(me.doc, me.n + 1, i) - row.moved[i]
                             <= booked[i].in + me.moved[i]
      BY <1>5, <1>10
    <3> DEFINE more == IF me.doc[me.n].item = i THEN me.doc[me.n].qty ELSE 0
    <3>1. more \in Nat
      BY <1>1, PurchaseAssumption DEF Entry
    <3>2. row.moved[i] = more /\ Before(me.doc, me.n + 1, i) = Before(me.doc, me.n, i) + more
          /\ Before(me.doc, me.n, i) \in Nat
      BY <1>1, <1>4, <1>5
    <3>3. booked[i].in \in Nat /\ me.moved[i] \in Nat /\ me.seen[i].received \in Nat
      BY <1>2, Typed DEF Line
    <3> HIDE DEF more
    <3> QED
      BY <1>2, <3>1, <3>2, <3>3
  <2>2. ~ WholeDocuments'
    BY <1>0 DEF WholeDocuments
  <2>3. IF row.pc = "book" THEN row.n \in DOMAIN row.doc ELSE row.n = Len(row.doc) + 1
    BY <1>1, <1>5
  <2> QED
    BY <1>0, <1>2, <1>5, <1>6, <2>1, <2>2, <2>3 DEF Receiving
<1>12. Counting'
  <2> SUFFICES ASSUME NEW i \in Items PROVE Covered(i)'
    BY DEF Counting
  <2>1. /\ line[i] \in Line /\ booked[i].in \in Nat /\ booked[i].out \in Nat /\ me.moved[i] \in Nat
    BY <1>2, Typed
  <2>2. ~ WholeDocuments'
    BY <1>0 DEF WholeDocuments
  <2>3. line'[i] = line[i]
    BY <1>0
  <2> QED
    BY <1>0, <1>2, <1>10, <2>1, <2>2, <2>3 DEF Covered, Line
<1>13. /\ TypeOK' /\ (lock \in Tasks \ {t} => lock' = lock)
  BY <1>0, <1>6, <1>10, Typed, Locks DEF TypeOK
<1>14. \A i \in Items : /\ line'[i].quantity = line[i].quantity
                        /\ booked[i].in <= booked'[i].in /\ booked[i].out <= booked'[i].out
                        /\ task'[t].new[i] = 0
  <2> SUFFICES ASSUME NEW i \in Items
               PROVE  booked[i].in <= booked'[i].in /\ booked[i].out <= booked'[i].out
    BY <1>0, <1>5, <1>6, <1>7
  <2>1. booked[i].in \in Nat /\ booked[i].out \in Nat /\ me.moved[i] \in Nat
    BY <1>2, Typed
  <2> QED
    BY <1>10, <2>1
<1>15. task[t].pc # "idle"
  BY <1>0 DEF me
<1> QED
  BY <1>0, <1>6, <1>8, <1>9, <1>11, <1>12, <1>13, <1>14, <1>15, StepKept

\* A line with other counters is a line.
LEMMA CountedLine ==
  ASSUME NEW row \in Line, NEW n \in Nat
  PROVE  /\ [row EXCEPT !.received = n] \in Line /\ [row EXCEPT !.returned = n] \in Line
         /\ [row EXCEPT !.received = n].quantity = row.quantity
         /\ [row EXCEPT !.received = n].received = n
         /\ [row EXCEPT !.received = n].returned = row.returned
         /\ [row EXCEPT !.returned = n].quantity = row.quantity
         /\ [row EXCEPT !.returned = n].received = row.received
         /\ [row EXCEPT !.returned = n].returned = n
         /\ [row EXCEPT !.received = n].live = row.live
         /\ [row EXCEPT !.returned = n].live = row.live
BY DEF Line

\* The counters of a receipt: what the handler saw and what the document adds.
LEMMA CountReceiptLines ==
  ASSUME IInv, NEW t \in Tasks, task[t].op = "receive", task[t].pc = "write"
  PROVE  LET me == task[t] IN
         /\ CountReceipt(me) \in [Items -> Line]
         /\ \A i \in Items :
              /\ CountReceipt(me)[i].quantity = line[i].quantity
              /\ CountReceipt(me)[i].returned = line[i].returned
              /\ CountReceipt(me)[i].live = line[i].live
              /\ i \notin Named(me.doc) => CountReceipt(me)[i] = line[i]
              /\ i \in Named(me.doc) =>
                   CountReceipt(me)[i].received = me.seen[i].received + Total(me.doc, i)
<1> DEFINE me == task[t]
           up(i) == me.seen[i].received + Total(me.doc, i)
<1>1. me.seen \in [Items -> Line] /\ line \in [Items -> Line] /\ \A i \in Items : up(i) \in Nat
  <2>1. /\ me.seen \in [Items -> Line] /\ line \in [Items -> Line]
        /\ \A i \in Items : Total(me.doc, i) \in Nat
    BY Booked, Typed
  <2> QED
    BY <2>1 DEF Line
<1> HIDE DEF me
<1>2. ASSUME NEW i \in Items PROVE CountedIn(me)[i].received = up(i)
  BY <1>1 DEF CountedIn, Line
<1>3. ASSUME NEW i \in Items
      PROVE  CountReceipt(me)[i] = IF i \in Named(me.doc) THEN [line[i] EXCEPT !.received = up(i)]
                                                         ELSE line[i]
  BY <1>2 DEF CountReceipt
<1> HIDE DEF up
<1>4. ASSUME NEW i \in Items
      PROVE  /\ [line[i] EXCEPT !.received = up(i)] \in Line
             /\ [line[i] EXCEPT !.received = up(i)].quantity = line[i].quantity
             /\ [line[i] EXCEPT !.received = up(i)].received = up(i)
             /\ [line[i] EXCEPT !.received = up(i)].returned = line[i].returned
             /\ [line[i] EXCEPT !.received = up(i)].live = line[i].live
  <2>1. line[i] \in Line /\ up(i) \in Nat
    BY <1>1
  <2> QED
    BY <2>1, CountedLine
<1>5. ASSUME NEW i \in Items PROVE CountReceipt(me)[i] \in Line
  BY <1>1, <1>3, <1>4
<1>6. CountReceipt(me) = [i \in Items |-> CountReceipt(me)[i]]
  BY DEF CountReceipt
<1>7. CountReceipt(me) \in [Items -> Line]
  BY <1>5, <1>6
<1> QED
  BY <1>3, <1>4, <1>7 DEF me, up

\* receive_goods counts what it has booked and commits.
LEMMA WriteReceiptKeeps ==
  ASSUME IInv, NEW t \in Tasks, WriteReceipt(t)
  PROVE  IInv'
<1> DEFINE me == task[t]
<1>0. /\ me \in Task /\ me.pc = "write" /\ me.op = "receive" /\ MayLock(t)
      /\ Release(t) /\ Finish(t) /\ UNCHANGED <<ret, scenario>>
      /\ lock \notin Tasks \ {t} /\ \A i \in Items : Covered(i)
      /\ lock' \in Tasks \cup {Missing}
  BY Typed, Locks DEF WriteReceipt, At
<1>1. CASE LineGone(me)
  <2>1. UNCHANGED <<order, line, booked>>
    BY <1>1 DEF WriteReceipt
  <2>2. me.pc # "idle"
    BY <1>0
  <2> HIDE DEF me
  <2> QED
    BY <1>0, <2>1, <2>2, Typed, Finished, RowsKept DEF me
<1>2. CASE ~ LineGone(me)
  <2>1. /\ order' = IF StatusAfter(me) = me.status THEN order ELSE StatusAfter(me)
        /\ line' = CountReceipt(me) /\ booked' = CommitIn(me.moved)
    BY <1>2 DEF WriteReceipt
  <2>2. /\ me.doc \in Documents /\ me.moved \in [Items -> Nat] /\ me.seen \in [Items -> Line]
        /\ \A i \in Named(me.doc) : line[i].quantity > 0
        /\ \A i \in Items :
              /\ Total(me.doc, i) \in Nat /\ me.moved[i] <= Total(me.doc, i)
              /\ me.seen[i].received + Total(me.doc, i) - me.moved[i] <= booked[i].in
              /\ line[i].quantity = 0 => me.moved[i] = 0
    BY <1>0, Booked
  <2>3. WholeDocuments =>
             /\ me.seen = line /\ \A i \in Items : me.moved[i] = Total(me.doc, i)
             /\ ~ scenario.repeats =>
                  \A i \in Named(me.doc) : Total(me.doc, i) <= Remaining(line[i])
    <3>1. Receiving(t) /\ \A i \in Items : Before(me.doc, me.n, i) = Total(me.doc, i)
      BY <1>0, Typed, Booked
    <3> QED
      BY <1>0, <3>1 DEF Receiving
  <2>4. \A i \in Items : i \notin Named(me.doc) => Total(me.doc, i) = 0
    BY <2>2, TotalNat
  <2>5. /\ line' \in [Items -> Line]
        /\ \A i \in Items :
              /\ line'[i].quantity = line[i].quantity /\ line'[i].returned = line[i].returned
              /\ i \notin Named(me.doc) => line'[i] = line[i]
              /\ i \in Named(me.doc) => line'[i].received = me.seen[i].received + Total(me.doc, i)
    BY <1>0, <2>1, CountReceiptLines
  <2>6. /\ booked' \in [Items -> [in: Nat, out: Nat]]
        /\ \A i \in Items : booked'[i].in = booked[i].in + me.moved[i] /\ booked'[i].out = booked[i].out
    BY <2>1, <2>2, Committed
  <2>7. ASSUME NEW i \in Items
        PROVE  /\ booked[i].in <= booked'[i].in /\ booked[i].out <= booked'[i].out
               /\ Covered(i)'
    <3>1. /\ line[i] \in Line /\ booked[i].in \in Nat /\ booked[i].out \in Nat
          /\ me.moved[i] \in Nat /\ me.seen[i] \in Line /\ Total(me.doc, i) \in Nat
      BY <2>2, Typed
    <3>2. booked[i].in <= booked'[i].in /\ booked[i].out <= booked'[i].out
      BY <2>6, <3>1
    <3>3. WholeDocuments' <=> WholeDocuments
      BY <1>0 DEF WholeDocuments
    <3>4. CASE i \notin Named(me.doc)
      <4>1. line'[i] = line[i] /\ me.moved[i] = 0 /\ booked'[i].in = booked[i].in
            /\ booked'[i].out = booked[i].out
        BY <2>2, <2>4, <2>5, <2>6, <3>1, <3>4
      <4>2. Covered(i)'
        BY <1>0, <3>3, <4>1 DEF Covered
      <4> QED
        BY <3>2, <4>2
    <3>5. CASE i \in Named(me.doc)
      <4>1. /\ line[i].quantity > 0 /\ line'[i].quantity = line[i].quantity
            /\ line'[i].returned = line[i].returned
            /\ line'[i].received = me.seen[i].received + Total(me.doc, i)
            /\ booked'[i].in = booked[i].in + me.moved[i] /\ booked'[i].out = booked[i].out
            /\ me.seen[i].received + Total(me.doc, i) - me.moved[i] <= booked[i].in
        BY <2>2, <2>5, <2>6, <3>5
      <4>2. /\ line[i].quantity \in Nat /\ line[i].received \in Nat /\ line[i].returned \in Nat
            /\ me.seen[i].received \in Nat
        BY <3>1 DEF Line
      <4>3. line'[i].received <= booked'[i].in /\ line'[i].returned <= booked'[i].out
        BY <1>0, <3>1, <4>1, <4>2 DEF Covered
      <4>4. ASSUME WholeDocuments PROVE line'[i].received = booked'[i].in
        BY <1>0, <2>3, <3>1, <4>1, <4>2, <4>4 DEF Covered
      <4>5. ASSUME WholeDocuments, ~ scenario.repeats
            PROVE  booked'[i].in - booked'[i].out <= line'[i].quantity
        <5>1. Total(me.doc, i) <= line[i].quantity - line[i].received + line[i].returned
          BY <2>3, <3>5, <4>5 DEF Remaining
        <5>2. line[i].received = booked[i].in /\ line[i].returned <= booked[i].out
          BY <1>0, <4>5 DEF Covered
        <5>3. me.moved[i] = Total(me.doc, i)
          BY <2>3, <4>5
        <5> QED
          BY <3>1, <4>1, <4>2, <5>1, <5>2, <5>3
      <4>6. ~ (line'[i].quantity = 0)
        BY <4>1, <4>2
      <4>7. scenario' = scenario
        BY <1>0
      <4>8. Covered(i)'
        BY <3>3, <4>3, <4>4, <4>5, <4>6, <4>7 DEF Covered
      <4> QED
        BY <3>2, <4>8
    <3> QED
      BY <3>4, <3>5
  <2>8. order' \in Statuses \cup {Missing}
    BY <2>1, Typed DEF StatusAfter, Statuses
  <2>9. TypeOK'
    BY <1>0, <2>5, <2>6, <2>8, Typed, Finished DEF TypeOK
  <2>10. Counting'
    BY <2>7 DEF Counting
  <2>11. me.pc # "idle"
    BY <1>0
  <2> QED
    BY <1>0, <2>5, <2>7, <2>9, <2>10, <2>11, Finished, StepKept
<1> QED
  BY <1>1, <1>2

\* A return is drafted, edited, approved, cancelled or processed: the handler loads.
LEMMA BeginReturnOpKeeps ==
  ASSUME IInv, NEW t \in Tasks, BeginReturnOp(t)
  PROVE  IInv'
<1>1. PICK op \in ReturnOps \cup {"process"}, v \in Returns, doc \in Documents :
        /\ Written(doc)
        /\ task' = [task EXCEPT ![t] = [Resting EXCEPT
            !.pc = IF op = "process" THEN "lock" ELSE "write",
            !.op = op, !.r = v, !.doc = doc, !.seen = line]]
  BY DEF BeginReturnOp
<1> DEFINE row == [Resting EXCEPT
            !.pc = IF op = "process" THEN "lock" ELSE "write",
            !.op = op, !.r = v, !.doc = doc, !.seen = line]
<1>2. op \in Ops /\ op \notin OrderOps /\ op # "receive"
  BY DEF Ops, OrderOps, ReturnOps
<1>3. /\ row \in Task /\ row.pc = (IF op = "process" THEN "lock" ELSE "write") /\ row.op = op
      /\ row.r = v /\ row.doc = doc /\ row.seen = line /\ row.new = Nothing /\ row.moved = Nothing
  <2>1. Resting \in Task /\ line \in [Items -> Line]
    BY RestingType, Typed
  <2>2. row \in Task
    BY <1>2, <2>1 DEF Task
  <2>3. /\ row.pc = (IF op = "process" THEN "lock" ELSE "write") /\ row.op = op
        /\ row.r = v /\ row.doc = doc /\ row.seen = line /\ row.new = Nothing /\ row.moved = Nothing
    BY DEF Resting
  <2> QED
    BY <2>2, <2>3
<1> HIDE DEF row
<1>4. /\ task' \in [Tasks -> Task] /\ task'[t] = row /\ \A u \in Tasks \ {t} : task'[u] = task[u]
  <2>1. task' = [task EXCEPT ![t] = row]
    BY <1>1 DEF row
  <2> QED
    BY <1>3, <2>1, Replaced
<1>5. UNCHANGED <<order, line, ret, booked, lock, scenario>> /\ MayBegin(t)
  BY DEF BeginReturnOp
<1>6. \A i \in Items : Nothing[i] = 0
  BY DEF Nothing
<1>7. scenario'.repeats \/ Distinct(doc)
  BY <1>1, <1>5, WrittenRepeats
<1>8. Knows(t)'
  <2>1. "process" \notin ReturnOps
    BY DEF ReturnOps
  <2> QED
    BY <1>2, <1>3, <1>4, <1>6, <1>7, <2>1 DEF Knows, Repeating
<1>9. Receiving(t)' /\ Returning(t)'
  <2>1. \A i \in Items : line[i].returned <= booked[i].out
    BY Typed DEF Covered
  <2> QED
    BY <1>2, <1>3, <1>4, <1>5, <2>1 DEF Receiving, Returning
<1> QED
  BY <1>3, <1>4, <1>5, <1>6, <1>8, <1>9, Typed, RowsKept

\* The return's row and lines are written.
LEMMA WriteReturnOpKeeps ==
  ASSUME IInv, NEW t \in Tasks, WriteReturnOp(t)
  PROVE  IInv'
<1> DEFINE me == task[t]
           status == CASE me.op \in {"draftReturn", "editReturn"} -> "Draft"
                       [] me.op = "approveReturn" -> "Approved"
                       [] me.op = "cancelReturn" -> "Cancelled"
<1>1. /\ me.pc = "write" /\ me.op \in ReturnOps /\ Finish(t)
      /\ UNCHANGED <<order, line, booked, lock, scenario>>
      /\ me.r \in Returns /\ me.doc \in Documents
      /\ ret' = IF LineGone(me) THEN ret
            ELSE [ret EXCEPT
              ![me.r].status = IF me.op = "editReturn" THEN @ ELSE status,
              ![me.r].doc = IF me.op \in {"draftReturn", "editReturn"} THEN me.doc ELSE @]
  BY Typed DEF WriteReturnOp, At, Knows, Owing
<1>2. status \in RetStatuses
  <2> HIDE DEF me
  <2> QED
    BY <1>1 DEF ReturnOps, RetStatuses
<1>3. ret \in [Returns -> Return]
  BY Typed
<1> HIDE DEF me, status
<1>4. ret' \in [Returns -> Return]
  BY <1>1, <1>2, <1>3 DEF Return
<1>5. task[t].pc # "idle"
  BY <1>1 DEF me
<1> QED
  BY <1>1, <1>4, <1>5, Typed, Finished, RowsKept

\* process_return takes the lock and compares with the lines it loaded.
LEMMA LockForReturnKeeps ==
  ASSUME IInv, NEW t \in Tasks, LockForReturn(t)
  PROVE  IInv'
<1> DEFINE me == task[t]
<1>0. /\ me \in Task /\ Knows(t) /\ me.op = "process" /\ me.pc = "lock" /\ MayLock(t)
      /\ UNCHANGED <<order, line, ret, booked, scenario>>
      /\ lock \notin Tasks \ {t} /\ Returning(t)
  BY Typed, Locks DEF LockForReturn, At
<1>1. CASE ~ SendsBack(me.seen, me.doc)
  <2>1. Finish(t) /\ UNCHANGED lock
    BY <1>1 DEF LockForReturn
  <2>2. me.pc # "idle"
    BY <1>0
  <2> HIDE DEF me
  <2> QED
    BY <1>0, <2>1, <2>2, Typed, Finished, RowsKept DEF me
<1>2. CASE SendsBack(me.seen, me.doc)
  <2> DEFINE row == [me EXCEPT !.pc = "write"]
  <2>1. lock' = t /\ task' = [task EXCEPT ![t] = row]
    BY <1>2, Typed DEF LockForReturn
  <2>2. /\ row \in Task /\ row.pc = "write" /\ row.op = "process" /\ row.r = me.r
        /\ row.doc = me.doc /\ row.seen = me.seen /\ row.new = me.new
    BY <1>0 DEF Task
  <2> HIDE DEF row
  <2>3. /\ task' \in [Tasks -> Task] /\ task'[t] = row /\ \A u \in Tasks \ {t} : task'[u] = task[u]
    BY <2>1, <2>2, Replaced
  <2>4. "process" \in Ops /\ "process" \notin OrderOps \cup ReturnOps
    BY DEF Ops, OrderOps, ReturnOps
  <2>5. me.new = Nothing /\ \A i \in Items : Nothing[i] = 0
    BY <1>0, <2>4 DEF Knows, Nothing
  <2>9. me.doc \in Documents /\ Repeating(me) /\ me.r \in Returns
    BY <1>0 DEF Knows, Owing
  <2>6. Knows(t)'
    <3> HIDE DEF me
    <3> QED
      BY <1>0, <2>2, <2>3, <2>4, <2>5, <2>9 DEF Knows, Repeating
  <2>7. Receiving(t)' /\ Returning(t)'
    BY <1>0, <2>2, <2>3 DEF Receiving, Returning
  <2>8. me.pc # "idle" /\ lock' \in Tasks \cup {Missing} /\ \A i \in Items : task'[t].new[i] = 0
    BY <1>0, <2>1, <2>2, <2>3, <2>5
  <2> HIDE DEF me
  <2> QED
    BY <1>0, <2>3, <2>6, <2>7, <2>8, Typed, RowsKept DEF me
<1> QED
  BY <1>1, <1>2

\* The counters of a processed return.
LEMMA CountReturnLines ==
  ASSUME IInv, NEW t \in Tasks, task[t].op = "process"
  PROVE  LET me == task[t] IN
         /\ CountReturn(me) \in [Items -> Line]
         /\ me.doc \in Documents /\ me.r \in Returns /\ \A i \in Items : Total(me.doc, i) \in Nat
         /\ \A i \in Items :
              /\ CountReturn(me)[i].quantity = line[i].quantity
              /\ CountReturn(me)[i].received = line[i].received
              /\ CountReturn(me)[i].live = line[i].live
              /\ i \notin Named(me.doc) => CountReturn(me)[i] = line[i]
              /\ i \in Named(me.doc) =>
                   CountReturn(me)[i].returned = me.seen[i].returned + Total(me.doc, i)
<1> DEFINE me == task[t]
           up(i) == me.seen[i].returned + Total(me.doc, i)
<1>1. /\ me.seen \in [Items -> Line] /\ line \in [Items -> Line]
      /\ me.doc \in Documents /\ me.r \in Returns
  BY Typed DEF Task, Knows, Owing
<1> HIDE DEF me
<1>2. \A i \in Items : Total(me.doc, i) \in Nat
  BY <1>1, TotalNat
<1>3. \A i \in Items : up(i) \in Nat
  BY <1>1, <1>2 DEF Line
<1>4. ASSUME NEW i \in Items
      PROVE  CountReturn(me)[i] = IF i \in Named(me.doc) THEN [line[i] EXCEPT !.returned = up(i)]
                                                        ELSE line[i]
  BY DEF CountReturn
<1> HIDE DEF up
<1>5. ASSUME NEW i \in Items
      PROVE  /\ [line[i] EXCEPT !.returned = up(i)] \in Line
             /\ [line[i] EXCEPT !.returned = up(i)].quantity = line[i].quantity
             /\ [line[i] EXCEPT !.returned = up(i)].received = line[i].received
             /\ [line[i] EXCEPT !.returned = up(i)].returned = up(i)
             /\ [line[i] EXCEPT !.returned = up(i)].live = line[i].live
  <2>1. line[i] \in Line /\ up(i) \in Nat
    BY <1>1, <1>3
  <2> QED
    BY <2>1, CountedLine
<1>6. ASSUME NEW i \in Items PROVE CountReturn(me)[i] \in Line
  BY <1>1, <1>4, <1>5
<1>7. CountReturn(me) = [i \in Items |-> CountReturn(me)[i]]
  BY DEF CountReturn
<1>8. CountReturn(me) \in [Items -> Line]
  BY <1>6, <1>7
<1> QED
  BY <1>1, <1>2, <1>4, <1>5, <1>8 DEF me, up

\* process_return books the goods out, counts them and commits.
LEMMA WriteProcessedKeeps ==
  ASSUME IInv, NEW t \in Tasks, WriteProcessed(t)
  PROVE  IInv'
<1> DEFINE me == task[t]
<1>0. /\ me \in Task /\ me.pc = "write" /\ me.op = "process" /\ MayLock(t)
      /\ Release(t) /\ Finish(t) /\ UNCHANGED <<order, scenario>>
      /\ lock \notin Tasks \ {t} /\ \A i \in Items : Covered(i)
      /\ lock' \in Tasks \cup {Missing} /\ Returning(t)
  BY Typed, Locks DEF WriteProcessed, At
<1>1. CASE LineGone(me)
  <2>1. UNCHANGED <<line, ret, booked>>
    BY <1>1 DEF WriteProcessed
  <2>2. me.pc # "idle"
    BY <1>0
  <2> HIDE DEF me
  <2> QED
    BY <1>0, <2>1, <2>2, Typed, Finished, RowsKept DEF me
<1>2. CASE ~ LineGone(me)
  <2>1. /\ line' = CountReturn(me) /\ ret' = [ret EXCEPT ![me.r].status = "Processed"]
        /\ booked' = [i \in Items |-> [booked[i] EXCEPT !.out = @ + Total(me.doc, i)]]
    BY <1>2 DEF WriteProcessed
  <2>2. /\ line' \in [Items -> Line] /\ me.r \in Returns
        /\ \A i \in Items : Total(me.doc, i) \in Nat
        /\ \A i \in Items :
              /\ line'[i].quantity = line[i].quantity /\ line'[i].received = line[i].received
              /\ i \notin Named(me.doc) => line'[i] = line[i]
              /\ i \in Named(me.doc) => line'[i].returned = me.seen[i].returned + Total(me.doc, i)
    BY <1>0, <2>1, CountReturnLines
  <2>3. ret' \in [Returns -> Return]
    <3>1. ret \in [Returns -> Return]
      BY Typed
    <3> HIDE DEF me
    <3> QED
      BY <2>1, <2>2, <3>1 DEF Return, RetStatuses
  <2>4. /\ booked' \in [Items -> [in: Nat, out: Nat]]
        /\ \A i \in Items : /\ booked'[i].in = booked[i].in
                            /\ booked'[i].out = booked[i].out + Total(me.doc, i)
    <3>1. booked \in [Items -> [in: Nat, out: Nat]]
      BY Typed
    <3> HIDE DEF me
    <3> QED
      BY <2>1, <2>2, <3>1
  <2>5. ASSUME NEW i \in Items
        PROVE  /\ booked[i].in <= booked'[i].in /\ booked[i].out <= booked'[i].out
               /\ Covered(i)'
    <3>1. /\ line[i] \in Line /\ booked[i].in \in Nat /\ booked[i].out \in Nat
          /\ me.seen[i] \in Line /\ Total(me.doc, i) \in Nat
      BY <1>0, <2>2, Typed DEF Task
    <3>2. booked[i].in <= booked'[i].in /\ booked[i].out <= booked'[i].out
      BY <2>4, <3>1
    <3>3. WholeDocuments' <=> WholeDocuments
      BY <1>0 DEF WholeDocuments
    <3>4. /\ line[i].quantity \in Nat /\ line[i].received \in Nat /\ line[i].returned \in Nat
          /\ me.seen[i].returned \in Nat
      BY <3>1 DEF Line
    <3>5. CASE i \notin Named(me.doc)
      <4>1. Total(me.doc, i) = 0
        BY <1>0, <3>5, TotalNat, CountReturnLines
      <4>2. line'[i] = line[i] /\ booked'[i].in = booked[i].in /\ booked'[i].out = booked[i].out
        BY <2>2, <2>4, <3>1, <3>5, <4>1
      <4>3. Covered(i)'
        BY <1>0, <3>3, <4>2 DEF Covered
      <4> QED
        BY <3>2, <4>3
    <3>6. CASE i \in Named(me.doc)
      <4>1. line[i].quantity > 0
        <5>1. line[i].live
          BY <1>2, <3>6 DEF LineGone, Live
        <5> QED
          BY <5>1, LiveInserted
      <4>2. line'[i].returned <= booked'[i].out
        BY <1>0, <2>2, <2>4, <3>1, <3>4, <3>6 DEF Returning
      <4>3. /\ line'[i].quantity = line[i].quantity /\ line'[i].received = line[i].received
            /\ booked'[i].in = booked[i].in /\ booked'[i].out = booked[i].out + Total(me.doc, i)
            /\ scenario' = scenario
        BY <1>0, <2>2, <2>4
      <4>4. Covered(i)'
        BY <1>0, <3>1, <3>3, <3>4, <4>1, <4>2, <4>3 DEF Covered
      <4> QED
        BY <3>2, <4>4
    <3> QED
      BY <3>5, <3>6
  <2>6. TypeOK'
    BY <1>0, <2>2, <2>3, <2>4, Typed, Finished DEF TypeOK
  <2>7. Counting'
    BY <2>5 DEF Counting
  <2>8. me.pc # "idle"
    BY <1>0
  <2> QED
    BY <1>0, <2>2, <2>5, <2>6, <2>7, <2>8, Finished, StepKept
<1> QED
  BY <1>1, <1>2

\* A handler rolls back.
LEMMA AbandonKeeps ==
  ASSUME IInv, NEW t \in Tasks, Abandon(t)
  PROVE  IInv'
<1>1. task[t].pc # "idle" /\ Release(t) /\ Finish(t) /\ UNCHANGED <<order, line, ret, booked, scenario>>
  BY DEF Abandon
<1> QED
  BY <1>1, Typed, Locks, Finished, RowsKept

----------------------------------------------------------------------------
(* The invariant *)

\* Nothing is ordered, received or locked at first.
LEMMA InitIInv == Init => IInv
<1> SUFFICES ASSUME Init PROVE IInv
  OBVIOUS
<1>1. \A i \in Items : line[i] = NoLine /\ booked[i].in = 0 /\ booked[i].out = 0
  BY DEF Init
<1>2. \A t \in Tasks : task[t] = Resting
  BY DEF Init
<1>3. TypeOK
  BY RestingType DEF Init, TypeOK, NoLine, Line, NoReturn, Return
<1>4. /\ Resting.pc = "idle" /\ Resting.op = Missing /\ Resting.new = Nothing
      /\ \A i \in Items : Nothing[i] = 0
  BY DEF Resting, Nothing
<1>5. Missing \notin Ops /\ Missing \notin Owing /\ Missing # "receive" /\ Missing # "process"
  BY DEF Missing, Ops, OrderOps, ReturnOps, Owing
<1>6. Counting
  BY <1>1 DEF Counting, Covered, NoLine
<1> HIDE DEF Resting, Nothing
<1>7. ASSUME NEW t \in Tasks PROVE Knows(t) /\ Receiving(t) /\ Returning(t)
  <2>1. task[t].pc = "idle" /\ task[t].op = Missing /\ task[t] = Resting /\ task[t].new = Nothing
    BY <1>2, <1>4
  <2>2. Knows(t)
    BY <1>4, <1>5, <2>1 DEF Knows, Ops, Owing
  <2> QED
    BY <1>5, <2>1, <2>2 DEF Receiving, Returning
<1>8. Alone
  BY <1>2, <1>4 DEF Alone
<1> QED
  BY <1>3, <1>6, <1>7, <1>8 DEF IInv, Handling

\* Every step of every handler keeps the invariant.
LEMMA NextIInv == IInv /\ [Next]_vars => IInv'
<1> SUFFICES ASSUME IInv, [Next]_vars PROVE IInv'
  OBVIOUS
<1>1. CASE UNCHANGED vars
  <2>1. UNCHANGED <<order, line, ret, booked, lock, task, scenario>>
    BY <1>1 DEF vars
  <2> QED
    BY <2>1 DEF IInv, TypeOK, Handling, Knows, Receiving, Returning, Counting, Covered, Alone,
                OneAtATime, WholeDocuments, Repeating
<1>2. ASSUME NEW t \in Tasks, Step(t) PROVE IInv'
  BY <1>2, BeginOrderOpKeeps, WriteOrderOpKeeps, BeginReceiptKeeps, LockForReceiptKeeps,
     BookLineKeeps, BookLineOfNewBatchKeeps, WriteReceiptKeeps, BeginReturnOpKeeps,
     WriteReturnOpKeeps, LockForReturnKeeps, WriteProcessedKeeps, AbandonKeeps DEF Step
<1> QED
  BY <1>1, <1>2 DEF Next

\* Every order, line, return and handler keeps its type.
THEOREM TypeCorrect == Spec => []TypeOK
<1>1. IInv => TypeOK
  BY DEF IInv
<1> QED
  BY <1>1, InitIInv, NextIInv, PTL DEF Spec

----------------------------------------------------------------------------
(* One handler at a time *)

\* The line counted in Received is one of its parts: none came in, no line has any.
LEMMA NothingInLines ==
  ASSUME IInv, NothingIn, NEW i \in Items, line[i].live
  PROVE  line[i].received = 0
<1> DEFINE S == Live(line)
           f == [j \in Items |-> line[j].received]
<1>1. IsFiniteSet(S) /\ i \in S /\ \A j \in S : f[j] \in Nat
  <2>1. \A j \in Items : line[j].received \in Nat
    BY DEF IInv, TypeOK, Line
  <2> QED
    BY <2>1, PurchaseAssumption, FS_Subset DEF Live
<1>2. SumOver(f, S) = 0
  BY DEF NothingIn, Received, Sum, SumOver
<1>3. f[i] = line[i].received
  OBVIOUS
<1> HIDE DEF S, f
<1>4. SumOver(f, S) = f[i] + SumOver(f, S \ {i})
  BY <1>1, SumTake
<1>5. SumOver(f, S \ {i}) \in Nat
  <2>1. IsFiniteSet(S \ {i})
    BY <1>1, FS_Subset
  <2> QED
    BY <1>1, <2>1, SumNat
<1>6. f[i] \in Nat
  BY <1>1
<1> QED
  BY <1>2, <1>3, <1>4, <1>5, <1>6

\* The documents of the returns that name an order line.
Docs(i) == [v \in Returns |-> Total(ret[v].doc, i)]
Processed == {v \in Returns : ret[v].status = "Processed"}

\* What went back, as the sum it is.
LEMMA SentBackSum ==
  ASSUME NEW i
  PROVE  SentBack(i) = SumOver(Docs(i), Processed)
BY DEF SentBack, Sum, SumOver, Docs, Processed

\* A step that processes no return, and keeps what the processed ones say, sends
\* nothing back.
LEMMA SentBackKept ==
  ASSUME NEW i, Processed' = Processed, \A v \in Processed : ret'[v].doc = ret[v].doc
  PROVE  SentBack(i)' = SentBack(i)
<1> DEFINE S == Processed
           f == [v \in Returns |-> Total(ret'[v].doc, i)]
<1>1. SentBack(i)' = Sum(S, f)
  BY DEF SentBack, Processed
<1>2. Sum(S, f) = SumOver(f, S)
  BY DEF Sum, SumOver
<1>3. \A v \in S : f[v] = Docs(i)[v]
  BY DEF Docs, Processed
<1>4. IsFiniteSet(S)
  BY PurchaseAssumption, FS_Subset DEF Processed
<1> HIDE DEF S, f
<1>5. SumOver(f, S) = SumOver(Docs(i), S)
  BY <1>3, <1>4, SumAgree
<1> QED
  BY <1>1, <1>2, <1>5, SentBackSum DEF S

\* What a return's document says of a line is a number.
LEMMA ReturnTotals ==
  ASSUME IInv, NEW v \in Returns, NEW i
  PROVE  Total(ret[v].doc, i) \in Nat
<1>1. ret[v].doc \in Documents \cup {<< >>}
  BY DEF IInv, TypeOK, Return
<1>2. Total(<< >>, i) = 0
  <2>1. {k \in DOMAIN << >> : << >>[k].item = i} = {}
    OBVIOUS
  <2>2. Total(<< >>, i) = SumOver(Qty(<< >>), {k \in DOMAIN << >> : << >>[k].item = i})
    BY DEF Total, Sum, SumOver, Qty
  <2> QED
    BY <2>1, <2>2, SumEmpty
<1> QED
  BY <1>1, <1>2, TotalNat

\* Processing a return sends back what its document says.
LEMMA SentBackMore ==
  ASSUME IInv, NEW i, NEW v \in Returns, ret[v].status # "Processed",
         ret' = [ret EXCEPT ![v].status = "Processed"]
  PROVE  SentBack(i)' = SentBack(i) + Total(ret[v].doc, i)
<1> DEFINE S == Processed
           f == [w \in Returns |-> Total(ret'[w].doc, i)]
<1>0. ret \in [Returns -> Return]
  BY DEF IInv, TypeOK
<1>1. /\ \A w \in Returns : ret'[w].doc = ret[w].doc
      /\ {w \in Returns : ret'[w].status = "Processed"} = S \cup {v}
  BY <1>0 DEF Return, Processed
<1>2. SentBack(i)' = Sum(S \cup {v}, f)
  BY <1>1 DEF SentBack
<1>3. Sum(S \cup {v}, f) = SumOver(f, S \cup {v})
  BY DEF Sum, SumOver
<1>4. /\ IsFiniteSet(S) /\ S \subseteq Returns /\ v \notin S
  BY PurchaseAssumption, FS_Subset DEF Processed
<1>5. \A w \in Returns : f[w] = Docs(i)[w] /\ f[w] \in Nat /\ f[w] = Total(ret[w].doc, i)
  BY <1>1, ReturnTotals DEF Docs
<1> HIDE DEF S, f
<1>6. SumOver(f, S \cup {v}) = SumOver(f, S) + f[v]
  <2>1. f[v] \in Int /\ \A w \in S : f[w] \in Int
    BY <1>4, <1>5
  <2> QED
    BY <1>4, <2>1, SumPut
<1>7. SumOver(f, S) = SumOver(Docs(i), S)
  BY <1>4, <1>5, SumAgree
<1> QED
  BY <1>2, <1>3, <1>5, <1>6, <1>7, SentBackSum DEF S

\* While one handler is under way the others rest; so they are current, whatever it does.
LEMMA OthersRest ==
  ASSUME IInv, OneAtATime, NEW t \in Tasks, task[t].pc # "idle" \/ MayBegin(t),
         \A u \in Tasks \ {t} : task'[u] = task[u]
  PROVE  \A u \in Tasks \ {t} : Current(u)'
<1> SUFFICES ASSUME NEW u \in Tasks \ {t} PROVE Current(u)'
  OBVIOUS
<1>1. task[u].pc = "idle" /\ Knows(u)
  BY NobodyElse, Typed DEF IInv, Alone
<1>2. task'[u].op = Missing
  BY <1>1 DEF Knows, Resting
<1>3. Missing \notin OrderOps \cup ReturnOps \cup {"receive", "process"}
  BY DEF Missing, OrderOps, ReturnOps
<1> QED
  BY <1>2, <1>3 DEF Current

\* A handler that has ended is current.
LEMMA FinishedCurrent ==
  ASSUME IInv, NEW t \in Tasks, Finish(t)
  PROVE  Current(t)'
<1>1. task'[t].op = Missing
  BY Finished DEF Resting
<1>2. Missing \notin OrderOps \cup ReturnOps \cup {"receive", "process"}
  BY DEF Missing, OrderOps, ReturnOps
<1> QED
  BY <1>1, <1>2 DEF Current

\* What a step has to show of the handler and of the lines.
LEMMA OrderlyStep ==
  ASSUME IInv, NEW t \in Tasks, task[t].pc # "idle" \/ MayBegin(t),
         \A u \in Tasks \ {t} : task'[u] = task[u], UNCHANGED scenario,
         OneAtATime => Current(t)' /\ \A i \in Items : Settled(i)'
  PROVE  Orderly'
BY OthersRest DEF Orderly, OneAtATime

\* Lines, stock and processed returns as they were: the goods stay settled.
LEMMA SettledKept ==
  ASSUME IInv, Orderly, OneAtATime, UNCHANGED <<order, line, booked, scenario>>,
         Processed' = Processed,
         \A v \in Processed : ret'[v].doc = ret[v].doc
  PROVE  \A i \in Items : Settled(i)'
<1> SUFFICES ASSUME NEW i \in Items PROVE Settled(i)'
  OBVIOUS
<1>1. SentBack(i)' = SentBack(i)
  BY SentBackKept
<1> QED
  BY <1>1 DEF Orderly, Settled, WholeDocuments

\* A handler that ends and leaves the rows as they were.
LEMMA OrderlyEnd ==
  ASSUME IInv, Orderly, NEW t \in Tasks, task[t].pc # "idle", Finish(t),
         UNCHANGED <<order, line, ret, booked, scenario>>
  PROVE  Orderly'
<1>1. \A u \in Tasks \ {t} : task'[u] = task[u]
  BY Finished
<1>2. OneAtATime => \A i \in Items : Settled(i)'
  BY SettledKept DEF Processed
<1> QED
  BY <1>1, <1>2, FinishedCurrent, OrderlyStep

\* The order is read and one of its handlers decides.
LEMMA BeginOrderOpOrderly ==
  ASSUME IInv, Orderly, NEW t \in Tasks, BeginOrderOp(t)
  PROVE  Orderly'
<1>1. PICK op \in OrderOps : \E new \in NewLines(op) :
        /\ Permitted(op)
        /\ task' = [task EXCEPT ![t] = [Resting EXCEPT
            !.pc = "write", !.op = op, !.status = order, !.seen = line, !.new = new]]
  BY DEF BeginOrderOp
<1>2. PICK new \in NewLines(op) :
        /\ Permitted(op)
        /\ task' = [task EXCEPT ![t] = [Resting EXCEPT
            !.pc = "write", !.op = op, !.status = order, !.seen = line, !.new = new]]
  BY <1>1
<1>3. /\ task'[t].op = op /\ task'[t].new = new /\ task'[t].seen = line
      /\ \A u \in Tasks \ {t} : task'[u] = task[u]
  BY <1>2, Typed DEF Resting
<1>4. MayBegin(t) /\ UNCHANGED <<order, line, ret, booked, lock, scenario>>
  BY DEF BeginOrderOp
<1>5. /\ op # "receive" /\ op # "process" /\ op \notin ReturnOps
      /\ op \in {"create", "update", "amend"} \/ new = Nothing
  BY DEF OrderOps, ReturnOps, NewLines
<1>6. Permitted(op)'
  BY <1>2, <1>4 DEF Permitted, NothingIn
<1>7. Current(t)'
  BY <1>3, <1>4, <1>5, <1>6 DEF Current
<1>8. OneAtATime => \A i \in Items : Settled(i)'
  BY <1>4, SettledKept DEF Processed
<1> QED
  BY <1>3, <1>4, <1>7, <1>8, OrderlyStep

\* An operation that may take the order on from where goods came in.
LEMMA GoodsIn ==
  ASSUME IInv, NEW op \in OrderOps, Permitted(op), order \notin Early,
         NEW i \in Items, line[i].live, line[i].received > 0
  PROVE  op \notin {"create", "update", "amend"} /\ Target(op) \notin Early
<1>1. ~ NothingIn
  BY NothingInLines
<1>2. op \notin {"create", "update", "submit", "reject", "amend", "cancel"}
  BY <1>1 DEF Permitted, Early
<1> QED
  BY <1>2 DEF Target, OrderOps, Early, Missing

\* The order's commit leaves lines with goods alone, and takes the order no
\* way back (total_received of cancel_order and amend_order).
LEMMA WriteOrderOpOrderly ==
  ASSUME IInv, Orderly, NEW t \in Tasks, WriteOrderOp(t)
  PROVE  Orderly'
<1> DEFINE me == task[t]
<1>1. /\ me \in Task /\ Knows(t) /\ me.op \in OrderOps /\ me.pc = "write"
      /\ Finish(t) /\ UNCHANGED <<ret, booked, lock, scenario>>
  BY Typed DEF WriteOrderOp, At
<1>2. CASE Refused(me)
  <2>1. UNCHANGED <<order, line>>
    BY <1>2 DEF WriteOrderOp
  <2>2. task[t].pc # "idle"
    BY <1>1
  <2> QED
    BY <1>1, <2>1, <2>2, OrderlyEnd
<1>3. CASE ~ Refused(me)
  <2>1. /\ order' = Target(me.op)
        /\ line' = [i \in Items |->
               IF me.new[i] > 0 THEN Ordered(me.new[i])
               ELSE IF i \in Dropped(me) THEN [line[i] EXCEPT !.live = FALSE] ELSE line[i]]
    BY <1>3 DEF WriteOrderOp
  <2>2. ASSUME OneAtATime, NEW i \in Items PROVE Settled(i)'
    <3>1. /\ line[i] \in Line /\ booked[i] \in [in: Nat, out: Nat] /\ me.new[i] \in Nat
          /\ Covered(i) /\ Settled(i) /\ Current(t)
      BY <1>1, <2>2, Typed, QuantitiesNat DEF Task, Orderly
    <3>2. SentBack(i)' = SentBack(i)
      BY <1>1, SentBackKept DEF Processed
    <3>3. /\ line[i].received \in Nat /\ line[i].returned \in Nat /\ booked[i].in \in Nat
      BY <3>1 DEF Line
    <3>4. CASE me.new[i] > 0
      <4>1. /\ line'[i] = Ordered(me.new[i]) /\ line[i] = NoLine
            /\ booked[i].in = 0 /\ booked[i].out = 0
        BY <1>1, <2>1, <3>1, <3>4 DEF Knows, Covered
      <4>2. line'[i].returned = 0 /\ line'[i].received = 0 /\ line[i].returned = 0
        BY <4>1 DEF Ordered, NoLine
      <4>3. booked'[i] = booked[i] /\ SentBack(i) = 0
        BY <1>1, <3>1, <4>2 DEF Settled
      <4> QED
        BY <1>1, <3>2, <4>1, <4>2, <4>3 DEF Settled
    <3>5. CASE ~ (me.new[i] > 0)
      <4>1. line'[i] = IF i \in Dropped(me) THEN [line[i] EXCEPT !.live = FALSE] ELSE line[i]
        BY <2>1, <3>5
      <4>2. line'[i].received = line[i].received /\ line'[i].returned = line[i].returned
        BY <3>1, <4>1 DEF Line
      <4>3. ASSUME WholeDocuments, booked[i].in > 0
            PROVE  line'[i].live /\ order' \notin Early
        <5>1. line[i].live /\ order \notin Early /\ line[i].received = booked[i].in
          BY <3>1, <4>3 DEF Settled, Covered
        <5>2. Permitted(me.op) /\ (me.op \in {"create", "update", "amend"} \/ me.new = Nothing)
          BY <1>1, <3>1 DEF Current
        <5> HIDE DEF me
        <5>3. line[i].received > 0
          BY <3>3, <4>3, <5>1
        <5>4. me.op \notin {"create", "update", "amend"} /\ Target(me.op) \notin Early
          BY <1>1, <5>1, <5>2, <5>3, GoodsIn
        <5>5. i \notin Dropped(me)
          BY <5>2, <5>4 DEF Dropped
        <5> QED
          BY <2>1, <4>1, <5>1, <5>4, <5>5
      <4> QED
        BY <1>1, <3>1, <3>2, <4>2, <4>3 DEF Settled, WholeDocuments
    <3> QED
      BY <3>4, <3>5
  <2>3. task[t].pc # "idle"
    BY <1>1
  <2> QED
    BY <1>1, <2>2, <2>3, Finished, FinishedCurrent, OrderlyStep
<1> QED
  BY <1>2, <1>3

\* receive_goods is called, and has seen nothing yet.
LEMMA BeginReceiptOrderly ==
  ASSUME IInv, Orderly, NEW t \in Tasks, BeginReceipt(t)
  PROVE  Orderly'
<1>1. PICK doc \in Documents :
        task' = [task EXCEPT ![t] = [Resting EXCEPT !.pc = "lock", !.op = "receive", !.doc = doc]]
  BY DEF BeginReceipt
<1>2. /\ task'[t].op = "receive" /\ task'[t].pc = "lock"
      /\ \A u \in Tasks \ {t} : task'[u] = task[u]
      /\ MayBegin(t) /\ UNCHANGED <<order, line, ret, booked, lock, scenario>>
  BY <1>1, Typed DEF Resting, BeginReceipt
<1>3. Current(t)'
  BY <1>2 DEF Current, OrderOps, ReturnOps
<1>4. OneAtATime => \A i \in Items : Settled(i)'
  BY <1>2, SettledKept DEF Processed
<1> QED
  BY <1>2, <1>3, <1>4, OrderlyStep

\* Under the lock it has seen the lines and an order open for receipt.
LEMMA LockForReceiptOrderly ==
  ASSUME IInv, Orderly, NEW t \in Tasks, LockForReceipt(t)
  PROVE  Orderly'
<1>1. /\ task[t].op = "receive" /\ task[t].pc = "lock"
      /\ UNCHANGED <<order, line, ret, booked, scenario>> /\ task \in [Tasks -> Task]
  BY Typed DEF LockForReceipt, At
<1>2. CASE ~ (order \in OpenForReceipt /\ Receivable(line, task[t].doc))
  BY <1>1, <1>2, OrderlyEnd DEF LockForReceipt
<1>3. CASE order \in OpenForReceipt /\ Receivable(line, task[t].doc)
  <2>1. task' = [task EXCEPT ![t].pc = "book", ![t].n = 1, ![t].seen = line, ![t].status = order]
    BY <1>3 DEF LockForReceipt
  <2>2. /\ task'[t].op = "receive" /\ task'[t].seen = line
        /\ \A u \in Tasks \ {t} : task'[u] = task[u]
    BY <1>1, <2>1 DEF Task
  <2>3. Current(t)'
    BY <1>1, <1>3, <2>2 DEF Current, OrderOps, ReturnOps
  <2>4. OneAtATime => \A i \in Items : Settled(i)'
    BY <1>1, SettledKept DEF Processed
  <2> QED
    BY <1>1, <2>2, <2>3, <2>4, OrderlyStep
<1> QED
  BY <1>2, <1>3

\* Booking a line leaves what the handler has seen.
LEMMA BookOrderly ==
  ASSUME IInv, Orderly, NEW t \in Tasks, BookLine(t) \/ BookLineOfNewBatch(t)
  PROVE  Orderly'
<1> DEFINE me == task[t]
<1>1. /\ me.op = "receive" /\ me.pc = "book" /\ me.moved \in [Items -> Nat]
      /\ UNCHANGED <<order, line, ret, scenario>> /\ task \in [Tasks -> Task]
  BY Typed, Booking DEF BookLine, BookLineOfNewBatch, At, Task
<1>2. \E moved : task' = [task EXCEPT ![t] = WithLine(me, NextPc(me), me.n + 1, moved)]
  <2>1. CASE BookLine(t)
    <3>1. task' = [task EXCEPT
            ![t] = WithLine(me, NextPc(me), me.n + 1, Plus(me.moved, me.doc[me.n]))]
      BY <2>1, Typed DEF BookLine, WithLine
    <3> QED
      BY <3>1
  <2>2. CASE BookLineOfNewBatch(t)
    <3>1. task' = [task EXCEPT
            ![t] = WithLine(me, NextPc(me), me.n + 1, Plus(Nothing, me.doc[me.n]))]
      BY <2>2, Typed DEF BookLineOfNewBatch, WithLine
    <3> QED
      BY <3>1
  <2> QED
    BY <2>1, <2>2
<1>3. /\ task'[t].op = "receive" /\ task'[t].seen = me.seen
      /\ \A u \in Tasks \ {t} : task'[u] = task[u]
  <2>1. me \in Task
    BY <1>1
  <2>2. PICK moved : task' = [task EXCEPT ![t] = WithLine(me, NextPc(me), me.n + 1, moved)]
    BY <1>2
  <2>3. /\ WithLine(me, NextPc(me), me.n + 1, moved).op = me.op
        /\ WithLine(me, NextPc(me), me.n + 1, moved).seen = me.seen
    BY <2>1 DEF WithLine, Task
  <2> QED
    BY <1>1, <2>2, <2>3
<1>4. ASSUME OneAtATime PROVE Current(t)'
  <2>1. Current(t)
    BY <1>4 DEF Orderly
  <2> QED
    BY <1>1, <1>3, <2>1 DEF Current, OrderOps, ReturnOps
<1>5. ASSUME OneAtATime, NEW i \in Items PROVE Settled(i)'
  <2>1. booked'[i].out = booked[i].out /\ (WholeDocuments => booked'[i].in = booked[i].in)
    <3>1. CASE BookLine(t)
      BY <3>1 DEF BookLine
    <3>2. CASE BookLineOfNewBatch(t)
      <4>1. booked' = CommitIn(me.moved) /\ ~ WholeDocuments
        BY <3>2 DEF BookLineOfNewBatch, WholeDocuments
      <4>2. booked'[i].out = booked[i].out
        BY <1>1, <4>1, Committed
      <4> QED
        BY <4>1, <4>2
    <3> QED
      BY <3>1, <3>2
  <2>2. SentBack(i)' = SentBack(i)
    BY <1>1, SentBackKept DEF Processed
  <2>3. Settled(i)
    BY <1>5 DEF Orderly
  <2> QED
    BY <1>1, <2>1, <2>2, <2>3 DEF Settled, WholeDocuments
<1>6. task[t].pc # "idle"
  BY <1>1
<1> QED
  BY <1>1, <1>3, <1>4, <1>5, <1>6, OrderlyStep

\* The goods counted in are on live lines of an order that is open for receipt.
LEMMA WriteReceiptOrderly ==
  ASSUME IInv, Orderly, NEW t \in Tasks, WriteReceipt(t)
  PROVE  Orderly'
<1> DEFINE me == task[t]
<1>1. /\ me.pc = "write" /\ me.op = "receive" /\ Finish(t) /\ UNCHANGED <<ret, scenario>>
  BY DEF WriteReceipt, At
<1>2. CASE LineGone(me)
  <2>1. UNCHANGED <<order, line, booked>>
    BY <1>2 DEF WriteReceipt
  <2>2. task[t].pc # "idle"
    BY <1>1
  <2> QED
    BY <1>1, <2>1, <2>2, OrderlyEnd
<1>3. CASE ~ LineGone(me)
  <2>1. /\ order' = IF StatusAfter(me) = me.status THEN order ELSE StatusAfter(me)
        /\ line' = CountReceipt(me) /\ booked' = CommitIn(me.moved)
    BY <1>3 DEF WriteReceipt
  <2>2. ASSUME OneAtATime, NEW i \in Items PROVE Settled(i)'
    <3>1. /\ Settled(i) /\ me.seen = line /\ order \in OpenForReceipt
      BY <1>1, <2>2 DEF Orderly, Current
    <3>2. /\ line'[i].returned = line[i].returned /\ line'[i].live = line[i].live
          /\ i \notin Named(me.doc) => line'[i] = line[i]
          /\ i \in Named(me.doc) => line'[i].received = line[i].received + Total(me.doc, i)
      BY <1>1, <2>1, <3>1, CountReceiptLines
    <3>3. /\ me.doc \in Documents /\ Total(me.doc, i) \in Nat /\ me.moved \in [Items -> Nat]
          /\ me.moved[i] <= Total(me.doc, i)
      BY <1>1, Booked
    <3>4. booked'[i].in = booked[i].in + me.moved[i] /\ booked'[i].out = booked[i].out
      BY <2>1, <3>3, Committed
    <3>5. SentBack(i)' = SentBack(i)
      BY <1>1, SentBackKept DEF Processed
    <3>6. /\ line[i].received \in Nat /\ line[i].returned \in Nat /\ booked[i].in \in Nat
      BY Typed DEF Line
    <3>7. ~ scenario.repeats => line'[i].returned <= line'[i].received
      BY <3>1, <3>2, <3>3, <3>6 DEF Settled
    <3>8. ASSUME WholeDocuments, booked'[i].in > 0
          PROVE  line'[i].live /\ order' \notin Early
      <4>1. order' \notin Early
        BY <2>1, <3>1 DEF OpenForReceipt, Early, Missing, StatusAfter
      <4>2. CASE i \in Named(me.doc)
        BY <1>3, <3>2, <4>1, <4>2 DEF LineGone, Live
      <4>3. CASE i \notin Named(me.doc)
        <5>1. Total(me.doc, i) = 0
          BY <3>3, <4>3, TotalNat
        <5>2. booked[i].in > 0
          BY <3>3, <3>4, <3>6, <3>8, <5>1
        <5> QED
          BY <3>1, <3>2, <3>8, <4>1, <5>2 DEF Settled
      <4> QED
        BY <4>2, <4>3
    <3>9. line'[i].returned = SentBack(i)' /\ booked'[i].out = SentBack(i)'
      BY <3>1, <3>2, <3>4, <3>5 DEF Settled
    <3> QED
      BY <1>1, <3>7, <3>8, <3>9 DEF Settled, WholeDocuments
  <2>3. task[t].pc # "idle"
    BY <1>1
  <2> QED
    BY <1>1, <2>2, <2>3, Finished, FinishedCurrent, OrderlyStep
<1> QED
  BY <1>2, <1>3

\* A return and the lines are loaded.
LEMMA BeginReturnOpOrderly ==
  ASSUME IInv, Orderly, NEW t \in Tasks, BeginReturnOp(t)
  PROVE  Orderly'
<1>1. PICK op \in ReturnOps \cup {"process"}, v \in Returns, doc \in Documents :
        /\ MayReturn(op, ret[v], doc)
        /\ task' = [task EXCEPT ![t] = [Resting EXCEPT
            !.pc = IF op = "process" THEN "lock" ELSE "write",
            !.op = op, !.r = v, !.doc = doc, !.seen = line]]
  BY DEF BeginReturnOp
<1>2. /\ task'[t].op = op /\ task'[t].r = v /\ task'[t].doc = doc /\ task'[t].seen = line
      /\ op = "process" => task'[t].pc = "lock"
      /\ \A u \in Tasks \ {t} : task'[u] = task[u]
      /\ MayBegin(t) /\ UNCHANGED <<order, line, ret, booked, lock, scenario>>
  BY <1>1, Typed DEF Resting, BeginReturnOp
<1>3. /\ op \notin OrderOps /\ op # "receive"
      /\ op = "process" => op \notin ReturnOps /\ ret[v].status \in {"Draft", "Approved"}
                           /\ ret[v].doc = doc
      /\ op \in ReturnOps => ret[v].status # "Processed"
  BY <1>1 DEF OrderOps, ReturnOps, MayReturn, Missing
<1>4. Current(t)'
  BY <1>2, <1>3 DEF Current
<1>5. OneAtATime => \A i \in Items : Settled(i)'
  BY <1>2, SettledKept DEF Processed
<1> QED
  BY <1>2, <1>4, <1>5, OrderlyStep

\* A return that is not processed is written, and not as processed.
LEMMA WriteReturnOpOrderly ==
  ASSUME IInv, Orderly, NEW t \in Tasks, WriteReturnOp(t)
  PROVE  Orderly'
<1> DEFINE me == task[t]
           status == CASE me.op \in {"draftReturn", "editReturn"} -> "Draft"
                       [] me.op = "approveReturn" -> "Approved"
                       [] me.op = "cancelReturn" -> "Cancelled"
<1>1. /\ me.pc = "write" /\ me.op \in ReturnOps /\ Finish(t)
      /\ UNCHANGED <<order, line, booked, lock, scenario>>
      /\ me.r \in Returns
      /\ ret' = IF LineGone(me) THEN ret
            ELSE [ret EXCEPT
              ![me.r].status = IF me.op = "editReturn" THEN @ ELSE status,
              ![me.r].doc = IF me.op \in {"draftReturn", "editReturn"} THEN me.doc ELSE @]
  BY Typed DEF WriteReturnOp, At, Knows, Owing
<1>2. status # "Processed"
  <2> HIDE DEF me
  <2> QED
    BY <1>1 DEF ReturnOps
<1>3. ret \in [Returns -> Return]
  BY Typed
<1>4. ASSUME OneAtATime PROVE ret[me.r].status # "Processed"
  BY <1>1, <1>4 DEF Orderly, Current
<1>5. task[t].pc # "idle"
  BY <1>1
<1> HIDE DEF me, status
<1>6. ASSUME OneAtATime, NEW v \in Returns
      PROVE  /\ ret[v].status = "Processed" => ret'[v] = ret[v]
             /\ ret'[v].status = "Processed" => ret[v].status = "Processed"
  <2>1. CASE v # me.r
    BY <1>1, <1>3, <2>1
  <2>2. CASE v = me.r
    BY <1>1, <1>2, <1>3, <1>4, <1>6, <2>2 DEF Return
  <2> QED
    BY <2>1, <2>2
<1>7. ASSUME OneAtATime PROVE \A i \in Items : Settled(i)'
  <2>1. Processed' = Processed /\ \A v \in Processed : ret'[v].doc = ret[v].doc
    BY <1>6, <1>7 DEF Processed
  <2> QED
    BY <1>1, <1>7, <2>1, SettledKept
<1> QED
  BY <1>1, <1>5, <1>7, Finished, FinishedCurrent, OrderlyStep

\* process_return compares with what is there, when it is alone.
LEMMA LockForReturnOrderly ==
  ASSUME IInv, Orderly, NEW t \in Tasks, LockForReturn(t)
  PROVE  Orderly'
<1>1. /\ task[t].op = "process" /\ task[t].pc = "lock"
      /\ UNCHANGED <<order, line, ret, booked, scenario>> /\ task \in [Tasks -> Task]
  BY Typed DEF LockForReturn, At
<1>2. CASE ~ SendsBack(task[t].seen, task[t].doc)
  BY <1>1, <1>2, OrderlyEnd DEF LockForReturn
<1>3. CASE SendsBack(task[t].seen, task[t].doc)
  <2>1. task' = [task EXCEPT ![t].pc = "write"]
    BY <1>3 DEF LockForReturn
  <2>2. /\ task'[t].op = "process" /\ task'[t].seen = task[t].seen /\ task'[t].doc = task[t].doc
        /\ task'[t].r = task[t].r /\ \A u \in Tasks \ {t} : task'[u] = task[u]
    BY <1>1, <2>1 DEF Task
  <2>3. ASSUME OneAtATime PROVE Current(t)'
    <3>1. Current(t)
      BY <2>3 DEF Orderly
    <3>2. SendsBack(task'[t].seen, task'[t].doc)
      BY <1>3, <2>2
    <3>3. "process" \notin OrderOps \cup ReturnOps
      BY DEF OrderOps, ReturnOps
    <3> QED
      BY <1>1, <2>2, <3>1, <3>2, <3>3 DEF Current, SendsBack, Live
  <2>4. OneAtATime => \A i \in Items : Settled(i)'
    BY <1>1, SettledKept DEF Processed
  <2> QED
    BY <1>1, <2>2, <2>3, <2>4, OrderlyStep
<1> QED
  BY <1>2, <1>3

\* process_return books out what the return says, which came in and is still there.
LEMMA WriteProcessedOrderly ==
  ASSUME IInv, Orderly, NEW t \in Tasks, WriteProcessed(t)
  PROVE  Orderly'
<1> DEFINE me == task[t]
<1>1. /\ me.pc = "write" /\ me.op = "process" /\ Finish(t) /\ UNCHANGED <<order, scenario>>
  BY DEF WriteProcessed, At
<1>2. CASE LineGone(me)
  <2>1. UNCHANGED <<line, ret, booked>>
    BY <1>2 DEF WriteProcessed
  <2>2. task[t].pc # "idle"
    BY <1>1
  <2> QED
    BY <1>1, <2>1, <2>2, OrderlyEnd
<1>3. CASE ~ LineGone(me)
  <2>1. /\ line' = CountReturn(me) /\ ret' = [ret EXCEPT ![me.r].status = "Processed"]
        /\ booked' = [i \in Items |-> [booked[i] EXCEPT !.out = @ + Total(me.doc, i)]]
    BY <1>3 DEF WriteProcessed
  <2>2. ASSUME OneAtATime, NEW i \in Items PROVE Settled(i)'
    <3>1. /\ Settled(i) /\ me.seen = line /\ ret[me.r].doc = me.doc
          /\ ret[me.r].status # "Processed" /\ SendsBack(line, me.doc)
      BY <1>1, <2>2 DEF Orderly, Current
    <3>2. /\ me.doc \in Documents /\ me.r \in Returns /\ Total(me.doc, i) \in Nat
          /\ line'[i].received = line[i].received /\ line'[i].live = line[i].live
          /\ i \notin Named(me.doc) => line'[i] = line[i]
          /\ i \in Named(me.doc) => line'[i].returned = line[i].returned + Total(me.doc, i)
      BY <1>1, <2>1, <3>1, CountReturnLines
    <3>3. /\ line[i].received \in Nat /\ line[i].returned \in Nat
          /\ booked[i] \in [in: Nat, out: Nat]
      BY Typed DEF Line
    <3>4. booked'[i].in = booked[i].in /\ booked'[i].out = booked[i].out + Total(me.doc, i)
      <4> HIDE DEF me
      <4> QED
        BY <2>1, <3>2, <3>3
    <3>5. SentBack(i)' = SentBack(i) + Total(me.doc, i)
      <4> HIDE DEF me
      <4> QED
        BY <2>1, <3>1, <3>2, SentBackMore
    <3>6. line'[i].returned = line[i].returned + Total(me.doc, i)
      <4>1. i \notin Named(me.doc) => Total(me.doc, i) = 0
        BY <3>2, TotalNat
      <4> QED
        BY <3>2, <3>3, <4>1
    <3>7. ASSUME ~ scenario.repeats PROVE line'[i].returned <= line'[i].received
      <4>1. CASE i \notin Named(me.doc)
        BY <3>1, <3>2, <3>7, <4>1 DEF Settled
      <4>2. CASE i \in Named(me.doc)
        <5>1. PICK k \in DOMAIN me.doc : me.doc[k].item = i
          BY <4>2 DEF Named
        <5>2. Distinct(me.doc)
          BY <1>1, <3>7, Typed DEF Knows, Owing, Repeating
        <5>3. me.doc[k].qty <= line[i].received - line[i].returned
          BY <3>1, <5>1 DEF SendsBack, Returnable
        <5> HIDE DEF me
        <5>4. Total(me.doc, i) = me.doc[k].qty
          BY <3>2, <5>1, <5>2, TotalOfOne
        <5> QED
          BY <3>2, <3>3, <3>6, <5>3, <5>4
      <4> QED
        BY <4>1, <4>2
    <3>8. line'[i].returned = SentBack(i)' /\ booked'[i].out = SentBack(i)'
      BY <3>1, <3>4, <3>5, <3>6 DEF Settled
    <3> QED
      BY <1>1, <3>1, <3>2, <3>4, <3>7, <3>8 DEF Settled, WholeDocuments
  <2>3. task[t].pc # "idle"
    BY <1>1
  <2> QED
    BY <1>1, <2>2, <2>3, Finished, FinishedCurrent, OrderlyStep
<1> QED
  BY <1>2, <1>3

\* A handler that rolls back leaves the rows.
LEMMA AbandonOrderly ==
  ASSUME IInv, Orderly, NEW t \in Tasks, Abandon(t)
  PROVE  Orderly'
BY OrderlyEnd DEF Abandon

\* Nothing has been sent back at first, and nobody is under way.
LEMMA InitOrderly == Init => Orderly
<1> SUFFICES ASSUME Init PROVE Orderly
  OBVIOUS
<1>1. ASSUME NEW t \in Tasks PROVE Current(t)
  <2>1. task[t].op = Missing
    BY DEF Init, Resting
  <2>2. Missing \notin OrderOps \cup ReturnOps \cup {"receive", "process"}
    BY DEF Missing, OrderOps, ReturnOps
  <2> QED
    BY <2>1, <2>2 DEF Current
<1>2. ASSUME NEW i \in Items PROVE Settled(i)
  <2>1. Processed = {}
    BY DEF Processed, Init, NoReturn, Missing
  <2>2. SentBack(i) = 0
    BY <2>1, SentBackSum, SumEmpty
  <2>3. line[i].received = 0 /\ line[i].returned = 0 /\ booked[i].in = 0 /\ booked[i].out = 0
    BY DEF Init, NoLine
  <2> QED
    BY <2>2, <2>3 DEF Settled
<1> QED
  BY <1>1, <1>2 DEF Orderly

\* One at a time, every step keeps handlers current and goods settled.
LEMMA NextOrderly == IInv /\ Orderly /\ [Next]_vars => Orderly'
<1> SUFFICES ASSUME IInv, Orderly, [Next]_vars PROVE Orderly'
  OBVIOUS
<1>1. CASE UNCHANGED vars
  <2>1. UNCHANGED <<order, line, ret, booked, lock, task, scenario>>
    BY <1>1 DEF vars
  <2>2. OneAtATime => \A i \in Items : Settled(i)'
    BY <2>1, SettledKept DEF Processed
  <2>3. OneAtATime => \A t \in Tasks : Current(t)'
    <3>1. \A t \in Tasks : Current(t)' <=> Current(t)
      BY <2>1 DEF Current, Permitted, NothingIn
    <3> QED
      BY <3>1 DEF Orderly
  <2> QED
    BY <2>1, <2>2, <2>3 DEF Orderly, OneAtATime
<1>2. ASSUME NEW t \in Tasks, Step(t) PROVE Orderly'
  BY <1>2, BeginOrderOpOrderly, WriteOrderOpOrderly, BeginReceiptOrderly, LockForReceiptOrderly,
     BookOrderly, WriteReceiptOrderly, BeginReturnOpOrderly, WriteReturnOpOrderly,
     LockForReturnOrderly, WriteProcessedOrderly, AbandonOrderly DEF Step
<1> QED
  BY <1>1, <1>2 DEF Next

----------------------------------------------------------------------------
(* A fully received order *)

\* A handler never does what its scenario does not ask.
LEMMA NextAsked == IInv /\ Asked /\ [Next]_vars => Asked'
<1> SUFFICES ASSUME IInv, Asked, [Next]_vars PROVE Asked'
  OBVIOUS
<1>1. CASE UNCHANGED vars
  BY <1>1 DEF vars, Asked
<1>2. ASSUME NEW t \in Tasks, Step(t) PROVE Asked'
  <2>1. scenario' = scenario
    BY <1>2 DEF Step, BeginOrderOp, WriteOrderOp, BeginReceipt, LockForReceipt, BookLine,
       BookLineOfNewBatch, WriteReceipt, BeginReturnOp, WriteReturnOp, LockForReturn,
       WriteProcessed, Abandon
  <2>2. /\ \A u \in Tasks \ {t} : task'[u] = task[u]
        /\ task'[t].op \in {task[t].op, Missing} \cup scenario.ops
    <3>0. task \in [Tasks -> Task] /\ task[t] \in Task
      BY Typed
    <3>1. CASE Finish(t)
      BY <3>1, Finished DEF Resting
    <3>2. CASE BeginOrderOp(t)
      BY <3>0, <3>2 DEF BeginOrderOp, Resting
    <3>3. CASE BeginReceipt(t)
      BY <3>0, <3>3 DEF BeginReceipt, Resting
    <3>4. CASE BeginReturnOp(t)
      BY <3>0, <3>4 DEF BeginReturnOp, Resting
    <3>5. CASE LockForReceipt(t)
      BY <3>0, <3>1, <3>5 DEF LockForReceipt, Task
    <3>6. CASE LockForReturn(t)
      BY <3>0, <3>1, <3>6 DEF LockForReturn, Task
    <3>7. CASE BookLine(t)
      BY <3>0, <3>7 DEF BookLine, Task
    <3>8. CASE BookLineOfNewBatch(t)
      BY <3>0, <3>8 DEF BookLineOfNewBatch, Task
    <3> QED
      BY <1>2, <3>1, <3>2, <3>3, <3>4, <3>5, <3>6, <3>7, <3>8
         DEF Step, WriteOrderOp, WriteReceipt, WriteReturnOp, WriteProcessed, Abandon
  <2> QED
    BY <2>1, <2>2 DEF Asked
<1> QED
  BY <1>1, <1>2 DEF Next

\* A step that changes neither the status nor what lines need and have received.
LEMMA CompleteKept ==
  ASSUME IInv, Complete, UNCHANGED <<order, scenario>>,
         \A i \in Items : /\ line'[i].live = line[i].live /\ line'[i].quantity = line[i].quantity
                          /\ line'[i].received = line[i].received
  PROVE  Complete'
<1>1. Short' = Short
  BY DEF Short, Live
<1> QED
  BY <1>1 DEF Complete, WholeDocuments, UpdatesAlone, OneAtATime

\* No operation on the order makes it fully received, unless it is a draft.
LEMMA WriteOrderOpComplete ==
  ASSUME IInv, Orderly, Asked, Complete, NEW t \in Tasks, WriteOrderOp(t)
  PROVE  Complete'
<1> DEFINE me == task[t]
<1>1. me.op \in OrderOps /\ UNCHANGED scenario
  BY DEF WriteOrderOp
<1>2. CASE Refused(me)
  BY <1>1, <1>2, CompleteKept DEF WriteOrderOp
<1>3. CASE ~ Refused(me)
  <2> SUFFICES ASSUME UpdatesAlone, order' = "Fully Received" PROVE FALSE
    BY <1>1 DEF Complete, UpdatesAlone, OneAtATime
  <2>1. order' = Target(me.op)
    BY <1>3 DEF WriteOrderOp
  <2>2. me.op = "update" /\ order = "Fully Received"
    <3> HIDE DEF me
    <3> QED
      BY <1>1, <2>1 DEF Target, OrderOps
  <2>3. OneAtATime
    <3>1. me.op \in scenario.ops
      BY <2>2 DEF Asked, Missing
    <3> QED
      BY <2>2, <3>1 DEF UpdatesAlone
  <2>4. Permitted(me.op)
    BY <1>1, <2>3 DEF Orderly, Current
  <2> QED
    BY <2>2, <2>4 DEF Permitted
<1> QED
  BY <1>2, <1>3

\* A receipt that makes the order fully received leaves no line short
\* (all_fulfilled of receive_goods).
LEMMA WriteReceiptComplete ==
  ASSUME IInv, Complete, NEW t \in Tasks, WriteReceipt(t)
  PROVE  Complete'
<1> DEFINE me == task[t]
<1>1. /\ me.pc = "write" /\ me.op = "receive" /\ UNCHANGED scenario
  BY DEF WriteReceipt, At
<1>2. CASE LineGone(me)
  BY <1>1, <1>2, CompleteKept DEF WriteReceipt
<1>3. CASE ~ LineGone(me)
  <2>1. /\ order' = IF StatusAfter(me) = me.status THEN order ELSE StatusAfter(me)
        /\ line' = CountReceipt(me)
    BY <1>3 DEF WriteReceipt
  <2>2. ASSUME WholeDocuments, order' = "Fully Received", NEW i \in Items, i \in Live(line')
        PROVE  ~ (line'[i].received < line'[i].quantity)
    <3>1. me.seen = line /\ me.status = order /\ me.doc \in Documents /\ line[i] \in Line
      BY <1>1, <2>2, Typed, Booked DEF Receiving
    <3>2. StatusAfter(me) = "Fully Received"
      BY <2>1, <2>2, <3>1
    <3>3. AllReceived(CountedIn(me))
      BY <3>2 DEF StatusAfter
    <3>4. /\ CountedIn(me)[i].live = line[i].live /\ CountedIn(me)[i].quantity = line[i].quantity
          /\ CountedIn(me)[i].received = line[i].received + Total(me.doc, i)
      BY <3>1 DEF CountedIn, Line
    <3>5. /\ line'[i].quantity = line[i].quantity /\ line'[i].live = line[i].live
          /\ i \notin Named(me.doc) => line'[i] = line[i]
          /\ i \in Named(me.doc) => line'[i].received = line[i].received + Total(me.doc, i)
      BY <1>1, <2>1, <3>1, CountReceiptLines
    <3>6. Total(me.doc, i) \in Nat /\ (i \notin Named(me.doc) => Total(me.doc, i) = 0)
      BY <3>1, TotalNat
    <3>7. i \in Live(CountedIn(me))
      BY <2>2, <3>4, <3>5 DEF Live
    <3>8. line[i].received + Total(me.doc, i) >= line[i].quantity
      BY <3>3, <3>4, <3>7 DEF AllReceived
    <3>9. line[i].received \in Nat /\ line[i].quantity \in Nat
      BY <3>1 DEF Line
    <3> HIDE DEF me
    <3>10. line'[i].received = line[i].received + Total(me.doc, i)
      BY <3>5, <3>6, <3>9
    <3> QED
      BY <3>5, <3>6, <3>8, <3>9, <3>10
  <2>3. WholeDocuments' <=> WholeDocuments
    BY <1>1 DEF WholeDocuments
  <2>4. ASSUME WholeDocuments, order' = "Fully Received" PROVE Short' = {}
    <3>1. Short' = {i \in Live(line') : line'[i].received < line'[i].quantity}
      BY DEF Short, Live
    <3>2. Live(line') \subseteq Items
      BY DEF Live
    <3> QED
      BY <2>2, <2>4, <3>1, <3>2
  <2> QED
    BY <2>3, <2>4 DEF Complete
<1> QED
  BY <1>2, <1>3

\* Processing a return takes nothing off what a line received.
LEMMA WriteProcessedComplete ==
  ASSUME IInv, Complete, NEW t \in Tasks, WriteProcessed(t)
  PROVE  Complete'
<1>1. task[t].op = "process" /\ UNCHANGED <<order, scenario>>
  BY DEF WriteProcessed
<1>2. line' = line \/ line' = CountReturn(task[t])
  BY DEF WriteProcessed
<1> QED
  BY <1>1, <1>2, CountReturnLines, CompleteKept

\* Every step keeps a fully received order complete.
LEMMA NextComplete == IInv /\ Orderly /\ Asked /\ Complete /\ [Next]_vars => Complete'
<1> SUFFICES ASSUME IInv, Orderly, Asked, Complete, [Next]_vars PROVE Complete'
  OBVIOUS
<1>1. CASE UNCHANGED <<order, line, scenario>>
  BY <1>1, CompleteKept
<1>2. ASSUME NEW t \in Tasks, Step(t) PROVE Complete'
  BY <1>1, <1>2, WriteOrderOpComplete, WriteReceiptComplete, WriteProcessedComplete
     DEF Step, BeginOrderOp, BeginReceipt, LockForReceipt, BookLine, BookLineOfNewBatch,
         BeginReturnOp, WriteReturnOp, LockForReturn, Abandon
<1> QED
  BY <1>1, <1>2 DEF Next, vars

----------------------------------------------------------------------------
(* Theorems *)

AllInv == IInv /\ Orderly /\ Asked /\ Complete

\* The parts hold at first and every step keeps them.
LEMMA AllInvInductive == (Init => AllInv) /\ (AllInv /\ [Next]_vars => AllInv')
<1>1. ASSUME Init PROVE Asked /\ Complete
  <2>1. order # "Fully Received"
    BY <1>1 DEF Init, Missing
  <2>2. \A t \in Tasks : task[t].op = Missing
    BY <1>1 DEF Init, Resting
  <2> QED
    BY <2>1, <2>2 DEF Asked, Complete
<1>2. Init => AllInv
  BY <1>1, InitIInv, InitOrderly DEF AllInv
<1>3. AllInv /\ [Next]_vars => AllInv'
  BY NextIInv, NextOrderly, NextAsked, NextComplete DEF AllInv
<1> QED
  BY <1>2, <1>3

\* The counters of the lines and the stock ledger agree, whatever overlaps,
\* fails or commits half way (receive_goods, process_return).
THEOREM CountersCorrect == Spec => []CountersMatchStock
<1>1. AllInv => CountersMatchStock
  <2> SUFFICES ASSUME AllInv, NEW i \in Items
               PROVE  /\ line[i].received <= booked[i].in /\ line[i].returned <= booked[i].out
                      /\ WholeDocuments /\ line[i].live => line[i].received = booked[i].in
                      /\ OneAtATime => booked[i].out = SentBack(i) /\ line[i].returned = SentBack(i)
                      /\ OneAtATime /\ ~ scenario.repeats => SentBack(i) <= booked[i].in
                      /\ WholeDocuments /\ ~ scenario.repeats =>
                           booked[i].in - booked[i].out <= line[i].quantity
    BY DEF CountersMatchStock
  <2>1. Covered(i) /\ (OneAtATime => Settled(i))
    BY DEF AllInv, IInv, Counting, Orderly
  <2>2. line[i].received \in Nat /\ line[i].returned \in Nat /\ booked[i].in \in Nat
    BY DEF AllInv, IInv, TypeOK, Line
  <2>3. OneAtATime /\ ~ scenario.repeats => SentBack(i) <= booked[i].in
    BY <2>1, <2>2 DEF Covered, Settled
  <2> QED
    BY <2>1, <2>3 DEF Covered, Settled
<1> QED
  BY <1>1, AllInvInductive, PTL DEF Spec

\* A fully received order has no line short of its quantity, and goods that came
\* in stay attached to a live line of an order that is not cancelled
\* (receive_goods, cancel_order, amend_order, update_order).
THEOREM NothingLost == Spec => []NothingDropped
<1>1. AllInv => NothingDropped
  BY DEF AllInv, Orderly, Settled, Early, Complete, NothingDropped
<1> QED
  BY <1>1, AllInvInductive, PTL DEF Spec

----------------------------------------------------------------------------
(* Sourcing, which comes before: Sourcing with rows of its own, for any      *)
(* suppliers, contacts, requests, quotations, orders and wishes.             *)

\* Two orders that one quotation was turned into are one, or one of them is
\* cancelled; only approved quotations are turned into orders; a closed request
\* is decided; and no deleted supplier is in a paper.
OneOrder ==
  \A o, p \in Orders, q \in Quotes :
    o \in Source!Converted(q) /\ p \in Source!Converted(q) => o = p
FromApproved ==
  \A q \in Quotes : Source!Converted(q) # {} => quote[q].status = "Approved"
ClosedDecided ==
  \A r \in Rfqs : rfq[r] = "Closed" =>
    /\ \E q \in Source!QuotesOf(r) : quote[q].status = "Approved"
    /\ \A q \in Source!QuotesOf(r) : quote[q].status \notin Source!Open
DeletedNowhere ==
  \A s \in Suppliers : supplier[s] = "Deleted" =>
    /\ \A o \in Orders : purchase[o].of # s
    /\ \A q \in Quotes : quote[q].of # s
    /\ \A r \in Rfqs : invited[r][s] = 0

\* What a handler of contacts that is at work holds: the lock, and for a
\* contact to be made primary all that are primary so far.
Holding(t) ==
  desk[t] # Source!Idle =>
    /\ mutex = t /\ desk[t].of \in Suppliers /\ desk[t].contact \in Contacts
    /\ supplier[desk[t].of] # "none"
    /\ desk[t].primary => Source!Primary(desk[t].of) \subseteq desk[t].clears \cup {desk[t].contact}

\* A supplier that is not there has no contact, and nobody two primary ones.
ContactsRight ==
  \A s \in Suppliers :
    /\ supplier[s] = "none" => Source!ContactsOf(s) = {}
    /\ \A c, d \in Source!Primary(s) : c = d

PapersInv == OneOrder /\ FromApproved /\ ClosedDecided /\ DeletedNowhere
PeopleInv == (\A t \in Tasks : Holding(t)) /\ ContactsRight
SourceInv == Source!TypeOK /\ PapersInv /\ PeopleInv

\* The mark of nothing is no row.
LEMMA SourceNone ==
  ASSUME Source!SourcingAssumption
  PROVE  /\ "none" \notin Suppliers /\ "none" \notin Contacts /\ "none" \notin Rfqs
         /\ "none" \notin Quotes /\ "none" \notin Orders /\ "none" \notin Tasks
BY DEF Source!SourcingAssumption, Source!Rows, Source!Missing

\* The types of the rows.
LEMMA SourceTypes ==
  ASSUME Source!TypeOK
  PROVE  /\ supplier \in [Suppliers -> {"none", "Active", "Inactive", "Blacklisted", "Deleted"}]
         /\ contact \in [Contacts -> [of: Suppliers \cup {"none"}, primary: BOOLEAN]]
         /\ rfq \in [Rfqs -> {"none", "Draft", "Issued", "Closed", "Cancelled"}]
         /\ invited \in [Rfqs -> [Suppliers -> 0..2]]
         /\ quote \in [Quotes -> [status: {"none", "Draft", "Submitted", "Approved", "Rejected",
                                           "Withdrawn"},
                                  of: Suppliers \cup {"none"}, rfq: Rfqs \cup {"none"}]]
         /\ purchase \in [Orders -> [status: {"none", "Live", "Received", "Cancelled"},
                                     of: Suppliers \cup {"none"}, quote: Quotes \cup {"none"},
                                     converted: BOOLEAN]]
         /\ desk \in [Tasks -> [of: Suppliers \cup {"none"}, contact: Contacts \cup {"none"},
                                new: BOOLEAN, primary: BOOLEAN, clears: SUBSET Contacts]]
BY DEF Source!TypeOK, Source!Missing, Source!Open

\* No supplier, no paper, and every handler at rest.
LEMMA SourceInit == ASSUME Source!SourcingAssumption, Source!Init PROVE SourceInv
<1>1. /\ supplier = [s \in Suppliers |-> "none"]
      /\ contact = [c \in Contacts |-> Source!NoContact]
      /\ rfq = [r \in Rfqs |-> "none"]
      /\ invited = [r \in Rfqs |-> [s \in Suppliers |-> 0]]
      /\ quote = [q \in Quotes |-> Source!NoQuote]
      /\ purchase = [o \in Orders |-> Source!NoOrder]
      /\ mutex = "none" /\ desk = [t \in Tasks |-> Source!Idle] /\ wanted \in Wishes
  BY DEF Source!Init, Source!Missing
<1>2. Source!TypeOK
  BY <1>1 DEF Source!TypeOK, Source!Missing, Source!NoContact, Source!NoQuote, Source!NoOrder,
              Source!Idle
<1>3. \A q \in Quotes : Source!OrdersFrom(q) = {}
  BY <1>1, SourceNone DEF Source!OrdersFrom, Source!NoOrder, Source!Missing
<1>4. OneOrder /\ FromApproved
  BY <1>3 DEF OneOrder, FromApproved, Source!Converted
<1>5. ClosedDecided /\ DeletedNowhere
  BY <1>1 DEF ClosedDecided, DeletedNowhere
<1>6. \A t \in Tasks : Holding(t)
  BY <1>1 DEF Holding
<1>7. \A s \in Suppliers : Source!ContactsOf(s) = {}
  BY <1>1, SourceNone DEF Source!ContactsOf, Source!NoContact, Source!Missing
<1>8. ContactsRight
  BY <1>7 DEF ContactsRight, Source!Primary
<1> QED
  BY <1>2, <1>4, <1>5, <1>6, <1>8 DEF SourceInv, PapersInv, PeopleInv

\* A step that touches no contact, handler of contacts, or supplier that is
\* not there.
LEMMA PeopleStay ==
  ASSUME PeopleInv, contact' = contact, mutex' = mutex, desk' = desk,
         \A s \in Suppliers : (supplier'[s] = "none" <=> supplier[s] = "none")
  PROVE  PeopleInv'
<1>1. \A s : Source!ContactsOf(s)' = Source!ContactsOf(s) /\ Source!Primary(s)' = Source!Primary(s)
  BY DEF Source!ContactsOf, Source!Primary
<1>2. ASSUME NEW t \in Tasks PROVE Holding(t)'
  <2>1. Holding(t)
    BY DEF PeopleInv
  <2>2. Source!Primary(desk[t].of)' = Source!Primary(desk[t].of)
    BY DEF Source!ContactsOf, Source!Primary
  <2> QED
    BY <2>1, <2>2 DEF Holding
<1>3. ContactsRight'
  BY <1>1 DEF PeopleInv, ContactsRight
<1> QED
  BY <1>2, <1>3 DEF PeopleInv

\* A step that touches no paper, and deletes no supplier.
LEMMA PapersStay ==
  ASSUME PapersInv, rfq' = rfq, invited' = invited, quote' = quote, purchase' = purchase,
         \A s \in Suppliers : supplier'[s] = "Deleted" => supplier[s] = "Deleted"
  PROVE  PapersInv'
<1>1. /\ \A q : Source!Converted(q)' = Source!Converted(q)
      /\ \A r : Source!QuotesOf(r)' = Source!QuotesOf(r)
  BY DEF Source!Converted, Source!OrdersFrom, Source!QuotesOf
<1> QED
  BY <1>1 DEF PapersInv, OneOrder, FromApproved, ClosedDecided, DeletedNowhere

----------------------------------------------------------------------------
(* Sourcing: suppliers *)

\* create_supplier: the contacts are new, and one of them is primary at most.
LEMMA SourceCreateSupplier ==
  ASSUME Source!SourcingAssumption, SourceInv, NEW s \in Suppliers, Source!CreateSupplier(s)
  PROVE  SourceInv'
<1>1. /\ supplier[s] = "none" /\ rfq' = rfq /\ invited' = invited /\ quote' = quote
      /\ purchase' = purchase /\ mutex' = mutex /\ desk' = desk /\ wanted' = wanted
  BY DEF Source!CreateSupplier, Source!papers, Source!Missing
<1>2. PICK status \in {"Active", "Inactive", "Blacklisted"} :
        supplier' = [supplier EXCEPT ![s] = status]
  BY DEF Source!CreateSupplier
<1>3. PICK C \in SUBSET (Source!ContactsOf("none") \cap wanted.rows) : \E first \in C \cup {"none"} :
        contact' = [c \in Contacts |-> IF c \in C THEN [of |-> s, primary |-> c = first]
                                       ELSE contact[c]]
  BY DEF Source!CreateSupplier, Source!Missing
<1> PICK first \in C \cup {"none"} :
      contact' = [c \in Contacts |-> IF c \in C THEN [of |-> s, primary |-> c = first]
                                     ELSE contact[c]]
  BY <1>3
<1>4. /\ supplier \in [Suppliers -> {"none", "Active", "Inactive", "Blacklisted", "Deleted"}]
      /\ contact \in [Contacts -> [of: Suppliers \cup {"none"}, primary: BOOLEAN]]
  BY SourceTypes DEF SourceInv
<1>5. /\ supplier' \in [Suppliers -> {"none", "Active", "Inactive", "Blacklisted", "Deleted"}]
      /\ \A z \in Suppliers : supplier'[z] = IF z = s THEN status ELSE supplier[z]
  BY <1>2, <1>4
<1>6. \A c \in Contacts : [of |-> s, primary |-> c = first] \in [of: Suppliers \cup {"none"}, primary: BOOLEAN]
  OBVIOUS
<1>7. /\ contact' \in [Contacts -> [of: Suppliers \cup {"none"}, primary: BOOLEAN]]
      /\ \A c \in C : c \in Contacts /\ contact[c].of = "none"
      /\ \A c \in Contacts : c \notin C => contact'[c] = contact[c]
      /\ \A c \in C : contact'[c].of = s /\ (contact'[c].primary <=> c = first)
  BY <1>3, <1>4, <1>6 DEF Source!ContactsOf
<1>8. Source!TypeOK'
  BY <1>1, <1>5, <1>7 DEF SourceInv, Source!TypeOK, Source!Missing
<1>9. PapersInv'
  BY <1>1, <1>5, PapersStay DEF SourceInv
<1>10. Source!ContactsOf(s) = {}
  BY <1>1 DEF SourceInv, PeopleInv, ContactsRight
<1>11. ASSUME NEW z \in Suppliers, z # s
       PROVE  /\ Source!ContactsOf(z)' = Source!ContactsOf(z)
              /\ Source!Primary(z)' = Source!Primary(z)
  BY <1>7, <1>11, SourceNone DEF Source!ContactsOf, Source!Primary
<1>12. \A c \in Source!Primary(s)' : c = first
  <2> SUFFICES ASSUME NEW c \in Contacts, contact'[c].of = s, contact'[c].primary
               PROVE  c = first
    BY DEF Source!ContactsOf, Source!Primary
  <2>1. CASE c \in C
    BY <1>7, <2>1
  <2>2. CASE c \notin C
    BY <1>7, <1>10, <2>2 DEF Source!ContactsOf
  <2> QED
    BY <2>1, <2>2
<1>13. ASSUME NEW t \in Tasks PROVE Holding(t)'
  <2>1. Holding(t)
    BY DEF SourceInv, PeopleInv
  <2>2. desk[t] # Source!Idle => desk[t].of # s /\ desk[t].of \in Suppliers
    BY <1>1, <2>1 DEF Holding
  <2>3. desk[t] # Source!Idle => Source!Primary(desk[t].of)' = Source!Primary(desk[t].of)
    BY <1>1, <1>7, <2>2, SourceNone DEF Source!ContactsOf, Source!Primary
  <2> QED
    BY <1>1, <1>5, <2>1, <2>2, <2>3 DEF Holding
<1>14. ContactsRight'
  <2> SUFFICES ASSUME NEW z \in Suppliers
               PROVE  /\ supplier'[z] = "none" => Source!ContactsOf(z)' = {}
                      /\ \A c, d \in Source!Primary(z)' : c = d
    BY DEF ContactsRight
  <2>1. CASE z = s
    BY <1>5, <1>12, <2>1
  <2>2. CASE z # s
    BY <1>5, <1>11, <2>2 DEF SourceInv, PeopleInv, ContactsRight
  <2> QED
    BY <2>1, <2>2
<1> QED
  BY <1>8, <1>9, <1>13, <1>14 DEF SourceInv, PeopleInv

\* activate_supplier and its siblings, and delete_supplier, which looks at
\* every paper.
LEMMA SourceStatus ==
  ASSUME Source!SourcingAssumption, SourceInv, NEW s \in Suppliers,
         Source!SetStatus(s) \/ Source!DeleteSupplier(s)
  PROVE  SourceInv'
<1>1. /\ supplier[s] \notin {"none", "Deleted"}
      /\ rfq' = rfq /\ invited' = invited /\ quote' = quote /\ purchase' = purchase
      /\ contact' = contact /\ mutex' = mutex /\ desk' = desk /\ wanted' = wanted
  BY DEF Source!SetStatus, Source!DeleteSupplier, Source!papers, Source!people, Source!Known,
         Source!Missing
<1>2. PICK status \in {"Active", "Inactive", "Blacklisted", "Deleted"} :
        /\ supplier' = [supplier EXCEPT ![s] = status]
        /\ status = "Deleted" => ~ Source!HasDependencies(s)
  BY DEF Source!SetStatus, Source!DeleteSupplier
<1>3. supplier \in [Suppliers -> {"none", "Active", "Inactive", "Blacklisted", "Deleted"}]
  BY SourceTypes DEF SourceInv
<1>4. /\ supplier' \in [Suppliers -> {"none", "Active", "Inactive", "Blacklisted", "Deleted"}]
      /\ \A z \in Suppliers : supplier'[z] = IF z = s THEN status ELSE supplier[z]
  BY <1>2, <1>3
<1>5. Source!TypeOK'
  BY <1>1, <1>4 DEF SourceInv, Source!TypeOK, Source!Missing
<1>6. PeopleInv'
  BY <1>1, <1>4, PeopleStay DEF SourceInv
<1>7. CASE status # "Deleted"
  <2>1. PapersInv'
    BY <1>1, <1>4, <1>7, PapersStay DEF SourceInv
  <2> QED
    BY <1>5, <1>6, <2>1 DEF SourceInv
<1>8. CASE status = "Deleted"
  <2>1. /\ \A o \in Orders : purchase[o].of # s
        /\ \A q \in Quotes : quote[q].of # s
        /\ \A r \in Rfqs : invited[r][s] = 0
    <3>1. \A r \in Rfqs : invited[r][s] \in 0..2
      BY SourceTypes DEF SourceInv
    <3> QED
      BY <1>2, <1>8, <3>1 DEF Source!HasDependencies
  <2>2. DeletedNowhere'
    BY <1>1, <1>4, <2>1 DEF SourceInv, PapersInv, DeletedNowhere
  <2>3. /\ \A q : Source!Converted(q)' = Source!Converted(q)
        /\ \A r : Source!QuotesOf(r)' = Source!QuotesOf(r)
    BY <1>1 DEF Source!Converted, Source!OrdersFrom, Source!QuotesOf
  <2>4. PapersInv'
    BY <1>1, <2>2, <2>3 DEF SourceInv, PapersInv, OneOrder, FromApproved, ClosedDecided
  <2> QED
    BY <1>5, <1>6, <2>4 DEF SourceInv
<1> QED
  BY <1>7, <1>8

----------------------------------------------------------------------------
(* Sourcing: contacts *)

\* add_contact and update_contact enter: nobody else is at work.
LEMMA SourceOpen ==
  ASSUME Source!SourcingAssumption, SourceInv, NEW t \in Tasks, NEW s \in Suppliers,
         NEW c \in Contacts, Source!OpenContact(t, s, c)
  PROVE  SourceInv'
<1>1. /\ desk[t] = Source!Idle /\ mutex = "none" /\ supplier[s] # "none" /\ mutex' = t
      /\ supplier' = supplier /\ contact' = contact /\ rfq' = rfq /\ invited' = invited
      /\ quote' = quote /\ purchase' = purchase /\ wanted' = wanted
  BY DEF Source!OpenContact, Source!MayEnter, Source!Known, Source!Missing, Source!papers
<1>2. PICK primary \in BOOLEAN :
        desk' = [desk EXCEPT ![t] =
          [of |-> s, contact |-> c, new |-> contact[c] = Source!NoContact, primary |-> primary,
           clears |-> IF primary THEN Source!Primary(s) \ {c} ELSE {}]]
  BY DEF Source!OpenContact
<1> DEFINE clears == IF primary THEN Source!Primary(s) \ {c} ELSE {}
           new == [of |-> s, contact |-> c, new |-> contact[c] = Source!NoContact,
                   primary |-> primary, clears |-> clears]
           Desk == [of: Suppliers \cup {"none"}, contact: Contacts \cup {"none"},
                    new: BOOLEAN, primary: BOOLEAN, clears: SUBSET Contacts]
<1>3. clears \in SUBSET Contacts
  BY DEF Source!Primary, Source!ContactsOf
<1>4. desk \in [Tasks -> Desk]
  BY SourceTypes DEF SourceInv
<1>5. primary => Source!Primary(s) \subseteq clears \cup {c}
  OBVIOUS
<1> HIDE DEF clears
<1>6. new \in Desk
  BY <1>3
<1>7. new.of = s /\ new.contact = c /\ new.primary = primary /\ new.clears = clears
  OBVIOUS
<1>8. desk' = [desk EXCEPT ![t] = new]
  BY <1>2 DEF clears
<1> HIDE DEF new, Desk
<1>9. desk' \in [Tasks -> Desk] /\ desk'[t] = new /\ \A u \in Tasks : u # t => desk'[u] = desk[u]
  BY <1>4, <1>6, <1>8
<1>10. Source!TypeOK'
  BY <1>1, <1>9 DEF SourceInv, Source!TypeOK, Source!Missing, Desk
<1>11. PapersInv'
  BY <1>1, PapersStay DEF SourceInv
<1>12. \A z : Source!ContactsOf(z)' = Source!ContactsOf(z) /\ Source!Primary(z)' = Source!Primary(z)
  BY <1>1 DEF Source!ContactsOf, Source!Primary
<1>13. ContactsRight'
  BY <1>1, <1>12 DEF SourceInv, PeopleInv, ContactsRight
<1>14. ASSUME NEW u \in Tasks PROVE Holding(u)'
  <2>1. CASE u = t
    <3>1. Source!Primary(desk[u].of)' = Source!Primary(s)
      BY <1>1, <1>7, <1>9, <2>1 DEF Source!ContactsOf, Source!Primary
    <3> QED
      BY <1>1, <1>5, <1>7, <1>9, <2>1, <3>1 DEF Holding
  <2>2. CASE u # t
    <3>1. desk[u] = Source!Idle
      BY <1>1, SourceNone DEF SourceInv, PeopleInv, Holding
    <3> QED
      BY <1>9, <2>2, <3>1 DEF Holding, Source!Idle
  <2> QED
    BY <2>1, <2>2
<1> QED
  BY <1>10, <1>11, <1>13, <1>14 DEF SourceInv, PeopleInv

\* The commit of a contact: if it becomes primary the others are so no longer.
LEMMA SourceSave ==
  ASSUME Source!SourcingAssumption, SourceInv, NEW t \in Tasks, Source!SaveContact(t)
  PROVE  SourceInv'
<1> DEFINE me == desk[t]
           Contact == [of: Suppliers \cup {"none"}, primary: BOOLEAN]
<1>1. /\ me # Source!Idle /\ desk' = [desk EXCEPT ![t] = Source!Idle] /\ mutex' = "none"
      /\ supplier' = supplier /\ rfq' = rfq /\ invited' = invited
      /\ quote' = quote /\ purchase' = purchase /\ wanted' = wanted
  BY DEF Source!SaveContact, Source!Missing, Source!papers
<1>2. \/ contact' = contact
      \/ contact' = [c \in Contacts |-> IF c = me.contact
                                        THEN [of |-> me.of, primary |-> me.primary]
                                        ELSE [contact[c] EXCEPT !.primary = @ /\ c \notin me.clears]]
  BY DEF Source!SaveContact
<1>3. /\ mutex = t /\ me.of \in Suppliers /\ me.contact \in Contacts /\ supplier[me.of] # "none"
      /\ me.primary => Source!Primary(me.of) \subseteq me.clears \cup {me.contact}
  BY <1>1 DEF SourceInv, PeopleInv, Holding
<1>4. /\ contact \in [Contacts -> Contact] /\ me.primary \in BOOLEAN
      /\ desk \in [Tasks -> [of: Suppliers \cup {"none"}, contact: Contacts \cup {"none"},
                             new: BOOLEAN, primary: BOOLEAN, clears: SUBSET Contacts]]
  BY SourceTypes DEF SourceInv
<1> HIDE DEF me
<1>5. \A c \in Contacts :
        /\ [contact[c] EXCEPT !.primary = @ /\ c \notin me.clears] \in Contact
        /\ [contact[c] EXCEPT !.primary = @ /\ c \notin me.clears].of = contact[c].of
        /\ [contact[c] EXCEPT !.primary = @ /\ c \notin me.clears].primary
             <=> contact[c].primary /\ c \notin me.clears
  BY <1>4
<1>6. [of |-> me.of, primary |-> me.primary] \in Contact
  BY <1>3, <1>4
<1> HIDE DEF Contact
<1>7. contact' \in [Contacts -> Contact]
  BY <1>2, <1>4, <1>5, <1>6
<1>8. \/ contact' = contact
      \/ /\ contact'[me.contact].of = me.of /\ (contact'[me.contact].primary <=> me.primary)
         /\ \A c \in Contacts \ {me.contact} :
              /\ contact'[c].of = contact[c].of
              /\ contact'[c].primary <=> contact[c].primary /\ c \notin me.clears
  <2> SUFFICES ASSUME contact' # contact
               PROVE  /\ contact'[me.contact].of = me.of
                      /\ contact'[me.contact].primary <=> me.primary
                      /\ \A c \in Contacts \ {me.contact} :
                           /\ contact'[c].of = contact[c].of
                           /\ contact'[c].primary <=> contact[c].primary /\ c \notin me.clears
    OBVIOUS
  <2>1. contact'[me.contact] = [of |-> me.of, primary |-> me.primary]
    BY <1>2, <1>3
  <2>2. contact'[me.contact].of = me.of /\ (contact'[me.contact].primary <=> me.primary)
    BY <2>1
  <2>3. ASSUME NEW c \in Contacts \ {me.contact}
        PROVE  contact'[c] = [contact[c] EXCEPT !.primary = @ /\ c \notin me.clears]
    BY <1>2
  <2>4. ASSUME NEW c \in Contacts \ {me.contact}
        PROVE  /\ contact'[c].of = contact[c].of
               /\ contact'[c].primary <=> contact[c].primary /\ c \notin me.clears
    <3> DEFINE cleared == [contact[c] EXCEPT !.primary = @ /\ c \notin me.clears]
    <3>1. contact'[c] = cleared
      BY <2>3
    <3>2. /\ cleared.of = contact[c].of
          /\ cleared.primary <=> contact[c].primary /\ c \notin me.clears
      BY <1>5
    <3> HIDE DEF cleared
    <3> QED
      BY <3>1, <3>2, Zenon
  <2> QED
    BY <2>2, <2>4, Zenon
<1>9. desk' \in [Tasks -> [of: Suppliers \cup {"none"}, contact: Contacts \cup {"none"},
                           new: BOOLEAN, primary: BOOLEAN, clears: SUBSET Contacts]]
  BY <1>1, <1>4 DEF Source!Idle, Source!Missing
<1>10. Source!TypeOK'
  BY <1>1, <1>7, <1>9 DEF SourceInv, Source!TypeOK, Source!Missing, Contact
<1>11. PapersInv'
  BY <1>1, PapersStay DEF SourceInv
<1>12. ASSUME NEW u \in Tasks PROVE Holding(u)'
  <2>1. desk'[u] = Source!Idle
    <3>1. u # t => desk[u] = Source!Idle
      BY <1>3 DEF SourceInv, PeopleInv, Holding
    <3> QED
      BY <1>1, <1>4, <3>1
  <2> QED
    BY <2>1 DEF Holding, Source!Idle
<1>13. ASSUME NEW s \in Suppliers
       PROVE  /\ supplier[s] = "none" => Source!ContactsOf(s)' = {}
              /\ \A c, d \in Source!Primary(s)' : c = d
  <2>1. /\ supplier[s] = "none" => Source!ContactsOf(s) = {}
        /\ \A c, d \in Source!Primary(s) : c = d
    BY DEF SourceInv, PeopleInv, ContactsRight
  <2>2. CASE contact' = contact
    BY <2>1, <2>2 DEF Source!ContactsOf, Source!Primary
  <2>3. CASE contact' # contact
    <3>1. supplier[s] = "none" => Source!ContactsOf(s)' = {}
      BY <1>3, <1>8, <2>1, <2>3 DEF Source!ContactsOf
    <3>2. ASSUME NEW c \in Source!Primary(s)', c # me.contact
          PROVE  c \in Source!Primary(s) /\ c \notin me.clears
      BY <1>8, <2>3, <3>2 DEF Source!ContactsOf, Source!Primary
    <3>3. ASSUME me.contact \in Source!Primary(s)' PROVE s = me.of /\ me.primary
      BY <1>3, <1>8, <2>3, <3>3 DEF Source!ContactsOf, Source!Primary
    <3>4. ASSUME NEW c \in Source!Primary(s)', NEW d \in Source!Primary(s)' PROVE c = d
      <4>1. CASE me.contact \notin Source!Primary(s)'
        BY <2>1, <3>2, <4>1
      <4>2. CASE me.contact \in Source!Primary(s)'
        <5>1. Source!Primary(s) \subseteq me.clears \cup {me.contact}
          BY <1>3, <3>3, <4>2
        <5> QED
          BY <3>2, <5>1
      <4> QED
        BY <4>1, <4>2
    <3> QED
      BY <3>1, <3>4
  <2> QED
    BY <2>2, <2>3
<1>14. ContactsRight'
  BY <1>1, <1>13 DEF ContactsRight
<1> QED
  BY <1>10, <1>11, <1>12, <1>14 DEF SourceInv, PeopleInv

\* delete_contact: whoever is primary then was so before.
LEMMA SourceDeleteContact ==
  ASSUME Source!SourcingAssumption, SourceInv, NEW c \in Contacts, Source!DeleteContact(c)
  PROVE  SourceInv'
<1>1. /\ contact' = [contact EXCEPT ![c] = Source!NoContact]
      /\ supplier' = supplier /\ rfq' = rfq /\ invited' = invited /\ mutex' = mutex /\ desk' = desk
      /\ quote' = quote /\ purchase' = purchase /\ wanted' = wanted
  BY DEF Source!DeleteContact, Source!papers
<1>2. contact \in [Contacts -> [of: Suppliers \cup {"none"}, primary: BOOLEAN]]
  BY SourceTypes DEF SourceInv
<1>3. /\ contact' \in [Contacts -> [of: Suppliers \cup {"none"}, primary: BOOLEAN]]
      /\ contact'[c].of = "none" /\ \A d \in Contacts : d # c => contact'[d] = contact[d]
  BY <1>1, <1>2 DEF Source!NoContact, Source!Missing
<1>4. Source!TypeOK'
  BY <1>1, <1>3 DEF SourceInv, Source!TypeOK, Source!Missing
<1>5. PapersInv'
  BY <1>1, PapersStay DEF SourceInv
<1>6. \A s \in Suppliers : /\ Source!ContactsOf(s)' \subseteq Source!ContactsOf(s)
                           /\ Source!Primary(s)' \subseteq Source!Primary(s)
  BY <1>3, SourceNone DEF Source!ContactsOf, Source!Primary
<1>7. ASSUME NEW t \in Tasks PROVE Holding(t)'
  <2>1. Holding(t)
    BY DEF SourceInv, PeopleInv
  <2>2. desk[t] # Source!Idle =>
          Source!Primary(desk[t].of)' \subseteq Source!Primary(desk[t].of)
    BY <1>1, <1>3, <2>1, SourceNone DEF Holding, Source!ContactsOf, Source!Primary
  <2> QED
    BY <1>1, <2>1, <2>2 DEF Holding
<1>8. ContactsRight'
  BY <1>1, <1>6 DEF SourceInv, PeopleInv, ContactsRight
<1> QED
  BY <1>4, <1>5, <1>7, <1>8 DEF SourceInv, PeopleInv

----------------------------------------------------------------------------
(* Sourcing: requests and quotations *)

\* create_rfq, issue_rfq, cancel_rfq, invite_supplier, remove_supplier: nobody
\* is invited who is deleted, and no request is closed.
LEMMA SourceRfq ==
  ASSUME Source!SourcingAssumption, SourceInv, NEW r \in Rfqs,
         \/ Source!CreateRfq(r) \/ Source!ChangeRfq(r)
         \/ \E s \in Suppliers : Source!Invite(r, s)
  PROVE  SourceInv'
<1>1. /\ supplier' = supplier /\ contact' = contact /\ mutex' = mutex /\ desk' = desk
      /\ quote' = quote /\ purchase' = purchase /\ wanted' = wanted
  BY DEF Source!CreateRfq, Source!ChangeRfq, Source!Invite, Source!people
<1>2. /\ rfq \in [Rfqs -> {"none", "Draft", "Issued", "Closed", "Cancelled"}]
      /\ invited \in [Rfqs -> [Suppliers -> 0..2]]
  BY SourceTypes DEF SourceInv
<1>3. /\ rfq' \in [Rfqs -> {"none", "Draft", "Issued", "Closed", "Cancelled"}]
      /\ \A z \in Rfqs : rfq'[z] = "Closed" => rfq[z] = "Closed"
  BY <1>2 DEF Source!CreateRfq, Source!ChangeRfq, Source!Invite
<1>4. /\ invited' \in [Rfqs -> [Suppliers -> 0..2]]
      /\ \A z \in Rfqs, s \in Suppliers : supplier[s] = "Deleted" /\ invited[z][s] = 0 => invited'[z][s] = 0
  <2>1. CASE Source!CreateRfq(r)
    <3>1. PICK listed \in [Suppliers -> 0..2] :
            invited' = [invited EXCEPT ![r] = [s \in Suppliers |->
                          IF supplier[s] = "Active" THEN listed[s] ELSE 0]]
      BY <2>1 DEF Source!CreateRfq
    <3>2. [s \in Suppliers |-> IF supplier[s] = "Active" THEN listed[s] ELSE 0] \in [Suppliers -> 0..2]
      OBVIOUS
    <3> QED
      BY <1>2, <3>1, <3>2
  <2>2. CASE Source!ChangeRfq(r)
    BY <1>2, <2>2 DEF Source!ChangeRfq
  <2>3. ASSUME NEW s \in Suppliers, Source!Invite(r, s)
        PROVE  /\ invited' \in [Rfqs -> [Suppliers -> 0..2]]
               /\ \A z \in Rfqs, y \in Suppliers :
                    supplier[y] = "Deleted" /\ invited[z][y] = 0 => invited'[z][y] = 0
    <3>1. PICK n \in {0, 1} : /\ invited' = [invited EXCEPT ![r][s] = n]
                              /\ n = 1 => supplier[s] = "Active"
      BY <2>3 DEF Source!Invite
    <3>2. invited[r] \in [Suppliers -> 0..2]
      BY <1>2
    <3>3. invited' = [invited EXCEPT ![r] = [invited[r] EXCEPT ![s] = n]]
      BY <3>1
    <3>4. [invited[r] EXCEPT ![s] = n] \in [Suppliers -> 0..2]
      BY <3>2
    <3> QED
      BY <1>2, <3>1, <3>2, <3>3, <3>4
  <2> QED
    BY <2>1, <2>2, <2>3
<1>5. Source!TypeOK'
  BY <1>1, <1>3, <1>4 DEF SourceInv, Source!TypeOK, Source!Missing
<1>6. PeopleInv'
  BY <1>1, PeopleStay DEF SourceInv
<1>7. /\ \A q : Source!Converted(q)' = Source!Converted(q)
      /\ \A z : Source!QuotesOf(z)' = Source!QuotesOf(z)
  BY <1>1 DEF Source!Converted, Source!OrdersFrom, Source!QuotesOf
<1>8. OneOrder' /\ FromApproved'
  BY <1>1, <1>7 DEF SourceInv, PapersInv, OneOrder, FromApproved
<1>9. ClosedDecided'
  BY <1>1, <1>3, <1>7 DEF SourceInv, PapersInv, ClosedDecided
<1>10. DeletedNowhere'
  BY <1>1, <1>4 DEF SourceInv, PapersInv, DeletedNowhere
<1> QED
  BY <1>5, <1>6, <1>8, <1>9, <1>10 DEF SourceInv, PapersInv

\* What a step may do to the quotations: approved ones stay, a closed request
\* keeps its own decided and gets no other.
LEMMA QuotesChange ==
  ASSUME SourceInv, purchase' = purchase, invited' = invited, supplier' = supplier,
         \A q \in Quotes : quote[q].status = "Approved" =>
            quote'[q].status = "Approved" /\ quote'[q].rfq = quote[q].rfq,
         \A q \in Quotes, r \in Rfqs : rfq'[r] = "Closed" /\ rfq[r] = "Closed" /\ quote'[q].rfq = r =>
            /\ quote[q].rfq = r
            /\ quote[q].status \notin Source!Open => quote'[q].status \notin Source!Open,
         \A r \in Rfqs : rfq'[r] = "Closed" /\ rfq[r] # "Closed" =>
            /\ \E q \in Quotes : quote'[q].rfq = r /\ quote'[q].status = "Approved"
            /\ \A q \in Quotes : quote'[q].rfq = r => quote'[q].status \notin Source!Open,
         \A q \in Quotes, s \in Suppliers :
            supplier[s] = "Deleted" /\ quote'[q].of = s => quote[q].of = s
  PROVE  PapersInv'
<1>1. \A q : Source!Converted(q)' = Source!Converted(q)
  BY DEF Source!Converted, Source!OrdersFrom
<1>2. OneOrder'
  BY <1>1 DEF SourceInv, PapersInv, OneOrder
<1>3. FromApproved'
  BY <1>1 DEF SourceInv, PapersInv, FromApproved
<1>4. ClosedDecided'
  <2> SUFFICES ASSUME NEW r \in Rfqs, rfq'[r] = "Closed"
               PROVE  /\ \E q \in Quotes : quote'[q].rfq = r /\ quote'[q].status = "Approved"
                      /\ \A q \in Quotes : quote'[q].rfq = r => quote'[q].status \notin Source!Open
    BY DEF ClosedDecided, Source!QuotesOf, Source!Open
  <2>1. CASE rfq[r] = "Closed"
    <3>1. /\ \E q \in Quotes : quote[q].rfq = r /\ quote[q].status = "Approved"
          /\ \A q \in Quotes : quote[q].rfq = r => quote[q].status \notin Source!Open
      BY <2>1 DEF SourceInv, PapersInv, ClosedDecided, Source!QuotesOf
    <3> QED
      BY <2>1, <3>1
  <2>2. CASE rfq[r] # "Closed"
    BY <2>2
  <2> QED
    BY <2>1, <2>2
<1>5. DeletedNowhere'
  BY DEF SourceInv, PapersInv, DeletedNowhere
<1> QED
  BY <1>2, <1>3, <1>4, <1>5 DEF PapersInv

\* award_quotation closes the request: one quotation approved, none left open.
LEMMA SourceAward ==
  ASSUME Source!SourcingAssumption, SourceInv, NEW r \in Rfqs, NEW q \in Quotes,
         Source!AwardQuotation(r, q)
  PROVE  SourceInv'
<1> DEFINE Quote == [status: {"none", "Draft", "Submitted", "Approved", "Rejected", "Withdrawn"},
                     of: Suppliers \cup {"none"}, rfq: Rfqs \cup {"none"}]
           to(p) == IF p = q THEN "Approved"
                    ELSE IF p \in Source!QuotesOf(r) /\ quote[p].status \in Source!Open
                         THEN "Rejected" ELSE quote[p].status
<1>1. /\ rfq[r] \in {"Draft", "Issued"} /\ quote[q].rfq = r /\ quote[q].status \in Source!Open
      /\ Source!Award(r, q) /\ rfq' = [rfq EXCEPT ![r] = "Closed"]
      /\ supplier' = supplier /\ contact' = contact /\ mutex' = mutex /\ desk' = desk
      /\ invited' = invited /\ purchase' = purchase /\ wanted' = wanted
  BY DEF Source!AwardQuotation, Source!people
<1>2. /\ rfq \in [Rfqs -> {"none", "Draft", "Issued", "Closed", "Cancelled"}]
      /\ quote \in [Quotes -> Quote]
  BY SourceTypes DEF SourceInv
<1>3. ASSUME NEW p \in Quotes
      PROVE  /\ quote'[p] \in Quote /\ quote'[p].status = to(p)
             /\ quote'[p].of = quote[p].of /\ quote'[p].rfq = quote[p].rfq
  <2>1. quote'[p] = IF p = q THEN [quote[p] EXCEPT !.status = "Approved"]
                    ELSE IF p \in Source!QuotesOf(r) /\ quote[p].status \in Source!Open
                         THEN [quote[p] EXCEPT !.status = "Rejected"] ELSE quote[p]
    BY <1>1 DEF Source!Award
  <2>2. quote[p] \in Quote
    BY <1>2
  <2> QED
    BY <2>1, <2>2
<1>4. quote' = [p \in Quotes |-> quote'[p]]
  BY <1>1 DEF Source!Award
<1> HIDE DEF Quote
<1>5. quote' \in [Quotes -> Quote]
  BY <1>3, <1>4
<1>6. rfq' \in [Rfqs -> {"none", "Draft", "Issued", "Closed", "Cancelled"}]
  BY <1>1, <1>2
<1>7. Source!TypeOK'
  BY <1>1, <1>5, <1>6 DEF SourceInv, Source!TypeOK, Source!Missing, Source!Open, Quote
<1>8. PeopleInv'
  BY <1>1, PeopleStay DEF SourceInv
<1>9. \A p \in Quotes : quote[p].status = "Approved" =>
        quote'[p].status = "Approved" /\ quote'[p].rfq = quote[p].rfq
  BY <1>3 DEF Source!Open
<1>10. \A p \in Quotes, z \in Rfqs : rfq'[z] = "Closed" /\ rfq[z] = "Closed" /\ quote'[p].rfq = z =>
        /\ quote[p].rfq = z
        /\ quote[p].status \notin Source!Open => quote'[p].status \notin Source!Open
  BY <1>1, <1>3 DEF Source!Open
<1>11. \A p \in Quotes : quote'[p].rfq = r => quote'[p].status \notin Source!Open
  BY <1>3 DEF Source!Open, Source!QuotesOf
<1>12. quote'[q].rfq = r /\ quote'[q].status = "Approved"
  BY <1>1, <1>3
<1>13. \A z \in Rfqs : rfq'[z] = "Closed" /\ rfq[z] # "Closed" =>
        /\ \E p \in Quotes : quote'[p].rfq = z /\ quote'[p].status = "Approved"
        /\ \A p \in Quotes : quote'[p].rfq = z => quote'[p].status \notin Source!Open
  <2>1. \A z \in Rfqs : rfq'[z] = "Closed" /\ rfq[z] # "Closed" => z = r
    BY <1>1, <1>2
  <2> QED
    BY <1>11, <1>12, <2>1
<1>14. \A p \in Quotes, s \in Suppliers :
         supplier[s] = "Deleted" /\ quote'[p].of = s => quote[p].of = s
  BY <1>3
<1>15. PapersInv'
  BY <1>1, <1>9, <1>10, <1>13, <1>14, QuotesChange
<1> QED
  BY <1>7, <1>8, <1>15 DEF SourceInv

\* create_quotation for an open request, and the decisions about a quotation
\* that is open.
LEMMA SourceQuote ==
  ASSUME Source!SourcingAssumption, SourceInv, NEW q \in Quotes,
         \/ \E s \in Suppliers, r \in Rfqs \cup {"none"} : Source!CreateQuotation(q, s, r)
         \/ Source!SubmitQuotation(q) \/ Source!WithdrawQuotation(q)
         \/ Source!ApproveQuotation(q) \/ Source!RejectQuotation(q)
  PROVE  SourceInv'
<1> DEFINE Quote == [status: {"none", "Draft", "Submitted", "Approved", "Rejected", "Withdrawn"},
                     of: Suppliers \cup {"none"}, rfq: Rfqs \cup {"none"}]
<1>1. /\ supplier' = supplier /\ contact' = contact /\ mutex' = mutex /\ desk' = desk
      /\ rfq' = rfq /\ invited' = invited /\ purchase' = purchase /\ wanted' = wanted
  BY DEF Source!CreateQuotation, Source!SubmitQuotation, Source!WithdrawQuotation,
         Source!ApproveQuotation, Source!RejectQuotation, Source!Decide, Source!people
<1>2. quote \in [Quotes -> Quote]
  BY SourceTypes DEF SourceInv
<1>3. quote[q].status # "Approved" /\ quote' \in [Quotes -> Quote]
      /\ (\A p \in Quotes : p # q => quote'[p] = quote[p])
      /\ \/ /\ quote'[q].of = quote[q].of /\ quote'[q].rfq = quote[q].rfq
            /\ quote[q].status \in Source!Open
         \/ \E s \in Suppliers, r \in Rfqs \cup {"none"} :
              /\ quote'[q].of = s /\ quote'[q].rfq = r /\ supplier[s] = "Active"
              /\ r # "none" => rfq[r] \in {"Draft", "Issued"}
  <2>1. ASSUME NEW s \in Suppliers, NEW r \in Rfqs \cup {"none"}, Source!CreateQuotation(q, s, r)
        PROVE  /\ quote[q].status # "Approved" /\ quote' \in [Quotes -> Quote]
               /\ \A p \in Quotes : p # q => quote'[p] = quote[p]
               /\ quote'[q].of = s /\ quote'[q].rfq = r /\ supplier[s] = "Active"
               /\ r # "none" => rfq[r] \in {"Draft", "Issued"}
    <3> DEFINE new == [status |-> "Draft", of |-> s, rfq |-> r]
    <3>1. /\ quote[q] = Source!NoQuote /\ supplier[s] = "Active" /\ quote' = [quote EXCEPT ![q] = new]
          /\ r # "none" => rfq[r] \in {"Draft", "Issued"}
      BY <2>1 DEF Source!CreateQuotation, Source!Missing
    <3>2. new \in Quote /\ new.of = s /\ new.rfq = r
      OBVIOUS
    <3> HIDE DEF new, Quote
    <3>3. quote' \in [Quotes -> Quote] /\ quote'[q] = new /\ \A p \in Quotes : p # q => quote'[p] = quote[p]
      BY <1>2, <3>1, <3>2
    <3> QED
      BY <3>1, <3>2, <3>3 DEF Source!NoQuote, Source!Missing
  <2>2. ASSUME NEW op, NEW from, NEW to \in {"Submitted", "Withdrawn", "Approved", "Rejected"},
               from \subseteq Source!Open, Source!Decide(op, q, from, to)
        PROVE  /\ quote[q].status # "Approved" /\ quote' \in [Quotes -> Quote]
               /\ \A p \in Quotes : p # q => quote'[p] = quote[p]
               /\ quote'[q].of = quote[q].of /\ quote'[q].rfq = quote[q].rfq
               /\ quote[q].status \in Source!Open
    BY <1>2, <2>2 DEF Source!Decide, Source!Open
  <2>3. CASE \E op, from : \E to \in {"Submitted", "Withdrawn", "Approved", "Rejected"} :
               from \subseteq Source!Open /\ Source!Decide(op, q, from, to)
    BY <2>2, <2>3
  <2>4. \/ \E op, from : \E to \in {"Submitted", "Withdrawn", "Approved", "Rejected"} :
             from \subseteq Source!Open /\ Source!Decide(op, q, from, to)
        \/ \E s \in Suppliers, r \in Rfqs \cup {"none"} : Source!CreateQuotation(q, s, r)
    BY DEF Source!SubmitQuotation, Source!WithdrawQuotation, Source!ApproveQuotation,
           Source!RejectQuotation, Source!Open
  <2> QED
    BY <2>1, <2>3, <2>4
<1> HIDE DEF Quote
<1>4. Source!TypeOK'
  BY <1>1, <1>3 DEF SourceInv, Source!TypeOK, Source!Missing, Source!Open, Quote
<1>5. PeopleInv'
  BY <1>1, PeopleStay DEF SourceInv
<1>6. \A p \in Quotes : quote[p].status = "Approved" =>
        quote'[p].status = "Approved" /\ quote'[p].rfq = quote[p].rfq
  BY <1>3
<1>7. ASSUME NEW p \in Quotes, NEW z \in Rfqs, rfq[z] = "Closed", quote'[p].rfq = z
      PROVE  /\ quote[p].rfq = z
             /\ quote[p].status \notin Source!Open => quote'[p].status \notin Source!Open
  BY <1>3, <1>7, SourceNone
<1>8. \A p \in Quotes, s \in Suppliers :
         supplier[s] = "Deleted" /\ quote'[p].of = s => quote[p].of = s
  BY <1>3
<1>9. PapersInv'
  BY <1>1, <1>6, <1>7, <1>8, QuotesChange
<1> QED
  BY <1>4, <1>5, <1>9 DEF SourceInv

----------------------------------------------------------------------------
(* Sourcing: orders *)

\* A new order of a supplier that is not deleted, which is the one its
\* quotation is turned into or none that a quotation is turned into.
LEMMA NewOrder ==
  ASSUME Source!SourcingAssumption, SourceInv, NEW o \in Orders,
         NEW s \in Suppliers \cup {"none"}, NEW q \in Quotes \cup {"none"}, NEW converted \in BOOLEAN,
         supplier[s] # "Deleted", purchase[o] = Source!NoOrder,
         purchase' = [purchase EXCEPT ![o] =
           [status |-> "Live", of |-> s, quote |-> q, converted |-> converted]],
         supplier' = supplier, contact' = contact, mutex' = mutex, desk' = desk,
         rfq' = rfq, invited' = invited, quote' = quote, wanted' = wanted,
         converted => /\ q \in Quotes /\ quote[q].status = "Approved"
                      /\ Source!OrdersFrom(q) = {}
  PROVE  SourceInv'
<1> DEFINE new == [status |-> "Live", of |-> s, quote |-> q, converted |-> converted]
           Order == [status: {"none", "Live", "Received", "Cancelled"},
                     of: Suppliers \cup {"none"}, quote: Quotes \cup {"none"},
                     converted: BOOLEAN]
<1>2. purchase \in [Orders -> Order]
  BY SourceTypes DEF SourceInv
<1>3. /\ new \in Order /\ new.status = "Live" /\ new.of = s /\ new.quote = q
      /\ new.converted = converted
  OBVIOUS
<1>4. /\ purchase' \in [Orders -> Order] /\ purchase'[o] = new
      /\ \A p \in Orders : p # o => purchase'[p] = purchase[p]
  <2> HIDE DEF Order
  <2> QED
    BY <1>2, <1>3
<1> HIDE DEF new, Order
<1>5. Source!TypeOK'
  BY <1>4 DEF SourceInv, Source!TypeOK, Source!Missing, Order
<1>6. PeopleInv'
  BY PeopleStay DEF SourceInv
<1>7. \A p \in Quotes :
         Source!Converted(p)' = IF converted /\ p = q THEN {o} ELSE Source!Converted(p)
  <2>1. \A p \in Quotes : o \notin Source!Converted(p)
    BY DEF Source!Converted, Source!OrdersFrom, Source!NoOrder, Source!Missing
  <2>2. ASSUME NEW p \in Quotes, converted, p = q PROVE Source!Converted(p)' = {o}
    BY <1>3, <1>4, <2>2 DEF Source!Converted, Source!OrdersFrom
  <2>3. ASSUME NEW p \in Quotes, ~ (converted /\ p = q)
        PROVE  Source!Converted(p)' = Source!Converted(p)
    BY <1>3, <1>4, <2>1, <2>3 DEF Source!Converted, Source!OrdersFrom
  <2> QED
    BY <2>2, <2>3
<1>8. OneOrder'
  BY <1>7 DEF SourceInv, PapersInv, OneOrder
<1>9. FromApproved'
  BY <1>7 DEF SourceInv, PapersInv, FromApproved
<1>10. ClosedDecided'
  <2>1. \A r : Source!QuotesOf(r)' = Source!QuotesOf(r)
    BY DEF Source!QuotesOf
  <2> QED
    BY <2>1 DEF SourceInv, PapersInv, ClosedDecided
<1>11. DeletedNowhere'
  BY <1>3, <1>4 DEF SourceInv, PapersInv, DeletedNowhere
<1> QED
  BY <1>5, <1>6, <1>8, <1>9, <1>10, <1>11 DEF SourceInv, PapersInv

\* create_from_quotation looks for an order that is not cancelled.
LEMMA SourceOrder ==
  ASSUME Source!SourcingAssumption, SourceInv, NEW o \in Orders, NEW q \in Quotes,
         Source!OrderQuotation(o, q)
  PROVE  SourceInv'
<1>1. /\ quote[q].status = "Approved" /\ Source!OrdersFrom(q) = {}
      /\ supplier[quote[q].of] # "Deleted" /\ purchase[o] = Source!NoOrder
      /\ purchase' = [purchase EXCEPT ![o] =
           [status |-> "Live", of |-> quote[q].of, quote |-> q, converted |-> TRUE]]
      /\ supplier' = supplier /\ contact' = contact /\ mutex' = mutex /\ desk' = desk
      /\ rfq' = rfq /\ invited' = invited /\ quote' = quote /\ wanted' = wanted
  BY DEF Source!OrderQuotation, Source!people, Source!Known
<1>2. quote[q].of \in Suppliers \cup {"none"}
  BY SourceTypes DEF SourceInv
<1> QED
  BY <1>1, <1>2, NewOrder

\* create_order looks at no quotation, and turns none into its order.
LEMMA SourceEnter ==
  ASSUME Source!SourcingAssumption, SourceInv, NEW o \in Orders, NEW s \in Suppliers,
         NEW q \in Quotes \cup {"none"}, Source!EnterOrder(o, s, q)
  PROVE  SourceInv'
<1>1. /\ supplier[s] # "Deleted" /\ purchase[o] = Source!NoOrder
      /\ purchase' = [purchase EXCEPT ![o] =
           [status |-> "Live", of |-> s, quote |-> q, converted |-> FALSE]]
      /\ supplier' = supplier /\ contact' = contact /\ mutex' = mutex /\ desk' = desk
      /\ rfq' = rfq /\ invited' = invited /\ quote' = quote /\ wanted' = wanted
  BY DEF Source!EnterOrder, Source!people, Source!Known
<1> QED
  BY <1>1, NewOrder

\* An order gets another supplier, is received or cancelled: a cancelled order
\* stays so.
LEMMA SourceOrderChanges ==
  ASSUME Source!SourcingAssumption, SourceInv, NEW o \in Orders,
         Source!EndOrder(o) \/ \E s \in Suppliers : Source!ReplaceSupplier(o, s)
  PROVE  SourceInv'
<1> DEFINE Order == [status: {"none", "Live", "Received", "Cancelled"},
                     of: Suppliers \cup {"none"}, quote: Quotes \cup {"none"},
                     converted: BOOLEAN]
<1>1. /\ purchase[o].status = "Live"
      /\ supplier' = supplier /\ contact' = contact /\ mutex' = mutex /\ desk' = desk
      /\ rfq' = rfq /\ invited' = invited /\ quote' = quote /\ wanted' = wanted
  BY DEF Source!EndOrder, Source!ReplaceSupplier, Source!people
<1>2. purchase \in [Orders -> Order]
  BY SourceTypes DEF SourceInv
<1>3. /\ purchase' \in [Orders -> Order]
      /\ \A p \in Orders : p # o => purchase'[p] = purchase[p]
      /\ purchase'[o].quote = purchase[o].quote
      /\ purchase'[o].converted = purchase[o].converted
      /\ \A s \in Suppliers : supplier[s] = "Deleted" /\ purchase'[o].of = s => purchase[o].of = s
  <2>1. CASE Source!EndOrder(o)
    <3>1. PICK to \in {"Received", "Cancelled"} : purchase' = [purchase EXCEPT ![o].status = to]
      BY <2>1 DEF Source!EndOrder
    <3> QED
      BY <1>2, <3>1
  <2>2. ASSUME NEW s \in Suppliers, Source!ReplaceSupplier(o, s)
        PROVE  /\ purchase' \in [Orders -> Order]
               /\ \A p \in Orders : p # o => purchase'[p] = purchase[p]
               /\ purchase'[o].quote = purchase[o].quote
               /\ purchase'[o].converted = purchase[o].converted
               /\ purchase'[o].of = s /\ supplier[s] # "Deleted"
    <3>1. purchase' = [purchase EXCEPT ![o].of = s] /\ supplier[s] # "Deleted"
      BY <2>2 DEF Source!ReplaceSupplier, Source!Known
    <3> QED
      BY <1>2, <3>1
  <2> QED
    BY <2>1, <2>2
<1> HIDE DEF Order
<1>4. Source!TypeOK'
  BY <1>1, <1>3 DEF SourceInv, Source!TypeOK, Source!Missing, Order
<1>5. PeopleInv'
  BY <1>1, PeopleStay DEF SourceInv
<1>6. \A q \in Quotes : Source!Converted(q)' \subseteq Source!Converted(q)
  BY <1>1, <1>3 DEF Source!Converted, Source!OrdersFrom
<1>7. OneOrder' /\ FromApproved'
  BY <1>1, <1>6 DEF SourceInv, PapersInv, OneOrder, FromApproved
<1>8. ClosedDecided'
  <2>1. \A r : Source!QuotesOf(r)' = Source!QuotesOf(r)
    BY <1>1 DEF Source!QuotesOf
  <2> QED
    BY <1>1, <2>1 DEF SourceInv, PapersInv, ClosedDecided
<1>9. DeletedNowhere'
  BY <1>1, <1>3 DEF SourceInv, PapersInv, DeletedNowhere
<1> QED
  BY <1>4, <1>5, <1>7, <1>8, <1>9 DEF SourceInv, PapersInv

----------------------------------------------------------------------------
(* Sourcing: the theorems *)

\* Every step of sourcing keeps the invariant.
LEMMA SourceNext ==
  ASSUME Source!SourcingAssumption, SourceInv, [Source!Next]_(Source!vars)
  PROVE  SourceInv'
<1>1. CASE UNCHANGED Source!vars
  <2>1. /\ supplier' = supplier /\ contact' = contact /\ rfq' = rfq /\ invited' = invited
        /\ quote' = quote /\ purchase' = purchase /\ mutex' = mutex /\ desk' = desk
        /\ wanted' = wanted
    BY <1>1 DEF Source!vars
  <2>2. PapersInv' /\ PeopleInv'
    BY <2>1, PapersStay, PeopleStay DEF SourceInv
  <2>3. Source!TypeOK'
    BY <2>1 DEF SourceInv, Source!TypeOK
  <2> QED
    BY <2>2, <2>3 DEF SourceInv
<1>2. CASE Source!Next
  BY <1>2, SourceCreateSupplier, SourceStatus, SourceOpen, SourceSave, SourceDeleteContact,
     SourceRfq, SourceAward, SourceQuote, SourceOrder, SourceEnter, SourceOrderChanges
     DEF Source!Next, Source!Missing
<1> QED
  BY <1>1, <1>2

\* The invariant holds in every state of sourcing.
THEOREM SourceInvariance ==
  ASSUME Source!SourcingAssumption
  PROVE  Source!Spec => []SourceInv
<1>1. Source!Init => SourceInv
  BY SourceInit
<1>2. SourceInv /\ [Source!Next]_(Source!vars) => SourceInv'
  BY SourceNext
<1> QED
  BY <1>1, <1>2, PTL DEF Source!Spec

\* A set whose members are all one has at most one.
LEMMA AtMostOne ==
  ASSUME NEW S, \A x, y \in S : x = y
  PROVE  Cardinality(S) <= 1
<1>1. CASE S = {}
  BY <1>1, FS_EmptySet
<1>2. CASE S # {}
  <2>1. PICK x \in S : S = {x}
    BY <1>2
  <2> QED
    BY <2>1, FS_Singleton
<1> QED
  BY <1>1, <1>2

\* A quotation is turned into at most one order that is not cancelled and was
\* approved to be, whatever orders are entered with it as their origin, a
\* closed request is decided, and no deleted supplier is in a paper
\* (create_from_quotation, create_order, award_quotation, delete_supplier).
THEOREM SourcedOnlyOnce ==
  ASSUME Source!SourcingAssumption
  PROVE  Source!Spec => []SourcedOnce
<1>1. SourceInv => Source!SourcedOnce
  <2> SUFFICES ASSUME SourceInv PROVE Source!SourcedOnce
    OBVIOUS
  <2>1. ASSUME NEW q \in Quotes
        PROVE  /\ Source!Cardinality(Source!Converted(q)) <= 1
               /\ Source!Converted(q) # {} => quote[q].status = "Approved"
    <3>1. Cardinality(Source!Converted(q)) <= 1
      <4>1. Source!Converted(q) \subseteq Orders
        BY DEF Source!Converted, Source!OrdersFrom
      <4>2. \A x, y \in Source!Converted(q) : x = y
        BY <4>1 DEF SourceInv, PapersInv, OneOrder
      <4> QED
        BY <4>2, AtMostOne
    <3>2. Source!Cardinality(Source!Converted(q)) = Cardinality(Source!Converted(q))
      BY DEF Source!Cardinality, Cardinality
    <3> QED
      BY <3>1, <3>2 DEF SourceInv, PapersInv, FromApproved
  <2>2. ClosedDecided /\ DeletedNowhere
    BY DEF SourceInv, PapersInv
  <2> QED
    BY <2>1, <2>2 DEF Source!SourcedOnce, ClosedDecided, DeletedNowhere
<1>2. SourceInv => SourcedOnce
  BY <1>1 DEF SourcedOnce
<1> QED
  BY <1>2, SourceInvariance, PTL

\* However the handlers of one process overlap, with contacts removed under
\* them, a supplier has at most one primary contact (_contact_lock).
THEOREM PrimaryContactIsOne ==
  ASSUME Source!SourcingAssumption
  PROVE  Source!Spec => []OnePrimaryContact
<1>1. SourceInv => Source!OnePrimaryContact
  <2> SUFFICES ASSUME SourceInv, NEW s \in Suppliers
               PROVE  Source!Cardinality(Source!Primary(s)) <= 1
    BY DEF Source!OnePrimaryContact
  <2>1. \A x, y \in Source!Primary(s) : x = y
    BY DEF SourceInv, PeopleInv, ContactsRight
  <2>2. Source!Cardinality(Source!Primary(s)) = Cardinality(Source!Primary(s))
    BY DEF Source!Cardinality, Cardinality
  <2> QED
    BY <2>1, <2>2, AtMostOne
<1>2. SourceInv => OnePrimaryContact
  BY <1>1 DEF OnePrimaryContact
<1> QED
  BY <1>2, SourceInvariance, PTL

=============================================================================
