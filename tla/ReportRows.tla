------------------------------ MODULE ReportRows ------------------------------
(***************************************************************************)
(* The rows the reports of ApnaERP read, and what a SELECT prints of them. *)
(*                                                                         *)
(* A report is several statements of one request, and at READ COMMITTED    *)
(* each sees the rows committed when it starts.  What a statement prints   *)
(* is a set of figures: so many rows, or so much, of a set of rows; a part *)
(* is a figure of one group of a breakdown.  Names, sorting, pages and     *)
(* limits are left out.  How rows come about is shown by the modules of    *)
(* their domains: here they are made and changed at will, within what is   *)
(* said under Consistent.                                                  *)
(***************************************************************************)
EXTENDS Integers, Sequences, FiniteSets, FiniteSetsExt, SequencesExt

CONSTANTS
  Ids,        \* primary keys; KindOf says of which table
  KindOf,
  LinksOf,    \* the rows a row names, which it keeps for life
  None,
  Scenarios   \* what a run asks for: see Scenario in Dashboards

VARIABLES
  table,      \* the committed row of each id, or None
  clock,      \* minutes
  changes,    \* commits so far
  requests,   \* requests so far
  printed,    \* the request being answered, or None
  cached,     \* the answers kept by Redis and by the process
  kept,       \* snapshots committed
  asked       \* the scenario

-----------------------------------------------------------------------------
(* Tables *)

\* The statuses that reports tell apart.
Statuses(kind) ==
  CASE kind = "employee"    -> {"Active", "Inactive"}
    [] kind = "sales order" -> {"Draft", "Approved", "Cancelled"}
    [] kind = "quotation"   -> {"Draft", "Approved", "Converted", "Cancelled"}
    [] kind = "purchase order" -> {"Submitted", "Approved", "Cancelled"}
    [] kind = "requisition" -> {"Draft", "Submitted", "Approved", "Cancelled"}
    [] kind = "rfq"         -> {"Draft", "Issued", "Closed"}
    [] kind = "offer"       -> {"Submitted", "Approved", "Rejected"}
    [] kind = "receipt"     -> {"Draft", "Approved", "Posted", "Received", "Cancelled"}
    [] kind = "return"      -> {"Draft", "Processed", "Cancelled"}
    [] kind = "supplier"    -> {"Active", "Blacklisted"}
    [] kind = "journal"     -> {"Draft", "Posted"}
    [] kind = "account"     -> {"Asset", "Revenue", "Expense"}
    [] kind = "lead"        -> {"NEW", "CONVERTED"}
    [] kind = "opportunity" -> {"Open", "Won", "Lost"}
    [] kind = "attendance"  -> {"Present", "Absent"}
    [] kind = "leave"       -> {"Pending", "Approved"}
    [] kind = "activity"    -> {"Planned", "Completed"}
    [] OTHER                -> {"-"}

Deletable == {"employee", "department", "position", "lead", "opportunity", "customer", "supplier",
              "account", "attendance", "leave", "leave type"}
Dated     == {"sales order", "quotation", "purchase order", "requisition", "rfq", "offer", "receipt",
              "return", "journal", "lead", "opportunity", "attendance", "leave", "period", "activity"}
Valued    == {"sales order", "sales item", "purchase order", "purchase item", "balance", "line",
              "payslip", "invoice", "bill"}

\* gone: is_deleted; old: before the first day a request names; amount: money,
\* or the quantity ordered; done: the quantity received; on: is_converted of a
\* lead, and that a journal line is a debit.
RowsOf(kind) ==
  {r \in [status: Statuses(kind),
          gone: IF kind \in Deletable THEN BOOLEAN ELSE {FALSE},
          old: IF kind \in Dated /\ asked.dates THEN BOOLEAN ELSE {FALSE},
          amount: IF kind \in Valued THEN 1..asked.most ELSE {1},
          done: IF kind = "purchase item" THEN 0..2 ELSE {0},
          on: IF kind \in {"lead", "line"} THEN BOOLEAN ELSE {FALSE}] : r.done <= r.amount}

Of(t, kind) == {i \in asked.ids : KindOf[i] = kind /\ t[i] # None}

\* A row names rows that are there; an order not approved received nothing.
Consistent(t) ==
  /\ \A i \in asked.ids : t[i] # None => \A j \in LinksOf[i] \cap asked.ids : t[j] # None
  /\ \A i \in Of(t, "purchase item") :
       t[i].done > 0 => \A o \in LinksOf[i] \cap Of(t, "purchase order") : t[o].status = "Approved"

Tables ==
  FoldSet(LAMBDA i, T : {t @@ (i :> r) : t \in T, r \in RowsOf(KindOf[i]) \cup {None}},
          {<<>>}, asked.ids)
-----------------------------------------------------------------------------
(* Reading *)

All(kind)       == Of(table, kind)
Live(kind)      == {i \in All(kind) : ~table[i].gone}
Recent(S)       == {i \in S : printed.dated => ~table[i].old}

\* The status of an approved order follows what its lines received.
StatusOf(i) ==
  LET L == {j \in All("purchase item") : i \in LinksOf[j]}
  IN IF KindOf[i] # "purchase order" \/ \A j \in L : table[j].done = 0 THEN table[i].status
     ELSE IF \A j \in L : table[j].done = table[j].amount THEN "Fully Received"
     ELSE "Partially Received"
Having(S, some) == {i \in S : StatusOf(i) \in some}
Standing(kind)  == {i \in All(kind) : table[i].status # "Cancelled"}

To(i, kind)     == {j \in LinksOf[i] \cap asked.ids : KindOf[j] = kind}
Joined(S, T)    == {i \in S : LinksOf[i] \cap T # {}}

Sum(S)      == MapThenSumSet(LAMBDA i : table[i].amount, S)
Received(S) == MapThenSumSet(LAMBDA i : table[i].done, S)

-----------------------------------------------------------------------------
(* Figures *)

Figure(of, part, S, n) == [of |-> of, part |-> part, rows |-> S, qty |-> n]

Count(of, S)   == {Figure(of, FALSE, S, Cardinality(S))}
Value(of, S)   == {Figure(of, FALSE, S, Sum(S))}
Share(of, S)   == {Figure(of, TRUE, S, Cardinality(S))}

Groups(S, g(_))       == {{i \in S : g(i) = v} : v \in {g(i) : i \in S}}
CountBy(of, S, g(_))  == UNION {Share(of, T) : T \in Groups(S, g)}
ValueBy(of, S, g(_))  == {Figure(of, TRUE, T, Sum(T)) : T \in Groups(S, g)}
Each(of, S)           == CountBy(of, S, LAMBDA i : {i})

\* By the rows of another table it names; a row that names none has a group.
CountByLink(of, S, kind) == CountBy(of, S, LAMBDA i : To(i, kind))
ValueByLink(of, S, kind) == ValueBy(of, S, LAMBDA i : To(i, kind))
=============================================================================
