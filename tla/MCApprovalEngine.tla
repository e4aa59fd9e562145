-------------------------- MODULE MCApprovalEngine --------------------------
(* Small instances of ApprovalEngine; beside it, the reports and dashboards *)
(* of all domains.  Neither side reads what the other writes, so a run asks *)
(* for one of them at a time.                                               *)
EXTENDS ApprovalsAndReports, TLC

CONSTANTS t1, t2, r1, r2, order, admin, buyer, purchasing, finance, nothing

\* buyer holds one role, and admin is a superuser without any.
OfficeRoles == (buyer :> {purchasing}) @@ (admin :> {})

\* Workflows by step number.
OneStep    == <<purchasing>>
TwoSteps   == <<purchasing, finance>>
ThreeSteps == <<purchasing, finance, purchasing>>
Workflows  == {OneStep, TwoSteps, ThreeSteps}

\* A workflow redefined under decisions taken one at a time; two deciders.
Demands == {
  [width |-> 1, requests |-> {r1, r2}, chains |-> {OneStep, TwoSteps}],
  [width |-> 2, requests |-> {r1}, chains |-> {ThreeSteps}] }
Nobody == [width |-> 1, requests |-> {}, chains |-> {OneStep}]
DemandsOrNobody == Demands \cup {Nobody}

\* Reports and dashboards over a few rows of the tables each reads.
Rows == {"employee 1", "employee 2", "department 1", "position 1", "attendance 1", "attendance 2",
        "leave 1", "leave 2", "leave type 1", "period 1", "run 1", "run 2", "payslip 1", "payslip 2",
        "sale 1", "sale 2", "sale line 1", "sale line 2", "customer 1", "quotation 1", "quotation 2",
        "order 1", "order 2", "order line 1", "order line 2", "supplier 1", "requisition 1",
        "requisition 2", "rfq 1", "rfq 2", "invitation 1", "offer 1", "offer 2", "receipt 1",
        "receipt 2", "return 1", "return 2", "product 1", "warehouse 1", "warehouse 2", "balance 1",
        "balance 2", "journal 1", "journal 2", "line 1", "line 2", "account 1", "account 2", "lead 1",
        "lead 2", "source 1", "opportunity 1", "opportunity 2", "stage 1", "activity 1", "activity 2",
        "type 1", "invoice 1", "bill 1"}
Kinds ==
  LET named(kind) == {i \in Rows : i = kind \o " 1" \/ i = kind \o " 2"}
  IN [i \in Rows |->
        CASE i \in named("sale") -> "sales order"
          [] i \in named("sale line") -> "sales item"
          [] i \in named("order") -> "purchase order"
          [] i \in named("order line") -> "purchase item"
          [] OTHER -> CHOOSE kind \in {"employee", "department", "position", "attendance", "leave",
               "leave type", "period", "run", "payslip", "customer", "quotation", "supplier",
               "requisition", "rfq", "invitation", "offer", "receipt", "return", "product",
               "warehouse", "balance", "journal", "line", "account", "lead", "source", "opportunity",
               "stage", "activity", "type", "invoice", "bill"} : i \in named(kind)]
Links ==
  [i \in Rows |->
     CASE i = "employee 1" -> {"department 1", "position 1"}
       [] i \in {"attendance 1", "payslip 1"} -> {"employee 1", "period 1"}
       [] i \in {"attendance 2", "payslip 2"} -> {"employee 2", "period 1"}
       [] i \in {"leave 1", "leave 2"} -> {"leave type 1"}
       [] i \in {"run 1", "run 2"} -> {"period 1"}
       [] i \in {"sale 1", "sale 2"} -> {"customer 1"}
       [] i = "sale line 1" -> {"sale 1", "product 1"}
       [] i = "sale line 2" -> {"sale 2", "product 1"}
       [] i \in {"order 1", "order 2"} -> {"supplier 1"}
       [] i = "order line 1" -> {"order 1", "warehouse 1"}
       [] i = "order line 2" -> {"order 1", "warehouse 2"}
       [] i \in {"invitation 1", "offer 1", "offer 2"} -> {"rfq 1"}
       [] i = "receipt 1" -> {"order 1"}
       [] i = "balance 1" -> {"product 1", "warehouse 1"}
       [] i = "balance 2" -> {"product 1", "warehouse 2"}
       [] i = "line 1" -> {"journal 1", "account 1"}
       [] i = "line 2" -> {"journal 1", "account 2"}
       [] i = "lead 1" -> {"source 1"}
       [] i \in {"opportunity 1", "opportunity 2"} -> {"stage 1"}
       [] i = "activity 1" -> {"type 1"}
       [] OTHER -> {}]

RowIds == Rows
Tables == Kinds
ForeignKeys == Links

Once(ids, names) ==
  [ids |-> ids, dates |-> FALSE, most |-> 2, names |-> names, requests |-> 1, commits |-> 1,
   minutes |-> 0]
Dated(ids, names) == [Once(ids, names) EXCEPT !.dates = TRUE, !.most = 1]

\* Each report once, with a commit while it is read; dashboards asked for
\* three times in six minutes; snapshots.
AllWishes == {
  Once({"employee 1", "employee 2", "department 1", "position 1"},
       {"headcount", "HR", "hr_employees", "dashboard"}),
  Dated({"employee 1", "employee 2", "department 1", "attendance 1", "attendance 2"}, {"attendance"}),
  Dated({"leave 1", "leave 2", "leave type 1"}, {"leave"}),
  Once({"employee 1", "department 1", "period 1", "run 1", "run 2", "payslip 1"}, {"payroll", "Payroll", "dashboard"}),
  Dated({"sale 1", "sale 2", "customer 1"}, {"sales_summary", "sales_by_customer"}),
  Once({"sale 1", "sale 2"}, {"sales_summary", "dashboard", "Sales", "sales", "sales_orders"}),
  Once({"sale 1", "sale line 1", "product 1"}, {"sales_by_product"}),
  Dated({"quotation 1", "quotation 2"}, {"sales_quotations"}),
  Once({"order 1", "order 2", "supplier 1"}, {"procurement_summary", "by_supplier", "Procurement", "dashboard"}),
  Dated({"order 1", "order 2", "supplier 1"}, {"procurement_summary", "register", "ledger", "suppliers"}),
  Once({"order 1", "order line 1", "supplier 1"}, {"summary", "orders", "spend", "suppliers", "efficiency"}),
  Once({"order 1", "order line 1", "order line 2", "warehouse 1", "warehouse 2"}, {"spend", "efficiency"}),
  Dated({"requisition 1", "requisition 2"}, {"requisitions", "summary", "efficiency"}),
  Dated({"rfq 1", "invitation 1", "offer 1", "offer 2"}, {"rfqs", "quotations", "efficiency"}),
  Dated({"order 1", "receipt 1", "receipt 2"}, {"receiving", "goods_received"}),
  Dated({"return 1", "return 2"}, {"returns"}),
  Once({"product 1", "warehouse 1", "warehouse 2", "balance 1", "balance 2"},
       {"stock_by_warehouse", "stock_by_product", "low_stock", "Inventory", "inventory_stock", "dashboard", "Global"}),
  Dated({"journal 1", "line 1", "line 2", "account 1", "account 2"}, {"profit_loss", "balance_sheet", "account_balances"}),
  Dated({"lead 1", "lead 2", "source 1"}, {"leads", "CRM"}),
  Dated({"opportunity 1", "opportunity 2", "stage 1"}, {"pipeline", "win_loss", "CRM", "dashboard"}),
  Dated({"activity 1", "activity 2", "type 1"}, {"activities"}),
  Once({"invoice 1", "bill 1"}, {"Finance", "revenue", "expenses"}),
  [Dated({"order 1", "supplier 1"}, {"summary"}) EXCEPT !.requests = 2, !.minutes = 6],
  [Once({"sale 1"}, {"Sales"}) EXCEPT !.requests = 3, !.minutes = 6, !.most = 1] }
Unasked == Once({}, {})

Asked == AllWishes \cup {Unasked}
WishesOrNone == Asked

\* The requests asked for are answered.
Rest ==
  /\ asked # Unasked /\ requests = asked.requests /\ printed = nothing
  /\ UNCHANGED vars /\ UNCHANGED records

OneInit == BothInit /\ (scenario = Nobody <=> asked # Unasked)
OneSpec == OneInit /\ [][BothNext \/ Rest]_<<vars, records>>

Symmetry == Permutations(Requests) \cup Permutations(Tasks)
=============================================================================
