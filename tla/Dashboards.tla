------------------------------ MODULE Dashboards ------------------------------
(***************************************************************************)
(* Requests for reports and dashboards: a report is read statement by      *)
(* statement, a dashboard is kept for a while and given again, and tasks   *)
(* commit snapshots of what they read.                                     *)
(*                                                                         *)
(* A request ends within the minute it began in; there is one at a time.   *)
(***************************************************************************)
EXTENDS DomainReports, ProcurementReports

vars == <<table, clock, changes, requests, printed, cached, kept, asked>>

\* ids: the rows there may be; dates: rows and requests of a period, or not;
\* most: the bound of amounts; names: the reports; requests, commits, minutes:
\* how many.
Scenario == [ids: SUBSET Ids, dates: BOOLEAN, most: 1..2, names: SUBSET STRING,
             requests: Nat, commits: Nat, minutes: Nat]

-----------------------------------------------------------------------------
(* Dashboards of DashboardService: rows of any date, the deleted ones too *)

GlobalDashboard ==
  << Count("active", Having(All("employee"), {"Active"})), Value("stock", All("balance")),
     Value("sales", Standing("sales order")), Value("spend", Standing("purchase order")),
     Count("customers", All("customer")), Count("suppliers", All("supplier")) >>

HrDashboard ==
  << Count("employees", All("employee")),
     Share("employees", Having(All("employee"), {"Active"})),
     CountByLink("departments", Joined(All("employee"), All("department")), "department") >>

PayrollDashboard == << Value("pay", All("payslip")), Count("runs", All("run")) >>

InventoryDashboard == << Count("products", All("product")), Value("stock", All("balance")) >>

ProcurementDashboard ==
  << Count("all orders", All("purchase order")), Value("all spend", All("purchase order")) >>

SalesDashboard == << Count("all sales orders", All("sales order")), Value("all sales", All("sales order")) >>

CrmDashboard ==
  << Count("all leads", All("lead")), Count("all deals", All("opportunity")),
     Share("all deals", {i \in All("opportunity") : StatusOf(i) # "Won"}) >>

FinanceDashboard == << Value("invoices", All("invoice")), Value("bills", All("bill")) >>

\* The KPIs that are computed; two of the codes name columns that are not there.
Kpi == [revenue |-> << Value("invoices", All("invoice")) >>,
        expenses |-> << Value("bills", All("bill")) >>,
        sales |-> << Value("all sales", All("sales order")) >>]

DynamicReport ==
  [hr_employees |-> << Each("employees", All("employee")) >>,
   inventory_stock |-> << Each("balances", All("balance")) >>,
   sales_orders |-> << Each("all sales orders", All("sales order")) >>]

-----------------------------------------------------------------------------
(* What a name stands for *)

BoardOf(name) ==
  CASE name = "Global"      -> GlobalDashboard
    [] name = "HR"          -> HrDashboard
    [] name = "Payroll"     -> PayrollDashboard
    [] name = "Inventory"   -> InventoryDashboard
    [] name = "Procurement" -> ProcurementDashboard
    [] name = "Sales"       -> SalesDashboard
    [] name = "CRM"         -> CrmDashboard
    [] name = "Finance"     -> FinanceDashboard
Boards == {"Global", "HR", "Payroll", "Inventory", "Procurement", "Sales", "CRM", "Finance"}

\* Of attendance, leave, goods received, deals won and activities no endpoint
\* asks; the endpoint of stock_by_product always fails.
DomainReport(name) ==
  CASE name = "dashboard"           -> ExecutiveDashboard
    [] name = "profit_loss"         -> ProfitLoss
    [] name = "balance_sheet"       -> BalanceSheet
    [] name = "account_balances"    -> AccountBalances
    [] name = "sales_summary"       -> SalesOrderSummary
    [] name = "sales_by_customer"   -> SalesByCustomer
    [] name = "sales_by_product"    -> SalesByProduct
    [] name = "sales_quotations"    -> SalesQuotationSummary
    [] name = "procurement_summary" -> PurchaseOrderSummary
    [] name = "by_supplier"         -> PurchasesBySupplier
    [] name = "goods_received"      -> GoodsReceivedSummary
    [] name = "stock_by_warehouse"  -> StockByWarehouse
    [] name = "stock_by_product"    -> StockByProduct
    [] name = "low_stock"           -> LowStockSummary
    [] name = "headcount"           -> HeadcountSummary
    [] name = "attendance"          -> AttendanceSummary
    [] name = "leave"               -> LeaveSummary
    [] name = "payroll"             -> PayrollSummary
    [] name = "leads"               -> LeadsSummary
    [] name = "pipeline"            -> OpportunityPipeline
    [] name = "win_loss"            -> OpportunityWinLoss
    [] name = "activities"          -> ActivitySummary
DomainNames == {"dashboard", "profit_loss", "balance_sheet", "account_balances", "sales_summary",
  "sales_by_customer", "sales_by_product", "sales_quotations", "procurement_summary", "by_supplier",
  "goods_received", "stock_by_warehouse", "stock_by_product", "low_stock", "headcount", "attendance",
  "leave", "payroll", "leads", "pipeline", "win_loss", "activities"}

ProcurementReport(name) ==
  CASE name = "summary"      -> DashboardSummary
    [] name = "orders"       -> PurchaseOrdersReport
    [] name = "register"     -> PurchaseRegister
    [] name = "suppliers"    -> SupplierPerformanceReport
    [] name = "ledger"       -> SupplierLedger
    [] name = "requisitions" -> RequisitionsReport
    [] name = "rfqs"         -> RfqsReport
    [] name = "quotations"   -> QuotationsReport
    [] name = "receiving"    -> ReceivingReport
    [] name = "returns"      -> ReturnsReport
    [] name = "spend"        -> SpendAnalytics
    [] name = "efficiency"   -> EfficiencyMetrics

Report(name) ==
  IF name \in Boards THEN BoardOf(name)
  ELSE IF name \in DomainNames THEN DomainReport(name)
  ELSE IF name \in DOMAIN Kpi THEN Kpi[name]
  ELSE IF name \in DOMAIN DynamicReport THEN DynamicReport[name]
  ELSE ProcurementReport(name)

-----------------------------------------------------------------------------
(* Requests *)

\* Minutes: the dashboards of DashboardService in the memory of the process,
\* for every user alike; the procurement dashboard in Redis, for the dates
\* asked for.
Lifetime(name) == CASE name \in Boards -> 3 [] name = "summary" -> 5 [] OTHER -> 0
KeyOf(name, dated) == <<name, dated /\ name \notin Boards>>

\* A mistaken Fresh: an answer is given again whatever its age.
FreshForever(c) == TRUE

Fresh(c) == clock < c.made + Lifetime(c.key[1])

Idle == printed = None

\* name, dated: what is asked for, with the dates of a period or without;
\* keeps: by a task that commits what it read; key, made, since, upto: of the
\* answer, when it was read and after how many commits; next: the statement.
Printing(name, dated, keeps) ==
  [name |-> name, dated |-> dated, keeps |-> keeps, next |-> 1, done |-> FALSE, again |-> FALSE,
   key |-> KeyOf(name, dated), made |-> clock, since |-> changes, upto |-> changes, figures |-> {}]

Again(p, c) ==
  [p EXCEPT !.done = TRUE, !.again = TRUE, !.key = c.key, !.made = c.made,
            !.since = c.since, !.upto = c.upto, !.figures = c.figures]

\* A snapshot is taken by a task, of the procurement dashboard without dates;
\* a KPI is kept whenever it is asked for.
Ask(name, dated) ==
  /\ Idle
  /\ requests < asked.requests
  /\ requests' = requests + 1
  /\ \E keeps \in IF name \in DOMAIN Kpi THEN {TRUE}
                  ELSE IF name = "summary" /\ ~dated THEN BOOLEAN ELSE {FALSE} :
       LET known == {c \in cached : c.key = KeyOf(name, dated) /\ Fresh(c)}
           begun == Printing(name, dated, keeps)
       IN printed' = IF known = {} THEN begun ELSE Again(begun, CHOOSE c \in known : TRUE)
  /\ UNCHANGED <<table, clock, changes, cached, kept, asked>>

\* The next statement: it sees what is committed now.
Read ==
  /\ ~Idle /\ ~printed.done
  /\ LET report == Report(printed.name)
     IN printed' = [printed EXCEPT !.figures = @ \cup report[printed.next],
                                   !.next = @ + 1, !.upto = changes,
                                   !.done = printed.next = Len(report)]
  /\ UNCHANGED <<table, clock, changes, requests, cached, kept, asked>>

\* What was read is kept for the next to ask, and committed by a task.
Answer ==
  /\ ~Idle /\ printed.done
  /\ cached' = IF printed.again \/ Lifetime(printed.name) = 0 THEN cached
               ELSE {c \in cached : c.key # printed.key}
                    \cup {[key |-> printed.key, made |-> printed.made, since |-> printed.since,
                           upto |-> printed.upto, figures |-> printed.figures]}
  /\ kept' = IF printed.keeps THEN kept \cup {[at |-> clock, made |-> printed.made]} ELSE kept
  /\ printed' = None
  /\ UNCHANGED <<table, clock, changes, requests, asked>>

-----------------------------------------------------------------------------
(* Everyone else *)

Commit(i, row) ==
  /\ changes < asked.commits
  /\ requests > 0
  /\ row # table[i]
  /\ table' = [table EXCEPT ![i] = row]
  /\ Consistent(table')
  /\ changes' = changes + 1
  /\ UNCHANGED <<clock, requests, printed, cached, kept, asked>>

Tick ==
  /\ Idle
  /\ requests \in 1..(asked.requests - 1)
  /\ clock < asked.minutes
  /\ clock' = clock + 1
  /\ UNCHANGED <<table, changes, requests, printed, cached, kept, asked>>

Init ==
  /\ asked \in Scenarios
  /\ table \in {t \in Tables : Consistent(t)}
  /\ clock = 0 /\ changes = 0 /\ requests = 0
  /\ printed = None /\ cached = {} /\ kept = {}

Next ==
  \/ \E name \in asked.names, dated \in IF asked.dates THEN BOOLEAN ELSE {FALSE} : Ask(name, dated)
  \/ Read \/ Answer \/ Tick
  \/ \E i \in asked.ids : \E row \in RowsOf(KindOf[i]) \cup {None} : Commit(i, row)

Spec == Init /\ [][Next]_vars

-----------------------------------------------------------------------------
(* Properties *)

TypeOK ==
  /\ asked \in Scenarios
  /\ DOMAIN table = asked.ids
  /\ \A i \in asked.ids : table[i] \in RowsOf(KindOf[i]) \cup {None}
  /\ Consistent(table)
  /\ clock \in 0..asked.minutes /\ changes \in 0..asked.commits
  /\ requests \in 0..asked.requests
  /\ \A c \in cached : c.made \in 0..clock /\ c.since <= c.upto
  /\ \A k \in kept : k.made <= k.at
  /\ ~Idle => printed.name \in asked.names /\ printed.made \in 0..clock

\* The breakdowns that leave no row out.
Complete == {
  <<"sales_summary", "sales orders">>, <<"sales_summary", "sales">>,
  <<"procurement_summary", "orders">>, <<"procurement_summary", "spend">>,
  <<"sales_quotations", "quotations">>,
  <<"balance_sheet", "accounts">>, <<"account_balances", "accounts">>,
  <<"profit_loss", "revenue">>, <<"profit_loss", "expenses">>,
  <<"stock_by_warehouse", "stock">>, <<"stock_by_product", "stock">>,
  <<"leads", "leads">>, <<"leads", "sources">>, <<"activities", "activities">>,
  <<"headcount", "employees by type">>, <<"win_loss", "closed">>,
  <<"summary", "open orders">>, <<"summary", "dispatched orders">>, <<"summary", "top">>,
  <<"orders", "orders">>, <<"register", "register">>, <<"suppliers", "suppliers">>,
  <<"requisitions", "requisitions">>, <<"rfqs", "rfqs">>, <<"quotations", "offers">>,
  <<"receiving", "receipts">>, <<"returns", "returns">>,
  <<"spend", "spend">>, <<"spend", "spend by status">>, <<"spend", "spend by month">>}

Parts(of) == MapThenSumSet(LAMBDA f : f.qty, {g \in printed.figures : g.of = of /\ g.part})

\* When nothing was committed while a report was read, its figures agree,
\* though each statement filters and groups by itself: the parts of a
\* breakdown never exceed the total, and make it up where every row has its
\* place (sales and purchases by status, dispatched orders received in part
\* and in full, the spend on all suppliers; not goods receipts, of which only
\* those drafted and received are shown beside the total); what was received
\* is never more than what was ordered.
ReportsAgree ==
  ~Idle /\ printed.done /\ printed.since = printed.upto =>
    \A f \in printed.figures : ~f.part =>
      IF <<printed.name, f.of>> \in Complete THEN Parts(f.of) = f.qty
      ELSE Parts(f.of) <= f.qty

\* No dashboard is older than its time to live, and none is of other dates
\* than those asked for, be it given again from the memory of the process or
\* from Redis; nor is a snapshot a task commits older than that, though it
\* bears the time it was committed.
DashboardsAreRecent ==
  /\ ~Idle /\ printed.done =>
       /\ printed.again => clock < printed.made + Lifetime(printed.name)
       /\ ~printed.again => printed.made = clock
       /\ printed.name = "summary" => printed.key[2] = printed.dated
  /\ \A k \in kept : k.at < k.made + Lifetime("summary")
=============================================================================
