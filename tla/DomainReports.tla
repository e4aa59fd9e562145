---------------------------- MODULE DomainReports ----------------------------
(***************************************************************************)
(* The reports of ReportingRepository over all domains: for each, the      *)
(* figures of its statements, in the order of the code.                    *)
(***************************************************************************)
EXTENDS ReportRows

-----------------------------------------------------------------------------
(* The executive dashboard *)

HrMetrics ==
  << Count("employees", Live("employee")) \cup Count("active", Having(Live("employee"), {"Active"})),
     Count("departments", Live("department")) >>

OpenDeals == Having(Live("opportunity"), {"Open"})
CrmMetrics ==
  << Count("leads", Live("lead")) \cup Share("leads", {i \in Live("lead") : ~table[i].on}),
     Count("deals", OpenDeals) >>

Pending == {"Draft", "Pending", "Submitted"}
SalesMetrics ==
  << Count("sales orders", Standing("sales order")) \cup Value("sales", Standing("sales order"))
     \cup Share("sales orders", Having(Standing("sales order"), Pending)) >>

ProcurementMetrics ==
  << Count("orders", Standing("purchase order")) \cup Value("spend", Standing("purchase order"))
     \cup Share("orders", Having(Standing("purchase order"), Pending)) >>

\* Every product has a reorder level of one; low are those with any such row.
LowRows == {i \in Joined(All("balance"), All("product")) : table[i].amount <= 1}
InventoryMetrics ==
  << Count("products", All("product")), Count("warehouses", All("warehouse")),
     Value("stock", Joined(All("balance"), All("product"))),
     Count("low products", UNION {To(i, "product") : i \in LowRows}) >>

Posted == Joined(All("line"), Having(All("journal"), {"Posted"}))
OfType(S, types) == Joined(S, Having(All("account"), types))
Debits(S)  == Sum({i \in S : table[i].on})
Credits(S) == Sum({i \in S : ~table[i].on})

FinanceMetrics ==
  LET revenue == OfType(Posted, {"Revenue"})
      expense == OfType(Posted, {"Expense"})
  IN << {Figure("revenue", FALSE, revenue, Credits(revenue) - Debits(revenue))},
        {Figure("expenses", FALSE, expense, Debits(expense) - Credits(expense))},
        Count("journals", Having(All("journal"), {"Posted"})) >>

\* Each payslip once for every run of its period.
RunsOf(i) == {r \in All("run") : To(r, "period") = To(i, "period")}
PayrollMetrics ==
  << Count("runs", All("run"))
     \cup {Figure("pay of runs", FALSE, All("payslip"),
             MapThenSumSet(LAMBDA i : table[i].amount * Cardinality(RunsOf(i)), All("payslip")))} >>

ExecutiveDashboard ==
  HrMetrics \o CrmMetrics \o SalesMetrics \o ProcurementMetrics \o InventoryMetrics
  \o FinanceMetrics \o PayrollMetrics

-----------------------------------------------------------------------------
(* Finance *)

InPeriod == Joined(Posted, Recent(All("journal")))

\* Each account, and in all.
Result(of, S, n(_)) ==
  {Figure(of, FALSE, S, n(S))}
  \cup {Figure(of, TRUE, T, n(T)) : T \in Groups(S, LAMBDA i : To(i, "account"))}

ProfitLoss ==
  << Result("revenue", OfType(InPeriod, {"Revenue"}), LAMBDA S : Credits(S) - Debits(S)),
     Result("expenses", OfType(InPeriod, {"Expense"}), LAMBDA S : Debits(S) - Credits(S)) >>

\* The stored balances of accounts, whatever the day asked for.
SheetAccounts == Having(Live("account"), {"Asset", "Liability", "Equity"})
BalanceSheet == << Count("accounts", SheetAccounts) \cup CountBy("accounts", SheetAccounts, StatusOf) >>

AccountBalances == << Count("accounts", Live("account")) \cup Each("accounts", Live("account")) >>

-----------------------------------------------------------------------------
(* Sales and procurement *)

\* A mistaken SalesOfPeriod: cancelled orders count.
SalesOfPeriodAll == Recent(All("sales order"))

SalesOfPeriod == Recent(Standing("sales order"))

SalesOrderSummary ==
  << Count("sales orders", Recent(Standing("sales order")))
     \cup Value("sales", Recent(Standing("sales order"))),
     CountBy("sales orders", SalesOfPeriod, StatusOf) \cup ValueBy("sales", SalesOfPeriod, StatusOf) >>

\* Orders of deleted customers are left out.
SalesByCustomer ==
  LET S == Joined(SalesOfPeriod, Live("customer"))
  IN << Value("sales of customers", S) \cup ValueByLink("sales of customers", S, "customer") >>

SalesByProduct ==
  LET S == Joined(Joined(All("sales item"), SalesOfPeriod), All("product"))
  IN << Value("sales of products", S) \cup ValueByLink("sales of products", S, "product") >>

SalesQuotationSummary ==
  LET S == Recent(Standing("quotation"))
  IN << Count("quotations", S)
        \cup Count("converted", Having(S, {"Approved", "Converted"})),
        CountBy("quotations", S, StatusOf) >>

PurchaseOrderSummary ==
  LET S == Recent(Standing("purchase order"))
  IN << Count("orders", S) \cup Value("spend", S),
        CountBy("orders", S, StatusOf) \cup ValueBy("spend", S, StatusOf) >>

PurchasesBySupplier ==
  LET S == Joined(Recent(Standing("purchase order")), Live("supplier"))
  IN << Value("spend on suppliers", S) \cup ValueByLink("spend on suppliers", S, "supplier") >>

\* Those approved, and those posted rather than received, are in the total only.
GoodsReceivedSummary ==
  LET S == Recent(Standing("receipt"))
  IN << Count("receipts", S) \cup Share("receipts", Having(S, {"Received"}))
        \cup Share("receipts", Having(S, {"Draft"})) >>

-----------------------------------------------------------------------------
(* Inventory *)

\* Every warehouse, with and without stock; every product.
StockByWarehouse ==
  << Value("stock", All("balance")) \cup ValueByLink("stock", All("balance"), "warehouse") >>

StockByProduct ==
  << Value("stock", All("balance")) \cup ValueByLink("stock", All("balance"), "product") >>

LowStockSummary == << Count("low rows", LowRows) \cup Each("low rows", LowRows) >>

-----------------------------------------------------------------------------
(* Human resources *)

\* Employees without department, or of a deleted one, are in the total only.
OfDepartments(S) == Joined(S, Live("department"))

HeadcountSummary ==
  LET S == Live("employee")
  IN << Count("employees", S) \cup Count("active", Having(S, {"Active"}))
        \cup Count("employees in positions", S) \cup Count("employees by type", S),
        CountByLink("employees", OfDepartments(S), "department")
        \cup CountByLink("active", Having(OfDepartments(S), {"Active"}), "department"),
        CountByLink("employees in positions", Joined(S, Live("position")), "position"),
        CountBy("employees by type", S, LAMBDA i : "Full-Time") >>

\* Attendance of people of departments that are not deleted, be they or not.
AttendanceSummary ==
  LET S == Recent(Live("attendance"))
      T == Joined(S, OfDepartments(All("employee")))
  IN << Count("attendance", S) \cup Count("present", Having(S, {"Present"})),
        CountBy("attendance", T, LAMBDA i : UNION {To(e, "department") : e \in To(i, "employee")})
        \cup CountBy("present", Having(T, {"Present"}),
                     LAMBDA i : UNION {To(e, "department") : e \in To(i, "employee")}) >>

LeaveSummary ==
  LET S == Recent(Live("leave"))
      T == Joined(S, Live("leave type"))
  IN << Count("requests", S) \cup Count("approved", Having(S, {"Approved"})),
        CountByLink("requests", T, "leave type")
        \cup CountByLink("approved", Having(T, {"Approved"}), "leave type") >>

\* In the total a payslip counts once for every run of its period, and once
\* when there is none; of the departments it counts once.
PayrollSummary ==
  LET S == Joined(All("payslip"), Recent(All("period")))
      Times(i) == IF RunsOf(i) = {} THEN 1 ELSE Cardinality(RunsOf(i))
      T == Joined(S, OfDepartments(All("employee")))
  IN << Count("payslips", S)
        \cup {Figure("pay", FALSE, S, MapThenSumSet(LAMBDA i : table[i].amount * Times(i), S))},
        ValueBy("pay", T, LAMBDA i : UNION {To(e, "department") : e \in To(i, "employee")}) >>

-----------------------------------------------------------------------------
(* Customer relations *)

LeadsSummary ==
  LET S == Recent(Live("lead"))
  IN << Count("leads", S) \cup Count("sources", S) \cup Share("converted", {i \in S : table[i].on})
        \cup Count("converted", S),
        CountBy("leads", S, StatusOf), CountByLink("sources", S, "source") >>

OpportunityPipeline ==
  LET S == Recent(Live("opportunity"))
  IN << Count("pipeline", S), CountByLink("pipeline", Joined(S, All("stage")), "stage") >>

OpportunityWinLoss ==
  LET S == Having(Recent(Live("opportunity")), {"Won", "Lost"})
  IN << Count("closed", S) \cup CountBy("closed", S, StatusOf) >>

ActivitySummary ==
  LET S == Recent(All("activity"))
  IN << Count("activities", S) \cup Count("completion", S) \cup CountBy("completion", S, StatusOf),
        CountByLink("activities", S, "type") >>
=============================================================================
