-------------------------- MODULE ProcurementReports --------------------------
(***************************************************************************)
(* The reports of ProcurementReportService and the procurement dashboard.  *)
(*                                                                         *)
(* A paged report counts, then reads the page, then what the rows of the   *)
(* page name; the last is one step here, however many statements it takes. *)
(* Quantities returned are summed beside those received, and left out.     *)
(***************************************************************************)
EXTENDS ReportRows

Spent == {"Approved", "Partially Received", "Fully Received", "Closed"}

OrdersOfPeriod == Recent(All("purchase order"))
LinesOfPeriod  == Joined(All("purchase item"), OrdersOfPeriod)

\* How much of what was ordered came.
Receipt(S) == {Figure("ordered", FALSE, S, Sum(S)), Figure("ordered", TRUE, S, Received(S))}

\* The count, and the rows of the page.
Paged(of, S) == << Count(of, S), Each(of, S) >>

-----------------------------------------------------------------------------
(* Reports *)

PurchaseRegister ==
  << LET S == Having(OrdersOfPeriod, Spent)
     IN Value("register", S) \cup ValueBy("register", S, LAMBDA i : {i}) >>

\* Orders of any status and date of suppliers that are not deleted.
SupplierLedger ==
  << Each("suppliers", Live("supplier")),
     CountByLink("supplier orders", Joined(All("purchase order"), Live("supplier")), "supplier") >>

PurchaseOrdersReport ==
  Paged("orders", OrdersOfPeriod) \o << Receipt(LinesOfPeriod) >>

\* The spend as summed when dates are asked for; without, the column of the
\* supplier is shown, which a daily task sums over fewer statuses.
SupplierPerformanceReport ==
  LET S == Joined(OrdersOfPeriod, Live("supplier"))
  IN Paged("suppliers", Live("supplier"))
     \o << Count("supplier orders", S) \cup CountByLink("supplier orders", S, "supplier")
           \cup ValueByLink("spend on suppliers", Having(S, Spent), "supplier")
           \cup Value("spend on suppliers", Having(S, Spent)),
           Receipt(Joined(All("purchase item"), S)) >>

RequisitionsReport == Paged("requisitions", Recent(All("requisition")))

RfqsReport ==
  LET S == Recent(All("rfq"))
  IN Paged("rfqs", S)
     \o << CountByLink("invitations", Joined(All("invitation"), S), "rfq"),
           CountByLink("rfq offers", Joined(All("offer"), S), "rfq") >>

QuotationsReport == Paged("offers", Recent(All("offer")))

\* The orders named by the receipts of the page; a supplier or order asked
\* for is shown with a receipt that names none, and not looked for.
ReceivingReport ==
  Paged("receipts", Recent(All("receipt")))
  \o << Count("received orders", UNION {To(i, "purchase order") : i \in Recent(All("receipt"))}) >>

ReturnsReport == Paged("returns", Recent(All("return")))

\* Over the orders read at the start: by supplier, month and status; by
\* warehouse their lines, read after them.
SpendAnalytics ==
  LET S == Having(OrdersOfPeriod, Spent)
  IN << Value("spend", S) \cup ValueByLink("spend", S, "supplier")
        \cup Value("spend by status", S) \cup ValueBy("spend by status", S, StatusOf)
        \cup Value("spend by month", S) \cup ValueBy("spend by month", S, LAMBDA i : table[i].old),
        LET L == Joined(All("purchase item"), S)
        IN Value("lines", L) \cup ValueByLink("lines", L, "warehouse") >>

\* Quotations and requisitions of the period, whatever the RFQs; an approved
\* requisition counts as converted.
EfficiencyMetrics ==
  << Count("rfqs", Recent(All("rfq"))),
     Count("invitations", Joined(All("invitation"), Recent(All("rfq")))),
     Count("rfq offers", Joined(All("offer"), Recent(All("rfq")))),
     Count("offers", Recent(All("offer")))
     \cup Share("offers", Having(Recent(All("offer")), {"Approved"})),
     Count("requisitions", Recent(All("requisition")))
     \cup Share("requisitions", Having(Recent(All("requisition")), {"Approved"})),
     Count("committed", Having(OrdersOfPeriod, Spent))
     \cup Share("committed", Having(OrdersOfPeriod, {"Fully Received"})),
     Receipt(LinesOfPeriod) >>

-----------------------------------------------------------------------------
(* The dashboard *)

Begun == {"Partially Received", "Fully Received"}

SpendSummary == << Value("top", Having(OrdersOfPeriod, Spent)) >>

\* Suppliers of any date.
SupplierCounts ==
  << Count("suppliers", Live("supplier")),
     Share("suppliers", Having(Live("supplier"), {"Active"})),
     Share("suppliers", Having(Live("supplier"), {"Blacklisted"})) >>

SourcingCounts ==
  LET requisitions == Recent(All("requisition"))
      offers == Recent(All("offer"))
  IN << Count("open requisitions", Having(requisitions, {"Draft", "Submitted", "Approved"})),
        Share("open requisitions", Having(requisitions, {"Submitted"})),
        Count("open rfqs", Having(Recent(All("rfq")), {"Draft", "Issued"})),
        Count("submitted offers", Having(offers, {"Submitted"})),
        Count("approved offers", Having(offers, {"Approved"})) >>

\* Open orders are those submitted and those active; those dispatched are
\* received in part or in full.
OrderCounts ==
  LET O(some) == Having(OrdersOfPeriod, some)
  IN << Count("open orders", O({"Submitted", "Approved", "Partially Received"})),
        Share("open orders", O({"Approved", "Partially Received"}))
        \cup Count("active orders", O({"Approved", "Partially Received"})),
        Count("dispatched orders", O(Begun)),
        Share("dispatched orders", O({"Partially Received"}))
        \cup {[f EXCEPT !.of = "active orders"] : f \in Share("", O({"Partially Received"}))},
        Share("dispatched orders", O({"Fully Received"})),
        Share("open orders", O({"Submitted"})),
        Receipt(LinesOfPeriod) >>

\* The first five of them; also of deleted suppliers.
TopVendors ==
  << ValueByLink("top", Joined(Having(OrdersOfPeriod, Spent), All("supplier")), "supplier") >>

DashboardSummary ==
  SpendSummary \o SupplierCounts \o SourcingCounts \o OrderCounts \o TopVendors
=============================================================================
