------------------------- MODULE ApprovalsAndReports ------------------------
(* Approval requests and, beside them, the reports and dashboards of all      *)
(* domains, over rows of their own: neither side reads what the other writes. *)
EXTENDS ApprovalEngine

CONSTANTS Ids, KindOf, LinksOf, None, Wishes
VARIABLES table, clock, changes, requests, printed, cached, kept, asked

Boards == INSTANCE Dashboards WITH Scenarios <- Wishes

records == <<table, clock, changes, requests, printed, cached, kept, asked>>

BothInit == Init /\ Boards!Init
BothNext == \/ Next /\ UNCHANGED records
            \/ Boards!Next /\ UNCHANGED vars
BothSpec == BothInit /\ [][BothNext]_<<vars, records>>

----------------------------------------------------------------------------
(* Properties *)

\* The figures of a report agree, when nothing is committed while it is read
\* (the statements of reporting_repos and of ProcurementReportService).
ReportsAgree == Boards!ReportsAgree

\* No dashboard, and no snapshot, is older than its time to live
\* (get_dashboard_by_type, get_dashboard_summary, generate_analytics_snapshot).
DashboardsAreRecent == Boards!DashboardsAreRecent
=============================================================================
