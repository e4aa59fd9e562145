------------------------- MODULE WorkforceAndPayroll ------------------------
(* One employee's shifts, attendance and salary; beside him, the rows that     *)
(* everything refers to, and a payroll period of other employees.  No side     *)
(* reads what another writes.                                                  *)
EXTENDS Workforce

CONSTANTS Departments, Positions, Employees, Categories, Locations, Limits, Wishes,
          Staff, RunTypes, MaxPay, Orders
VARIABLES unit, seat, post, job, slips, wanted,
          period, due, record, run, payslip, closing, adjustment, agreed, desk,
          changes, lost, ordered

Master == INSTANCE MasterData WITH Scenarios <- Wishes, scenario <- wanted

Payroll == INSTANCE PayrollPeriod WITH
  Employees <- Staff, Types <- RunTypes, Scenarios <- Orders,
  task <- desk, crashes <- lost, scenario <- ordered

records == <<unit, seat, post, job, slips, wanted>>
payroll == <<period, due, record, run, payslip, closing, adjustment, agreed, desk,
             changes, lost, ordered>>

AllInit == Init /\ Master!Init /\ Payroll!Init
AllNext == \/ Next /\ UNCHANGED <<records, payroll>>
           \/ Master!Next /\ UNCHANGED <<vars, payroll>>
           \/ Payroll!Next /\ UNCHANGED <<vars, records>>
AllSpec == AllInit /\ [][AllNext]_<<vars, records, payroll>>

----------------------------------------------------------------------------
(* Properties *)

\* No department, manager, category or location is above itself
\* (_validate_no_circular_parent and its siblings).
NoCircle == Master!NoCircle

\* The headcount of a position is the number of its holders
\* (_assign_position_headcount, _unassign_position_headcount).
HeadcountMatches == Master!HeadcountMatches

\* An Approved record has the pay its approval saw (generate_payroll,
\* approve_payroll).
ApprovedAsSeen == Payroll!ApprovedAsSeen

\* A Locked period and Locked runs do not change (lock_payroll_period,
\* lock_payroll_run).
LockedIsFrozen == Payroll!LockedIsFrozen
=============================================================================
