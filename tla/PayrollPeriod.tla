---------------------------- MODULE PayrollPeriod ----------------------------
(***************************************************************************)
(* One payroll period: the records of its employees, its runs and their    *)
(* payslips, its closing and its adjustments.                              *)
(*                                                                         *)
(* Every operation loads the period or run with its rows, decides, and     *)
(* commits later, without a lock.  A row once loaded is not refreshed, and *)
(* only columns that differ from what was loaded are written.  Generating  *)
(* payroll and closing a period take two commits, payslips one per record. *)
(***************************************************************************)
EXTENDS Integers, FiniteSets

CONSTANTS
  Tasks,      \* requests in flight
  Employees,
  Types,      \* run types; a period has one run of each
  MaxPay,     \* most that an employee is due
  Scenarios   \* what is asked, and how many requests overlap

Missing == "none"
Ops == {"generate", "approve", "lock", "run", "payslips", "publish", "close", "adjust"}
RunStatus == {"Draft", "Processing", "Completed", "Locked"}
Scenario == [width: Nat \ {0}, ops: SUBSET Ops, types: SUBSET Types,
             changes: Nat,      \* bound on changes of what employees are due
             crashes: Nat]      \* bound on requests lost

PayrollAssumption == MaxPay \in Nat \ {0} /\ Scenarios \subseteq Scenario

VARIABLES
  period,    \* status of the period
  due,       \* net salary by attendance, leave and compensation now; 0: none
  record,    \* the payroll record of each employee
  run,       \* status of the run of each type
  payslip,   \* the payslip of each employee
  closing,   \* status of the closing row
  adjustment,\* status of an adjustment of the period
  agreed,    \* ghost: the pay of each record as its last approval saw it
  task, changes, crashes, scenario

rows == <<period, record, run, payslip, closing, adjustment>>
vars == <<rows, due, agreed, task, changes, crashes, scenario>>

Pay == 0..MaxPay
PeriodStatus == {Missing, "Draft", "Processing", "Completed", "Locked", "Closed", "Open", "Archived"}
Record  == [status: {Missing, "Calculated", "Approved"}, pay: Pay]
Payslip == [status: {Missing, "Generated", "Published"}, pay: Pay]
Blank == [status |-> Missing, pay |-> 0]
AdjustmentStatus == {Missing, "Pending", "Approved", "Rejected"}

Resting == [pc |-> "idle", of |-> Missing, period |-> Missing, run |-> Missing, closing |-> Missing,
            records |-> [e \in Employees |-> Blank], pay |-> [e \in Employees |-> 0],
            todo |-> {}, to |-> Missing]
Task == [pc: {"idle", "mark", "calculate", "write", "approve", "lock", "run", "payslips",
              "publish", "closing", "close", "reopen", "archive", "adjust"},
         of: Types \cup {Missing},                        \* the run it is about
         period: PeriodStatus, run: RunStatus \cup {Missing},  \* what it has loaded
         closing: {Missing, "Closed", "Open", "Archived"},
         records: [Employees -> Record],
         pay: [Employees -> Pay],                         \* what it has calculated
         todo: SUBSET Employees, to: AdjustmentStatus \cup RunStatus]

TypeOK ==
  /\ period \in PeriodStatus /\ due \in [Employees -> Pay]
  /\ record \in [Employees -> Record] /\ run \in [Types -> RunStatus \cup {Missing}]
  /\ payslip \in [Employees -> Payslip]
  /\ closing \in {Missing, "Closed", "Open", "Archived"} /\ adjustment \in AdjustmentStatus
  /\ agreed \in [Employees -> Pay] /\ task \in [Tasks -> Task]
  /\ changes \in 0..scenario.changes /\ crashes \in 0..scenario.crashes /\ scenario \in Scenarios

Init ==
  /\ period = Missing /\ due \in [Employees -> Pay]
  /\ record = [e \in Employees |-> Blank] /\ run = [y \in Types |-> Missing]
  /\ payslip = [e \in Employees |-> Blank]
  /\ closing = Missing /\ adjustment = Missing /\ agreed = [e \in Employees |-> 0]
  /\ task = [t \in Tasks |-> Resting]
  /\ changes = 0 /\ crashes = 0 /\ scenario \in Scenarios

MayBegin(t, op) ==
  /\ task[t].pc = "idle" /\ period # Missing /\ op \in scenario.ops
  /\ Cardinality({u \in Tasks : task[u].pc # "idle"}) < scenario.width
Go(t, me) == task' = [task EXCEPT ![t] = me]
Stop(t) == Go(t, Resting)
\* The period as it is loaded, with the records that belong to it.
Loaded == [Resting EXCEPT !.period = period, !.records = record, !.closing = closing]
\* A column is written only when it differs from what was loaded.
Assigned(loaded, new, current) == IF new = loaded THEN current ELSE new

----------------------------------------------------------------------------
(* Payroll engine *)

CreatePeriod ==
  /\ period = Missing /\ period' = "Draft"
  /\ UNCHANGED <<due, record, run, payslip, closing, adjustment, agreed, task, changes, crashes, scenario>>

\* Attendance, leave or compensation of an employee changes.
Change(e) ==
  /\ changes < scenario.changes /\ changes' = changes + 1
  /\ \E p \in Pay \ {due[e]} : due' = [due EXCEPT ![e] = p]
  /\ UNCHANGED <<rows, agreed, task, crashes, scenario>>

BeginGenerate(t) ==
  /\ MayBegin(t, "generate") /\ period # "Locked"
  /\ Go(t, [Loaded EXCEPT !.pc = "mark"])
  /\ UNCHANGED <<rows, due, agreed, changes, crashes, scenario>>

MarkProcessing(t) ==
  /\ task[t].pc = "mark"
  /\ period' = Assigned(task[t].period, "Processing", period)
  /\ Go(t, [task[t] EXCEPT !.pc = "calculate"])
  /\ UNCHANGED <<due, record, run, payslip, closing, adjustment, agreed, changes, crashes, scenario>>

\* For every employee with a compensation; a record found now but not loaded
\* before is loaded now.
Calculate(t) ==
  LET me == task[t] IN
  /\ me.pc = "calculate"
  /\ Go(t, [me EXCEPT !.pc = "write", !.pay = due,
              !.records = [e \in Employees |-> IF @[e] = Blank THEN record[e] ELSE @[e]]])
  /\ UNCHANGED <<rows, due, agreed, changes, crashes, scenario>>

Paid(me) == {e \in Employees : me.pay[e] > 0}

\* A mistaken Calculated: a record that exists keeps its status.
CalculatedAgain(me, e) ==
  [status |-> IF me.records[e] = Blank THEN "Calculated" ELSE record[e].status,
   pay |-> Assigned(me.records[e].pay, me.pay[e], record[e].pay)]

\* The record as the commit leaves it.
Calculated(me, e) ==
  [status |-> Assigned(me.records[e].status, "Calculated", record[e].status),
   pay |-> Assigned(me.records[e].pay, me.pay[e], record[e].pay)]

\* uq_period_employee_payroll: another request has inserted the record.
Conflict(me) == \E e \in Paid(me) : me.records[e] = Blank /\ record[e] # Blank

FinishGenerate(t) ==
  LET me == task[t] IN
  /\ me.pc = "write" /\ ~ Conflict(me)
  /\ record' = [e \in Employees |-> IF e \in Paid(me) THEN Calculated(me, e) ELSE record[e]]
  /\ period' = "Completed"
  /\ Stop(t)
  /\ UNCHANGED <<due, run, payslip, closing, adjustment, agreed, changes, crashes, scenario>>

RefuseGenerate(t) ==
  /\ task[t].pc = "write" /\ Conflict(task[t])
  /\ Stop(t)
  /\ UNCHANGED <<rows, due, agreed, changes, crashes, scenario>>

BeginApprove(t) ==
  /\ MayBegin(t, "approve") /\ period # "Locked"
  /\ Go(t, [Loaded EXCEPT !.pc = "approve"])
  /\ UNCHANGED <<rows, due, agreed, changes, crashes, scenario>>

FinishApprove(t) ==
  LET me == task[t]  held == {e \in Employees : me.records[e] # Blank} IN
  /\ me.pc = "approve"
  /\ record' = [e \in Employees |->
       IF e \in held
       THEN [record[e] EXCEPT !.status = Assigned(me.records[e].status, "Approved", @)]
       ELSE record[e]]
  /\ agreed' = [e \in Employees |-> IF e \in held THEN me.records[e].pay ELSE agreed[e]]
  /\ Stop(t)
  /\ UNCHANGED <<period, due, run, payslip, closing, adjustment, changes, crashes, scenario>>

\* lock_payroll_period asks nothing of the status.
BeginLock(t) ==
  /\ MayBegin(t, "lock")
  /\ Go(t, [Loaded EXCEPT !.pc = "lock"])
  /\ UNCHANGED <<rows, due, agreed, changes, crashes, scenario>>

FinishLock(t) ==
  /\ task[t].pc = "lock"
  /\ period' = Assigned(task[t].period, "Locked", period)
  /\ Stop(t)
  /\ UNCHANGED <<due, record, run, payslip, closing, adjustment, agreed, changes, crashes, scenario>>

----------------------------------------------------------------------------
(* Runs and payslips *)

\* The check for a run of this type and its insert, behind a unique key.
CreateRun(t) ==
  /\ MayBegin(t, "run")
  /\ \E y \in scenario.types : run[y] = Missing /\ run' = [run EXCEPT ![y] = "Draft"]
  /\ UNCHANGED <<period, due, record, payslip, closing, adjustment, agreed, task, changes, crashes, scenario>>

\* A mistaken MayMove: a locked run may be started again.
MayMoveAnyhow(from, to) == from # Missing /\ (to = "Locked" => from = "Completed")

\* start_payroll_run, complete_payroll_run, lock_payroll_run.
MayMove(from, to) ==
  \/ to \in {"Processing", "Completed"} /\ from \notin {Missing, "Locked"}
  \/ to = "Locked" /\ from = "Completed"

BeginRun(t) ==
  /\ MayBegin(t, "run")
  /\ \E y \in Types, s \in {"Processing", "Completed", "Locked"} :
       /\ MayMove(run[y], s)
       /\ Go(t, [Resting EXCEPT !.pc = "run", !.of = y, !.run = run[y], !.to = s])
  /\ UNCHANGED <<rows, due, agreed, changes, crashes, scenario>>

FinishRun(t) ==
  LET me == task[t] IN
  /\ me.pc = "run"
  /\ run' = [run EXCEPT ![me.of] = Assigned(me.run, me.to, @)]
  /\ Stop(t)
  /\ UNCHANGED <<period, due, record, payslip, closing, adjustment, agreed, changes, crashes, scenario>>

\* generate_payslips, regenerate_failed_payslips.
BeginPayslips(t) ==
  /\ MayBegin(t, "payslips") /\ \E e \in Employees : record[e] # Blank
  /\ \E y \in Types :
       /\ run[y] \notin {Missing, "Locked"}
       /\ Go(t, [Loaded EXCEPT !.pc = "payslips", !.of = y,
                   !.todo = {e \in Employees : record[e] # Blank}])
  /\ UNCHANGED <<rows, due, agreed, changes, crashes, scenario>>

\* Storing the next PDF commits the payslip before it; the last is committed
\* at the end.
WritePayslip(t) ==
  LET me == task[t] IN
  /\ me.pc = "payslips"
  /\ \E e \in me.todo :
       /\ payslip' = [payslip EXCEPT ![e] = [status |-> "Generated", pay |-> me.records[e].pay]]
       /\ IF me.todo = {e} THEN Stop(t) ELSE Go(t, [me EXCEPT !.todo = @ \ {e}])
  /\ UNCHANGED <<period, due, record, run, closing, adjustment, agreed, changes, crashes, scenario>>

BeginPublish(t) ==
  LET there == {e \in Employees : payslip[e] # Blank} IN
  /\ MayBegin(t, "publish") /\ there # {}
  /\ \E y \in Types :
       /\ run[y] \notin {Missing, "Locked"}
       /\ Go(t, [Loaded EXCEPT !.pc = "publish", !.of = y,
                   !.todo = {e \in there : payslip[e].status # "Published"}])
  /\ UNCHANGED <<rows, due, agreed, changes, crashes, scenario>>

FinishPublish(t) ==
  /\ task[t].pc = "publish"
  /\ payslip' = [e \in Employees |-> IF e \in task[t].todo
                                     THEN [payslip[e] EXCEPT !.status = "Published"] ELSE payslip[e]]
  /\ Stop(t)
  /\ UNCHANGED <<period, due, record, run, closing, adjustment, agreed, changes, crashes, scenario>>

----------------------------------------------------------------------------
(* Closing and adjustments *)

Executed == \E y \in Types : run[y] \in {"Completed", "Locked"}

BeginClose(t) ==
  /\ MayBegin(t, "close") /\ closing \notin {"Closed", "Archived"} /\ Executed
  /\ Go(t, [Loaded EXCEPT !.pc = "closing"])
  /\ UNCHANGED <<rows, due, agreed, changes, crashes, scenario>>

\* The repository commits the closing row, if no other request has inserted
\* one; the status of the period follows in a commit of its own.
CommitClosing(t) ==
  LET me == task[t] IN
  /\ me.pc = "closing"
  /\ IF me.closing = Missing /\ closing # Missing
     THEN Stop(t) /\ closing' = closing
     ELSE Go(t, [me EXCEPT !.pc = "close"]) /\ closing' = "Closed"
  /\ UNCHANGED <<period, due, record, run, payslip, adjustment, agreed, changes, crashes, scenario>>

ClosePeriod(t) ==
  /\ task[t].pc = "close"
  /\ period' = Assigned(task[t].period, "Closed", period)
  /\ Stop(t)
  /\ UNCHANGED <<due, record, run, payslip, closing, adjustment, agreed, changes, crashes, scenario>>

\* reopen_payroll, archive_payroll: both rows in one commit.
BeginReopen(t) ==
  /\ MayBegin(t, "close") /\ closing = "Closed"
  /\ \E c \in {"reopen", "archive"} : Go(t, [Loaded EXCEPT !.pc = c])
  /\ UNCHANGED <<rows, due, agreed, changes, crashes, scenario>>

FinishReopen(t) ==
  LET me == task[t]  new == IF me.pc = "reopen" THEN "Open" ELSE "Archived" IN
  /\ me.pc \in {"reopen", "archive"}
  /\ closing' = new /\ period' = Assigned(me.period, new, period)
  /\ Stop(t)
  /\ UNCHANGED <<due, record, run, payslip, adjustment, agreed, changes, crashes, scenario>>

Adjustable == closing \notin {"Closed", "Archived"}

\* Create, approve, reject, delete.  An update that names a status ends in a
\* NameError (Enum is not imported); one that does not leaves the status alone.
BeginAdjust(t) ==
  /\ MayBegin(t, "adjust") /\ Adjustable
  /\ \E s \in IF adjustment = Missing THEN {"Pending"}
              ELSE {"Approved", "Rejected", Missing} \ {adjustment} :
       Go(t, [Resting EXCEPT !.pc = "adjust", !.to = s])
  /\ UNCHANGED <<rows, due, agreed, changes, crashes, scenario>>

\* A row that is gone meanwhile is neither approved nor rejected.
FinishAdjust(t) ==
  /\ task[t].pc = "adjust"
  /\ adjustment' = IF adjustment = Missing /\ task[t].to # "Pending" THEN Missing ELSE task[t].to
  /\ Stop(t)
  /\ UNCHANGED <<period, due, record, run, payslip, closing, agreed, changes, crashes, scenario>>

----------------------------------------------------------------------------
\* The process is lost: what was committed stays.
Crash(t) ==
  /\ task[t].pc # "idle" /\ crashes < scenario.crashes
  /\ crashes' = crashes + 1
  /\ Stop(t)
  /\ UNCHANGED <<rows, due, agreed, changes, scenario>>

Step(t) ==
  \/ BeginGenerate(t) \/ MarkProcessing(t) \/ Calculate(t) \/ FinishGenerate(t) \/ RefuseGenerate(t)
  \/ BeginApprove(t) \/ FinishApprove(t) \/ BeginLock(t) \/ FinishLock(t)
  \/ CreateRun(t) \/ BeginRun(t) \/ FinishRun(t)
  \/ BeginPayslips(t) \/ WritePayslip(t) \/ BeginPublish(t) \/ FinishPublish(t)
  \/ BeginClose(t) \/ CommitClosing(t) \/ ClosePeriod(t) \/ BeginReopen(t) \/ FinishReopen(t)
  \/ BeginAdjust(t) \/ FinishAdjust(t) \/ Crash(t)

Next == CreatePeriod \/ (\E e \in Employees : Change(e)) \/ (\E t \in Tasks : Step(t))

Spec == Init /\ [][Next]_vars

----------------------------------------------------------------------------
(* Properties *)

OneAtATime == scenario.width = 1

\* One request at a time, a record that is Approved has the pay that its
\* approval saw, however payroll is generated again and requests are lost
\* (generate_payroll, approve_payroll).
ApprovedAsSeen ==
  OneAtATime => \A e \in Employees : record[e].status = "Approved" => record[e].pay = agreed[e]

\* The records of a Locked period change only through a request that loaded
\* the period before it was locked.  One request at a time, where periods are
\* not closed, a Locked period stays Locked with its records as they are; and
\* once all runs that are asked for are Locked, none of them moves and no
\* payslip changes (generate_payroll, lock_payroll_period, lock_payroll_run).
LockedIsFrozen ==
  [][/\ period = "Locked" /\ record' # record => \E t \in Tasks :
          task[t].pc \in {"write", "approve"} /\ task[t].period # "Locked"
     /\ OneAtATime /\ "close" \notin scenario.ops /\ period = "Locked"
          => period' = period /\ record' = record
     /\ OneAtATime /\ (\A y \in scenario.types : run[y] = "Locked")
          => run' = run /\ payslip' = payslip]_vars

=============================================================================
